--------------------------- MODULE ClientRegistry ---------------------------
(***************************************************************************)
(* What a server handle does about its tmux client processes               *)
(* (Server::shutdown in crates/libtmux/src/server.rs): clients come and    *)
(* go, a shutdown returns only when none is left that is not cut off, and  *)
(* from then on none is started.  A client is cut off when the call that   *)
(* started it has cancelled it and left it to a supervisor that no         *)
(* shutdown knows: it may still be there after a shutdown has returned,    *)
(* which is less than the documentation of Server::shutdown promises.      *)
(***************************************************************************)

CONSTANT Clients   \* the dispatches and attaches that start clients

VARIABLES
  live,       \* whose client is started and neither reaped nor cut off
  cutOff,     \* whose client is cancelled, to be reaped out of sight
  returned    \* a shutdown has returned

vars == <<live, cutOff, returned>>

Init == live = {} /\ cutOff = {} /\ returned = FALSE

Launch(c) ==
  /\ ~returned /\ c \notin live \cup cutOff
  /\ live' = live \cup {c}
  /\ UNCHANGED <<cutOff, returned>>

\* The client is reaped, or its runtime is gone and nobody is left to reap it.
Leave(c) ==
  /\ c \in live
  /\ live' = live \ {c}
  /\ UNCHANGED <<cutOff, returned>>

\* The call stops waiting for a client of its own executor.
CutOff(c) ==
  /\ c \in live
  /\ live' = live \ {c} /\ cutOff' = cutOff \cup {c}
  /\ UNCHANGED returned

\* Its supervisor reaps it, sooner or later.
ReapedApart(c) ==
  /\ c \in cutOff
  /\ cutOff' = cutOff \ {c}
  /\ UNCHANGED <<live, returned>>

ShutdownReturns ==
  /\ live = {} /\ returned' = TRUE
  /\ UNCHANGED <<live, cutOff>>

Next ==
  \/ ShutdownReturns
  \/ \E c \in Clients : Launch(c) \/ Leave(c) \/ CutOff(c) \/ ReapedApart(c)

Spec == Init /\ [][Next]_vars

=============================================================================
