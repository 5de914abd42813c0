--------------------------- MODULE ServerShutdown ---------------------------
(***************************************************************************)
(* A server handle with both kinds of clients: Core in                     *)
(* crates/libtmux/src/internal/core.rs, whose shutdown joins the one of    *)
(* its executor and the one of its control-mode clients.                   *)
(***************************************************************************)
EXTENDS SubprocessExecutor, PersistentClients

CONSTANT MaxCalls   \* bound: dispatches and attaches begun

ASSUME CallsAssumption == Requests \cap Attaches = {} /\ MaxCalls \in Nat

vars == <<execVars, persistentVars>>

Init == ExecInit /\ PersistentInit

\* The dispatches and attaches begun, which MaxCalls bounds.
Begun == {r \in Requests : req[r] # "idle"} \cup {a \in Attaches : attach[a] # "idle"}

Dispatch(r) == Cardinality(Begun) < MaxCalls /\ Start(r) /\ UNCHANGED persistentVars

BeginAttach(a) == Cardinality(Begun) < MaxCalls /\ Attach(a) /\ UNCHANGED execVars

RequestStep(r) == RequestNext(r) /\ UNCHANGED persistentVars

AttachStep(a) == AttachNext(a) /\ UNCHANGED execVars

\* join! first polls the executor's shutdown until it has to wait, and only
\* then begins the other.
ShutdownExecutor(s) == ExecShutdown(s) /\ UNCHANGED persistentVars

ShutdownClients(s) ==
  /\ halt[s] = "idle" => stop[s] \in {"waiting", "done"}
  /\ PersistentShutdown(s) /\ UNCHANGED execVars

Next ==
  \/ \E r \in Requests : Dispatch(r) \/ RequestStep(r)
  \/ \E a \in Attaches : BeginAttach(a) \/ AttachStep(a)
  \/ \E s \in Shutdowns : ShutdownExecutor(s) \/ ShutdownClients(s)

Spec == Init /\ [][Next]_vars

FairSpec ==
  /\ Spec
  /\ ExecFairness /\ PersistentFairness
  /\ \A s \in Shutdowns : WF_vars(stop[s] # "idle" /\ ShutdownClients(s))

-----------------------------------------------------------------------------
(* Properties.                                                             *)

RequestTypeOK ==
  /\ req \in [Requests -> {"idle", "acquiring", "admit", "admitted", "refused",
                           "awaiting", "done"}]
  /\ parks \in [Requests -> BOOLEAN] /\ expired \in [Requests -> BOOLEAN]
  /\ outcome \in [Requests -> {"none", "answered", "gone", "dropped"}]

TaskTypeOK ==
  /\ task \in [Requests -> {"none", "drain", "wait", "cleanup", "reap", "release",
                            "deregister", "notify", "send", "end"}]
  /\ child \in [Requests -> {"none", "running", "exited", "gone"}]
  /\ armed \in [Requests -> BOOLEAN]
  /\ cancel \in [Requests -> BOOLEAN]
  /\ holders \subseteq Requests /\ entries \subseteq Requests
  /\ closed \in BOOLEAN /\ accepting \in BOOLEAN

AttachTypeOK ==
  /\ attach \in [Attaches -> {"idle", "reserving", "admit", "preparing", "connected",
                              "terminating", "unregister", "leaving", "last", "done"}]
  /\ probes \in [Attaches -> 0..2]
  /\ probe \in [Attaches -> {"none", "running", "cancelled"}]
  /\ client \in [Attaches -> {"none", "running", "exited", "gone"}]
  /\ seats \subseteq Attaches
  /\ shut \in BOOLEAN /\ open \in BOOLEAN /\ stopped \in BOOLEAN
  /\ active \in Nat

LoopTypeOK ==
  /\ stop \in [Shutdowns -> LoopStages] /\ woken \in [Shutdowns -> BOOLEAN]
  /\ halt \in [Shutdowns -> LoopStages] /\ told \in [Shutdowns -> BOOLEAN]

\* Every variable has its type; the count of control clients, which the code
\* decrements unchecked, is never negative.
TypeOK == RequestTypeOK /\ TaskTypeOK /\ AttachTypeOK /\ LoopTypeOK

Unreaped == {"running", "exited"}

Dispatched == {r \in Requests : child[r] \in Unreaped}

Connected == {a \in Attaches : client[a] \in Unreaped}

\* The identity probes an attach waits for, and those it has cancelled.
Probing == {a \in Attaches : probe[a] = "running"}

ProbesCutOff == {a \in Attaches : probe[a] = "cancelled"}

Returned(s) == stop[s] = "done" /\ halt[s] = "done"

\* The processes within their limits: at most max_in_flight clients that have
\* a deadline and max_clients connections are unreaped at once, however their
\* callers and connections ended.  A parked client is not counted, and holds
\* no permit that the command that releases it would need; nor is the probe of
\* an attach, which runs in an executor of its own.
ClientsWithinLimits ==
  /\ Cardinality({r \in Dispatched : ~parks[r]}) <= MaxInFlight
  /\ Cardinality(Connected) <= MaxClients
  /\ \A r \in holders : ~parks[r]

\* A caller that has its answer finds nothing of the dispatch left: the child
\* is reaped or was lost to a failing wait, and its permit and entry are free.
AnswerMeansReleased ==
  \A r \in Requests : outcome[r] = "answered" =>
    r \notin Dispatched /\ r \notin holders /\ r \notin entries

\* The guard of a process group is armed exactly while its leader is unreaped:
\* a group that may be another's by now is never signalled, and no client is
\* left running without a guard that signals it however its supervisor ends.
GuardFollowsChild == \A r \in Requests : armed[r] <=> r \in Dispatched

Registry == INSTANCE ClientRegistry WITH
  Clients <- Requests \cup Attaches,
  live <- Dispatched \cup Connected \cup Probing,
  cutOff <- ProbesCutOff,
  returned <- \E s \in Shutdowns : Returned(s)

\* The handle implements its registry: a shutdown that returns leaves no
\* dispatch's client, no connection's and no probe that an attach waits for,
\* and none is started afterwards.  A probe that its attach has cancelled may
\* outlive it (Core::spawn_control probes with an executor that the shutdown
\* does not know, against what Server::shutdown documents).  A client counts as
\* gone too when the wait for it failed or its runtime dropped its supervisor.
KeepsRegistry == Registry!Spec

\* A dispatch with a deadline is answered, or was given up, whatever the
\* client and tmux do.
EveryDispatchReturns ==
  \A r \in Requests : req[r] = "acquiring" ~> req[r] = "done"

\* A shutdown returns once it has begun, however many dispatches, parked
\* clients, attaches and connections it finds.
EveryShutdownReturns == \A s \in Shutdowns : stop[s] = "marked" ~> Returned(s)

=============================================================================
