------------------------- MODULE PersistentClients -------------------------
(***************************************************************************)
(* The control-mode clients of one server handle: PersistentClients and    *)
(* PersistentChild in crates/libtmux/src/internal/process.rs, and          *)
(* Core::spawn_control in core.rs, which prepares a client under a         *)
(* reservation.  Preparing asks the daemon twice who it is, each time with *)
(* a tmux client of a private SubprocessExecutor: dropping the wait for it *)
(* cancels that client, whose supervisor reaps it later.                   *)
(*                                                                         *)
(* What a connection does between being opened and being terminated is     *)
(* ControlConnection; here it ends when it likes, and must once stopped.   *)
(***************************************************************************)
EXTENDS Lifecycle

CONSTANTS
  Attaches,    \* the calls of ControlMode::attach
  MaxClients   \* ControlClientLimits::max_clients

ASSUME AttachesAssumption == IsFiniteSet(Attaches)

ASSUME MaxClientsAssumption == MaxClients \in Nat

VARIABLES
  attach,    \* where each attach, and then its connection, is
  probes,    \* identity probes answered
  probe,     \* the client of the probe in progress
  client,    \* the control client; "gone" once it is reaped or given up
  seats,     \* who holds a permit of the semaphore
  shut,      \* the semaphore is closed
  open,      \* PersistentLifecycle::accepting
  active,    \* PersistentLifecycle::active
  stopped,   \* the stopped channel says so
  halt,      \* where each shutdown is
  told       \* its Notified future has been notified

attachVars == <<attach, probes, probe, client>>
sharedPVars == <<seats, shut, open, active, stopped>>
haltVars   == <<halt, told>>
persistentVars == <<attachVars, sharedPVars, haltVars>>

PersistentInit ==
  /\ attach = [a \in Attaches |-> "idle"]
  /\ probes = [a \in Attaches |-> 0]
  /\ probe = [a \in Attaches |-> "none"]
  /\ client = [a \in Attaches |-> "none"]
  /\ seats = {} /\ shut = FALSE /\ open = TRUE /\ active = 0 /\ stopped = FALSE
  /\ halt = [s \in Shutdowns |-> "idle"]
  /\ told = [s \in Shutdowns |-> FALSE]

Move(a, to) == attach' = [attach EXCEPT ![a] = to]

-----------------------------------------------------------------------------
(* reserve().                                                              *)

Attach(a) ==
  /\ attach[a] = "idle" /\ Move(a, "reserving")
  /\ UNCHANGED <<probes, probe, client, sharedPVars, haltVars>>

HasSeats == HasPermit(seats, MaxClients)

TakeSeat(a) ==
  /\ attach[a] = "reserving" /\ ~shut /\ HasSeats
  /\ seats' = seats \cup {a}
  /\ Move(a, "admit")
  /\ UNCHANGED <<probes, probe, client, shut, open, active, stopped, haltVars>>

\* The semaphore is closed, or no seat came free in time.
NoSeat(a) ==
  /\ attach[a] = "reserving" /\ (shut \/ ~HasSeats)
  /\ Move(a, "done")
  /\ UNCHANGED <<probes, probe, client, sharedPVars, haltVars>>

\* Mutant: a reservation is not counted, only given back.
RegisterUncounted(a) ==
  /\ attach[a] = "admit"
  /\ \/ open /\ Move(a, "preparing") /\ UNCHANGED seats
     \/ ~open /\ seats' = seats \ {a} /\ Move(a, "done")
  /\ UNCHANGED <<probes, probe, client, shut, open, active, stopped, halt, told>>

Register(a) ==
  /\ attach[a] = "admit"
  /\ \/ open /\ active' = active + 1 /\ Move(a, "preparing") /\ UNCHANGED seats
     \/ ~open /\ seats' = seats \ {a} /\ Move(a, "done") /\ UNCHANGED active
  /\ UNCHANGED <<probes, probe, client, shut, open, stopped, haltVars>>

\* The attach future is dropped while it waits for a seat.
DropReserving(a) ==
  /\ attach[a] = "reserving" /\ Move(a, "done")
  /\ UNCHANGED <<probes, probe, client, sharedPVars, haltVars>>

-----------------------------------------------------------------------------
(* spawn_control() with its reservation.                                   *)

\* The identity is asked for, with and then without the carrier of the socket.
Probe(a) ==
  /\ attach[a] = "preparing" /\ probe[a] = "none" /\ probes[a] < 2
  /\ probe' = [probe EXCEPT ![a] = "running"]
  /\ UNCHANGED <<attach, probes, client, sharedPVars, haltVars>>

\* The private executor answers only once its client is reaped.
ProbeAnswered(a) ==
  /\ attach[a] = "preparing" /\ probe[a] = "running"
  /\ probe' = [probe EXCEPT ![a] = "none"]
  /\ probes' = [probes EXCEPT ![a] = @ + 1]
  /\ UNCHANGED <<attach, client, sharedPVars, haltVars>>

SpawnControl(a) ==
  /\ attach[a] = "preparing" /\ probe[a] = "none" /\ probes[a] = 2
  /\ client' = [client EXCEPT ![a] = "running"]
  /\ Move(a, "connected")
  /\ UNCHANGED <<probes, probe, sharedPVars, haltVars>>

\* A probe fails, its client reaped all the same.
ProbeFails(a) ==
  /\ attach[a] = "preparing" /\ probe[a] = "running"
  /\ probe' = [probe EXCEPT ![a] = "none"]
  /\ Move(a, "unregister")
  /\ UNCHANGED <<probes, client, sharedPVars, haltVars>>

\* Preparing stops because the server does, because the answers disagree or the
\* spawn fails, because of the deadline, or because the attach future is dropped.
Abandons(a) ==
  /\ attach[a] = "preparing"
  /\ probe' = [probe EXCEPT ![a] = IF @ = "running" THEN "cancelled" ELSE @]
  /\ Move(a, "unregister")
  /\ UNCHANGED <<probes, client, sharedPVars, haltVars>>

\* The supervisor in the private executor kills and reaps a cancelled client.
ProbeReaped(a) ==
  /\ probe[a] = "cancelled"
  /\ probe' = [probe EXCEPT ![a] = "none"]
  /\ UNCHANGED <<attach, probes, client, sharedPVars, haltVars>>

-----------------------------------------------------------------------------
(* The connection's end: PersistentChild::terminate and its drop.          *)

\* The connection task leaves its loops and signals the group.
Terminate(a) ==
  /\ attach[a] = "connected" /\ Move(a, "terminating")
  /\ UNCHANGED <<probes, probe, client, sharedPVars, haltVars>>

ControlExits(a) ==
  /\ client[a] = "running"
  /\ client' = [client EXCEPT ![a] = "exited"]
  /\ UNCHANGED <<attach, probes, probe, sharedPVars, haltVars>>

ReapControl(a) ==
  /\ attach[a] = "terminating" /\ client[a] = "exited"
  /\ client' = [client EXCEPT ![a] = "gone"]
  /\ Move(a, "unregister")
  /\ UNCHANGED <<probes, probe, sharedPVars, haltVars>>

\* Waiting fails, or the attach future or the runtime drops it: the guard signals
\* the group
\* and the child is left to kill_on_drop.
LoseControl(a) ==
  /\ attach[a] \in {"connected", "terminating"}
  /\ client' = [client EXCEPT ![a] = "gone"]
  /\ Move(a, "unregister")
  /\ UNCHANGED <<probes, probe, sharedPVars, haltVars>>

\* PersistentRegistration::drop, under the lifecycle lock ...
Unregister(a) ==
  /\ attach[a] = "unregister"
  /\ active' = active - 1
  /\ Move(a, IF active = 1 THEN "last" ELSE "leaving")
  /\ UNCHANGED <<probes, probe, client, seats, shut, open, stopped, haltVars>>

\* ... and after it: the last one notifies, and the permit is dropped.
GiveUpSeat(a) ==
  /\ attach[a] \in {"leaving", "last"}
  /\ told' = IF attach[a] = "last" THEN NotifyWaiters(halt, told) ELSE told
  /\ seats' = seats \ {a}
  /\ Move(a, "done")
  /\ UNCHANGED <<probes, probe, client, shut, open, active, stopped, halt>>

-----------------------------------------------------------------------------
(* shutdown().                                                             *)

HaltMarks(s) ==
  /\ halt[s] = "idle"
  /\ halt' = [halt EXCEPT ![s] = "marked"]
  /\ open' = FALSE /\ stopped' = TRUE
  /\ UNCHANGED <<told, seats, shut, active, attachVars>>

HaltCloses(s) ==
  /\ halt[s] = "marked"
  /\ halt' = [halt EXCEPT ![s] = "armed"]
  /\ told' = [told EXCEPT ![s] = FALSE]
  /\ shut' = TRUE
  /\ UNCHANGED <<seats, open, active, stopped, attachVars>>

HaltChecks(s) ==
  /\ halt[s] = "armed"
  /\ halt' = [halt EXCEPT ![s] = IF active = 0 THEN "done" ELSE "checked"]
  /\ UNCHANGED <<told, attachVars, sharedPVars>>

HaltWaits(s) ==
  /\ halt[s] = "checked"
  /\ halt' = [halt EXCEPT ![s] = "waiting"]
  /\ UNCHANGED <<told, attachVars, sharedPVars>>

HaltWakes(s) ==
  /\ halt[s] = "waiting" /\ told[s]
  /\ halt' = [halt EXCEPT ![s] = "armed"]
  /\ told' = [told EXCEPT ![s] = FALSE]
  /\ UNCHANGED <<attachVars, sharedPVars>>

-----------------------------------------------------------------------------
AttachSteps(a) ==
  TakeSeat(a) \/ NoSeat(a) \/ Register(a) \/ Unregister(a) \/ GiveUpSeat(a)

\* What a stopped server obliges a client to do.
StoppedSteps(a) == Abandons(a) \/ Terminate(a) \/ ReapControl(a)

AttachNext(a) ==
  \/ AttachSteps(a) \/ StoppedSteps(a) \/ DropReserving(a) \/ Probe(a)
  \/ ProbeAnswered(a) \/ ProbeFails(a) \/ ProbeReaped(a) \/ SpawnControl(a) \/ ControlExits(a)
  \/ LoseControl(a)

PersistentShutdown(s) ==
  HaltMarks(s) \/ HaltCloses(s) \/ HaltChecks(s) \/ HaltWaits(s) \/ HaltWakes(s)

\* The tasks are polled, a stopped connection ends (ControlConnection's
\* StopEndsTheTask), and a signalled client dies.
PersistentFairness ==
  /\ \A a \in Attaches :
       /\ WF_persistentVars(AttachSteps(a))
       /\ WF_persistentVars(stopped /\ StoppedSteps(a))
       /\ WF_persistentVars(attach[a] = "terminating" /\ ControlExits(a))
  /\ \A s \in Shutdowns : WF_persistentVars(halt[s] # "idle" /\ PersistentShutdown(s))

=============================================================================
