----------------------------- MODULE Lifecycle -----------------------------
(***************************************************************************)
(* What the two registries of client processes share, SubprocessExecutor   *)
(* and PersistentClients: a semaphore (ProcessAdmission) in front, and a   *)
(* Notify that a shutdown waits on until the registry is empty.            *)
(***************************************************************************)
EXTENDS Integers, FiniteSets

CONSTANT Shutdowns   \* the calls of Server::shutdown

\* A permit of the semaphore is free.
HasPermit(holders, limit) == Cardinality(holders) < limit

\* Where the loop of a shutdown is: "armed" has made its Notified future and
\* has still to look at the registry, "checked" found something in it and has
\* still to poll the future, "waiting" has polled it.
LoopStages == {"idle", "marked", "armed", "checked", "waiting", "done"}

\* Mutant: only the futures that were polled are reached.
NotifyPolled(stop, woken) ==
  [s \in Shutdowns |-> woken[s] \/ stop[s] = "waiting"]

\* notify_waiters() reaches every Notified future there is, polled or not.
NotifyWaiters(stop, woken) ==
  [s \in Shutdowns |-> woken[s] \/ stop[s] \in {"armed", "checked", "waiting"}]

=============================================================================
