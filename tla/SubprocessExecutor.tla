------------------------- MODULE SubprocessExecutor -------------------------
(***************************************************************************)
(* Dispatching a command as a tmux client process: SubprocessExecutor in   *)
(* crates/libtmux/src/internal/subprocess.rs, with ProcessAdmission and    *)
(* ProcessGroupGuard of process.rs beside it.                              *)
(*                                                                         *)
(* Three kinds of task meet here.  The caller's `run` is admitted, starts  *)
(* the child and awaits a oneshot; the supervisor of the child outlives    *)
(* the caller, reaps the child and gives up the permit and the registry    *)
(* entry before it answers; a shutdown cancels what is registered and      *)
(* waits for the registry to empty.  Each action is the code one of them   *)
(* runs between two awaits or two sections of the lifecycle lock.          *)
(***************************************************************************)
EXTENDS Lifecycle

CONSTANTS
  Requests,     \* the calls of run()
  MaxInFlight   \* DispatchLimits::max_in_flight

ASSUME RequestsAssumption == IsFiniteSet(Requests)

ASSUME LimitAssumption == MaxInFlight \in Nat

VARIABLES
  \* the callers
  req,        \* where each call of run() is
  parks,      \* the request has no deadline: wait-for parks its client
  expired,    \* its deadline has passed
  outcome,    \* what its caller got
  \* the shared state
  holders,    \* who holds a permit of the semaphore
  closed,     \* the semaphore is closed
  accepting,  \* Lifecycle::accepting
  entries,    \* Lifecycle::entries: the requests registered
  cancel,     \* their watch channel says cancelled
  \* the supervisors
  task,       \* where the supervisor of each request is
  child,      \* the client process; "gone" once it is reaped or given up
  armed,      \* the ProcessGroupGuard would signal the group
  \* the shutdowns
  stop,       \* where each shutdown is
  woken       \* its Notified future has been notified

reqVars    == <<req, parks, expired, outcome>>
sharedVars == <<holders, closed, accepting, entries, cancel>>
taskVars   == <<task, child, armed>>
stopVars   == <<stop, woken>>
execVars   == <<reqVars, sharedVars, taskVars, stopVars>>

ExecInit ==
  /\ req = [r \in Requests |-> "idle"]
  /\ parks = [r \in Requests |-> FALSE]
  /\ expired = [r \in Requests |-> FALSE]
  /\ outcome = [r \in Requests |-> "none"]
  /\ holders = {} /\ closed = FALSE /\ accepting = TRUE /\ entries = {}
  /\ cancel = [r \in Requests |-> FALSE]
  /\ task = [r \in Requests |-> "none"]
  /\ child = [r \in Requests |-> "none"]
  /\ armed = [r \in Requests |-> FALSE]
  /\ stop = [s \in Shutdowns |-> "idle"]
  /\ woken = [s \in Shutdowns |-> FALSE]

-----------------------------------------------------------------------------
(* run(): admission, launch, and the wait for the supervisor's answer.     *)

\* The future of run() completes: its permit goes with it, if it still has one.
Answer(r, value) ==
  /\ req' = [req EXCEPT ![r] = "done"]
  /\ outcome' = [outcome EXCEPT ![r] = value]

\* A request without a deadline needs no permit.
Start(r) ==
  /\ req[r] = "idle"
  /\ \E unbounded \in BOOLEAN :
       /\ parks' = [parks EXCEPT ![r] = unbounded]
       /\ req' = [req EXCEPT ![r] = IF unbounded THEN "admit" ELSE "acquiring"]
  /\ UNCHANGED <<expired, outcome, sharedVars, taskVars, stopVars>>

\* The deadline starts before the request waits for a permit.  It passes at
\* any moment at which something will still look at it.
Expire(r) ==
  /\ req[r] \in {"acquiring", "admit", "admitted"} \/ task[r] \in {"drain", "wait"}
  /\ ~parks[r] /\ ~expired[r]
  /\ expired' = [expired EXCEPT ![r] = TRUE]
  /\ UNCHANGED <<req, parks, outcome, sharedVars, taskVars, stopVars>>

HasPermits == HasPermit(holders, MaxInFlight)

Acquire(r) ==
  /\ req[r] = "acquiring" /\ ~closed /\ HasPermits
  /\ holders' = holders \cup {r}
  /\ req' = [req EXCEPT ![r] = "admit"]
  /\ UNCHANGED <<parks, expired, outcome, closed, accepting, entries, cancel,
                 taskVars, stopVars>>

AcquireClosed(r) ==
  /\ req[r] = "acquiring" /\ closed
  /\ Answer(r, "answered")
  /\ UNCHANGED <<parks, expired, sharedVars, taskVars, stopVars>>

\* The deadline passes, or the shorter acquire_timeout, and no permit is free.
Overloaded(r) ==
  /\ req[r] = "acquiring" /\ ~closed /\ ~HasPermits
  /\ Answer(r, "answered")
  /\ UNCHANGED <<parks, expired, sharedVars, taskVars, stopVars>>

\* Mutant: a request with a permit is registered whatever the shutdown did.
AdmitAlways(r) ==
  /\ req[r] = "admit"
  /\ entries' = entries \cup {r}
  /\ req' = [req EXCEPT ![r] = "admitted"]
  /\ UNCHANGED <<holders, outcome, parks, expired, closed, accepting, cancel,
                 taskVars, stopVars>>

\* The registry is entered, or found to be closed, under the lifecycle lock.
Admit(r) ==
  /\ req[r] = "admit"
  /\ \/ /\ accepting
        /\ entries' = entries \cup {r}
        /\ req' = [req EXCEPT ![r] = "admitted"]
        /\ UNCHANGED <<holders, outcome>>
     \/ /\ ~accepting
        /\ Answer(r, "answered")
        /\ holders' = holders \ {r}
        /\ UNCHANGED entries
  /\ UNCHANGED <<parks, expired, closed, accepting, cancel, taskVars, stopVars>>

\* Mutant: the permit stays with the caller instead of following the child.
LaunchKeepsPermit(r) ==
  /\ req[r] = "admitted" /\ ~expired[r]
  /\ child' = [child EXCEPT ![r] = "running"]
  /\ armed' = [armed EXCEPT ![r] = TRUE]
  /\ task' = [task EXCEPT ![r] = "drain"]
  /\ req' = [req EXCEPT ![r] = "awaiting"]
  /\ holders' = holders \ {r}
  /\ UNCHANGED <<parks, expired, outcome, closed, accepting, entries, cancel,
                 stopVars>>

\* The child is spawned and handed to a supervisor of its own.
Launch(r) ==
  /\ req[r] = "admitted" /\ ~expired[r]
  /\ child' = [child EXCEPT ![r] = "running"]
  /\ armed' = [armed EXCEPT ![r] = TRUE]
  /\ task' = [task EXCEPT ![r] = "drain"]
  /\ req' = [req EXCEPT ![r] = "awaiting"]
  /\ UNCHANGED <<parks, expired, outcome, sharedVars, stopVars>>

\* Too late to launch, or tmux could not be spawned: the registry guard goes
\* before the caller is told.
Refuse(r) ==
  /\ req[r] = "admitted"
  /\ req' = [req EXCEPT ![r] = "refused"]
  /\ entries' = entries \ {r}
  /\ UNCHANGED <<parks, expired, outcome, holders, closed, accepting, cancel,
                 taskVars, stopVars>>

NotifyShutdowns == woken' = NotifyWaiters(stop, woken)

RefuseNotifies(r) ==
  /\ req[r] = "refused"
  /\ NotifyShutdowns
  /\ Answer(r, "answered")
  /\ holders' = holders \ {r}
  /\ UNCHANGED <<parks, expired, closed, accepting, entries, cancel, taskVars, stop>>

\* The future of run() is dropped at one of its two awaits; once the child is
\* launched the CancellationGuard tells the supervisor.
DropRequest(r) ==
  /\ req[r] \in {"acquiring", "awaiting"}
  /\ Answer(r, "dropped")
  /\ cancel' = [cancel EXCEPT ![r] = @ \/ req[r] = "awaiting"]
  /\ UNCHANGED <<parks, expired, holders, closed, accepting, entries, taskVars, stopVars>>

-----------------------------------------------------------------------------
(* The supervisor: supervise_inner reads the output to its end and waits   *)
(* for the child, any failure of it is followed by cleanup_child, and then *)
(* the ownership of the child is dropped, field by field.                  *)

Supervising(r) == task[r] \in {"drain", "wait"}

Fail(r) ==
  /\ task' = [task EXCEPT ![r] = "cleanup"]
  /\ UNCHANGED <<child, armed, reqVars, sharedVars, stopVars>>

\* Both pipes reached their end, which the child need not have.
Drained(r) ==
  /\ task[r] = "drain"
  /\ task' = [task EXCEPT ![r] = "wait"]
  /\ UNCHANGED <<child, armed, reqVars, sharedVars, stopVars>>

Cancelled(r) == Supervising(r) /\ cancel[r] /\ Fail(r)

\* Mutant: the deadline is raced only while the child is waited for.
DeadlineElapsedLate(r) == task[r] = "wait" /\ expired[r] /\ Fail(r)

DeadlineElapsed(r) == Supervising(r) /\ expired[r] /\ Fail(r)

\* A reader fails or runs over its budget, the wait for the child fails, or the
\* code in between panics.
SupervisionFails(r) == Supervising(r) /\ Fail(r)

\* The wait finds no such child (ECHILD): somebody else reaped it.
WaitFindsNone(r) ==
  /\ task[r] = "wait"
  /\ child' = [child EXCEPT ![r] = "gone"]
  /\ armed' = [armed EXCEPT ![r] = FALSE]
  /\ task' = [task EXCEPT ![r] = "cleanup"]
  /\ UNCHANGED <<reqVars, sharedVars, stopVars>>

\* Mutant: the group guard is not disarmed with the child reaped.
ReapsArmed(r) ==
  /\ task[r] = "wait" /\ child[r] = "exited"
  /\ child' = [child EXCEPT ![r] = "gone"]
  /\ task' = [task EXCEPT ![r] = "release"]
  /\ UNCHANGED <<armed, reqVars, sharedVars, stopVars>>

\* wait() reaps the child and the group is no longer this process's to signal.
Reaps(r) ==
  /\ task[r] = "wait" /\ child[r] = "exited"
  /\ child' = [child EXCEPT ![r] = "gone"]
  /\ armed' = [armed EXCEPT ![r] = FALSE]
  /\ task' = [task EXCEPT ![r] = "release"]
  /\ UNCHANGED <<reqVars, sharedVars, stopVars>>

\* cleanup_child: end the readers, signal the group.
Kill(r) ==
  /\ task[r] = "cleanup"
  /\ task' = [task EXCEPT ![r] = "reap"]
  /\ UNCHANGED <<child, armed, reqVars, sharedVars, stopVars>>

\* ... and wait for the child, keeping the failure that led here.
CleanupReaps(r) ==
  /\ task[r] = "reap" /\ child[r] = "exited"
  /\ child' = [child EXCEPT ![r] = "gone"]
  /\ armed' = [armed EXCEPT ![r] = FALSE]
  /\ task' = [task EXCEPT ![r] = "release"]
  /\ UNCHANGED <<reqVars, sharedVars, stopVars>>

\* The ownership goes with the child unreaped: the guard signals the group
\* and the child is left to kill_on_drop.
Abandon(r) ==
  /\ armed' = [armed EXCEPT ![r] = FALSE]
  /\ child' = [child EXCEPT ![r] = "gone"]
  /\ task' = [task EXCEPT ![r] = "release"]
  /\ UNCHANGED <<parks, expired, sharedVars, stopVars>>

CleanupFindsNone(r) ==
  /\ task[r] = "reap" /\ ~armed[r] /\ Abandon(r)
  /\ UNCHANGED <<req, outcome>>

CleanupFails(r) ==
  /\ task[r] = "reap" /\ armed[r] /\ Abandon(r)
  /\ UNCHANGED <<req, outcome>>

\* The runtime drops the task, its oneshot before the ownership: a caller in
\* another runtime finds the supervisor gone.
RuntimeDrops(r) ==
  /\ task[r] \in {"drain", "wait", "cleanup", "reap"} /\ Abandon(r)
  /\ IF req[r] = "awaiting" THEN Answer(r, "gone") ELSE UNCHANGED <<req, outcome>>

\* Mutant: the caller is answered before the permit and the entry are given up.
ReleaseAfterAnswer(r) ==
  /\ task[r] = "release"
  /\ holders' = holders \ {r}
  /\ task' = [task EXCEPT ![r] = "deregister"]
  /\ IF req[r] = "awaiting" THEN Answer(r, "answered") ELSE UNCHANGED <<req, outcome>>
  /\ UNCHANGED <<parks, expired, closed, accepting, entries, cancel, child,
                 armed, stopVars>>

\* drop(ownership): the permit, then the registry entry.
Release(r) ==
  /\ task[r] = "release"
  /\ holders' = holders \ {r}
  /\ task' = [task EXCEPT ![r] = "deregister"]
  /\ UNCHANGED <<closed, accepting, entries, cancel, child, armed,
                 reqVars, stopVars>>

Deregister(r) ==
  /\ task[r] = "deregister"
  /\ entries' = entries \ {r}
  /\ task' = [task EXCEPT ![r] = "notify"]
  /\ UNCHANGED <<holders, closed, accepting, cancel, child, armed,
                 reqVars, stopVars>>

Notify(r) ==
  /\ task[r] = "notify"
  /\ NotifyShutdowns
  /\ task' = [task EXCEPT ![r] = "send"]
  /\ UNCHANGED <<child, armed, reqVars, sharedVars, stop>>

\* The answer reaches a caller that still awaits it.
Send(r) ==
  /\ task[r] = "send"
  /\ task' = [task EXCEPT ![r] = "end"]
  /\ IF req[r] = "awaiting" THEN Answer(r, "answered") ELSE UNCHANGED <<req, outcome>>
  /\ UNCHANGED <<parks, expired, child, armed, sharedVars, stopVars>>

\* The client ends by itself, because tmux answered, or of the signal.
ChildExits(r) ==
  /\ child[r] = "running"
  /\ child' = [child EXCEPT ![r] = "exited"]
  /\ UNCHANGED <<task, armed, reqVars, sharedVars, stopVars>>

-----------------------------------------------------------------------------
(* shutdown().                                                             *)

ShutdownMarks(s) ==
  /\ stop[s] = "idle"
  /\ stop' = [stop EXCEPT ![s] = "marked"]
  /\ accepting' = FALSE
  /\ cancel' = [r \in Requests |-> cancel[r] \/ r \in entries]
  /\ UNCHANGED <<woken, holders, closed, entries, reqVars, taskVars>>

\* The Notified future is made before the registry is looked at.
ShutdownCloses(s) ==
  /\ stop[s] = "marked"
  /\ stop' = [stop EXCEPT ![s] = "armed"]
  /\ woken' = [woken EXCEPT ![s] = FALSE]
  /\ closed' = TRUE
  /\ UNCHANGED <<holders, accepting, entries, cancel, reqVars, taskVars>>

ShutdownChecks(s) ==
  /\ stop[s] = "armed"
  /\ stop' = [stop EXCEPT ![s] = IF entries = {} THEN "done" ELSE "checked"]
  /\ UNCHANGED <<woken, reqVars, sharedVars, taskVars>>

ShutdownWaits(s) ==
  /\ stop[s] = "checked"
  /\ stop' = [stop EXCEPT ![s] = "waiting"]
  /\ UNCHANGED <<woken, reqVars, sharedVars, taskVars>>

\* Woken, it makes another future and looks again.
ShutdownWakes(s) ==
  /\ stop[s] = "waiting" /\ woken[s]
  /\ stop' = [stop EXCEPT ![s] = "armed"]
  /\ woken' = [woken EXCEPT ![s] = FALSE]
  /\ UNCHANGED <<reqVars, sharedVars, taskVars>>

-----------------------------------------------------------------------------
\* What run() does of itself, short of being called and dropped.
RunSteps(r) ==
  \/ Acquire(r) \/ AcquireClosed(r) \/ Overloaded(r) \/ Admit(r) \/ Launch(r)
  \/ Refuse(r) \/ RefuseNotifies(r)

TaskSteps(r) ==
  \/ Cancelled(r) \/ DeadlineElapsed(r) \/ Reaps(r) \/ Kill(r) \/ CleanupReaps(r)
  \/ CleanupFindsNone(r) \/ Release(r) \/ Deregister(r) \/ Notify(r) \/ Send(r)

TaskAccidents(r) ==
  \/ Drained(r) \/ SupervisionFails(r) \/ WaitFindsNone(r) \/ CleanupFails(r)
  \/ RuntimeDrops(r) \/ ChildExits(r)

ExecShutdown(s) ==
  \/ ShutdownMarks(s) \/ ShutdownCloses(s) \/ ShutdownChecks(s) \/ ShutdownWaits(s)
  \/ ShutdownWakes(s)

RequestNext(r) ==
  Expire(r) \/ DropRequest(r) \/ RunSteps(r) \/ TaskSteps(r) \/ TaskAccidents(r)

ExecNext ==
  \/ \E r \in Requests : Start(r) \/ RequestNext(r)
  \/ \E s \in Shutdowns : ExecShutdown(s)

ExecSpec == ExecInit /\ [][ExecNext]_execVars

\* Tasks that can run are polled, deadlines pass, a signalled group dies.
ExecFairness ==
  /\ \A r \in Requests :
       /\ WF_execVars(Expire(r))
       /\ WF_execVars(RunSteps(r))
       /\ WF_execVars(TaskSteps(r))
       /\ WF_execVars(task[r] = "reap" /\ ChildExits(r))
  /\ \A s \in Shutdowns : WF_execVars(ExecShutdown(s) /\ stop[s] # "idle")

=============================================================================
