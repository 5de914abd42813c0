---------------------------- MODULE ChannelWaits ----------------------------
(***************************************************************************)
(* Waiting for one `wait-for` channel: `ChannelWaits`, `Waiter` and `wait` *)
(* in crates/libtmux/src/internal/wait_for.rs.                             *)
(*                                                                         *)
(* tmux cannot withdraw a waiting client, so the process keeps one client  *)
(* parked on the channel and its callers queue behind that client.  The    *)
(* entry of the channel counts the callers, remembers a signal nobody was  *)
(* left to hear, and is removed from the map once nothing needs it.        *)
(*                                                                         *)
(* Each action is one critical section of the map's lock, or a step of the *)
(* parked client.  Channels do not interact: one is modelled.  The guard   *)
(* `present` is the code's get_mut(): EntryMatchesItsUsers shows that it   *)
(* never fails, so the branch that finds no entry is never taken.          *)
(***************************************************************************)
EXTENDS Integers, FiniteSets

CONSTANTS
  Callers,     \* the calls of wait()
  MaxSignals   \* bound: signals sent to the channel

ASSUME CallersAssumption == IsFiniteSet(Callers)

ASSUME SignalsAssumption == MaxSignals \in Nat

VARIABLES
  present,     \* the map has an entry for the channel
  channel,     \* the entry
  pc,          \* where each call of wait() is
  seen,        \* the releases its Waiter counted when it joined
  woken,       \* its receiver has a change it has not read
  timeUp,      \* its deadline has passed
  result,      \* what it returned
  clients,     \* the process's clients of the channel, by stage
  latch,       \* tmux keeps a signal nobody was waiting for
  signals,     \* signals sent so far
  \* history
  released,    \* the client's release found this call waiting
  total,       \* releases recorded
  handed       \* kept signals handed to a later call

entryVars  == <<present, channel>>
callerVars == <<pc, seen, woken, timeUp, result>>
tmuxVars   == <<clients, latch, signals>>
history    == <<released, total, handed>>
vars == <<entryVars, callerVars, tmuxVars, history>>

Channel == [kept : BOOLEAN, waiting : Nat, resident : BOOLEAN, failure : BOOLEAN,
            releases : Nat]

Default == [kept |-> FALSE, waiting |-> 0, resident |-> FALSE, failure |-> FALSE,
            releases |-> 0]

\* Mutant: an entry its client still uses counts as idle.
IsIdleWithClient(s) == ~s.kept /\ s.waiting = 0 /\ ~s.failure

IsIdle(s) == ~s.kept /\ ~s.resident /\ s.waiting = 0 /\ ~s.failure

\* Leave the entry as s, or remove it when nothing is left to remember.
Store(s) ==
  /\ present' = ~IsIdle(s)
  /\ channel' = IF IsIdle(s) THEN Default ELSE s

Stages == {"starting", "parked", "released", "failed"}

Init ==
  /\ present = FALSE /\ channel = Default
  /\ pc = [c \in Callers |-> "idle"]
  /\ seen = [c \in Callers |-> 0]
  /\ woken = [c \in Callers |-> FALSE]
  /\ timeUp = [c \in Callers |-> FALSE]
  /\ result = [c \in Callers |-> "none"]
  /\ clients = [s \in Stages |-> 0]
  /\ latch = FALSE /\ signals = 0
  /\ released = [c \in Callers |-> FALSE]
  /\ total = 0 /\ handed = 0

-----------------------------------------------------------------------------
Waiting == {c \in Callers : pc[c] = "select"}

Return(c, outcome) ==
  /\ pc' = [pc EXCEPT ![c] = "done"]
  /\ result' = [result EXCEPT ![c] = outcome]

\* join() with a signal kept for it: the call returns at once.
JoinKept(c) ==
  /\ pc[c] \in {"idle", "rejoin"} /\ channel.kept
  /\ Store([channel EXCEPT !.kept = FALSE])
  /\ Return(c, "signalled")
  /\ handed' = handed + 1
  /\ UNCHANGED <<seen, woken, timeUp, tmuxVars, released, total>>

\* join() behind the channel's client: the first caller opens it, forgetting
\* why the one before it ended.
JoinWaiting(c) ==
  /\ pc[c] \in {"idle", "rejoin"} /\ ~channel.kept
  /\ Store([channel EXCEPT !.waiting = @ + 1, !.resident = TRUE,
                           !.failure = @ /\ channel.resident])
  /\ pc' = [pc EXCEPT ![c] = "select"]
  /\ seen' = [seen EXCEPT ![c] = channel.releases]
  /\ woken' = [woken EXCEPT ![c] = FALSE]
  /\ clients' = IF channel.resident THEN clients
                ELSE [clients EXCEPT !["starting"] = @ + 1]
  /\ released' = [released EXCEPT ![c] = FALSE]
  /\ UNCHANGED <<timeUp, result, latch, signals, total, handed>>

\* The call's budget runs out.
Elapse(c) ==
  /\ pc[c] \in {"select", "rejoin"} /\ ~timeUp[c]
  /\ timeUp' = [timeUp EXCEPT ![c] = TRUE]
  /\ UNCHANGED <<entryVars, pc, seen, woken, result, tmuxVars, history>>

\* Mutant: a caller whose time is up does not look at the releases.
TakesTimedOutFirst(c) ==
  IF channel.releases > seen[c] /\ ~timeUp[c] THEN "signalled"
  ELSE IF channel.resident THEN "timedOut"
  ELSE IF channel.failure THEN "failed"
  ELSE IF timeUp[c] THEN "timedOut" ELSE "gone"

\* What a caller leaves the channel with: a release it was queued for, or
\* else nothing while a client is there, or the reason its client ended.  A
\* caller that finds the reason taken opens a client of its own.
Takes(c) ==
  IF channel.releases > seen[c] THEN "signalled"
  ELSE IF channel.resident THEN "timedOut"
  ELSE IF channel.failure THEN "failed"
  ELSE IF timeUp[c] THEN "timedOut" ELSE "gone"

\* Mutant: the select does not race the budget.
SettleWhenWoken(c) ==
  /\ pc[c] = "select" /\ woken[c] /\ present
  /\ Store([channel EXCEPT
       !.waiting = @ - 1,
       !.failure = IF Takes(c) = "failed" THEN FALSE ELSE @])
  /\ IF Takes(c) = "gone"
     THEN pc' = [pc EXCEPT ![c] = "rejoin"] /\ UNCHANGED result
     ELSE Return(c, Takes(c))
  /\ UNCHANGED <<seen, woken, timeUp, tmuxVars, released, total, handed>>

\* The select woke the caller: it settles and returns, or goes round again.
Settle(c) ==
  /\ pc[c] = "select" /\ (woken[c] \/ timeUp[c]) /\ present
  /\ Store([channel EXCEPT
       !.waiting = @ - 1,
       !.failure = IF Takes(c) = "failed" THEN FALSE ELSE @])
  /\ IF Takes(c) = "gone"
     THEN pc' = [pc EXCEPT ![c] = "rejoin"] /\ UNCHANGED result
     ELSE Return(c, Takes(c))
  /\ UNCHANGED <<seen, woken, timeUp, tmuxVars, released, total, handed>>

\* The future is dropped while it waits.  A release that found it waiting is
\* kept for the next wait if it was the last caller here.
DropWaiter(c) ==
  /\ pc[c] = "select" /\ present
  /\ Store([channel EXCEPT
       !.waiting = @ - 1,
       !.kept = channel.releases > seen[c] /\ channel.waiting = 1])
  /\ Return(c, "dropped")
  /\ UNCHANGED <<seen, woken, timeUp, tmuxVars, history>>

-----------------------------------------------------------------------------
(* The client: park() dispatches it without a deadline, finish() records   *)
(* how it ended.                                                           *)

Move(from, to) == [clients EXCEPT ![from] = @ - 1, ![to] = @ + 1]

\* tmux takes the client: a kept signal releases it at once.
ClientArrives ==
  /\ clients["starting"] > 0
  /\ clients' = Move("starting", IF latch THEN "released" ELSE "parked")
  /\ latch' = FALSE
  /\ UNCHANGED <<signals, entryVars, callerVars, history>>

\* The command does not get through, or the server goes with its clients.
ClientFails ==
  /\ \E stage \in {"starting", "parked"} :
       /\ clients[stage] > 0
       /\ clients' = Move(stage, "failed")
  /\ UNCHANGED <<latch, signals, entryVars, callerVars, history>>

\* Every receiver of the entry sees the change, whatever the outcome.
Wake == woken' = [c \in Callers |-> woken[c] \/ c \in Waiting]

\* Mutant: the release is kept even though callers are waiting.
FinishSignalledKeeps ==
  /\ clients["released"] > 0 /\ present
  /\ clients' = [clients EXCEPT !["released"] = @ - 1]
  /\ Store([channel EXCEPT !.resident = FALSE, !.releases = @ + 1, !.kept = TRUE])
  /\ Wake
  /\ released' = [c \in Callers |-> released[c] \/ c \in Waiting]
  /\ total' = total + 1
  /\ UNCHANGED <<pc, seen, timeUp, result, latch, signals, handed>>

\* finish(Ok): the release is kept when nobody is waiting.
FinishSignalled ==
  /\ clients["released"] > 0 /\ present
  /\ clients' = [clients EXCEPT !["released"] = @ - 1]
  /\ Store([channel EXCEPT !.resident = FALSE, !.releases = @ + 1,
                           !.kept = (channel.waiting = 0)])
  /\ Wake
  /\ released' = [c \in Callers |-> released[c] \/ c \in Waiting]
  /\ total' = total + 1
  /\ UNCHANGED <<pc, seen, timeUp, result, latch, signals, handed>>

\* finish(Err): the reason is left for the first caller that settles.
FinishFailed ==
  /\ clients["failed"] > 0 /\ present
  /\ clients' = [clients EXCEPT !["failed"] = @ - 1]
  /\ Store([channel EXCEPT !.resident = FALSE, !.failure = TRUE])
  /\ Wake
  /\ UNCHANGED <<pc, seen, timeUp, result, latch, signals, history>>

\* wait-for -S: it releases the clients there, or is latched; a second one
\* before any wait clears the latch.
Signal ==
  /\ signals < MaxSignals /\ signals' = signals + 1
  /\ IF clients["parked"] > 0
     THEN /\ clients' = [clients EXCEPT !["released"] = @ + clients["parked"],
                                        !["parked"] = 0]
          /\ UNCHANGED latch
     ELSE latch' = ~latch /\ UNCHANGED clients
  /\ UNCHANGED <<entryVars, callerVars, history>>

-----------------------------------------------------------------------------
Caller(c) == JoinKept(c) \/ JoinWaiting(c) \/ Elapse(c) \/ Settle(c) \/ DropWaiter(c)

Client == ClientArrives \/ ClientFails \/ FinishSignalled \/ FinishFailed

Next == Signal \/ Client \/ \E c \in Callers : Caller(c)

Spec == Init /\ [][Next]_vars

\* A woken task is polled and a budget runs out; nothing obliges a signal to
\* come, tmux to answer or a client to end.
Fairness ==
  \A c \in Callers :
    /\ WF_vars(Elapse(c))
    /\ WF_vars(Settle(c))
    /\ WF_vars((JoinKept(c) \/ JoinWaiting(c)) /\ pc[c] = "rejoin")

FairSpec == Spec /\ Fairness

-----------------------------------------------------------------------------
(* Properties.                                                             *)

Outcomes == {"none", "signalled", "timedOut", "failed", "dropped"}

\* Every variable has its type.
TypeOK ==
  /\ present \in BOOLEAN /\ channel \in Channel
  /\ pc \in [Callers -> {"idle", "select", "rejoin", "done"}]
  /\ seen \in [Callers -> Nat]
  /\ woken \in [Callers -> BOOLEAN] /\ timeUp \in [Callers -> BOOLEAN]
  /\ result \in [Callers -> Outcomes]
  /\ clients \in [Stages -> Nat]
  /\ latch \in BOOLEAN /\ signals \in 0..MaxSignals
  /\ released \in [Callers -> BOOLEAN]
  /\ total \in Nat /\ handed \in Nat

InFlight == clients["starting"] + clients["parked"] + clients["released"]
            + clients["failed"]

\* The entry agrees with its users: it counts the callers that wait, knows
\* whether a client is there, of which there is never a second, and is in the
\* map exactly while somebody or something needs it.  finish(), settle() and
\* Waiter::drop look the entry up again and would lose an outcome without it.
EntryMatchesItsUsers ==
  /\ channel.waiting = Cardinality(Waiting)
  /\ InFlight = IF channel.resident THEN 1 ELSE 0
  /\ present <=> ~IsIdle(channel)
  /\ ~present => channel = Default

\* A signal is kept only while nobody waits: Waiter::drop overwrites `kept`
\* without reading it, and join() would let a newcomer overtake the queue.
KeptMeansNobodyWaits == channel.kept => channel.waiting = 0 /\ Waiting = {}

\* A caller that was waiting when the client was released is answered with
\* the signal, however late it is polled and even if its time ran out too;
\* a later client's failure or a newcomer's entry does not take it away.
ReleasedCallerIsSignalled ==
  \A c \in Callers : released[c] => result[c] \in {"none", "signalled", "dropped"}

\* The latch is one-shot: a signal is kept for at most one later wait.
LatchIsOneShot == handed + (IF channel.kept THEN 1 ELSE 0) <= total

\* A caller that waits returns, though nobody ever signals the channel.
EveryWaitReturns == \A c \in Callers : pc[c] = "select" ~> pc[c] = "done"

=============================================================================
