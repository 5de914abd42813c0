------------------------ MODULE ServerShutdownProofs ------------------------
(***************************************************************************)
(* ServerShutdown keeps the promise of ClientRegistry, its limits and the  *)
(* order of its releases, for any dispatches, attaches and shutdowns.  The *)
(* argument is who owns what: a child, an armed guard, a permit and an     *)
(* entry of the registry each belong to one stretch of the way of one      *)
(* dispatch or attach, and the stretch of the child lies inside that of    *)
(* the permit and of the entry.  A registry found empty after it was       *)
(* closed stays empty, so a shutdown that is done finds no child again; a  *)
(* probe has a child only while its attach is registered or after it was   *)
(* cancelled, and ClientRegistry lets a cancelled one outlive a shutdown.  *)
(***************************************************************************)
EXTENDS ServerShutdown, FiniteSetTheorems, TLAPS

-----------------------------------------------------------------------------
(* The inductive invariant of the dispatches.                              *)

BeforeLaunch == {"idle", "acquiring", "admit", "admitted", "refused"}

Supervised == {"drain", "wait", "cleanup", "reap"}

ExecTypeOK ==
  /\ RequestTypeOK /\ TaskTypeOK
  /\ stop \in [Shutdowns -> LoopStages] /\ woken \in [Shutdowns -> BOOLEAN]

\* A supervisor exists from the launch on, and outlives the caller's wait.
TaskFollowsLaunch ==
  \A r \in Requests :
    /\ req[r] \in BeforeLaunch => task[r] = "none"
    /\ req[r] = "awaiting" => task[r] \notin {"none", "end"}
    /\ req[r] = "acquiring" => ~parks[r]

\* The child is unreaped while its guard is armed, and only while it is supervised.
ChildIsSupervised ==
  \A r \in Requests :
    /\ armed[r] <=> child[r] \in Unreaped
    /\ armed[r] => task[r] \in Supervised
    /\ task[r] \in {"drain", "wait"} => armed[r]

\* A permit is held from the acquisition until the child is reaped.
PermitIsHeld ==
  \A r \in Requests :
    r \in holders <=> /\ ~parks[r]
                      /\ \/ req[r] \in {"admit", "admitted", "refused"}
                         \/ task[r] \in Supervised \cup {"release"}

\* A request is registered from its admission until its permit is back.
EntryIsRegistered ==
  \A r \in Requests :
    r \in entries <=> \/ req[r] = "admitted"
                      \/ task[r] \in Supervised \cup {"release", "deregister"}

AnswerComesLast ==
  \A r \in Requests :
    outcome[r] = "answered" => req[r] = "done" /\ task[r] \in {"none", "end"}

PermitsAreLimited == Cardinality(holders) <= MaxInFlight

\* A shutdown under way has closed the registry; done, it found it empty.
StopFoundItEmpty ==
  \A s \in Shutdowns :
    /\ stop[s] # "idle" => ~accepting
    /\ stop[s] = "done" => entries = {}

ExecOwnership ==
  /\ ExecTypeOK /\ TaskFollowsLaunch /\ ChildIsSupervised /\ PermitIsHeld
  /\ EntryIsRegistered /\ AnswerComesLast /\ StopFoundItEmpty

ExecInv == ExecOwnership /\ PermitsAreLimited

-----------------------------------------------------------------------------
(* The inductive invariant of the control-mode clients.                    *)

ActiveStages == {"preparing", "connected", "terminating", "unregister"}

PersistentTypeOK ==
  /\ AttachTypeOK
  /\ halt \in [Shutdowns -> LoopStages] /\ told \in [Shutdowns -> BOOLEAN]

Registered == {a \in Attaches : attach[a] \in ActiveStages}

\* The count of the lifecycle is the number of registrations there are.
ActiveIsExact == active = Cardinality(Registered)

ControlIsConnected ==
  \A a \in Attaches : client[a] \in Unreaped <=> attach[a] \in {"connected", "terminating"}

\* A probe in progress is the first or the second of an attach that waits for it.
TwoProbes ==
  \A a \in Attaches : probe[a] = "running" => attach[a] = "preparing" /\ probes[a] < 2

SeatIsHeld ==
  \A a \in Attaches :
    a \in seats <=> attach[a] \in ActiveStages \cup {"admit", "leaving", "last"}

SeatsAreLimited == Cardinality(seats) <= MaxClients

HaltFoundNone ==
  \A s \in Shutdowns :
    /\ halt[s] # "idle" => ~open
    /\ halt[s] = "done" => active = 0

PersistentOwnership ==
  PersistentTypeOK /\ ControlIsConnected /\ TwoProbes /\ SeatIsHeld /\ HaltFoundNone

PersistentInv == PersistentOwnership /\ ActiveIsExact /\ SeatsAreLimited

IInv == ExecInv /\ PersistentInv

-----------------------------------------------------------------------------
(* The dispatches keep their part.  One lemma per kind of action, each with *)
(* a step per action; the count of permits is left to the last.             *)

LEMMA ExecInitEstablishes == ExecInit => ExecInv
  <1> SUFFICES ASSUME ExecInit PROVE ExecInv
    OBVIOUS
  <1>1. ExecOwnership
    BY DEF ExecInit, ExecOwnership, ExecTypeOK, RequestTypeOK, TaskTypeOK, LoopStages,
           TaskFollowsLaunch, ChildIsSupervised, PermitIsHeld, EntryIsRegistered,
           AnswerComesLast, StopFoundItEmpty, BeforeLaunch, Supervised, Unreaped
  <1>2. PermitsAreLimited
    BY FS_EmptySet, LimitAssumption DEF ExecInit, PermitsAreLimited
  <1> QED
    BY <1>1, <1>2 DEF ExecInv

LEMMA RunKeepsOwnership ==
  ASSUME ExecOwnership, NEW r \in Requests,
         Start(r) \/ Expire(r) \/ DropRequest(r) \/ RunSteps(r)
  PROVE  ExecOwnership'
  <1> USE DEF ExecOwnership, ExecTypeOK, RequestTypeOK, TaskTypeOK, LoopStages,
              TaskFollowsLaunch, ChildIsSupervised, PermitIsHeld, EntryIsRegistered,
              AnswerComesLast, StopFoundItEmpty, BeforeLaunch, Supervised, Unreaped,
              reqVars, sharedVars, taskVars, stopVars, Answer
  <1>1. CASE Start(r)
    BY <1>1 DEF Start
  <1>2. CASE Expire(r)
    BY <1>2 DEF Expire
  <1>3. CASE DropRequest(r)
    BY <1>3 DEF DropRequest
  <1>4. CASE Acquire(r)
    BY <1>4 DEF Acquire
  <1>5. CASE AcquireClosed(r)
    BY <1>5 DEF AcquireClosed
  <1>6. CASE Overloaded(r)
    BY <1>6 DEF Overloaded
  <1>7. CASE Admit(r)
    BY <1>7 DEF Admit
  <1>8. CASE Launch(r)
    BY <1>8 DEF Launch
  <1>9. CASE Refuse(r)
    BY <1>9 DEF Refuse
  <1>10. CASE RefuseNotifies(r)
    BY <1>10 DEF RefuseNotifies, NotifyShutdowns, NotifyWaiters
  <1> QED
    BY <1>1, <1>2, <1>3, <1>4, <1>5, <1>6, <1>7, <1>8, <1>9, <1>10 DEF RunSteps

LEMMA TaskKeepsOwnership ==
  ASSUME ExecOwnership, NEW r \in Requests, TaskSteps(r) \/ TaskAccidents(r)
  PROVE  ExecOwnership'
  <1> USE DEF ExecOwnership, ExecTypeOK, RequestTypeOK, TaskTypeOK, LoopStages,
              TaskFollowsLaunch, ChildIsSupervised, PermitIsHeld, EntryIsRegistered,
              AnswerComesLast, StopFoundItEmpty, BeforeLaunch, Supervised, Unreaped,
              reqVars, sharedVars, taskVars, stopVars, Answer
  <1>1. CASE Cancelled(r) \/ DeadlineElapsed(r) \/ SupervisionFails(r)
    BY <1>1 DEF Cancelled, DeadlineElapsed, SupervisionFails, Supervising, Fail
  <1>2. CASE Reaps(r)
    BY <1>2 DEF Reaps
  <1>3. CASE Kill(r)
    BY <1>3 DEF Kill
  <1>4. CASE CleanupReaps(r)
    BY <1>4 DEF CleanupReaps
  <1>5. CASE Release(r)
    BY <1>5 DEF Release
  <1>6. CASE Deregister(r)
    BY <1>6 DEF Deregister
  <1>7. CASE Notify(r)
    BY <1>7 DEF Notify, NotifyShutdowns, NotifyWaiters
  <1>8. CASE Send(r)
    BY <1>8 DEF Send
  <1>9. CASE Drained(r)
    BY <1>9 DEF Drained
  <1>10. CASE CleanupFails(r)
    BY <1>10 DEF CleanupFails, Abandon
  <1>11. CASE RuntimeDrops(r)
    BY <1>11 DEF RuntimeDrops, Abandon
  <1>12. CASE ChildExits(r)
    BY <1>12 DEF ChildExits
  <1>13. CASE WaitFindsNone(r)
    BY <1>13 DEF WaitFindsNone
  <1>14. CASE CleanupFindsNone(r)
    BY <1>14 DEF CleanupFindsNone, Abandon
  <1> QED
    BY <1>1, <1>2, <1>3, <1>4, <1>5, <1>6, <1>7, <1>8, <1>9, <1>10, <1>11, <1>12,
       <1>13, <1>14
    DEF TaskSteps, TaskAccidents

LEMMA ShutdownKeepsOwnership ==
  ASSUME ExecOwnership, NEW s \in Shutdowns, ExecShutdown(s)
  PROVE  ExecOwnership'
  <1> USE DEF ExecOwnership, ExecTypeOK, RequestTypeOK, TaskTypeOK, LoopStages,
              TaskFollowsLaunch, ChildIsSupervised, PermitIsHeld, EntryIsRegistered,
              AnswerComesLast, StopFoundItEmpty, reqVars, sharedVars, taskVars
  <1>1. CASE ShutdownMarks(s)
    BY <1>1 DEF ShutdownMarks
  <1>2. CASE ShutdownCloses(s)
    BY <1>2 DEF ShutdownCloses
  <1>3. CASE ShutdownChecks(s)
    BY <1>3 DEF ShutdownChecks
  <1>4. CASE ShutdownWaits(s)
    BY <1>4 DEF ShutdownWaits
  <1>5. CASE ShutdownWakes(s)
    BY <1>5 DEF ShutdownWakes
  <1> QED
    BY <1>1, <1>2, <1>3, <1>4, <1>5 DEF ExecShutdown

\* Only Acquire adds a holder, and only below the limit.
LEMMA PermitsStayLimited ==
  ASSUME ExecInv, ExecNext
  PROVE  PermitsAreLimited'
  <1>1. IsFiniteSet(holders) /\ Cardinality(holders) \in Nat
    BY RequestsAssumption, FS_Subset, FS_CardinalityType
    DEF ExecInv, ExecOwnership, ExecTypeOK, TaskTypeOK
  <1>2. CASE \E r \in Requests : Acquire(r)
    <2>1. PICK r \in Requests : Acquire(r)
      BY <1>2
    <2>2. holders' = holders \cup {r}
      BY <2>1 DEF Acquire
    <2>3. Cardinality(holders) < MaxInFlight
      BY <2>1 DEF Acquire, HasPermits, HasPermit
    <2>4. Cardinality(holders') \in {Cardinality(holders), Cardinality(holders) + 1}
      BY <1>1, <2>2, FS_AddElement
    <2> QED
      BY <1>1, <2>3, <2>4, LimitAssumption DEF PermitsAreLimited
  <1>3. CASE ~\E r \in Requests : Acquire(r)
    <2>1. holders' \subseteq holders
      <3>1. ASSUME NEW r \in Requests, Start(r) \/ Expire(r) \/ DropRequest(r) \/ RunSteps(r)
            PROVE  holders' \subseteq holders
        BY <1>3, <3>1
        DEF RunSteps, Start, Expire, DropRequest, AcquireClosed, Overloaded, Admit,
            Launch, Refuse, RefuseNotifies, sharedVars
      <3>2. ASSUME NEW r \in Requests, TaskSteps(r) \/ TaskAccidents(r)
            PROVE  holders' \subseteq holders
        BY <3>2
        DEF TaskSteps, TaskAccidents, Cancelled, DeadlineElapsed, SupervisionFails, Fail,
            Reaps, Kill, CleanupReaps, WaitFindsNone, CleanupFindsNone, Release, Deregister,
            Notify, Send, Drained,
            CleanupFails, RuntimeDrops, Abandon, ChildExits, sharedVars
      <3>3. ASSUME NEW s \in Shutdowns, ExecShutdown(s)
            PROVE  holders' \subseteq holders
        BY <3>3
        DEF ExecShutdown, ShutdownMarks, ShutdownCloses, ShutdownChecks, ShutdownWaits,
            ShutdownWakes, sharedVars
      <3> QED
        BY <3>1, <3>2, <3>3 DEF ExecNext, RequestNext
    <2>2. Cardinality(holders') <= Cardinality(holders) /\ Cardinality(holders') \in Nat
      BY <1>1, <2>1, FS_Subset, FS_CardinalityType
    <2> QED
      BY <1>1, <2>2, LimitAssumption DEF ExecInv, PermitsAreLimited
  <1> QED
    BY <1>2, <1>3

LEMMA ExecNextKeeps ==
  ASSUME ExecInv, ExecNext
  PROVE  ExecInv'
  <1>1. ExecOwnership'
    BY RunKeepsOwnership, TaskKeepsOwnership, ShutdownKeepsOwnership
    DEF ExecInv, ExecNext, RequestNext
  <1> QED
    BY <1>1, PermitsStayLimited DEF ExecInv

-----------------------------------------------------------------------------
(* The control-mode clients keep theirs.                                   *)

LEMMA PersistentInitEstablishes == PersistentInit => PersistentInv
  <1> SUFFICES ASSUME PersistentInit PROVE PersistentInv
    OBVIOUS
  <1>a. probes \in [Attaches -> 0..2]
    BY DEF PersistentInit
  <1>b. PersistentTypeOK
    BY <1>a DEF PersistentInit, PersistentTypeOK, AttachTypeOK, LoopStages
  <1>c. ControlIsConnected /\ TwoProbes /\ SeatIsHeld /\ HaltFoundNone
    BY DEF PersistentInit, ControlIsConnected, TwoProbes, SeatIsHeld, HaltFoundNone,
           ActiveStages, Unreaped
  <1>1. PersistentOwnership
    BY <1>b, <1>c DEF PersistentOwnership
  <1>2. Registered = {}
    BY DEF PersistentInit, Registered, ActiveStages
  <1>3. ActiveIsExact /\ SeatsAreLimited
    BY <1>2, FS_EmptySet, MaxClientsAssumption
    DEF PersistentInit, ActiveIsExact, SeatsAreLimited
  <1> QED
    BY <1>1, <1>3 DEF PersistentInv

\* An attach that enters or leaves the stages that count moves the count by one.
LEMMA RegisteredIsFinite == IsFiniteSet(Registered) /\ Cardinality(Registered) \in Nat
  BY AttachesAssumption, FS_Subset, FS_CardinalityType DEF Registered

LEMMA Registers ==
  ASSUME PersistentTypeOK, NEW a \in Attaches, attach[a] \notin ActiveStages,
         NEW to \in ActiveStages, attach' = [attach EXCEPT ![a] = to]
  PROVE  Cardinality(Registered') = Cardinality(Registered) + 1
  <1>1. Registered' = Registered \cup {a} /\ a \notin Registered
    BY DEF Registered, PersistentTypeOK, AttachTypeOK
  <1> QED
    BY <1>1, RegisteredIsFinite, FS_AddElement

LEMMA Unregisters ==
  ASSUME PersistentTypeOK, NEW a \in Attaches, attach[a] \in ActiveStages, NEW to,
         to \notin ActiveStages, attach' = [attach EXCEPT ![a] = to]
  PROVE  /\ Cardinality(Registered') = Cardinality(Registered) - 1
         /\ Cardinality(Registered) \in Nat \ {0}
  <1>1. Registered' = Registered \ {a} /\ a \in Registered
    BY DEF Registered, PersistentTypeOK, AttachTypeOK
  <1>2. Cardinality(Registered) # 0
    BY <1>1, RegisteredIsFinite, FS_EmptySet
  <1> QED
    BY <1>1, <1>2, RegisteredIsFinite, FS_RemoveElement

LEMMA RegisteredStays ==
  ASSUME PersistentTypeOK, NEW a \in Attaches, NEW to,
         attach[a] \in ActiveStages <=> to \in ActiveStages,
         attach' = [attach EXCEPT ![a] = to]
  PROVE  Registered' = Registered
  BY DEF Registered, PersistentTypeOK, AttachTypeOK

LEMMA AttachKeepsOwnership ==
  ASSUME PersistentOwnership, ActiveIsExact, NEW a \in Attaches, Attach(a) \/ AttachNext(a)
  PROVE  PersistentOwnership'
  <1> USE DEF PersistentOwnership, PersistentTypeOK, AttachTypeOK, LoopStages,
              ControlIsConnected, TwoProbes, SeatIsHeld, HaltFoundNone, ActiveStages, Unreaped,
              attachVars, sharedPVars, haltVars, Move
  <1>1. CASE Attach(a)
    BY <1>1 DEF Attach
  <1>2. CASE TakeSeat(a)
    BY <1>2 DEF TakeSeat
  <1>3. CASE NoSeat(a)
    BY <1>3 DEF NoSeat
  <1>4. CASE Register(a)
    BY <1>4 DEF Register
  <1>a. CASE Unregister(a)
    <2>1. active \in Nat \ {0}
      <3>1. a \in Registered
        BY <1>a DEF Unregister, Registered
      <3> QED
        BY <3>1, RegisteredIsFinite, FS_EmptySet DEF ActiveIsExact
    <2> QED
      BY <1>a, <2>1 DEF Unregister
  <1>6. CASE GiveUpSeat(a)
    BY <1>6 DEF GiveUpSeat, NotifyWaiters
  <1>7. CASE Abandons(a)
    BY <1>7 DEF Abandons
  <1>8. CASE Terminate(a)
    BY <1>8 DEF Terminate
  <1>9. CASE ReapControl(a)
    BY <1>9 DEF ReapControl
  <1>10. CASE DropReserving(a)
    BY <1>10 DEF DropReserving
  <1>11. CASE Probe(a)
    BY <1>11 DEF Probe
  <1>12. CASE ProbeAnswered(a)
    BY <1>12 DEF ProbeAnswered
  <1>13. CASE ProbeReaped(a)
    BY <1>13 DEF ProbeReaped
  <1>14. CASE SpawnControl(a)
    BY <1>14 DEF SpawnControl
  <1>15. CASE ControlExits(a)
    BY <1>15 DEF ControlExits
  <1>16. CASE LoseControl(a)
    BY <1>16 DEF LoseControl
  <1>17. CASE ProbeFails(a)
    BY <1>17 DEF ProbeFails
  <1> QED
    BY <1>1, <1>2, <1>3, <1>4, <1>a, <1>6, <1>7, <1>8, <1>9, <1>10, <1>11, <1>12,
       <1>13, <1>14, <1>15, <1>16, <1>17
    DEF AttachNext, AttachSteps, StoppedSteps

LEMMA AttachKeepsCount ==
  ASSUME PersistentOwnership, ActiveIsExact, NEW a \in Attaches, Attach(a) \/ AttachNext(a)
  PROVE  ActiveIsExact'
  <1>t. PersistentTypeOK
    BY DEF PersistentOwnership
  <1>1. CASE Register(a)
    <2>1. CASE open
      BY <1>1, <1>t, <2>1, Registers DEF Register, Move, ActiveStages, ActiveIsExact
    <2>2. CASE ~open
      BY <1>1, <1>t, <2>2, RegisteredStays DEF Register, Move, ActiveStages, ActiveIsExact
    <2> QED
      BY <2>1, <2>2
  <1>2. CASE Unregister(a)
    <2>1. PICK to \in {"last", "leaving"} : attach' = [attach EXCEPT ![a] = to]
      BY <1>2 DEF Unregister, Move
    <2> QED
      BY <1>2, <1>t, <2>1, Unregisters DEF Unregister, ActiveStages, ActiveIsExact
  <1>3. CASE \/ Attach(a) \/ TakeSeat(a) \/ NoSeat(a) \/ GiveUpSeat(a) \/ Abandons(a)
            \/ Terminate(a) \/ ReapControl(a) \/ DropReserving(a) \/ SpawnControl(a)
            \/ LoseControl(a) \/ ProbeFails(a)
    <2>1. PICK to : /\ attach' = [attach EXCEPT ![a] = to]
                    /\ attach[a] \in ActiveStages <=> to \in ActiveStages
      BY <1>3
      DEF Attach, TakeSeat, NoSeat, GiveUpSeat, Abandons, Terminate, ReapControl,
          DropReserving, SpawnControl, LoseControl, ProbeFails, Move, ActiveStages
    <2>2. active' = active
      BY <1>3
      DEF Attach, TakeSeat, NoSeat, GiveUpSeat, Abandons, Terminate, ReapControl,
          DropReserving, SpawnControl, LoseControl, ProbeFails, sharedPVars
    <2> QED
      BY <1>t, <2>1, <2>2, RegisteredStays DEF ActiveIsExact
  <1>4. CASE Probe(a) \/ ProbeAnswered(a) \/ ProbeReaped(a) \/ ControlExits(a)
    BY <1>4
    DEF Probe, ProbeAnswered, ProbeReaped, ControlExits, ActiveIsExact, Registered,
        sharedPVars
  <1> QED
    BY <1>1, <1>2, <1>3, <1>4 DEF AttachNext, AttachSteps, StoppedSteps

\* Only TakeSeat adds a seat, and only below the limit.
LEMMA SeatsStayLimited ==
  ASSUME PersistentInv, NEW a \in Attaches, Attach(a) \/ AttachNext(a)
  PROVE  SeatsAreLimited'
  <1>1. IsFiniteSet(seats) /\ Cardinality(seats) \in Nat
    BY AttachesAssumption, FS_Subset, FS_CardinalityType
    DEF PersistentInv, PersistentOwnership, PersistentTypeOK, AttachTypeOK
  <1>2. CASE TakeSeat(a)
    <2>1. seats' = seats \cup {a} /\ Cardinality(seats) < MaxClients
      BY <1>2 DEF TakeSeat, HasSeats, HasPermit
    <2>2. Cardinality(seats') \in {Cardinality(seats), Cardinality(seats) + 1}
      BY <1>1, <2>1, FS_AddElement
    <2> QED
      BY <1>1, <2>1, <2>2, MaxClientsAssumption DEF SeatsAreLimited
  <1>3. CASE ~TakeSeat(a)
    <2>1. seats' \subseteq seats
      BY <1>3
      DEF AttachNext, AttachSteps, StoppedSteps, Attach, NoSeat, Register, Unregister,
          GiveUpSeat, Abandons, Terminate, ReapControl, DropReserving, Probe,
          ProbeAnswered, ProbeFails, ProbeReaped, SpawnControl, ControlExits, LoseControl,
          sharedPVars
    <2>2. Cardinality(seats') <= Cardinality(seats) /\ Cardinality(seats') \in Nat
      BY <1>1, <2>1, FS_Subset, FS_CardinalityType
    <2> QED
      BY <1>1, <2>2, MaxClientsAssumption DEF PersistentInv, SeatsAreLimited
  <1> QED
    BY <1>2, <1>3

LEMMA PersistentAttachKeeps ==
  ASSUME PersistentInv, NEW a \in Attaches, Attach(a) \/ AttachNext(a)
  PROVE  PersistentInv'
  BY AttachKeepsOwnership, AttachKeepsCount, SeatsStayLimited DEF PersistentInv

LEMMA PersistentShutdownKeeps ==
  ASSUME PersistentInv, NEW s \in Shutdowns, PersistentShutdown(s)
  PROVE  PersistentInv'
  <1> USE DEF PersistentInv, PersistentOwnership, PersistentTypeOK, AttachTypeOK, LoopStages,
              ControlIsConnected, TwoProbes, SeatIsHeld, HaltFoundNone, ActiveStages, Unreaped,
              attachVars, sharedPVars, haltVars, Move,
              ActiveIsExact, SeatsAreLimited, Registered
  <1>1. CASE HaltMarks(s)
    BY <1>1 DEF HaltMarks
  <1>2. CASE HaltCloses(s)
    BY <1>2 DEF HaltCloses
  <1>3. CASE HaltChecks(s)
    BY <1>3 DEF HaltChecks
  <1>4. CASE HaltWaits(s)
    BY <1>4 DEF HaltWaits
  <1>5. CASE HaltWakes(s)
    BY <1>5 DEF HaltWakes
  <1> QED
    BY <1>1, <1>2, <1>3, <1>4, <1>5 DEF PersistentShutdown

-----------------------------------------------------------------------------
(* The two together.                                                       *)

LEMMA StepKeeps == IInv /\ [Next]_vars => IInv'
  <1> SUFFICES ASSUME IInv, [Next]_vars PROVE IInv'
    OBVIOUS
  <1>e. ASSUME UNCHANGED execVars PROVE ExecInv'
    BY <1>e
    DEF IInv, ExecInv, ExecOwnership, ExecTypeOK, RequestTypeOK, TaskTypeOK,
        TaskFollowsLaunch, ChildIsSupervised, PermitIsHeld, EntryIsRegistered,
        AnswerComesLast, StopFoundItEmpty, PermitsAreLimited, execVars, reqVars,
        sharedVars, taskVars, stopVars
  <1>p. ASSUME UNCHANGED persistentVars PROVE PersistentInv'
    BY <1>p
    DEF IInv, PersistentInv, PersistentOwnership, PersistentTypeOK, AttachTypeOK,
        ControlIsConnected, TwoProbes, SeatIsHeld, HaltFoundNone, ActiveIsExact,
        Registered, SeatsAreLimited, persistentVars, attachVars, sharedPVars, haltVars
  <1>1. ASSUME NEW r \in Requests, Dispatch(r) \/ RequestStep(r) PROVE IInv'
    BY <1>1, <1>p, ExecNextKeeps DEF IInv, Dispatch, RequestStep, ExecNext
  <1>2. ASSUME NEW a \in Attaches, BeginAttach(a) \/ AttachStep(a) PROVE IInv'
    BY <1>2, <1>e, PersistentAttachKeeps DEF IInv, BeginAttach, AttachStep
  <1>3. ASSUME NEW s \in Shutdowns, ShutdownExecutor(s) PROVE IInv'
    BY <1>3, <1>p, ExecNextKeeps DEF IInv, ShutdownExecutor, ExecNext
  <1>4. ASSUME NEW s \in Shutdowns, ShutdownClients(s) PROVE IInv'
    BY <1>4, <1>e, PersistentShutdownKeeps DEF IInv, ShutdownClients
  <1>5. CASE UNCHANGED vars
    BY <1>5, <1>e, <1>p DEF IInv, vars
  <1> QED
    BY <1>1, <1>2, <1>3, <1>4, <1>5 DEF Next

\* Who owns a child, an armed guard, a permit and an entry, in every state.
THEOREM Invariance == Spec => []IInv
  <1>1. Init => IInv
    BY ExecInitEstablishes, PersistentInitEstablishes DEF Init, IInv
  <1> QED
    BY <1>1, StepKeeps, PTL DEF Spec

\* Every variable keeps its type, and PersistentLifecycle::active, which the
\* code decrements unchecked, is never negative.
THEOREM TypeCorrect == Spec => []TypeOK
  <1>1. IInv => TypeOK
    BY DEF IInv, ExecInv, ExecOwnership, ExecTypeOK, PersistentInv, PersistentOwnership,
           PersistentTypeOK, TypeOK, LoopTypeOK
  <1> QED
    BY <1>1, Invariance, PTL

\* However callers, connections and shutdowns interleave, the unreaped clients
\* stay within max_in_flight and max_clients: the permit outlives the child.
THEOREM LimitsHold == Spec => []ClientsWithinLimits
  <1>1. ASSUME IInv PROVE ClientsWithinLimits
    <2> DEFINE D == {r \in Dispatched : ~parks[r]}
    <2>a. /\ ExecTypeOK /\ ChildIsSupervised /\ PermitIsHeld /\ PermitsAreLimited
          /\ PersistentTypeOK /\ ControlIsConnected /\ SeatIsHeld /\ SeatsAreLimited
      BY <1>1 DEF IInv, ExecInv, ExecOwnership, PersistentInv, PersistentOwnership
    <2>1. D \subseteq holders /\ \A r \in holders : ~parks[r]
      BY <2>a
      DEF ExecTypeOK, TaskTypeOK, ChildIsSupervised, PermitIsHeld, Supervised, Dispatched
    <2>2. Connected \subseteq seats
      BY <2>a DEF ControlIsConnected, SeatIsHeld, ActiveStages, Connected
    <2>3. IsFiniteSet(holders) /\ IsFiniteSet(seats)
      BY <2>a, RequestsAssumption, AttachesAssumption, FS_Subset
      DEF ExecTypeOK, TaskTypeOK, PersistentTypeOK, AttachTypeOK
    <2>4. /\ Cardinality(D) <= Cardinality(holders)
          /\ Cardinality(D) \in Nat /\ Cardinality(holders) \in Nat
      BY <2>1, <2>3, FS_Subset, FS_CardinalityType
    <2>5. /\ Cardinality(Connected) <= Cardinality(seats)
          /\ Cardinality(Connected) \in Nat /\ Cardinality(seats) \in Nat
      BY <2>2, <2>3, FS_Subset, FS_CardinalityType
    <2>6. Cardinality(D) <= MaxInFlight
      BY <2>a, <2>4, LimitAssumption DEF PermitsAreLimited
    <2>7. Cardinality(Connected) <= MaxClients
      BY <2>a, <2>5, MaxClientsAssumption DEF SeatsAreLimited
    <2> QED
      BY <2>1, <2>6, <2>7 DEF ClientsWithinLimits
  <1> QED
    BY <1>1, Invariance, PTL

\* An answered caller finds the child, the permit and the entry given up.
THEOREM AnswersComeLast == Spec => []AnswerMeansReleased
  <1>1. IInv => AnswerMeansReleased
    BY DEF IInv, ExecInv, ExecOwnership, AnswerComesLast, ChildIsSupervised, PermitIsHeld,
           EntryIsRegistered, Supervised, Dispatched, AnswerMeansReleased
  <1> QED
    BY <1>1, Invariance, PTL

\* A guard is armed exactly while the leader of its group is unreaped.
THEOREM GuardsAreExact == Spec => []GuardFollowsChild
  <1>1. IInv => GuardFollowsChild
    BY DEF IInv, ExecInv, ExecOwnership, ChildIsSupervised, Dispatched,
           GuardFollowsChild
  <1> QED
    BY <1>1, Invariance, PTL

-----------------------------------------------------------------------------
(* The refinement of ClientRegistry.                                       *)

Live == Dispatched \cup Connected \cup Probing

HasReturned == \E s \in Shutdowns : Returned(s)

\* A shutdown that returned found no client, and it closed both registries.
LEMMA ReturnedMeansNone ==
  ASSUME IInv, HasReturned
  PROVE  /\ Live = {}
         /\ \A r \in Requests : req[r] # "admitted"
         /\ \A a \in Attaches : attach[a] \notin ActiveStages
  <1>1. PICK s \in Shutdowns : stop[s] = "done" /\ halt[s] = "done"
    BY DEF HasReturned, Returned
  <1>2. entries = {} /\ active = 0
    BY <1>1
    DEF IInv, ExecInv, ExecOwnership, StopFoundItEmpty, PersistentInv,
        PersistentOwnership, HaltFoundNone
  <1>3. Registered = {}
    BY <1>2, RegisteredIsFinite, FS_EmptySet DEF IInv, PersistentInv, ActiveIsExact
  <1>4. Dispatched = {} /\ \A r \in Requests : req[r] # "admitted"
    BY <1>2
    DEF IInv, ExecInv, ExecOwnership, EntryIsRegistered, ChildIsSupervised, Dispatched
  <1>5. Connected = {} /\ Probing = {} /\ \A a \in Attaches : attach[a] \notin ActiveStages
    BY <1>3
    DEF IInv, PersistentInv, PersistentOwnership, ControlIsConnected, TwoProbes, Registered,
        Connected, Probing, ActiveStages
  <1> QED
    BY <1>4, <1>5 DEF Live

\* The same in the next state.
LEMMA ReturnedMeansNoneNext == (IInv /\ HasReturned => Live = {})'
  <1>1. IInv /\ HasReturned => Live = {}
    BY ReturnedMeansNone
  <1> QED
    BY <1>1, PTL

\* A step of a dispatch or an attach leaves the clients alone, starts one while
\* no shutdown has returned, or takes one away.
LEMMA RequestRefines ==
  ASSUME IInv, NEW r \in Requests, Dispatch(r) \/ RequestStep(r)
  PROVE  /\ UNCHANGED HasReturned /\ UNCHANGED ProbesCutOff
         /\ \/ UNCHANGED Live
            \/ ~HasReturned /\ r \notin Live \cup ProbesCutOff /\ Live' = Live \cup {r}
            \/ r \in Live /\ Live' = Live \ {r}
  <1>t. ExecTypeOK /\ ChildIsSupervised /\ TaskFollowsLaunch
    BY DEF IInv, ExecInv, ExecOwnership
  <1>d. r \notin Attaches
    BY CallsAssumption
  <1>1. UNCHANGED <<stop, halt>> /\ UNCHANGED <<client, probe>>
    BY DEF Dispatch, RequestStep, Start, RequestNext, Expire, DropRequest, RunSteps,
           Acquire, AcquireClosed, Overloaded, Admit, Launch, Refuse, RefuseNotifies,
           TaskSteps, TaskAccidents, Cancelled, DeadlineElapsed, SupervisionFails, Fail,
           Reaps, Kill, CleanupReaps, WaitFindsNone, CleanupFindsNone, Release,
           Deregister, Notify, Send, Drained, CleanupFails, RuntimeDrops, Abandon, ChildExits, stopVars, persistentVars,
           haltVars, attachVars
  <1>2. UNCHANGED HasReturned /\ UNCHANGED <<Connected, Probing, ProbesCutOff>>
    BY <1>1 DEF HasReturned, Returned, Connected, Probing, ProbesCutOff
  <1>3. CASE Launch(r) /\ UNCHANGED persistentVars
    <2>1. r \notin Dispatched /\ Dispatched' = Dispatched \cup {r}
      BY <1>3, <1>t
      DEF Launch, ExecTypeOK, TaskTypeOK, ChildIsSupervised, TaskFollowsLaunch,
          BeforeLaunch, Supervised, Dispatched, Unreaped
    <2>2. ~HasReturned
      BY <1>3, ReturnedMeansNone DEF Launch
    <2> QED
      BY <1>2, <1>d, <2>1, <2>2 DEF Live, Connected, Probing, ProbesCutOff
  <1>4. CASE /\ \/ Reaps(r) \/ CleanupReaps(r) \/ WaitFindsNone(r) \/ CleanupFails(r)
                \/ RuntimeDrops(r) /\ armed[r]
             /\ UNCHANGED persistentVars
    <2>1. r \in Dispatched /\ Dispatched' = Dispatched \ {r}
      BY <1>4, <1>t
      DEF Reaps, CleanupReaps, WaitFindsNone, CleanupFails, RuntimeDrops, Abandon, ExecTypeOK,
          TaskTypeOK, ChildIsSupervised, Supervised, Dispatched, Unreaped
    <2> QED
      BY <1>2, <1>d, <2>1 DEF Live, Connected, Probing
  <1>5. CASE ChildExits(r) /\ UNCHANGED persistentVars
    <2>1. UNCHANGED Dispatched
      BY <1>5, <1>t DEF ChildExits, ExecTypeOK, TaskTypeOK, Dispatched, Unreaped
    <2> QED
      BY <1>2, <2>1 DEF Live
  <1>6. CASE UNCHANGED child
    BY <1>2, <1>6 DEF Live, Dispatched
  <1>8. CASE (CleanupFindsNone(r) \/ RuntimeDrops(r)) /\ ~armed[r]
    <2>1. UNCHANGED Dispatched
      BY <1>8, <1>t
      DEF CleanupFindsNone, RuntimeDrops, Abandon, ExecTypeOK, TaskTypeOK,
          ChildIsSupervised, Dispatched, Unreaped
    <2> QED
      BY <1>2, <2>1 DEF Live
  <1>7. \/ UNCHANGED child
        \/ ChildExits(r) \/ Launch(r) \/ Reaps(r) \/ CleanupReaps(r)
        \/ WaitFindsNone(r) \/ CleanupFails(r) \/ RuntimeDrops(r)
        \/ CleanupFindsNone(r) /\ ~armed[r]
    BY DEF Dispatch, RequestStep, Start, RequestNext, Expire, DropRequest, RunSteps,
           Acquire, AcquireClosed, Overloaded, Admit, Refuse, RefuseNotifies, TaskSteps,
           TaskAccidents, Cancelled, DeadlineElapsed, SupervisionFails, Fail, Kill,
           CleanupFindsNone, Release, Deregister, Notify, Send, Drained, taskVars
  <1> QED
    BY <1>3, <1>4, <1>5, <1>6, <1>7, <1>8 DEF Dispatch, RequestStep

LEMMA AttachRefines ==
  ASSUME IInv, NEW a \in Attaches, BeginAttach(a) \/ AttachStep(a)
  PROVE  /\ UNCHANGED HasReturned
         /\ \/ UNCHANGED <<Live, ProbesCutOff>>
            \/ /\ ~HasReturned /\ a \notin Live \cup ProbesCutOff
               /\ Live' = Live \cup {a} /\ UNCHANGED ProbesCutOff
            \/ a \in Live /\ Live' = Live \ {a} /\ UNCHANGED ProbesCutOff
            \/ a \in Live /\ Live' = Live \ {a} /\ ProbesCutOff' = ProbesCutOff \cup {a}
            \/ a \in ProbesCutOff /\ ProbesCutOff' = ProbesCutOff \ {a} /\ UNCHANGED Live
  <1>t. PersistentTypeOK /\ ControlIsConnected /\ TwoProbes
    BY DEF IInv, PersistentInv, PersistentOwnership
  <1>d. a \notin Requests /\ a \notin Dispatched
    BY CallsAssumption DEF Dispatched
  <1>1. UNCHANGED <<stop, halt, child>>
    BY DEF BeginAttach, AttachStep, Attach, AttachNext, AttachSteps, StoppedSteps, TakeSeat,
           NoSeat, Register, Unregister, GiveUpSeat, Abandons, Terminate, ReapControl,
           DropReserving, Probe, ProbeAnswered, ProbeFails, ProbeReaped, SpawnControl,
           ControlExits, LoseControl, haltVars, execVars, stopVars, taskVars
  <1>2. UNCHANGED HasReturned /\ UNCHANGED Dispatched
    BY <1>1 DEF HasReturned, Returned, Dispatched
  <1>3. CASE SpawnControl(a)
    <2>1. /\ a \notin Connected \cup Probing \cup ProbesCutOff
          /\ Connected' = Connected \cup {a}
          /\ UNCHANGED <<Probing, ProbesCutOff>>
      BY <1>3, <1>t
      DEF SpawnControl, PersistentTypeOK, AttachTypeOK, ControlIsConnected, Connected,
          Unreaped, Probing, ProbesCutOff
    <2>2. ~HasReturned
      BY <1>3, ReturnedMeansNone DEF SpawnControl, ActiveStages
    <2> QED
      BY <1>2, <1>d, <2>1, <2>2 DEF Live
  <1>4. CASE Probe(a)
    <2>1. /\ a \notin Connected \cup Probing \cup ProbesCutOff
          /\ Probing' = Probing \cup {a}
          /\ UNCHANGED <<Connected, ProbesCutOff>>
      BY <1>4, <1>t
      DEF Probe, PersistentTypeOK, AttachTypeOK, ControlIsConnected, Connected, Unreaped,
          Probing, ProbesCutOff
    <2>2. ~HasReturned
      BY <1>4, ReturnedMeansNone DEF Probe, ActiveStages
    <2> QED
      BY <1>2, <1>d, <2>1, <2>2 DEF Live
  <1>5. CASE ReapControl(a) \/ LoseControl(a)
    <2>1. /\ a \in Connected /\ a \notin Probing /\ Connected' = Connected \ {a}
          /\ UNCHANGED <<Probing, ProbesCutOff>>
      BY <1>5, <1>t
      DEF ReapControl, LoseControl, PersistentTypeOK, AttachTypeOK, ControlIsConnected,
          TwoProbes, Connected, Unreaped, Probing, ProbesCutOff
    <2> QED
      BY <1>2, <1>d, <2>1 DEF Live
  <1>6. CASE ProbeAnswered(a) \/ ProbeFails(a)
    <2>1. /\ a \in Probing /\ a \notin Connected /\ Probing' = Probing \ {a}
          /\ UNCHANGED <<Connected, ProbesCutOff>>
      BY <1>6, <1>t
      DEF ProbeAnswered, ProbeFails, PersistentTypeOK, AttachTypeOK, ControlIsConnected,
          Connected, Unreaped, Probing, ProbesCutOff
    <2> QED
      BY <1>2, <1>d, <2>1 DEF Live
  <1>7. CASE Abandons(a) /\ probe[a] = "running"
    <2>1. /\ a \in Probing /\ a \notin Connected /\ Probing' = Probing \ {a}
          /\ ProbesCutOff' = ProbesCutOff \cup {a} /\ UNCHANGED Connected
      BY <1>7, <1>t
      DEF Abandons, PersistentTypeOK, AttachTypeOK, ControlIsConnected, Connected, Unreaped,
          Probing, ProbesCutOff
    <2> QED
      BY <1>2, <1>d, <2>1 DEF Live
  <1>8. CASE ProbeReaped(a)
    <2>1. /\ a \in ProbesCutOff /\ ProbesCutOff' = ProbesCutOff \ {a}
          /\ UNCHANGED <<Connected, Probing>>
      BY <1>8, <1>t
      DEF ProbeReaped, PersistentTypeOK, AttachTypeOK, Connected, Probing, ProbesCutOff
    <2> QED
      BY <1>2, <2>1 DEF Live
  <1>9. CASE ControlExits(a) \/ (Abandons(a) /\ probe[a] # "running")
    <2>1. UNCHANGED <<Connected, Probing, ProbesCutOff>>
      BY <1>9, <1>t
      DEF ControlExits, Abandons, PersistentTypeOK, AttachTypeOK, Connected, Unreaped,
          Probing, ProbesCutOff
    <2> QED
      BY <1>2, <2>1 DEF Live
  <1>10. CASE UNCHANGED <<client, probe>>
    BY <1>2, <1>10 DEF Live, Connected, Probing, ProbesCutOff
  <1>11. \/ UNCHANGED <<client, probe>>
         \/ SpawnControl(a) \/ Probe(a) \/ ReapControl(a) \/ LoseControl(a) \/ ProbeAnswered(a)
         \/ ProbeFails(a) \/ Abandons(a) \/ ProbeReaped(a) \/ ControlExits(a)
    BY DEF BeginAttach, AttachStep, Attach, AttachNext, AttachSteps, StoppedSteps, TakeSeat,
           NoSeat, Register, Unregister, GiveUpSeat, Terminate, DropReserving
  <1> QED
    BY <1>3, <1>4, <1>5, <1>6, <1>7, <1>8, <1>9, <1>10, <1>11

\* A step of a shutdown leaves the clients alone, and returns only if none is left.
LEMMA ShutdownRefines ==
  ASSUME IInv, IInv', NEW s \in Shutdowns, ShutdownExecutor(s) \/ ShutdownClients(s)
  PROVE  /\ UNCHANGED <<Live, ProbesCutOff>>
         /\ \/ UNCHANGED HasReturned
            \/ HasReturned' /\ Live = {}
  <1>1. UNCHANGED <<child, client, probe>>
    BY DEF ShutdownExecutor, ShutdownClients, ExecShutdown, PersistentShutdown,
           ShutdownMarks, ShutdownCloses, ShutdownChecks, ShutdownWaits, ShutdownWakes,
           HaltMarks, HaltCloses, HaltChecks, HaltWaits, HaltWakes, execVars,
           persistentVars, taskVars, attachVars
  <1>2. UNCHANGED <<Live, ProbesCutOff>>
    BY <1>1 DEF Live, Dispatched, Connected, Probing, ProbesCutOff
  <1>3. HasReturned => HasReturned'
    <2> SUFFICES ASSUME NEW t \in Shutdowns, stop[t] = "done", halt[t] = "done"
                 PROVE  stop'[t] = "done" /\ halt'[t] = "done"
      BY DEF HasReturned, Returned
    <2>t. stop \in [Shutdowns -> LoopStages] /\ halt \in [Shutdowns -> LoopStages]
      BY DEF IInv, ExecInv, ExecOwnership, ExecTypeOK, PersistentInv, PersistentOwnership,
             PersistentTypeOK
    <2>1. stop'[t] = "done"
      BY <2>t
      DEF ShutdownExecutor, ShutdownClients, ExecShutdown, ShutdownMarks, ShutdownCloses,
          ShutdownChecks, ShutdownWaits, ShutdownWakes, execVars, stopVars
    <2>2. halt'[t] = "done"
      BY <2>t
      DEF ShutdownExecutor, ShutdownClients, PersistentShutdown, HaltMarks, HaltCloses,
          HaltChecks, HaltWaits, HaltWakes, persistentVars, haltVars
    <2> QED
      BY <2>1, <2>2
  <1>4. HasReturned' => Live' = {}
    BY ReturnedMeansNoneNext
  <1>5. HasReturned \in BOOLEAN /\ HasReturned' \in BOOLEAN
    BY DEF HasReturned
  <1> QED
    BY <1>2, <1>3, <1>4, <1>5

\* Every step of the handle is a step of ClientRegistry, or none: a shutdown that
\* returns leaves no client behind but the probes its attaches have cut off, and
\* none is started afterwards.
THEOREM RegistryIsKept == Spec => KeepsRegistry
  <1> USE DEF Live, HasReturned
  <1>1. Init => Registry!Init
    BY DEF Init, ExecInit, PersistentInit, Registry!Init, Dispatched, Connected, Unreaped,
           Probing, ProbesCutOff, Returned
  <1>2. ASSUME IInv, [Next]_vars PROVE [Registry!Next]_(Registry!vars)
    <2> USE DEF Registry!Next, Registry!vars, Registry!Launch, Registry!Leave,
                Registry!CutOff, Registry!ReapedApart, Registry!ShutdownReturns
    <2>1. ASSUME NEW r \in Requests, Dispatch(r) \/ RequestStep(r)
          PROVE  [Registry!Next]_(Registry!vars)
      BY <1>2, <2>1, RequestRefines
    <2>2. ASSUME NEW a \in Attaches, BeginAttach(a) \/ AttachStep(a)
          PROVE  [Registry!Next]_(Registry!vars)
      BY <1>2, <2>2, AttachRefines
    <2>3. ASSUME NEW s \in Shutdowns, ShutdownExecutor(s) \/ ShutdownClients(s)
          PROVE  [Registry!Next]_(Registry!vars)
      BY <1>2, <2>3, StepKeeps, ShutdownRefines
    <2>4. CASE UNCHANGED vars
      BY <2>4
      DEF vars, execVars, persistentVars, taskVars, attachVars, stopVars, haltVars,
          Dispatched, Connected, Probing, ProbesCutOff, Returned
    <2> QED
      BY <1>2, <2>1, <2>2, <2>3, <2>4 DEF Next
  <1> QED
    BY <1>1, <1>2, Invariance, PTL DEF Spec, KeepsRegistry, Registry!Spec

=============================================================================
