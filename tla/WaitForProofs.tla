---------------------------- MODULE WaitForProofs ----------------------------
(***************************************************************************)
(* What the channels of `wait-for` promise (libtmux::internal::wait_for):  *)
(* those who wait on one and those who lock one.                           *)
(*                                                                         *)
(* Waits: the invariants of ChannelWaits for every set of callers and any  *)
(* number of signals.  None of them is inductive alone: that a drop may    *)
(* overwrite `kept` needs the count of the callers to be exact, and that a *)
(* released caller is signalled needs the entry, with its count of         *)
(* releases, to outlive it.                                                *)
(*                                                                         *)
(* Locks: LockScopes keeps its type, excludes and accounts for every       *)
(* grant, for any callers.  The grant of a call is in one place at a time: *)
(* with its client, in the oneshot, with the caller, in an unlock on its   *)
(* way, or stranded.  tmux's holder is the call whose grant is somewhere,  *)
(* so that there is one, and an unlock that lands is always the holder's.  *)
(***************************************************************************)
EXTENDS ChannelWaits, LockScopes, FiniteSetTheorems, SequenceTheorems, TLAPS

-----------------------------------------------------------------------------
(* Waits: the inductive invariant.                                         *)

\* A call that waits counted the releases when it joined: more have come
\* since exactly if one found it waiting.
SeenIsExact ==
  \A c \in Waiting :
    IF released[c] THEN seen[c] < channel.releases ELSE seen[c] = channel.releases

\* A call has a result exactly when it is done, and goes round again only if
\* no release found it.
ResultsAreFinal ==
  \A c \in Callers :
    /\ pc[c] # "done" => result[c] = "none"
    /\ pc[c] \in {"idle", "rejoin"} => ~released[c]

\* A release some caller has yet to hear, or that is kept, was handed to no
\* later call.
Pending == channel.kept \/ \E c \in Waiting : released[c]

HandedIsBacked == handed + (IF Pending THEN 1 ELSE 0) <= total

WaitIInv ==
  /\ TypeOK
  /\ EntryMatchesItsUsers
  /\ KeptMeansNobodyWaits
  /\ SeenIsExact
  /\ ResultsAreFinal
  /\ ReleasedCallerIsSignalled
  /\ HandedIsBacked

-----------------------------------------------------------------------------
\* A caller that joins is one more, a caller that leaves one fewer.
LEMMA WaitingIsFinite == IsFiniteSet(Waiting) /\ Cardinality(Waiting) \in Nat
  BY CallersAssumption, FS_Subset, FS_CardinalityType DEF Waiting

LEMMA CallerJoins ==
  ASSUME TypeOK, NEW c \in Callers, pc[c] # "select",
         pc' = [pc EXCEPT ![c] = "select"]
  PROVE  Waiting' = Waiting \cup {c} /\ Cardinality(Waiting') = Cardinality(Waiting) + 1
  <1>1. Waiting' = Waiting \cup {c} /\ c \notin Waiting
    BY DEF Waiting, TypeOK
  <1> QED
    BY <1>1, WaitingIsFinite, FS_AddElement

LEMMA CallerLeaves ==
  ASSUME TypeOK, NEW c \in Callers, pc[c] = "select",
         NEW to \in {"rejoin", "done"}, pc' = [pc EXCEPT ![c] = to]
  PROVE  /\ Waiting' = Waiting \ {c}
         /\ Cardinality(Waiting') = Cardinality(Waiting) - 1
         /\ Cardinality(Waiting) = 1 => Waiting' = {}
  <1>1. Waiting' = Waiting \ {c} /\ c \in Waiting
    BY DEF Waiting, TypeOK
  <1>2. Cardinality(Waiting') = Cardinality(Waiting) - 1 /\ IsFiniteSet(Waiting')
    BY <1>1, WaitingIsFinite, FS_RemoveElement
  <1>3. Cardinality(Waiting) = 1 => Waiting' = {}
    BY <1>2, FS_EmptySet
  <1> QED
    BY <1>1, <1>2, <1>3

\* An entry that is stored, or removed for being idle, reads the same.
LEMMA StoredEntry ==
  ASSUME NEW s \in Channel, Store(s)
  PROVE  /\ present' \in BOOLEAN /\ channel' \in Channel
         /\ present' <=> ~IsIdle(channel')
         /\ ~present' => channel' = Default
         /\ channel'.kept <=> s.kept
         /\ channel'.waiting = s.waiting
         /\ channel'.resident <=> s.resident
         /\ s.waiting > 0 => channel'.releases = s.releases
  <1>1. CASE IsIdle(s)
    <2>1. ~present' /\ present' \in BOOLEAN /\ channel' = Default
      BY <1>1 DEF Store
    <2>2. IsIdle(Default) /\ Default \in Channel
      BY DEF IsIdle, Default, Channel
    <2>3. ~s.kept /\ s.waiting = 0 /\ ~s.resident
      BY <1>1 DEF IsIdle
    <2> QED
      BY <2>1, <2>2, <2>3 DEF Default
  <1>2. CASE ~IsIdle(s)
    BY <1>2 DEF Store
  <1> QED
    BY <1>1, <1>2

-----------------------------------------------------------------------------
THEOREM WaitInitEstablishes == Init => WaitIInv
  <1> SUFFICES ASSUME Init PROVE WaitIInv
    OBVIOUS
  <1> USE DEF Init
  <1>1. Waiting = {} /\ Cardinality(Waiting) = 0
    BY FS_EmptySet DEF Waiting
  <1>a. signals \in 0..MaxSignals
    BY SignalsAssumption
  <1>b. channel \in Channel /\ clients \in [Stages -> Nat]
    BY DEF Channel, Default
  <1>2. TypeOK
    BY <1>a, <1>b DEF TypeOK, Outcomes
  <1>c. InFlight = 0
    BY DEF InFlight, Stages
  <1>d. IsIdle(channel) /\ ~channel.resident /\ channel.waiting = 0
    BY DEF IsIdle, Default
  <1>3. EntryMatchesItsUsers
    BY <1>1, <1>c, <1>d DEF EntryMatchesItsUsers
  <1>4. KeptMeansNobodyWaits /\ SeenIsExact
    BY <1>1 DEF KeptMeansNobodyWaits, SeenIsExact, Default
  <1>5. ResultsAreFinal /\ ReleasedCallerIsSignalled
    BY DEF ResultsAreFinal, ReleasedCallerIsSignalled
  <1>6. HandedIsBacked
    BY <1>1 DEF HandedIsBacked, Pending, Default
  <1> QED
    BY <1>2, <1>3, <1>4, <1>5, <1>6 DEF WaitIInv

-----------------------------------------------------------------------------
(* One lemma per action: what it preserves of WaitIInv.                        *)

LEMMA JoinKeptStep ==
  ASSUME WaitIInv, NEW c \in Callers, JoinKept(c)
  PROVE  WaitIInv'
  <1> DEFINE s == [channel EXCEPT !.kept = FALSE]
  <1>a. /\ TypeOK /\ EntryMatchesItsUsers /\ KeptMeansNobodyWaits /\ SeenIsExact
        /\ ResultsAreFinal /\ ReleasedCallerIsSignalled /\ HandedIsBacked
    BY DEF WaitIInv
  <1>1. s \in Channel /\ Store(s) /\ ~s.kept /\ s.waiting = 0
        /\ (s.resident <=> channel.resident)
    BY <1>a DEF JoinKept, TypeOK, Channel, KeptMeansNobodyWaits
  <1> HIDE DEF s
  <1>2. /\ present' \in BOOLEAN /\ channel' \in Channel
        /\ (present' <=> ~IsIdle(channel')) /\ (~present' => channel' = Default)
        /\ ~channel'.kept /\ channel'.waiting = 0
        /\ (channel'.resident <=> channel.resident)
    BY <1>1, StoredEntry
  <1>3. Waiting = {} /\ Waiting' = {} /\ channel.waiting = 0
    BY <1>a DEF KeptMeansNobodyWaits, JoinKept, Return, Waiting, TypeOK
  <1>b. handed' \in Nat /\ total' \in Nat
    BY <1>a DEF TypeOK, JoinKept
  <1>4. TypeOK'
    BY <1>a, <1>b, <1>2 DEF TypeOK, JoinKept, Return, tmuxVars, Outcomes
  <1>c. InFlight' = InFlight /\ Cardinality(Waiting') = 0
    BY <1>3, FS_EmptySet DEF InFlight, JoinKept, tmuxVars
  <1>5. EntryMatchesItsUsers'
    BY <1>a, <1>c, <1>2, <1>3, Zenon DEF EntryMatchesItsUsers
  <1>6. KeptMeansNobodyWaits' /\ SeenIsExact'
    BY <1>2, <1>3 DEF KeptMeansNobodyWaits, SeenIsExact
  <1>7. ResultsAreFinal' /\ ReleasedCallerIsSignalled'
    BY <1>a DEF ResultsAreFinal, ReleasedCallerIsSignalled, JoinKept, Return, TypeOK
  <1>8. HandedIsBacked'
    BY <1>a, <1>2, <1>3 DEF HandedIsBacked, Pending, JoinKept, TypeOK
  <1> QED
    BY <1>4, <1>5, <1>6, <1>7, <1>8 DEF WaitIInv

LEMMA JoinWaitingStep ==
  ASSUME WaitIInv, NEW c \in Callers, JoinWaiting(c)
  PROVE  WaitIInv'
  <1> DEFINE s == [channel EXCEPT !.waiting = @ + 1, !.resident = TRUE,
                                  !.failure = @ /\ channel.resident]
  <1>a. /\ TypeOK /\ EntryMatchesItsUsers /\ KeptMeansNobodyWaits /\ SeenIsExact
        /\ ResultsAreFinal /\ ReleasedCallerIsSignalled /\ HandedIsBacked
    BY DEF WaitIInv
  <1>b. channel.waiting + 1 \in Nat /\ channel.waiting + 1 > 0
    BY <1>a DEF TypeOK, Channel
  <1>1. /\ s \in Channel /\ Store(s) /\ ~s.kept /\ s.resident
        /\ s.waiting = channel.waiting + 1 /\ s.releases = channel.releases
    BY <1>a, <1>b DEF JoinWaiting, TypeOK, Channel
  <1> HIDE DEF s
  <1>2. /\ present' \in BOOLEAN /\ channel' \in Channel
        /\ (present' <=> ~IsIdle(channel')) /\ (~present' => channel' = Default)
        /\ ~channel'.kept /\ channel'.waiting = channel.waiting + 1
        /\ channel'.resident /\ channel'.releases = channel.releases
    BY <1>1, <1>b, StoredEntry
  <1>3. Waiting' = Waiting \cup {c} /\ Cardinality(Waiting') = Cardinality(Waiting) + 1
    BY <1>a, CallerJoins DEF JoinWaiting
  <1>4. TypeOK'
    BY <1>a, <1>2 DEF TypeOK, JoinWaiting, Stages, Channel
  <1>5. InFlight' = 1
    BY <1>a DEF EntryMatchesItsUsers, InFlight, JoinWaiting, TypeOK, Stages
  <1>6. EntryMatchesItsUsers'
    BY <1>a, <1>2, <1>3, <1>5, Zenon DEF EntryMatchesItsUsers
  <1>7. KeptMeansNobodyWaits'
    BY <1>2 DEF KeptMeansNobodyWaits
  <1>8. SeenIsExact'
    BY <1>a, <1>2, <1>3 DEF SeenIsExact, JoinWaiting, TypeOK, Waiting
  <1>9. ResultsAreFinal' /\ ReleasedCallerIsSignalled'
    BY <1>a DEF ResultsAreFinal, ReleasedCallerIsSignalled, JoinWaiting, TypeOK
  <1>10. Pending' => Pending
    BY <1>a, <1>2, <1>3 DEF Pending, JoinWaiting, TypeOK
  <1>11. HandedIsBacked'
    BY <1>a, <1>10 DEF HandedIsBacked, JoinWaiting, TypeOK
  <1> QED
    BY <1>4, <1>6, <1>7, <1>8, <1>9, <1>11 DEF WaitIInv

LEMMA ElapseStep ==
  ASSUME WaitIInv, NEW c \in Callers, Elapse(c)
  PROVE  WaitIInv'
  BY DEF WaitIInv, Elapse, TypeOK, EntryMatchesItsUsers, KeptMeansNobodyWaits, SeenIsExact,
         ResultsAreFinal, ReleasedCallerIsSignalled, HandedIsBacked, Pending, Waiting,
         InFlight, entryVars, tmuxVars, history

\* What Settle and DropWaiter share: the caller's place is given up.
LEMMA PlaceGivenUp ==
  ASSUME WaitIInv, NEW c \in Callers, pc[c] = "select",
         NEW to \in {"rejoin", "done"}, pc' = [pc EXCEPT ![c] = to],
         NEW s \in Channel, Store(s), s.waiting = channel.waiting - 1,
         s.resident <=> channel.resident, s.releases = channel.releases,
         UNCHANGED <<clients, seen, released>>
  PROVE  /\ present' \in BOOLEAN /\ channel' \in Channel
         /\ EntryMatchesItsUsers'
         /\ SeenIsExact'
         /\ Waiting' \subseteq Waiting
         /\ channel.waiting = 1 => channel'.waiting = 0 /\ Waiting' = {}
         /\ ~channel.kept
         /\ channel'.kept <=> s.kept
  <1>a. TypeOK /\ EntryMatchesItsUsers /\ KeptMeansNobodyWaits /\ SeenIsExact
    BY DEF WaitIInv
  <1>1. /\ Waiting' = Waiting \ {c} /\ Cardinality(Waiting') = Cardinality(Waiting) - 1
        /\ Cardinality(Waiting) = 1 => Waiting' = {}
    BY <1>a, CallerLeaves
  <1>2. /\ present' \in BOOLEAN /\ channel' \in Channel
        /\ (present' <=> ~IsIdle(channel')) /\ (~present' => channel' = Default)
        /\ channel'.waiting = s.waiting
        /\ (channel'.resident <=> channel.resident) /\ (channel'.kept <=> s.kept)
        /\ s.waiting > 0 => channel'.releases = channel.releases
    BY StoredEntry
  <1>3. channel.waiting = Cardinality(Waiting) /\ channel'.waiting = Cardinality(Waiting')
    BY <1>a, <1>1, <1>2 DEF EntryMatchesItsUsers
  <1>4. InFlight' = InFlight
    BY DEF InFlight
  <1>5. EntryMatchesItsUsers'
    BY <1>a, <1>2, <1>3, <1>4, Zenon DEF EntryMatchesItsUsers
  <1>6. ASSUME Waiting' # {} PROVE channel'.releases = channel.releases
    <2>1. IsFiniteSet(Waiting')
      BY <1>1, WaitingIsFinite, FS_RemoveElement
    <2>2. Cardinality(Waiting') # 0 /\ Cardinality(Waiting') \in Nat
      BY <1>6, <2>1, FS_EmptySet, FS_CardinalityType
    <2> QED
      BY <1>2, <1>3, <2>2
  <1>7. SeenIsExact'
    BY <1>a, <1>1, <1>6 DEF SeenIsExact
  <1>8. ~channel.kept
    BY <1>a DEF KeptMeansNobodyWaits, Waiting
  <1>9. channel.waiting = 1 => channel'.waiting = 0 /\ Waiting' = {}
    BY <1>1, <1>2, <1>3
  <1> QED
    BY <1>1, <1>2, <1>5, <1>7, <1>8, <1>9

\* A caller that waits is counted, and takes the signal exactly if a release
\* found it waiting.
LEMMA WaitingCaller ==
  ASSUME WaitIInv, NEW c \in Callers, pc[c] = "select"
  PROVE  /\ channel.waiting - 1 \in Nat
         /\ released[c] <=> channel.releases > seen[c]
  <1>1. c \in Waiting /\ TypeOK /\ SeenIsExact /\ EntryMatchesItsUsers
    BY DEF WaitIInv, Waiting
  <1>2. channel.waiting # 0 /\ channel.waiting \in Nat
    BY <1>1, WaitingIsFinite, FS_EmptySet DEF EntryMatchesItsUsers
  <1>3. seen[c] \in Nat /\ channel.releases \in Nat
    BY <1>1 DEF TypeOK, Channel
  <1>4. released[c] => channel.releases > seen[c]
    BY <1>1, <1>3 DEF SeenIsExact
  <1>5. ~released[c] => ~(channel.releases > seen[c])
    BY <1>1, <1>3 DEF SeenIsExact
  <1> QED
    BY <1>2, <1>4, <1>5

LEMMA SettleStep ==
  ASSUME WaitIInv, NEW c \in Callers, Settle(c)
  PROVE  WaitIInv'
  <1> DEFINE s == [channel EXCEPT
                     !.waiting = @ - 1,
                     !.failure = IF Takes(c) = "failed" THEN FALSE ELSE @]
             to == IF Takes(c) = "gone" THEN "rejoin" ELSE "done"
  <1>a. /\ TypeOK /\ ResultsAreFinal /\ ReleasedCallerIsSignalled /\ HandedIsBacked
    BY DEF WaitIInv
  <1>b. pc[c] = "select" /\ Store(s) /\ UNCHANGED <<clients, seen, released>>
    BY DEF Settle, tmuxVars
  <1>c. channel.waiting - 1 \in Nat /\ (released[c] <=> channel.releases > seen[c])
    BY <1>b, WaitingCaller
  <1>d. to \in {"rejoin", "done"} /\ pc' = [pc EXCEPT ![c] = to]
    BY DEF Settle, Return
  <1>e. Takes(c) \in {"signalled", "timedOut", "failed", "gone"}
        /\ (released[c] => Takes(c) = "signalled")
    BY <1>c DEF Takes
  <1>1. /\ s \in Channel /\ s.waiting = channel.waiting - 1
        /\ (s.resident <=> channel.resident) /\ s.releases = channel.releases
        /\ (s.kept <=> channel.kept)
    BY <1>a, <1>c DEF TypeOK, Channel
  <1> HIDE DEF s, to
  <1>2. /\ present' \in BOOLEAN /\ channel' \in Channel
        /\ EntryMatchesItsUsers' /\ SeenIsExact' /\ Waiting' \subseteq Waiting
        /\ ~channel'.kept
    BY <1>b, <1>d, <1>1, PlaceGivenUp
  <1>3. result' = IF Takes(c) = "gone" THEN result ELSE [result EXCEPT ![c] = Takes(c)]
    BY DEF Settle, Return
  <1>4. TypeOK'
    <2>1. result' \in [Callers -> Outcomes]
      BY <1>a, <1>3, <1>e DEF TypeOK, Outcomes, Settle
    <2>2. pc' \in [Callers -> {"idle", "select", "rejoin", "done"}]
      BY <1>a, <1>d DEF TypeOK
    <2> QED
      BY <1>a, <1>2, <2>1, <2>2 DEF TypeOK, Settle, tmuxVars
  <1>5. KeptMeansNobodyWaits'
    BY <1>2 DEF KeptMeansNobodyWaits
  <1>6. ResultsAreFinal'
    BY <1>a, <1>b, <1>d, <1>e, <1>3 DEF ResultsAreFinal, TypeOK, to
  <1>7. ReleasedCallerIsSignalled'
    BY <1>a, <1>b, <1>e, <1>3 DEF ReleasedCallerIsSignalled, TypeOK
  <1>8. Pending' => Pending
    BY <1>b, <1>2 DEF Pending
  <1>9. HandedIsBacked'
    BY <1>a, <1>8 DEF HandedIsBacked, Settle, TypeOK
  <1> QED
    BY <1>2, <1>4, <1>5, <1>6, <1>7, <1>9 DEF WaitIInv

LEMMA DropWaiterStep ==
  ASSUME WaitIInv, NEW c \in Callers, DropWaiter(c)
  PROVE  WaitIInv'
  <1> DEFINE s == [channel EXCEPT
                     !.waiting = @ - 1,
                     !.kept = channel.releases > seen[c] /\ channel.waiting = 1]
  <1>a. /\ TypeOK /\ ResultsAreFinal /\ ReleasedCallerIsSignalled /\ HandedIsBacked
    BY DEF WaitIInv
  <1>b. pc[c] = "select" /\ Store(s) /\ UNCHANGED <<clients, seen, released>>
    BY DEF DropWaiter, tmuxVars, history
  <1>c. channel.waiting - 1 \in Nat /\ (released[c] <=> channel.releases > seen[c])
    BY <1>b, WaitingCaller
  <1>d. pc' = [pc EXCEPT ![c] = "done"] /\ result' = [result EXCEPT ![c] = "dropped"]
    BY DEF DropWaiter, Return
  <1>1. /\ s \in Channel /\ s.waiting = channel.waiting - 1
        /\ (s.resident <=> channel.resident) /\ s.releases = channel.releases
    BY <1>a, <1>c DEF TypeOK, Channel
  <1>e. s.kept => channel.releases > seen[c] /\ channel.waiting = 1
    BY <1>a DEF TypeOK, Channel
  <1> HIDE DEF s
  <1>2. /\ present' \in BOOLEAN /\ channel' \in Channel
        /\ EntryMatchesItsUsers' /\ SeenIsExact' /\ Waiting' \subseteq Waiting
        /\ (channel.waiting = 1 => channel'.waiting = 0 /\ Waiting' = {})
        /\ (channel'.kept <=> s.kept)
    BY <1>b, <1>d, <1>1, PlaceGivenUp
  <1>3. TypeOK'
    BY <1>a, <1>2, <1>d DEF TypeOK, DropWaiter, tmuxVars, history, Outcomes
  <1>4. KeptMeansNobodyWaits'
    BY <1>2, <1>e DEF KeptMeansNobodyWaits
  <1>5. ResultsAreFinal' /\ ReleasedCallerIsSignalled'
    BY <1>a, <1>b, <1>d DEF ResultsAreFinal, ReleasedCallerIsSignalled, TypeOK
  <1>6. channel'.kept => released[c] /\ c \in Waiting
    BY <1>2, <1>b, <1>c, <1>e DEF Waiting
  <1>7. Pending' => Pending
    BY <1>b, <1>2, <1>6 DEF Pending
  <1>8. HandedIsBacked'
    BY <1>a, <1>7 DEF HandedIsBacked, DropWaiter, TypeOK, history
  <1> QED
    BY <1>2, <1>3, <1>4, <1>5, <1>8 DEF WaitIInv

\* A client that has ended was the only one: the entry knew of it.
LEMMA EndedClient ==
  ASSUME WaitIInv, NEW stage \in {"released", "failed"}, clients[stage] > 0,
         clients' = [clients EXCEPT ![stage] = @ - 1]
  PROVE  channel.resident /\ InFlight' = 0 /\ clients' \in [Stages -> Nat]
  <1>1. /\ clients \in [Stages -> Nat]
        /\ InFlight = IF channel.resident THEN 1 ELSE 0
    BY DEF WaitIInv, TypeOK, EntryMatchesItsUsers
  <1>2. channel.resident /\ InFlight = 1
    BY <1>1 DEF InFlight, Stages
  <1>3. InFlight' = 0 /\ clients' \in [Stages -> Nat]
    BY <1>1, <1>2 DEF InFlight, Stages
  <1> QED
    BY <1>2, <1>3

LEMMA FinishSignalledStep ==
  ASSUME WaitIInv, FinishSignalled
  PROVE  WaitIInv'
  <1> DEFINE s == [channel EXCEPT !.resident = FALSE, !.releases = @ + 1,
                                  !.kept = (channel.waiting = 0)]
  <1>a. /\ TypeOK /\ EntryMatchesItsUsers /\ KeptMeansNobodyWaits /\ SeenIsExact
        /\ ResultsAreFinal /\ ReleasedCallerIsSignalled /\ HandedIsBacked
    BY DEF WaitIInv
  <1>b. /\ Store(s) /\ InFlight' = 0 /\ clients' \in [Stages -> Nat]
        /\ Waiting' = Waiting
    BY EndedClient DEF FinishSignalled, Waiting
  <1>c. channel.releases \in Nat /\ channel.releases + 1 \in Nat
    BY <1>a DEF TypeOK, Channel
  <1>1. /\ s \in Channel /\ s.waiting = channel.waiting /\ ~s.resident
        /\ s.releases = channel.releases + 1
        /\ (s.kept <=> channel.waiting = 0)
    BY <1>a, <1>c DEF TypeOK, Channel
  <1> HIDE DEF s
  <1>2. /\ present' \in BOOLEAN /\ channel' \in Channel
        /\ (present' <=> ~IsIdle(channel')) /\ (~present' => channel' = Default)
        /\ channel'.waiting = channel.waiting /\ ~channel'.resident
        /\ (channel'.kept <=> channel.waiting = 0)
        /\ (channel.waiting > 0 => channel'.releases = channel.releases + 1)
    BY <1>b, <1>1, StoredEntry
  <1>3. released' \in [Callers -> BOOLEAN] /\ \A c \in Waiting : released'[c]
    BY <1>a DEF FinishSignalled, TypeOK, Waiting
  <1>d. total' \in Nat /\ total' = total + 1 /\ handed' = handed /\ handed \in Nat
        /\ total \in Nat
    BY <1>a DEF FinishSignalled, TypeOK
  <1>e. woken' \in [Callers -> BOOLEAN]
    BY <1>a DEF FinishSignalled, Wake, TypeOK
  <1>4. TypeOK'
    BY <1>a, <1>b, <1>2, <1>3, <1>d, <1>e DEF TypeOK, FinishSignalled
  <1>5. EntryMatchesItsUsers'
    BY <1>a, <1>b, <1>2, Zenon DEF EntryMatchesItsUsers
  <1>6. channel.waiting = 0 => Waiting = {}
    BY <1>a, WaitingIsFinite, FS_EmptySet DEF EntryMatchesItsUsers
  <1>7. KeptMeansNobodyWaits'
    BY <1>b, <1>2, <1>6 DEF KeptMeansNobodyWaits
  <1>8. SeenIsExact'
    <2> SUFFICES ASSUME NEW c \in Waiting
                 PROVE  released'[c] /\ seen'[c] < channel'.releases
      BY <1>b DEF SeenIsExact
    <2>1. channel.waiting \in Nat /\ channel.waiting # 0 /\ seen[c] \in Nat
      BY <1>a, <1>6 DEF TypeOK, Channel, Waiting
    <2>2. seen[c] <= channel.releases
      BY <1>a, <1>c, <2>1 DEF SeenIsExact
    <2>3. channel'.releases = channel.releases + 1 /\ seen' = seen
      BY <1>2, <2>1 DEF FinishSignalled
    <2> QED
      BY <1>3, <1>c, <2>1, <2>2, <2>3
  <1>9. ResultsAreFinal' /\ ReleasedCallerIsSignalled'
    BY <1>a DEF ResultsAreFinal, ReleasedCallerIsSignalled, FinishSignalled, TypeOK,
                Waiting
  <1>f. handed <= total
    BY <1>a, <1>d DEF HandedIsBacked
  <1>10. HandedIsBacked'
    BY <1>d, <1>f DEF HandedIsBacked
  <1> QED
    BY <1>4, <1>5, <1>7, <1>8, <1>9, <1>10 DEF WaitIInv

LEMMA FinishFailedStep ==
  ASSUME WaitIInv, FinishFailed
  PROVE  WaitIInv'
  <1> DEFINE s == [channel EXCEPT !.resident = FALSE, !.failure = TRUE]
  <1>a. /\ TypeOK /\ EntryMatchesItsUsers /\ KeptMeansNobodyWaits /\ SeenIsExact
        /\ ResultsAreFinal /\ ReleasedCallerIsSignalled /\ HandedIsBacked
    BY DEF WaitIInv
  <1>b. /\ Store(s) /\ InFlight' = 0 /\ clients' \in [Stages -> Nat]
        /\ Waiting' = Waiting
    BY EndedClient DEF FinishFailed, Waiting
  <1>1. /\ s \in Channel /\ ~s.resident /\ s.failure /\ s = channel'
        /\ channel'.waiting = channel.waiting /\ channel'.releases = channel.releases
        /\ (channel'.kept <=> channel.kept) /\ present' \in BOOLEAN /\ present'
        /\ ~IsIdle(channel')
    BY <1>a, <1>b DEF TypeOK, Channel, Store, IsIdle
  <1> HIDE DEF s
  <1>2. woken' \in [Callers -> BOOLEAN]
    BY <1>a DEF FinishFailed, Wake, TypeOK
  <1>3. TypeOK'
    BY <1>a, <1>b, <1>1, <1>2 DEF TypeOK, FinishFailed, history
  <1>4. EntryMatchesItsUsers'
    BY <1>a, <1>b, <1>1, Zenon DEF EntryMatchesItsUsers
  <1>5. KeptMeansNobodyWaits' /\ SeenIsExact'
    BY <1>a, <1>b, <1>1 DEF KeptMeansNobodyWaits, SeenIsExact, FinishFailed, history
  <1>6. ResultsAreFinal' /\ ReleasedCallerIsSignalled'
    BY <1>a DEF ResultsAreFinal, ReleasedCallerIsSignalled, FinishFailed, history
  <1>7. HandedIsBacked'
    BY <1>a, <1>b, <1>1 DEF HandedIsBacked, Pending, FinishFailed, history
  <1> QED
    BY <1>3, <1>4, <1>5, <1>6, <1>7 DEF WaitIInv

\* Steps that leave the entry and the callers alone.
LEMMA OutsideStep ==
  ASSUME WaitIInv, UNCHANGED <<entryVars, callerVars, history>>,
         clients' \in [Stages -> Nat], InFlight' = InFlight,
         latch' \in BOOLEAN, signals' \in 0..MaxSignals
  PROVE  WaitIInv'
  <1> USE DEF entryVars, callerVars, history
  <1>1. TypeOK' /\ Waiting' = Waiting
    BY DEF WaitIInv, TypeOK, Waiting
  <1>2. EntryMatchesItsUsers' /\ KeptMeansNobodyWaits' /\ SeenIsExact'
    BY <1>1 DEF WaitIInv, EntryMatchesItsUsers, KeptMeansNobodyWaits, SeenIsExact
  <1>3. ResultsAreFinal' /\ ReleasedCallerIsSignalled' /\ HandedIsBacked'
    BY <1>1 DEF WaitIInv, ResultsAreFinal, ReleasedCallerIsSignalled, HandedIsBacked, Pending
  <1> QED
    BY <1>1, <1>2, <1>3 DEF WaitIInv

LEMMA ClientMoves ==
  ASSUME TypeOK, NEW from \in Stages, NEW to \in Stages, from # to, clients[from] > 0,
         clients' = Move(from, to)
  PROVE  clients' \in [Stages -> Nat] /\ InFlight' = InFlight
  BY DEF TypeOK, Move, InFlight, Stages

LEMMA TmuxStep ==
  ASSUME WaitIInv, ClientArrives \/ ClientFails \/ Signal
  PROVE  WaitIInv'
  <1>1. TypeOK /\ latch \in BOOLEAN /\ signals \in 0..MaxSignals
    BY DEF WaitIInv, TypeOK
  <1>2. CASE ClientArrives
    <2>1. clients' \in [Stages -> Nat] /\ InFlight' = InFlight
      BY <1>1, <1>2, ClientMoves DEF ClientArrives, Stages
    <2> QED
      BY <1>1, <1>2, <2>1, OutsideStep DEF ClientArrives
  <1>3. CASE ClientFails
    <2>1. clients' \in [Stages -> Nat] /\ InFlight' = InFlight
      BY <1>1, <1>3, ClientMoves DEF ClientFails, Stages
    <2> QED
      BY <1>1, <1>3, <2>1, OutsideStep DEF ClientFails
  <1>4. CASE Signal
    <2>1. clients' \in [Stages -> Nat] /\ InFlight' = InFlight
      BY <1>1, <1>4 DEF Signal, TypeOK, InFlight, Stages
    <2>2. signals' \in 0..MaxSignals
      BY <1>1, <1>4, SignalsAssumption DEF Signal
    <2>3. latch' \in BOOLEAN
      BY <1>1, <1>4 DEF Signal
    <2> QED
      BY <1>4, <2>1, <2>2, <2>3, OutsideStep DEF Signal
  <1> QED
    BY <1>2, <1>3, <1>4

-----------------------------------------------------------------------------
\* Every step of a caller, of the client or of tmux preserves the invariant.
THEOREM StepPreserves == WaitIInv /\ [Next]_vars => WaitIInv'
  <1> SUFFICES ASSUME WaitIInv, [Next]_vars PROVE WaitIInv'
    OBVIOUS
  <1>1. CASE Signal \/ ClientArrives \/ ClientFails
    BY <1>1, TmuxStep
  <1>2. CASE FinishSignalled
    BY <1>2, FinishSignalledStep
  <1>3. CASE FinishFailed
    BY <1>3, FinishFailedStep
  <1>4. ASSUME NEW c \in Callers, Caller(c) PROVE WaitIInv'
    BY <1>4, JoinKeptStep, JoinWaitingStep, ElapseStep, SettleStep, DropWaiterStep
       DEF Caller
  <1>5. CASE UNCHANGED vars
    BY <1>5, OutsideStep DEF vars, tmuxVars, WaitIInv, TypeOK, InFlight
  <1> QED
    BY <1>1, <1>2, <1>3, <1>4, <1>5 DEF Next, Client

\* The invariant holds in every reachable state: `ChannelWaits` is a correct
\* account of the channel's callers and client whatever their number.
THEOREM WaitInvariance == Spec => []WaitIInv
  BY WaitInitEstablishes, StepPreserves, PTL DEF Spec

\* The variables keep their types.
THEOREM WaitTypeCorrect == Spec => []TypeOK
  <1>1. WaitIInv => TypeOK
    BY DEF WaitIInv
  <1> QED
    BY <1>1, WaitInvariance, PTL

\* finish(), settle() and Waiter::drop always find the entry, its count is the
\* number of callers that wait, and the process never has a second client on
\* the channel.
THEOREM EntryIsAccounted == Spec => []EntryMatchesItsUsers
  <1>1. WaitIInv => EntryMatchesItsUsers
    BY DEF WaitIInv
  <1> QED
    BY <1>1, WaitInvariance, PTL

\* A signal is kept only while nobody waits, so a drop that overwrites `kept`
\* discards nothing.
THEOREM KeptIsSafe == Spec => []KeptMeansNobodyWaits
  <1>1. WaitIInv => KeptMeansNobodyWaits
    BY DEF WaitIInv
  <1> QED
    BY <1>1, WaitInvariance, PTL

\* A caller that was waiting when its client was released is never told that
\* it timed out or failed.
THEOREM ReleaseIsHeard == Spec => []ReleasedCallerIsSignalled
  <1>1. WaitIInv => ReleasedCallerIsSignalled
    BY DEF WaitIInv
  <1> QED
    BY <1>1, WaitInvariance, PTL

\* No signal is kept for two later waits.
THEOREM OneShot == Spec => []LatchIsOneShot
  <1>1. WaitIInv => LatchIsOneShot
    <2> SUFFICES ASSUME WaitIInv PROVE LatchIsOneShot
      OBVIOUS
    <2>1. handed \in Nat /\ total \in Nat /\ HandedIsBacked
      BY DEF WaitIInv, TypeOK
    <2>2. CASE Pending
      BY <2>1, <2>2 DEF HandedIsBacked, LatchIsOneShot
    <2>3. CASE ~Pending
      BY <2>1, <2>3 DEF HandedIsBacked, LatchIsOneShot, Pending
    <2> QED
      BY <2>2, <2>3
  <1> QED
    BY <1>1, WaitInvariance, PTL

-----------------------------------------------------------------------------
(* Locks: the inductive invariant.                                         *)

\* What the caller, the oneshot and the task of one call know of each other.
CallIsConsistent(c) ==
  /\ lock[c] = "idle" <=> client[c] = "none"
  /\ client[c] = "none" => grant[c] = "open"
  /\ grant[c] = "ok" => client[c] = "ended"
  /\ grant[c] = "err" => client[c] \in {"killed", "ended"}
  /\ lock[c] = "racing" => grant[c] # "closed"
  /\ lock[c] = "held" => grant[c] = "ok"
  /\ lock[c] = "failed" => grant[c] # "open"
  /\ freeing[c] # "no" => lock[c] \in {"held", "failed"}

\* A stranded grant is nowhere else.
StrandedIsLost(c) ==
  c \in stranded =>
    /\ client[c] = "ended" /\ freeing[c] # "sent"
    /\ ~(lock[c] = "racing" /\ grant[c] = "ok")
    /\ ~(lock[c] = "held" /\ freeing[c] = "no")

\* A user that may act has the grant and has not begun to give it back.
ScopeIsConsistent(c) ==
  /\ scope[c] = "none" => lock[c] = "idle"
  /\ scope[c] = "operating" => lock[c] = "held" /\ freeing[c] = "no"
  /\ scope[c] \in {"bare", "creating", "abandoned"} /\ lock[c] = "held" => freeing[c] = "no"

Queued(c) == \E i \in DOMAIN lockers : lockers[i] = c

\* tmux queues the clients that wait for their turn, each once, behind a holder.
QueueIsExact ==
  /\ \A c \in Lockers : Queued(c) <=> client[c] \in {"queued", "killed"}
  /\ \A i, j \in DOMAIN lockers : lockers[i] = lockers[j] => i = j
  /\ lockers # <<>> => holder # Nobody

CallsAreConsistent ==
  \A c \in Lockers : CallIsConsistent(c) /\ StrandedIsLost(c) /\ ScopeIsConsistent(c)

ScopeIInv == ScopeTypeOK /\ CallsAreConsistent /\ QueueIsExact /\ GrantIsHeld

-----------------------------------------------------------------------------
LEMMA ScopeInitEstablishes == ScopeInit => ScopeIInv
  <1> SUFFICES ASSUME ScopeInit PROVE ScopeIInv
    OBVIOUS
  <1> USE DEF ScopeInit, LockInit
  <1>1. ScopeTypeOK
    BY DEF ScopeTypeOK, Uses
  <1>2. CallsAreConsistent
    BY DEF CallsAreConsistent, CallIsConsistent, StrandedIsLost, ScopeIsConsistent
  <1>3. QueueIsExact
    BY DEF QueueIsExact, Queued
  <1>4. GrantIsHeld
    BY LockersAssumption DEF GrantIsHeld, HasGrant
  <1> QED
    BY <1>1, <1>2, <1>3, <1>4 DEF ScopeIInv

\* tmux's queue is not touched by a step that leaves queued clients queued.
LEMMA QueueUntouched ==
  ASSUME QueueIsExact, UNCHANGED queueVars,
         \A c \in Lockers : client'[c] \in {"queued", "killed"}
                              <=> client[c] \in {"queued", "killed"}
  PROVE  QueueIsExact'
  BY DEF QueueIsExact, Queued, queueVars

-----------------------------------------------------------------------------
(* The callers and the scopes.                                             *)

\* A call begins.
LEMMA LockKeeps ==
  ASSUME ScopeIInv, NEW c \in Lockers, Lock(c),
         NEW to \in {"bare", "creating"}, scope[c] = "none", Enter(c, to)
  PROVE  ScopeIInv'
  <1> USE DEF ScopeIInv, Lock, Enter, queueVars
  <1>1. ScopeTypeOK'
    BY DEF ScopeTypeOK, Uses, CallsAreConsistent, CallIsConsistent
  <1>2. CallsAreConsistent'
    BY DEF ScopeTypeOK, CallsAreConsistent, CallIsConsistent, StrandedIsLost, ScopeIsConsistent
  <1>3. QueueIsExact'
    BY QueueUntouched DEF ScopeTypeOK, CallsAreConsistent, CallIsConsistent
  <1>4. GrantIsHeld'
    BY DEF ScopeTypeOK, CallsAreConsistent, CallIsConsistent, GrantIsHeld, HasGrant
  <1> QED
    BY <1>1, <1>2, <1>3, <1>4

\* The select of a call ends, with what the oneshot holds.
LEMMA SelectKeeps ==
  ASSUME ScopeIInv, NEW c \in Lockers, TakeGrant(c) \/ TimesOut(c), UNCHANGED scope
  PROVE  ScopeIInv'
  <1> USE DEF ScopeIInv, TakeGrant, TimesOut, LockBecomes, taskVars, queueVars
  <1>1. ScopeTypeOK'
    BY DEF ScopeTypeOK
  <1>2. CallsAreConsistent'
    BY DEF ScopeTypeOK, CallsAreConsistent, CallIsConsistent, StrandedIsLost, ScopeIsConsistent
  <1>3. QueueIsExact'
    BY QueueUntouched DEF ScopeTypeOK
  <1>4. GrantIsHeld'
    BY DEF ScopeTypeOK, CallsAreConsistent, CallIsConsistent, GrantIsHeld, HasGrant
  <1> QED
    BY <1>1, <1>2, <1>3, <1>4

\* The future of a call is dropped: the grant it reads back is given back.
LEMMA DropKeeps ==
  ASSUME ScopeIInv, NEW c \in Lockers, DropLock(c), UNCHANGED scope
  PROVE  ScopeIInv'
  <1> USE DEF ScopeIInv, DropLock, LockBecomes, queueVars
  <1>1. ScopeTypeOK'
    BY DEF ScopeTypeOK, CallsAreConsistent, CallIsConsistent
  <1>2. CallsAreConsistent'
    BY DEF ScopeTypeOK, CallsAreConsistent, CallIsConsistent, StrandedIsLost, ScopeIsConsistent
  <1>3. QueueIsExact'
    BY QueueUntouched DEF ScopeTypeOK
  <1>4. GrantIsHeld'
    BY DEF ScopeTypeOK, CallsAreConsistent, CallIsConsistent, GrantIsHeld, HasGrant
  <1> QED
    BY <1>1, <1>2, <1>3, <1>4

\* A grant is given back by the one who has it.
LEMMA UnlockKeeps ==
  ASSUME ScopeIInv, NEW c \in Lockers, Unlock(c),
         NEW to \in {"done", "finishing", "dropped"}, Enter(c, to)
  PROVE  ScopeIInv'
  <1> USE DEF ScopeIInv, Unlock, Enter, callVars, queueVars
  <1>1. ScopeTypeOK'
    BY DEF ScopeTypeOK, Uses, CallsAreConsistent, CallIsConsistent
  <1>2. CallsAreConsistent'
    BY DEF ScopeTypeOK, CallsAreConsistent, CallIsConsistent, StrandedIsLost, ScopeIsConsistent
  <1>3. QueueIsExact'
    BY QueueUntouched DEF ScopeTypeOK
  <1>4. GrantIsHeld'
    BY DEF ScopeTypeOK, CallsAreConsistent, CallIsConsistent, GrantIsHeld, HasGrant
  <1> QED
    BY <1>1, <1>2, <1>3, <1>4

\* A scope moves on without touching its lock.
LEMMA EnterKeeps ==
  ASSUME ScopeIInv, NEW c \in Lockers, UNCHANGED lockVars,
         NEW to \in Uses, Enter(c, to), scope[c] # "none", to \notin {"none", "bare"},
         to = "operating" => lock[c] = "held" /\ scope[c] = "creating",
         to = "creating" => FALSE,
         to = "abandoned" => scope[c] = "creating"
  PROVE  ScopeIInv'
  <1> USE DEF ScopeIInv, Enter, lockVars, callVars, taskVars, queueVars
  <1>1. ScopeTypeOK'
    BY DEF ScopeTypeOK
  <1>2. CallsAreConsistent'
    BY DEF ScopeTypeOK, CallsAreConsistent, CallIsConsistent, StrandedIsLost, ScopeIsConsistent
  <1>3. QueueIsExact'
    BY QueueUntouched
  <1>4. GrantIsHeld'
    BY DEF GrantIsHeld, HasGrant
  <1> QED
    BY <1>1, <1>2, <1>3, <1>4

-----------------------------------------------------------------------------
(* The tasks and tmux.                                                     *)

\* The task of a call answers, or its client is gone.
LEMMA TaskKeeps ==
  ASSUME ScopeIInv, NEW c \in Lockers, TaskSteps(c), UNCHANGED scope
  PROVE  ScopeIInv'
  <1> USE DEF ScopeIInv, Send, queueVars
  <1>1. CASE Answers(c)
    <2> USE <1>1 DEF Answers
    <2>1. ScopeTypeOK'
      BY DEF ScopeTypeOK
    <2>2. CallsAreConsistent'
      BY DEF ScopeTypeOK, CallsAreConsistent, CallIsConsistent, StrandedIsLost, ScopeIsConsistent
    <2>3. QueueIsExact'
      BY QueueUntouched DEF ScopeTypeOK
    <2>4. GrantIsHeld'
      BY DEF ScopeTypeOK, CallsAreConsistent, CallIsConsistent, GrantIsHeld, HasGrant
    <2> QED
      BY <2>1, <2>2, <2>3, <2>4
  <1>2. CASE LockRefused(c)
    <2> USE <1>2 DEF LockRefused
    <2>1. ScopeTypeOK'
      BY DEF ScopeTypeOK
    <2>2. CallsAreConsistent'
      BY DEF ScopeTypeOK, CallsAreConsistent, CallIsConsistent, StrandedIsLost, ScopeIsConsistent
    <2>3. QueueIsExact'
      BY QueueUntouched DEF ScopeTypeOK
    <2>4. GrantIsHeld'
      BY DEF ScopeTypeOK, CallsAreConsistent, CallIsConsistent, GrantIsHeld, HasGrant
    <2> QED
      BY <2>1, <2>2, <2>3, <2>4
  <1>3. CASE ClientLost(c)
    <2> USE <1>3 DEF ClientLost
    <2>1. ScopeTypeOK'
      BY DEF ScopeTypeOK
    <2>2. CallsAreConsistent'
      BY DEF ScopeTypeOK, CallsAreConsistent, CallIsConsistent, StrandedIsLost, ScopeIsConsistent
    <2>3. QueueIsExact'
      BY QueueUntouched DEF ScopeTypeOK
    <2>4. GrantIsHeld'
      BY DEF ScopeTypeOK, CallsAreConsistent, CallIsConsistent, GrantIsHeld, HasGrant
    <2> QED
      BY <2>1, <2>2, <2>3, <2>4
  <1> QED
    BY <1>1, <1>2, <1>3 DEF TaskSteps

\* A client takes a free lock, or its place at the end of the queue.
LEMMA ArrivesKeeps ==
  ASSUME ScopeIInv, NEW c \in Lockers, Arrives(c), UNCHANGED scope
  PROVE  ScopeIInv'
  <1> USE DEF ScopeIInv, Arrives, callVars
  <1>1. ScopeTypeOK'
    <2>1. client' \in [Lockers -> {"none", "starting", "queued", "granted", "killed", "ended"}]
      BY DEF ScopeTypeOK
    <2>2. holder' \in Lockers \cup {Nobody}
      BY DEF ScopeTypeOK
    <2>3. lockers' \in Seq(Lockers)
      <3>1. lockers' = lockers \/ lockers' = Append(lockers, c)
        OBVIOUS
      <3> QED
        BY <3>1 DEF ScopeTypeOK
    <2>4. \A d \in Lockers : client[d] = "ended" => client'[d] = "ended"
      BY DEF ScopeTypeOK
    <2> QED
      BY <2>1, <2>2, <2>3, <2>4 DEF ScopeTypeOK
  <1>2. CallsAreConsistent'
    BY DEF ScopeTypeOK, CallsAreConsistent, CallIsConsistent, StrandedIsLost, ScopeIsConsistent
  <1>3. GrantIsHeld'
    BY LockersAssumption
       DEF ScopeTypeOK, CallsAreConsistent, CallIsConsistent, GrantIsHeld, HasGrant
  <1>4. CASE holder = Nobody
    BY <1>1, <1>2, <1>3, <1>4, LockersAssumption DEF ScopeTypeOK, QueueIsExact, Queued
  <1>5. CASE holder # Nobody
    <2>1. /\ lockers' = Append(lockers, c) /\ lockers \in Seq(Lockers)
          /\ client' = [client EXCEPT ![c] = "queued"] /\ holder' = holder
          /\ client \in [Lockers -> {"none", "starting", "queued", "granted", "killed",
                                     "ended"}]
          /\ client[c] = "starting"
      BY <1>5 DEF ScopeTypeOK
    <2>2. /\ DOMAIN lockers' = DOMAIN lockers \cup {Len(lockers) + 1}
          /\ Len(lockers) + 1 \notin DOMAIN lockers
          /\ lockers'[Len(lockers) + 1] = c
          /\ \A i \in DOMAIN lockers : lockers'[i] = lockers[i]
      BY <2>1
    <2>3. \A d \in Lockers : Queued(d)' <=> Queued(d) \/ d = c
      BY <2>2 DEF Queued
    <2>4. ~Queued(c)
      BY <2>1 DEF QueueIsExact
    <2>5. \A i, j \in DOMAIN lockers' : lockers'[i] = lockers'[j] => i = j
      BY <2>2, <2>4 DEF QueueIsExact, Queued
    <2>6. \A d \in Lockers : Queued(d)' <=> client'[d] \in {"queued", "killed"}
      BY <2>1, <2>3 DEF QueueIsExact
    <2> QED
      BY <1>1, <1>2, <1>3, <1>5, <2>1, <2>5, <2>6 DEF QueueIsExact
  <1> QED
    BY <1>4, <1>5

\* An unlock is the holder's own: the lock passes to the head of the queue.
LEMMA UnlockLandsKeeps ==
  ASSUME ScopeIInv, NEW c \in Lockers, UnlockLands(c), UNCHANGED scope
  PROVE  ScopeIInv'
  <1> USE DEF ScopeIInv, UnlockLands, callVars
  <1>0. holder = c /\ c \notin stranded /\ client[c] = "ended" /\ lock[c] # "racing"
    BY DEF ScopeTypeOK, GrantIsHeld, HasGrant, CallsAreConsistent, CallIsConsistent,
           StrandedIsLost
  <1>1. CASE lockers = <<>>
    <2>1. ScopeTypeOK'
      BY <1>1 DEF ScopeTypeOK
    <2>2. CallsAreConsistent'
      BY <1>1 DEF ScopeTypeOK, CallsAreConsistent, CallIsConsistent, StrandedIsLost,
                  ScopeIsConsistent
    <2>3. QueueIsExact'
      BY <1>1 DEF QueueIsExact, Queued
    <2>4. GrantIsHeld'
      BY <1>0, <1>1, LockersAssumption DEF ScopeTypeOK, GrantIsHeld, HasGrant
    <2> QED
      BY <2>1, <2>2, <2>3, <2>4
  <1>2. CASE lockers # <<>>
    <2> DEFINE next == lockers[1]
    <2>1. /\ holder' = next /\ lockers' = Tail(lockers) /\ lockers \in Seq(Lockers)
          /\ client' = [client EXCEPT ![next] = IF @ = "killed" THEN "ended" ELSE "granted"]
          /\ stranded' = IF client[next] = "killed" THEN stranded \cup {next} ELSE stranded
          /\ freeing' = [freeing EXCEPT ![c] = "done"]
      BY <1>2 DEF ScopeTypeOK
    <2>2. /\ next \in Lockers /\ 1 \in DOMAIN lockers
          /\ lockers' \in Seq(Lockers)
          /\ \A i \in DOMAIN lockers' : i + 1 \in DOMAIN lockers
                                        /\ lockers'[i] = lockers[i + 1] /\ i # 0
          /\ \A i \in DOMAIN lockers : i = 1 \/ i - 1 \in DOMAIN lockers'
          /\ \A i \in DOMAIN lockers' \cup DOMAIN lockers : i \in Nat
      BY <1>2, <2>1
    <2>3. client[next] \in {"queued", "killed"} /\ next # c
      BY <1>0, <2>2 DEF QueueIsExact, Queued
    <2>4. ScopeTypeOK'
      BY <2>1, <2>2, <2>3 DEF ScopeTypeOK
    <2>5. CallsAreConsistent'
      BY <1>0, <2>1, <2>2, <2>3
         DEF ScopeTypeOK, CallsAreConsistent, CallIsConsistent, StrandedIsLost, ScopeIsConsistent
    <2>6. \A d \in Lockers : Queued(d)' <=> Queued(d) /\ d # next
      <3> SUFFICES ASSUME NEW d \in Lockers PROVE Queued(d)' <=> Queued(d) /\ d # next
        OBVIOUS
      <3>1. ASSUME Queued(d)' PROVE Queued(d) /\ d # next
        BY <2>2, <3>1 DEF Queued, QueueIsExact
      <3>2. ASSUME Queued(d), d # next PROVE Queued(d)'
        <4>1. PICK i \in DOMAIN lockers : lockers[i] = d
          BY <3>2 DEF Queued
        <4>2. i - 1 \in DOMAIN lockers' /\ i \in Nat
          BY <2>2, <3>2, <4>1
        <4>3. lockers'[i - 1] = d
          BY <2>2, <4>1, <4>2
        <4> QED
          BY <4>2, <4>3 DEF Queued
      <3> QED
        BY <3>1, <3>2
    <2>7. QueueIsExact'
      <3>1. \A d \in Lockers : Queued(d)' <=> client'[d] \in {"queued", "killed"}
        BY <2>1, <2>2, <2>3, <2>6 DEF QueueIsExact, ScopeTypeOK
      <3>2. \A i, j \in DOMAIN lockers' : lockers'[i] = lockers'[j] => i = j
        BY <2>2 DEF QueueIsExact
      <3> QED
        BY <2>1, <2>2, <3>1, <3>2, LockersAssumption DEF QueueIsExact
    <2>8. GrantIsHeld'
      BY <1>0, <2>1, <2>2, <2>3
         DEF ScopeTypeOK, GrantIsHeld, HasGrant, CallsAreConsistent, CallIsConsistent
    <2> QED
      BY <2>4, <2>5, <2>7, <2>8
  <1> QED
    BY <1>1, <1>2

\* An unlock that fails strands the grant.
LEMMA UnlockFailsKeeps ==
  ASSUME ScopeIInv, NEW c \in Lockers, UnlockFails(c), UNCHANGED scope
  PROVE  ScopeIInv'
  <1> USE DEF ScopeIInv, UnlockFails, callVars, queueVars
  <1>1. ScopeTypeOK'
    BY DEF ScopeTypeOK
  <1>2. CallsAreConsistent'
    BY DEF ScopeTypeOK, CallsAreConsistent, CallIsConsistent, StrandedIsLost, ScopeIsConsistent
  <1>3. QueueIsExact'
    BY QueueUntouched DEF ScopeTypeOK
  <1>4. GrantIsHeld'
    BY DEF ScopeTypeOK, GrantIsHeld, HasGrant
  <1> QED
    BY <1>1, <1>2, <1>3, <1>4

-----------------------------------------------------------------------------
LEMMA StepKeeps == ScopeIInv /\ [ScopeNext]_scopeVars => ScopeIInv'
  <1> SUFFICES ASSUME ScopeIInv, [ScopeNext]_scopeVars PROVE ScopeIInv'
    OBVIOUS
  <1>1. CASE UNCHANGED scopeVars
    <2>1. ScopeTypeOK' /\ GrantIsHeld'
      BY <1>1 DEF ScopeIInv, scopeVars, lockVars, callVars, taskVars, queueVars, ScopeTypeOK, GrantIsHeld,
                  HasGrant
    <2>2. QueueIsExact'
      BY <1>1, QueueUntouched DEF ScopeIInv, scopeVars, lockVars, taskVars, queueVars
    <2>3. CallsAreConsistent'
      BY <1>1 DEF ScopeIInv, scopeVars, lockVars, callVars, taskVars, CallsAreConsistent,
                  CallIsConsistent, StrandedIsLost, ScopeIsConsistent
    <2> QED
      BY <2>1, <2>2, <2>3 DEF ScopeIInv
  <1>2. ASSUME NEW c \in Lockers, UserSteps(c) PROVE ScopeIInv'
    <2>1. CASE BareLock(c) \/ ScopeStarts(c)
      BY <2>1, LockKeeps DEF BareLock, ScopeStarts
    <2>2. CASE BareDrop(c)
      BY <2>2, DropKeeps DEF BareDrop
    <2>3. CASE BareUnlock(c) \/ ScopeFinishes(c) \/ CleanupDropped(c)
      BY <2>3, UnlockKeeps DEF BareUnlock, ScopeFinishes, CleanupDropped
    <2>4. CASE ScopeDropped(c) \/ FinishDropped(c)
      BY <2>4, EnterKeeps DEF ScopeDropped, FinishDropped, Uses
    <2> QED
      BY <1>2, <2>1, <2>2, <2>3, <2>4 DEF UserSteps
  <1>3. ASSUME NEW c \in Lockers, ScopeSteps(c) PROVE ScopeIInv'
    <2>1. CASE ScopeRuns(c) \/ ScopeFails(c) \/ ScopeReturns(c)
      BY <2>1, EnterKeeps DEF ScopeRuns, ScopeFails, ScopeReturns, Uses
    <2>2. CASE HandoffFails(c)
      BY <2>2, UnlockKeeps DEF HandoffFails
    <2> QED
      BY <1>3, <2>1, <2>2 DEF ScopeSteps
  <1>4. ASSUME NEW c \in Lockers, LockSteps(c) PROVE ScopeIInv'
    BY <1>4, SelectKeeps, TaskKeeps, ArrivesKeeps, UnlockLandsKeeps, UnlockFailsKeeps
       DEF LockSteps, TmuxSteps
  <1> QED
    BY <1>1, <1>2, <1>3, <1>4 DEF ScopeNext

\* The grant of every call is in one place: the inductive invariant holds.
THEOREM ScopeInvariance == ScopeSpec => []ScopeIInv
  BY ScopeInitEstablishes, StepKeeps, PTL DEF ScopeSpec

\* Every variable keeps its type, and unlocks are only sent for ended clients.
THEOREM ScopeTypeCorrect == ScopeSpec => []ScopeTypeOK
  <1>1. ScopeIInv => ScopeTypeOK
    BY DEF ScopeIInv
  <1> QED
    BY <1>1, ScopeInvariance, PTL

\* tmux's holder is the call whose grant is still somewhere: lock() loses none
\* and gives none back twice.
THEOREM GrantsAreAccounted == ScopeSpec => []GrantIsHeld
  <1>1. ScopeIInv => GrantIsHeld
    BY DEF ScopeIInv
  <1> QED
    BY <1>1, ScopeInvariance, PTL

\* Two users of the lock never act at once.
THEOREM LockExcludes == ScopeSpec => []MutualExclusion
  <1>1. ScopeIInv => MutualExclusion
    BY DEF ScopeIInv, MutualExclusion, Inside, GrantIsHeld, HasGrant, CallsAreConsistent,
           ScopeIsConsistent
  <1> QED
    BY <1>1, ScopeInvariance, PTL

==============================================================================
