----------------------- MODULE ControlConnectionProofs -----------------------
(***************************************************************************)
(* One control-mode connection, for any calls, deadlines, chains, queues   *)
(* and hold limits.                                                        *)
(*                                                                         *)
(* Part 1, the slots. The methods of ReplySlots keep its two caches exact: *)
(* the count of live slots, which decides what may be read, and the        *)
(* earliest deadline, which decides when the connection ends.              *)
(*                                                                         *)
(* Part 2, the calls. IInv: the types, and the two promises dispatch_line  *)
(* makes its callers: one that waits is owed its answer by somebody, and   *)
(* one told that its line was not dispatched was told the truth.           *)
(*                                                                         *)
(* Part 3, the answers and the stream, from IInv:                          *)
(*   HeldStaysBounded       the room held deliveries may take              *)
(*   RepliesStayOwn         a reply is made of its own line's blocks       *)
(*   NothingGetsLost        the watcher receives all it is owed, in order  *)
(*                                                                         *)
(* The task does not look at which line a block answers, so RepliesStayOwn *)
(* is about two orders that must agree. WriteOrder and OwedIsUnanswered    *)
(* say that the slots are the last lines written, in order, and that       *)
(* nobody they answer has been answered. SlotProgress says what each slot  *)
(* has received so far. TmuxOrder and PipeOrder say that the blocks still  *)
(* unread in the pipe are, one after the other, those the slots expect. A  *)
(* block tmux sends unasked would break PipeOrder, so RepliesStayOwn       *)
(* assumes there is none, and with it NothingGetsLost, whose boundaries    *)
(* follow the last blocks of the slots: StreamStep says that each step     *)
(* either keeps the stream or adds to it the line it reads.                *)
(***************************************************************************)
EXTENDS ControlConnection, FiniteSetTheorems, SequenceTheorems, TLAPS

-----------------------------------------------------------------------------
(* Part 1: the slots.                                                      *)

-----------------------------------------------------------------------------
(* The minimum of a set of instants.                                       *)

LEMMA NatHasMinimum ==
  ASSUME NEW D \in SUBSET Nat, D # {}
  PROVE  \E d \in D : \A e \in D : d <= e
  <1>1. PICK d \in D : \A e \in D : ~(<<e, d>> \in OpToRel(<, Nat))
    BY NatLessThanWellFounded, WFMin
  <1>2. \A e \in D : ~(e < d)
    BY <1>1 DEF OpToRel
  <1> QED
    BY <1>2

LEMMA OwedIsPositive ==
  ASSUME NEW c \in Calls
  PROVE  Owed(c) \in Nat /\ Owed(c) >= 1
  BY CallAssumption DEF Owed

LEMMA DeadlinesAreInstants ==
  ASSUME NEW slots \in Seq(Slot)
  PROVE  SlotDeadlines(slots) \subseteq Nat
  <1>1. \A i \in DOMAIN slots : slots[i] \in Slot
    BY LenProperties, ElementOfSeq
  <1>2. \A i \in DOMAIN slots : slots[i].call \in Calls
    BY <1>1 DEF Slot
  <1> QED
    BY <1>2, CallAssumption DEF SlotDeadlines

\* MinDeadline finds a deadline no later than any other, if there is one.
LEMMA MinDeadlineIsMinimum ==
  ASSUME NEW slots \in Seq(Slot)
  PROVE  /\ MinDeadline(slots) \in Nat \cup {Never}
         /\ MinDeadline(slots) = Never <=> SlotDeadlines(slots) = {}
         /\ SlotDeadlines(slots) # {} =>
              /\ MinDeadline(slots) \in SlotDeadlines(slots)
              /\ \A e \in SlotDeadlines(slots) : MinDeadline(slots) <= e
  <1> DEFINE D == SlotDeadlines(slots)
  <1>1. D \subseteq Nat
    BY DeadlinesAreInstants
  <1>2. CASE D = {}
    BY <1>2 DEF MinDeadline
  <1>3. CASE D # {}
    <2>1. \E d \in D : \A e \in D : d <= e
      BY <1>1, <1>3, NatHasMinimum
    <2>2. MinDeadline(slots) = CHOOSE d \in D : \A e \in D : d <= e
      BY <1>3 DEF MinDeadline
    <2>3. MinDeadline(slots) \in D /\ \A e \in D : MinDeadline(slots) <= e
      BY <2>1, <2>2
    <2> QED
      BY <1>1, <1>3, <2>3, CallAssumption
  <1> QED
    BY <1>2, <1>3

\* A minimum is determined by the set: the scan and any other way to find it
\* agree.
LEMMA MinDeadlineIsUnique ==
  ASSUME NEW slots \in Seq(Slot), NEW m \in SlotDeadlines(slots),
         \A e \in SlotDeadlines(slots) : m <= e
  PROVE  MinDeadline(slots) = m
  BY MinDeadlineIsMinimum, DeadlinesAreInstants

-----------------------------------------------------------------------------
(* The live slots of a queue.                                              *)

LEMMA LiveAtIsFinite ==
  ASSUME NEW slots \in Seq(Slot)
  PROVE  /\ LiveAt(slots) \subseteq 1..Len(slots)
         /\ IsFiniteSet(LiveAt(slots)) /\ Cardinality(LiveAt(slots)) \in Nat
  <1>1. LiveAt(slots) \subseteq 1..Len(slots) /\ Len(slots) \in Nat
    BY LenProperties DEF LiveAt
  <1>2. IsFiniteSet(1..Len(slots))
    BY <1>1, FS_Interval
  <1> QED
    BY <1>1, <1>2, FS_Subset, FS_CardinalityType

LEMMA LiveAtAppend ==
  ASSUME NEW slots \in Seq(Slot), NEW slot \in Slot
  PROVE  Cardinality(LiveAt(Append(slots, slot))) =
           Cardinality(LiveAt(slots)) + (IF slot.live THEN 1 ELSE 0)
  <1> DEFINE n == Len(slots) + 1
  <1>1. /\ Len(slots) \in Nat /\ DOMAIN slots = 1..Len(slots)
        /\ DOMAIN Append(slots, slot) = 1..n
        /\ Append(slots, slot)[n] = slot
        /\ \A i \in 1..Len(slots) : Append(slots, slot)[i] = slots[i]
    BY AppendProperties, LenProperties
  <1>2. n \notin LiveAt(slots)
    BY <1>1 DEF LiveAt
  <1>3. CASE slot.live
    <2>1. LiveAt(Append(slots, slot)) = LiveAt(slots) \cup {n}
      BY <1>1, <1>3 DEF LiveAt
    <2> QED
      BY <1>2, <1>3, <2>1, LiveAtIsFinite, FS_AddElement
  <1>4. CASE ~slot.live
    <2>1. LiveAt(Append(slots, slot)) = LiveAt(slots)
      BY <1>1, <1>4 DEF LiveAt
    <2> QED
      BY <1>4, <2>1, LiveAtIsFinite
  <1> QED
    BY <1>3, <1>4

LEMMA LiveAtTail ==
  ASSUME NEW slots \in Seq(Slot), slots # <<>>
  PROVE  Cardinality(LiveAt(slots)) =
           Cardinality(LiveAt(Tail(slots))) + (IF Head(slots).live THEN 1 ELSE 0)
  <1> DEFINE S == LiveAt(Tail(slots))
             T == LiveAt(slots) \ {1}
             F == [i \in S |-> i + 1]
  <1>1. /\ Tail(slots) \in Seq(Slot)
        /\ Len(slots) \in Nat \ {0} /\ DOMAIN slots = 1..Len(slots)
        /\ DOMAIN Tail(slots) = 1..(Len(slots) - 1)
        /\ \A i \in 1..(Len(slots) - 1) : Tail(slots)[i] = slots[i + 1]
    BY HeadTailProperties, LenProperties, EmptySeq
  <1>2. S \subseteq Nat
    BY <1>1 DEF LiveAt
  <1>3. \A i \in S : i + 1 \in T
    BY <1>1 DEF LiveAt
  <1>4. \A j \in T : \E i \in S : i + 1 = j
    <2> SUFFICES ASSUME NEW j \in T PROVE j - 1 \in S /\ (j - 1) + 1 = j
      OBVIOUS
    <2>1. j \in 2..Len(slots) /\ slots[j].live
      BY <1>1 DEF LiveAt
    <2>2. j - 1 \in 1..(Len(slots) - 1) /\ (j - 1) + 1 = j
      BY <1>1, <2>1
    <2> QED
      BY <1>1, <2>1, <2>2 DEF LiveAt
  <1>5. F \in [S -> T] /\ \A i, j \in S : F[i] = F[j] => i = j
    BY <1>2, <1>3
  <1>6. \A j \in T : \E i \in S : F[i] = j
    BY <1>4
  <1>7. ExistsBijection(S, T)
    BY <1>5, <1>6 DEF ExistsBijection, Bijection, Injection, Surjection, IsInjective
  <1>8. Cardinality(T) = Cardinality(S)
    BY <1>1, <1>7, LiveAtIsFinite, FS_Bijection
  <1>9. 1 \in LiveAt(slots) <=> Head(slots).live
    BY <1>1 DEF LiveAt
  <1>10. Cardinality(S) \in Nat /\ Cardinality(LiveAt(slots)) \in Nat
         /\ IsFiniteSet(LiveAt(slots))
    BY <1>1, LiveAtIsFinite
  <1>11. CASE Head(slots).live
    <2>1. Cardinality(T) = Cardinality(LiveAt(slots)) - 1
      BY <1>9, <1>10, <1>11, FS_RemoveElement
    <2> QED
      BY <1>8, <1>10, <1>11, <2>1
  <1>12. CASE ~Head(slots).live
    <2>1. Cardinality(T) = Cardinality(LiveAt(slots))
      BY <1>9, <1>10, <1>12, FS_RemoveElement
    <2> QED
      BY <1>8, <1>10, <1>12, <2>1
  <1> QED
    BY <1>11, <1>12

-----------------------------------------------------------------------------
(* The methods.                                                            *)

LEMMA NoRepliesExact == NoReplies \in Replies /\ Exact(NoReplies)
  <1>1. LiveAt(<<>>) = {} /\ SlotDeadlines(<<>>) = {}
    BY DEF LiveAt, SlotDeadlines
  <1>2. Cardinality(LiveAt(<<>>)) = 0 /\ MinDeadline(<<>>) = Never
    BY <1>1, FS_EmptySet DEF MinDeadline
  <1> QED
    BY <1>2, EmptySeq DEF NoReplies, Replies, Exact

\* A pushed slot extends both caches, tombstone or not.
THEOREM PushOrderedExact ==
  ASSUME NEW r \in Replies, Exact(r), NEW c \in Calls, NEW closed \in BOOLEAN
  PROVE  PushOrdered(r, c, closed) \in Replies /\ Exact(PushOrdered(r, c, closed))
  <1> DEFINE slot == [call |-> c, live |-> ~closed, owed |-> Owed(c), received |-> <<>>]
             s == r.slots
             t == Append(s, slot)
  <1>1. s \in Seq(Slot) /\ r.live \in Nat /\ r.earliest \in Nat \cup {Never}
    BY DEF Replies
  <1>2. slot \in Slot
    BY OwedIsPositive, EmptySeq DEF Slot
  <1>3. /\ t \in Seq(Slot) /\ DOMAIN t = 1..(Len(s) + 1) /\ DOMAIN s = 1..Len(s)
        /\ Len(s) \in Nat
        /\ t[Len(s) + 1] = slot /\ \A i \in 1..Len(s) : t[i] = s[i]
    BY <1>1, <1>2, AppendProperties, LenProperties
  <1>4. slot.live <=> ~closed
    OBVIOUS
  <1>5. PushOrdered(r, c, closed).live = Cardinality(LiveAt(t))
    BY <1>1, <1>2, <1>4, LiveAtAppend DEF PushOrdered, Exact
  <1>6. SlotDeadlines(t) = (SlotDeadlines(s) \cup {Deadline[c]}) \ {Never}
    <2> HIDE DEF t, s
    <2>1. slot.call = c
      OBVIOUS
    <2> QED
      BY <1>3, <2>1 DEF SlotDeadlines
  <1>7. EarliestDeadline(r.earliest, Deadline[c]) = MinDeadline(t)
    <2>1. r.earliest = MinDeadline(s) /\ Deadline[c] \in Nat \cup {Never}
      BY CallAssumption DEF Exact
    <2>2. SlotDeadlines(s) \subseteq Nat /\ SlotDeadlines(t) \subseteq Nat
      BY <1>1, <1>3, DeadlinesAreInstants
    <2>3. CASE Deadline[c] = Never /\ SlotDeadlines(s) = {}
      <3>1. SlotDeadlines(t) = {}
        BY <1>6, <2>3
      <3> QED
        BY <2>1, <2>3, <3>1, <1>1, <1>3, MinDeadlineIsMinimum DEF EarliestDeadline
    <2>4. CASE Deadline[c] = Never /\ SlotDeadlines(s) # {}
      <3> HIDE DEF t, s
      <3>1. SlotDeadlines(t) = SlotDeadlines(s)
        BY <1>6, <2>2, <2>4, CallAssumption
      <3> QED
        BY <2>1, <2>4, <3>1 DEF EarliestDeadline, MinDeadline
    <2>5. CASE Deadline[c] # Never /\ SlotDeadlines(s) = {}
      <3>1. SlotDeadlines(t) = {Deadline[c]}
        BY <1>6, <2>5
      <3>2. MinDeadline(t) = Deadline[c]
        BY <3>1, <1>3, <2>1, <2>5, MinDeadlineIsMinimum
      <3> QED
        BY <2>1, <2>5, <3>2, <1>1, MinDeadlineIsMinimum DEF EarliestDeadline
    <2>6. CASE Deadline[c] # Never /\ SlotDeadlines(s) # {}
      <3> DEFINE m == EarliestDeadline(r.earliest, Deadline[c])
      <3>1. /\ r.earliest \in SlotDeadlines(s) /\ r.earliest \in Nat
            /\ \A e \in SlotDeadlines(s) : r.earliest <= e
        BY <1>1, <2>1, <2>2, <2>6, MinDeadlineIsMinimum
      <3>2. Deadline[c] \in Nat /\ r.earliest # Never
        BY <2>1, <2>6, <3>1, CallAssumption
      <3>3. SlotDeadlines(t) = SlotDeadlines(s) \cup {Deadline[c]}
        BY <1>6, <2>2, <3>2, CallAssumption
      <3>4. m \in SlotDeadlines(t) /\ \A e \in SlotDeadlines(t) : m <= e
        BY <2>2, <2>6, <3>1, <3>2, <3>3 DEF EarliestDeadline
      <3> QED
        BY <1>3, <3>4, MinDeadlineIsUnique
    <2> QED
      BY <2>3, <2>4, <2>5, <2>6
  <1>8. PushOrdered(r, c, closed).slots = t
        /\ PushOrdered(r, c, closed).earliest = EarliestDeadline(r.earliest, Deadline[c])
    BY DEF PushOrdered
  <1>9. Exact(PushOrdered(r, c, closed))
    BY <1>5, <1>7, <1>8 DEF Exact
  <1>10. MinDeadline(t) \in Nat \cup {Never} /\ Cardinality(LiveAt(t)) \in Nat
    BY <1>3, MinDeadlineIsMinimum, LiveAtIsFinite
  <1>11. PushOrdered(r, c, closed) = [slots |-> t, live |-> Cardinality(LiveAt(t)),
                                      earliest |-> MinDeadline(t)]
    BY <1>5, <1>7 DEF PushOrdered
  <1>12. PushOrdered(r, c, closed) \in Replies
    BY <1>3, <1>10, <1>11 DEF Replies
  <1> QED
    BY <1>9, <1>12

\* Refusing every live caller leaves tombstones with the same deadlines.
THEOREM RefuseLiveExact ==
  ASSUME NEW r \in Replies, Exact(r)
  PROVE  /\ RefuseLive(r) \in Replies /\ Exact(RefuseLive(r))
         /\ LiveCalls(RefuseLive(r).slots) = {}
  <1> DEFINE s == r.slots
             t == [i \in DOMAIN s |-> [s[i] EXCEPT !.live = FALSE, !.received = <<>>]]
  <1>1. s \in Seq(Slot) /\ r.live \in Nat /\ r.earliest \in Nat \cup {Never}
    BY DEF Replies
  <1>2. DOMAIN s = 1..Len(s) /\ Len(s) \in Nat /\ \A i \in DOMAIN s : s[i] \in Slot
    BY <1>1, LenProperties, ElementOfSeq
  <1>3. \A i \in DOMAIN s : t[i] \in Slot /\ ~t[i].live /\ t[i].call = s[i].call
    BY <1>2, EmptySeq DEF Slot
  <1>4. t \in Seq(Slot) /\ DOMAIN t = DOMAIN s
    <2>1. t \in [1..Len(s) -> Slot]
      BY <1>2, <1>3
    <2> HIDE DEF t
    <2> QED
      BY <1>2, <2>1, SeqDef
  <1>5. LiveAt(t) = {} /\ SlotDeadlines(t) = SlotDeadlines(s)
    BY <1>3, <1>4 DEF LiveAt, SlotDeadlines
  <1>6. RefuseLive(r) = [slots |-> t, live |-> 0, earliest |-> r.earliest]
    BY DEF RefuseLive
  <1>7. Cardinality(LiveAt(t)) = 0 /\ MinDeadline(t) = MinDeadline(s)
    <2> HIDE DEF t, s
    <2> QED
      BY <1>5, FS_EmptySet DEF MinDeadline
  <1>8. r.earliest = MinDeadline(s)
    BY DEF Exact
  <1> HIDE DEF t, s
  <1>9. Exact(RefuseLive(r)) /\ RefuseLive(r) \in Replies
    BY <1>1, <1>4, <1>6, <1>7, <1>8 DEF Exact, Replies
  <1>10. LiveCalls(RefuseLive(r).slots) = {}
    BY <1>5, <1>6 DEF LiveCalls
  <1> QED
    BY <1>9, <1>10

\* A front slot that is owed more keeps its deadline and its caller.
LEMMA TookOneExact ==
  ASSUME NEW r \in Replies, Exact(r), NEW block \in Block, r.slots # <<>>,
         ~IsLast(Head(r.slots), block)
  PROVE  Complete(r, block) \in Replies /\ Exact(Complete(r, block))
  <1> DEFINE s == r.slots
             slot == TookOne(Head(s), block)
             t == [s EXCEPT ![1] = slot]
  <1>1. s \in Seq(Slot) /\ r.live \in Nat /\ r.earliest \in Nat \cup {Never}
    BY DEF Replies
  <1>2. /\ DOMAIN s = 1..Len(s) /\ Len(s) \in Nat \ {0} /\ Head(s) = s[1]
        /\ s[1] \in Slot /\ \A i \in DOMAIN s : s[i] \in Slot
    BY <1>1, LenProperties, ElementOfSeq, EmptySeq
  <1>3. s[1].owed - 1 \in Nat
    BY <1>2 DEF IsLast, Slot
  <1>4. slot \in Slot /\ slot.call = s[1].call /\ (slot.live <=> s[1].live)
    <2>1. Append(s[1].received, block) \in Seq(Block) /\ s[1].received \in Seq(Block)
      BY <1>2, AppendProperties DEF Slot
    <2> QED
      BY <1>2, <1>3, <2>1 DEF TookOne, Slot
  <1>5. t \in Seq(Slot) /\ Len(t) = Len(s) /\ DOMAIN t = DOMAIN s
        /\ \A i \in DOMAIN s : t[i] = IF i = 1 THEN slot ELSE s[i]
    BY <1>1, <1>2, <1>4, ExceptSeq
  <1> HIDE DEF slot, t
  <1>6. LiveAt(t) = LiveAt(s) /\ SlotDeadlines(t) = SlotDeadlines(s)
    <2>1. \A i \in DOMAIN s : t[i].call = s[i].call /\ (t[i].live <=> s[i].live)
      BY <1>4, <1>5
    <2> QED
      BY <1>5, <2>1 DEF LiveAt, SlotDeadlines
  <1>7. Complete(r, block) = [r EXCEPT !.slots = t]
    BY DEF Complete, t, slot
  <1>8. /\ Complete(r, block).slots = t /\ Complete(r, block).live = r.live
        /\ Complete(r, block).earliest = r.earliest /\ Complete(r, block) \in Replies
    BY <1>5, <1>7 DEF Replies
  <1>9. Exact(Complete(r, block))
    BY <1>6, <1>8 DEF Exact, MinDeadline
  <1> QED
    BY <1>8, <1>9

\* A popped slot takes its deadline with it: the scan is needed only if it
\* was the earliest.
LEMMA PoppedExact ==
  ASSUME NEW r \in Replies, Exact(r), NEW block \in Block, r.slots # <<>>,
         IsLast(Head(r.slots), block)
  PROVE  Complete(r, block) \in Replies /\ Exact(Complete(r, block))
  <1> DEFINE s == r.slots
             t == Tail(s)
             d == Deadline[Head(s).call]
  <1>1. s \in Seq(Slot) /\ r.live \in Nat /\ r.earliest \in Nat \cup {Never}
    BY DEF Replies
  <1>2. /\ t \in Seq(Slot) /\ DOMAIN t = 1..(Len(s) - 1) /\ DOMAIN s = 1..Len(s)
        /\ Len(s) \in Nat \ {0} /\ Head(s) = s[1] /\ Head(s) \in Slot
        /\ \A i \in 1..(Len(s) - 1) : t[i] = s[i + 1]
    BY <1>1, HeadTailProperties, LenProperties, EmptySeq
  <1>3. r.live = Cardinality(LiveAt(s)) /\ r.earliest = MinDeadline(s)
    BY DEF Exact
  <1>4. Complete(r, block) =
          [slots    |-> t,
           live     |-> IF Head(s).live THEN r.live - 1 ELSE r.live,
           earliest |-> IF d = r.earliest THEN MinDeadline(t) ELSE r.earliest]
    BY DEF Complete
  <1>5. (IF Head(s).live THEN r.live - 1 ELSE r.live) = Cardinality(LiveAt(t))
    <2>1. Cardinality(LiveAt(t)) \in Nat
      BY <1>2, LiveAtIsFinite
    <2>2. Cardinality(LiveAt(s)) =
            Cardinality(LiveAt(t)) + (IF Head(s).live THEN 1 ELSE 0)
      BY <1>1, LiveAtTail
    <2>3. CASE Head(s).live
      BY <1>3, <2>1, <2>2, <2>3
    <2>4. CASE ~Head(s).live
      BY <1>3, <2>1, <2>2, <2>4
    <2> QED
      BY <2>3, <2>4
  <1>6. SlotDeadlines(s) = SlotDeadlines(t) \cup ({d} \ {Never})
    <2>1. \A i \in DOMAIN t : i + 1 \in DOMAIN s /\ t[i] = s[i + 1]
      BY <1>2
    <2>2. \A j \in DOMAIN s : j = 1 \/ (j - 1 \in DOMAIN t /\ t[j - 1] = s[j])
      <3> TAKE j \in DOMAIN s
      <3>1. j = 1 \/ j - 1 \in 1..(Len(s) - 1)
        BY <1>2
      <3>2. j \in Int /\ (j - 1) + 1 = j
        BY <1>2
      <3> QED
        BY <1>2, <3>1, <3>2
    <2>3. 1 \in DOMAIN s /\ s[1] = Head(s)
      BY <1>2
    <2> HIDE DEF t, s
    <2>4. SlotDeadlines(t) \subseteq SlotDeadlines(s)
      BY <2>1 DEF SlotDeadlines
    <2>5. {d} \ {Never} \subseteq SlotDeadlines(s)
      BY <2>3 DEF SlotDeadlines
    <2>6. SlotDeadlines(s) \subseteq SlotDeadlines(t) \cup ({d} \ {Never})
      BY <2>2, <2>3 DEF SlotDeadlines
    <2> QED
      BY <2>4, <2>5, <2>6
  <1>7. (IF d = r.earliest THEN MinDeadline(t) ELSE r.earliest) = MinDeadline(t)
    <2> SUFFICES ASSUME d # MinDeadline(s) PROVE MinDeadline(s) = MinDeadline(t)
      BY <1>3
    <2>1. CASE d = Never
      <3>1. SlotDeadlines(s) = SlotDeadlines(t)
        BY <1>6, <2>1
      <3> QED
        BY <3>1 DEF MinDeadline
    <2>2. CASE d # Never
      <3>0. SlotDeadlines(s) # {}
        BY <1>6, <2>2
      <3>1. /\ MinDeadline(s) \in SlotDeadlines(s)
            /\ \A e \in SlotDeadlines(s) : MinDeadline(s) <= e
        BY <1>1, <3>0, MinDeadlineIsMinimum
      <3>2. MinDeadline(s) \in SlotDeadlines(t)
            /\ \A e \in SlotDeadlines(t) : MinDeadline(s) <= e
        BY <1>6, <3>1
      <3> QED
        BY <1>2, <3>2, MinDeadlineIsUnique
    <2> QED
      BY <2>1, <2>2
  <1>8. MinDeadline(t) \in Nat \cup {Never} /\ Cardinality(LiveAt(t)) \in Nat
    BY <1>2, MinDeadlineIsMinimum, LiveAtIsFinite
  <1>9. Complete(r, block) = [slots |-> t, live |-> Cardinality(LiveAt(t)),
                              earliest |-> MinDeadline(t)]
    BY <1>4, <1>5, <1>7
  <1> HIDE DEF s, t
  <1> QED
    BY <1>2, <1>8, <1>9 DEF Exact, Replies

\* A block given to the front slot keeps both caches exact, whether or not it
\* is the last the slot is owed and whether or not its caller is still there.
THEOREM CompleteExact ==
  ASSUME NEW r \in Replies, Exact(r), NEW block \in Block
  PROVE  Complete(r, block) \in Replies /\ Exact(Complete(r, block))
  <1>1. CASE r.slots = <<>>
    BY <1>1 DEF Complete
  <1>2. CASE r.slots # <<>>
    BY <1>2, TookOneExact, PoppedExact
  <1> QED
    BY <1>1, <1>2

-----------------------------------------------------------------------------
(* Part 2: the calls.                                                      *)

\* A call that has not sent its request is known to nobody.
UnsentIsUnknown ==
  \A c \in Calls : call[c] \in {"idle", "reserving", "permit"} =>
    commit[c] = "open" /\ answer[c] = NoAnswer /\ c \notin Range(queue)

\* Only a call that is over withdraws its line.
WithdrawnIsOver == \A c \in Calls : commit[c] = "withdrawn" => call[c] = "done"

\* The queue holds a request once, before the actor commits it; a request its
\* caller has not withdrawn has no answer yet.
QueuedIsUncommitted ==
  /\ \A i, j \in DOMAIN queue : queue[i] = queue[j] => i = j
  /\ \A i \in DOMAIN queue :
       /\ commit[queue[i]] # "sent"
       /\ commit[queue[i]] = "open" => answer[queue[i]] = NoAnswer

\* What is written, being written or awaiting its reply was committed, and its
\* caller was not told otherwise.
WrittenIsCommitted ==
  /\ current # NoCall => commit[current] = "sent"
  /\ \A i \in DOMAIN written : commit[written[i]] = "sent"
  /\ \A i \in DOMAIN awaiting.slots : commit[awaiting.slots[i].call] = "sent"
  /\ \A c \in Calls : commit[c] = "sent" => answer[c].kind # "dispatchTimedOut"

CallInv == UnsentIsUnknown /\ WithdrawnIsOver /\ QueuedIsUncommitted
           /\ WrittenIsCommitted /\ WaitingCallIsOwned

IInv == TypeOK /\ CachesAreExact /\ CallInv

\* What CallInv is about.
callView == <<callVars, current, awaiting, written>>

-----------------------------------------------------------------------------
LEMMA NoCallIsNoCall == NoCall \notin Calls /\ Never \notin Int /\ Never \notin Nat
  BY NoCallAssumption, CallAssumption

\* A group of variables nothing touches keeps its type.
LEMMA EnvSame == EnvTypeOK /\ UNCHANGED envVars => EnvTypeOK'
  BY DEF EnvTypeOK, envVars

LEMMA CallSame == CallTypeOK /\ UNCHANGED callVars => CallTypeOK'
  BY DEF CallTypeOK, callVars

LEMMA DeliverySame ==
  DeliveryTypeOK /\ UNCHANGED <<held, watcherVars>> => DeliveryTypeOK'
  BY DEF DeliveryTypeOK, watcherVars

LEMMA TmuxSame == TmuxTypeOK /\ UNCHANGED tmuxVars => TmuxTypeOK'
  BY DEF TmuxTypeOK, tmuxVars

LEMMA TaskSame ==
  ASSUME TaskTypeOK, UNCHANGED <<mode, current, awaiting, blockDeadline, sending,
                                 watching, outcome>>
  PROVE  TaskTypeOK'
  BY DEF TaskTypeOK

LEMMA CallInvSame == CallInv /\ UNCHANGED callView => CallInv'
  BY DEF CallInv, callView, callVars, UnsentIsUnknown, WithdrawnIsOver,
         QueuedIsUncommitted, WrittenIsCommitted, WaitingCallIsOwned, Listening, HasAnswer

\* A slot belongs to a call.
LEMMA SlotCalls ==
  ASSUME NEW r \in Replies
  PROVE  /\ r.slots \in Seq(Slot)
         /\ \A i \in DOMAIN r.slots : r.slots[i] \in Slot /\ r.slots[i].call \in Calls
  <1>1. r.slots \in Seq(Slot)
    BY DEF Replies
  <1>2. \A i \in DOMAIN r.slots : r.slots[i] \in Slot
    BY <1>1, LenProperties, ElementOfSeq
  <1> QED
    BY <1>1, <1>2 DEF Slot

LEMMA CachesSame == CachesAreExact /\ UNCHANGED awaiting => CachesAreExact'
  BY DEF CachesAreExact, Exact

LEMMA InitInv == Init => IInv
  <1> SUFFICES ASSUME Init PROVE IInv
    OBVIOUS
  <1> USE DEF Init
  <1>1. EnvTypeOK
    <2>1. now \in 0..MaxTime
      BY TimeAssumption
    <2> QED
      BY <2>1 DEF EnvTypeOK
  <1>2. CallTypeOK
    BY EmptySeq DEF CallTypeOK, NoAnswer, AnswerKinds, None
  <1>3. TaskTypeOK
    BY NoRepliesExact DEF TaskTypeOK, Outcomes, None
  <1>4. DeliveryTypeOK
    BY EmptySeq DEF DeliveryTypeOK
  <1>5. TmuxTypeOK
    <2>1. log \in Seq(Line) /\ written \in Seq(Calls) /\ Len(log) = 0
      BY EmptySeq
    <2>2. rd \in 0..Len(log) /\ tmuxLine \in Nat \ {0} /\ tmuxCmd \in Nat \ {0}
      BY <2>1
    <2> QED
      BY <2>1, <2>2 DEF TmuxTypeOK
  <1>6. CachesAreExact
    BY NoRepliesExact DEF CachesAreExact
  <1>7. CallInv
    BY DEF CallInv, UnsentIsUnknown, WithdrawnIsOver, QueuedIsUncommitted,
           WrittenIsCommitted, WaitingCallIsOwned, Listening, NoReplies, Range
  <1> QED
    BY <1>1, <1>2, <1>3, <1>4, <1>5, <1>6, <1>7 DEF IInv, TypeOK

-----------------------------------------------------------------------------
(* The callers.                                                            *)

AnswerType == [kind : AnswerKinds, blocks : Seq(Block)]

LEMMA ErrTyped ==
  ASSUME NEW kind \in AnswerKinds \ {None}
  PROVE  Err(kind) \in AnswerType /\ Err(kind) # NoAnswer /\ Err(kind).kind = kind
  BY EmptySeq DEF Err, AnswerType, NoAnswer, None, AnswerKinds

\* Facts every step starts from.
LEMMA Facts ==
  ASSUME IInv
  PROVE  /\ EnvTypeOK /\ CallTypeOK /\ TaskTypeOK /\ DeliveryTypeOK /\ TmuxTypeOK
         /\ CachesAreExact /\ CallInv /\ UnsentIsUnknown /\ WithdrawnIsOver
         /\ QueuedIsUncommitted /\ WrittenIsCommitted /\ WaitingCallIsOwned
  BY DEF IInv, TypeOK, CallInv

\* What a step of one caller leaves to show: it touches neither the task nor
\* the pipes.
LEMMA CallerFrame ==
  ASSUME IInv, UNCHANGED <<envVars, actorVars, watcherVars, tmuxVars>>,
         CallTypeOK', CallInv'
  PROVE  IInv'
  <1>1. UNCHANGED <<held, watcherVars>> /\ UNCHANGED awaiting
        /\ UNCHANGED <<mode, current, awaiting, blockDeadline, sending, watching, outcome>>
    BY DEF actorVars
  <1> QED
    BY <1>1, Facts, EnvSame, TaskSame, DeliverySame, TmuxSame, CachesSame
       DEF IInv, TypeOK

\* A call that ends without its request having been committed, or before it
\* was sent, or because its caller dropped it.
LEMMA CallEnds ==
  ASSUME IInv, NEW c \in Calls, NEW kind \in AnswerKinds \ {None},
         Return(c, Err(kind)), call[c] # "done",
         kind = "dispatchTimedOut" => commit[c] # "sent",
         \/ commit' = commit /\ (call[c] \in {"idle", "reserving", "permit"})
         \/ commit' = [commit EXCEPT ![c] = "withdrawn"] /\ commit[c] # "sent"
         \/ commit' = commit /\ commit[c] = "sent",
         UNCHANGED <<queue, envVars, actorVars, watcherVars, tmuxVars>>
  PROVE  IInv'
  <1>a. CallTypeOK /\ UnsentIsUnknown /\ WithdrawnIsOver /\ QueuedIsUncommitted
        /\ WrittenIsCommitted /\ WaitingCallIsOwned
    BY Facts
  <1>b. /\ call' = [call EXCEPT ![c] = "done"] /\ answer' = [answer EXCEPT ![c] = Err(kind)]
        /\ Err(kind) \in AnswerType /\ Err(kind).kind = kind
    BY ErrTyped DEF Return
  <1>c. UNCHANGED <<queue, current, awaiting, written>>
    BY DEF actorVars, tmuxVars
  <1>1. CallTypeOK'
    BY <1>a, <1>b DEF CallTypeOK, AnswerType
  <1>2. UnsentIsUnknown'
    BY <1>a, <1>b, <1>c DEF UnsentIsUnknown, CallTypeOK, Range
  <1>3. WithdrawnIsOver'
    BY <1>a, <1>b DEF WithdrawnIsOver, CallTypeOK
  <1>4. QueuedIsUncommitted'
    <2>1. \A i \in DOMAIN queue : queue[i] \in Calls
      BY <1>a, LenProperties, ElementOfSeq DEF CallTypeOK
    <2>2. ASSUME NEW i \in DOMAIN queue, queue[i] = c
          PROVE  commit'[c] = "withdrawn"
      <3>1. commit[c] # "sent" /\ c \in Range(queue)
        BY <1>a, <2>2 DEF QueuedIsUncommitted, Range
      <3>2. call[c] \notin {"idle", "reserving", "permit"}
        BY <1>a, <3>1 DEF UnsentIsUnknown
      <3> QED
        BY <1>a, <3>1, <3>2 DEF CallTypeOK
    <2> QED
      BY <1>a, <1>b, <1>c, <2>1, <2>2 DEF QueuedIsUncommitted, CallTypeOK
  <1>d. \A x \in Calls : /\ commit'[x] = "sent" <=> commit[x] = "sent"
                         /\ x # c => call'[x] = call[x] /\ answer'[x] = answer[x]
    BY <1>a, <1>b DEF CallTypeOK, UnsentIsUnknown
  <1>5. WrittenIsCommitted'
    <2>1. ASSUME NEW x \in Calls, commit'[x] = "sent"
          PROVE  answer'[x].kind # "dispatchTimedOut"
      <3>1. CASE x = c
        BY <1>a, <1>b, <1>d, <2>1, <3>1 DEF CallTypeOK
      <3>2. CASE x # c
        BY <1>a, <1>d, <2>1, <3>2 DEF WrittenIsCommitted
      <3> QED
        BY <3>1, <3>2
    <2>2. \A i \in DOMAIN written : written[i] \in Calls
      BY Facts, LenProperties, ElementOfSeq DEF TmuxTypeOK
    <2>3. \A i \in DOMAIN awaiting.slots : awaiting.slots[i].call \in Calls
      BY Facts, SlotCalls DEF TaskTypeOK
    <2>4. current \in Calls \cup {NoCall}
      BY Facts DEF TaskTypeOK
    <2> QED
      BY <1>a, <1>c, <1>d, <2>1, <2>2, <2>3, <2>4 DEF WrittenIsCommitted
  <1>6. WaitingCallIsOwned'
    <2> SUFFICES ASSUME NEW x \in Calls, Listening(x)', ~HasAnswer(x)'
                 PROVE  IF commit'[x] = "sent"
                        THEN x \in LiveCalls(awaiting.slots) \cup {current}
                        ELSE x \in Range(queue)
      BY <1>c DEF WaitingCallIsOwned
    <2>1. x # c
      BY <1>a, <1>b DEF Listening, CallTypeOK
    <2>2. Listening(x) /\ ~HasAnswer(x)
      BY <1>d, <2>1 DEF Listening, HasAnswer
    <2> QED
      BY <1>a, <1>d, <2>2 DEF WaitingCallIsOwned
  <1> QED
    BY <1>1, <1>2, <1>3, <1>4, <1>5, <1>6, CallerFrame DEF CallInv

\* A call that only moves on, neither answered nor withdrawn.
LEMMA CallMoves ==
  ASSUME IInv, NEW c \in Calls,
         NEW to \in {"reserving", "permit", "awaiting", "done"},
         call' = [call EXCEPT ![c] = to],
         \/ call[c] \in {"idle", "reserving"} /\ to \in {"reserving", "permit"}
         \/ call[c] = "sent" /\ to = "awaiting"
         \/ Listening(c) /\ HasAnswer(c) /\ to = "done",
         UNCHANGED <<answer, commit, queue, envVars, actorVars, watcherVars, tmuxVars>>
  PROVE  IInv'
  <1>a. CallTypeOK /\ UnsentIsUnknown /\ WithdrawnIsOver /\ QueuedIsUncommitted
        /\ WrittenIsCommitted /\ WaitingCallIsOwned
    BY Facts
  <1>c. UNCHANGED <<current, awaiting, written>>
    BY DEF actorVars, tmuxVars
  <1>1. CallTypeOK'
    BY <1>a DEF CallTypeOK
  <1>2. UnsentIsUnknown' /\ WithdrawnIsOver'
    BY <1>a DEF UnsentIsUnknown, WithdrawnIsOver, CallTypeOK, Listening
  <1>3. QueuedIsUncommitted' /\ WrittenIsCommitted'
    BY <1>a, <1>c DEF QueuedIsUncommitted, WrittenIsCommitted
  <1>4. WaitingCallIsOwned'
    BY <1>a, <1>c DEF WaitingCallIsOwned, Listening, HasAnswer, CallTypeOK
  <1> QED
    BY <1>1, <1>2, <1>3, <1>4, CallerFrame DEF CallInv

LEMMA SendRequestStep ==
  ASSUME IInv, NEW c \in Calls, SendRequest(c)
  PROVE  IInv'
  <1>a. CallTypeOK /\ UnsentIsUnknown /\ WithdrawnIsOver /\ QueuedIsUncommitted
        /\ WrittenIsCommitted /\ WaitingCallIsOwned
    BY Facts
  <1>b. /\ call[c] = "permit" /\ call' = [call EXCEPT ![c] = "sent"]
        /\ queue' = Append(queue, c)
        /\ UNCHANGED <<answer, commit, current, awaiting, written>>
    BY DEF SendRequest, actorVars, tmuxVars
  <1>c. commit[c] = "open" /\ answer[c] = NoAnswer /\ c \notin Range(queue)
    BY <1>a, <1>b DEF UnsentIsUnknown
  <1>d. /\ queue \in Seq(Calls) /\ queue' \in Seq(Calls) /\ Len(queue) \in Nat
        /\ DOMAIN queue = 1..Len(queue) /\ DOMAIN queue' = 1..(Len(queue) + 1)
        /\ queue'[Len(queue) + 1] = c
        /\ \A i \in 1..Len(queue) : queue'[i] = queue[i]
    BY <1>a, <1>b, AppendProperties, LenProperties DEF CallTypeOK
  <1>e. \A i \in DOMAIN queue : queue[i] # c
    BY <1>c DEF Range
  <1>f. Range(queue') = Range(queue) \cup {c}
    <2> HIDE DEF Range
    <2>1. \A i \in DOMAIN queue : i \in DOMAIN queue' /\ queue'[i] = queue[i]
      BY <1>d
    <2>2. \A i \in DOMAIN queue' : i \in DOMAIN queue \/ i = Len(queue) + 1
      BY <1>d
    <2>3. Len(queue) + 1 \in DOMAIN queue'
      BY <1>d
    <2> QED
      BY <1>d, <2>1, <2>2, <2>3 DEF Range
  <1>1. CallTypeOK'
    BY <1>a, <1>b, <1>d DEF CallTypeOK
  <1>2. UnsentIsUnknown' /\ WithdrawnIsOver'
    BY <1>a, <1>b, <1>c, <1>f DEF UnsentIsUnknown, WithdrawnIsOver, CallTypeOK
  <1>3. QueuedIsUncommitted'
    <2>1. \A i \in DOMAIN queue' :
            (i \in DOMAIN queue /\ queue'[i] = queue[i])
            \/ (i = Len(queue) + 1 /\ queue'[i] = c)
      BY <1>d
    <2> QED
      BY <1>a, <1>b, <1>c, <1>e, <2>1 DEF QueuedIsUncommitted
  <1>4. WrittenIsCommitted'
    BY <1>a, <1>b DEF WrittenIsCommitted
  <1>5. WaitingCallIsOwned'
    BY <1>a, <1>b, <1>c, <1>f DEF WaitingCallIsOwned, Listening, HasAnswer, CallTypeOK
  <1> QED
    BY <1>1, <1>2, <1>3, <1>4, <1>5, CallerFrame DEF CallInv, SendRequest

LEMMA CallerStep ==
  ASSUME IInv, NEW c \in Calls, Caller(c)
  PROVE  IInv'
  <1>a. CallTypeOK /\ UnsentIsUnknown /\ WithdrawnIsOver
    BY Facts
  <1>b. /\ "dispatchTimedOut" \in AnswerKinds \ {None} /\ "closed" \in AnswerKinds \ {None}
        /\ "dropped" \in AnswerKinds \ {None}
    BY DEF AnswerKinds, None
  <1>1. CASE Start(c)
    <2>1. call[c] = "idle" /\ commit[c] = "open"
      BY <1>1, <1>a DEF Start, UnsentIsUnknown
    <2> QED
      BY <1>1, <1>b, <2>1, CallEnds, CallMoves DEF Start
  <1>2. CASE Reserve(c)
    <2>1. call[c] = "reserving" /\ commit[c] = "open"
      BY <1>2, <1>a DEF Reserve, UnsentIsUnknown
    <2> QED
      BY <1>2, <1>b, <2>1, CallEnds, CallMoves DEF Reserve
  <1>3. CASE SendRequest(c)
    BY <1>3, SendRequestStep
  <1>4. CASE TakeAnswer(c)
    BY <1>4, CallMoves DEF TakeAnswer
  <1>5. CASE CallDeadline(c)
    BY <1>5, <1>b, CallEnds, CallMoves DEF CallDeadline
  <1>6. CASE SeeCommit(c)
    BY <1>6, CallMoves DEF SeeCommit
  <1>7. CASE DropCall(c)
    <2>1. call[c] # "done" /\ Return(c, Err("dropped"))
      BY <1>7 DEF DropCall, Active
    <2>2. \/ commit' = [commit EXCEPT ![c] = "withdrawn"] /\ commit[c] # "sent"
          \/ commit' = commit /\ commit[c] = "sent"
      BY <1>7, <1>a DEF DropCall, CallTypeOK
    <2> QED
      BY <1>7, <1>b, <2>1, <2>2, CallEnds DEF DropCall
  <1> QED
    BY <1>1, <1>2, <1>3, <1>4, <1>5, <1>6, <1>7 DEF Caller

-----------------------------------------------------------------------------
(* Answers, the queue and the slots.                                       *)

\* A queue of distinct requests loses exactly its head.
LEMMA TailRange ==
  ASSUME NEW q \in Seq(Calls), q # <<>>,
         \A i, j \in DOMAIN q : q[i] = q[j] => i = j
  PROVE  /\ Head(q) \in Calls /\ Tail(q) \in Seq(Calls)
         /\ \A i, j \in DOMAIN Tail(q) : Tail(q)[i] = Tail(q)[j] => i = j
         /\ Head(q) \in Range(q) /\ Head(q) \notin Range(Tail(q))
         /\ Range(Tail(q)) \subseteq Range(q)
         /\ Range(q) \subseteq Range(Tail(q)) \cup {Head(q)}
  <1>1. /\ Len(q) \in Nat /\ Len(q) >= 1 /\ DOMAIN q = 1..Len(q) /\ Head(q) = q[1]
        /\ Tail(q) \in Seq(Calls) /\ DOMAIN Tail(q) = 1..(Len(q) - 1)
        /\ \A i \in 1..(Len(q) - 1) : Tail(q)[i] = q[i + 1]
    BY LenProperties, EmptySeq, HeadTailProperties
  <1>2. \A i \in DOMAIN Tail(q) : i + 1 \in DOMAIN q /\ i + 1 # 1
    BY <1>1
  <1>3. \A i \in DOMAIN q : i = 1 \/ (i - 1 \in DOMAIN Tail(q) /\ Tail(q)[i - 1] = q[i])
    BY <1>1
  <1>4. 1 \in DOMAIN q /\ q[1] \in Calls
    BY <1>1, ElementOfSeq
  <1>5. \A i, j \in DOMAIN Tail(q) : Tail(q)[i] = Tail(q)[j] => i = j
    <2> SUFFICES ASSUME NEW i \in DOMAIN Tail(q), NEW j \in DOMAIN Tail(q),
                        Tail(q)[i] = Tail(q)[j]
                 PROVE  i = j
      OBVIOUS
    <2>1. i + 1 = j + 1
      BY <1>1, <1>2
    <2> QED
      BY <1>1, <2>1
  <1>6. Head(q) \notin Range(Tail(q)) /\ Range(Tail(q)) \subseteq Range(q)
    BY <1>1, <1>2, <1>4 DEF Range
  <1>7. Range(q) \subseteq Range(Tail(q)) \cup {Head(q)}
    BY <1>1, <1>3 DEF Range
  <1>8. Head(q) \in Range(q)
    BY <1>1, <1>4 DEF Range
  <1> QED
    BY <1>1, <1>4, <1>5, <1>6, <1>7, <1>8

\* The slots after a push: the old ones, and one of the call's own.
LEMMA PushOwned ==
  ASSUME NEW r \in Replies, NEW c \in Calls, NEW closed \in BOOLEAN
  PROVE  LET s == PushOrdered(r, c, closed).slots
         IN  /\ \A i \in DOMAIN s : s[i].call = c
                                     \/ \E j \in DOMAIN r.slots : s[i].call = r.slots[j].call
             /\ LiveCalls(r.slots) \subseteq LiveCalls(s)
             /\ ~closed => c \in LiveCalls(s)
  <1> DEFINE slot == [call |-> c, live |-> ~closed, owed |-> Owed(c), received |-> <<>>]
             s == Append(r.slots, slot)
  <1>1. PushOrdered(r, c, closed).slots = s
    BY DEF PushOrdered
  <1>2. r.slots \in Seq(Slot) /\ slot \in Slot
    BY OwedIsPositive, EmptySeq DEF Replies, Slot
  <1>3. slot.call = c /\ (slot.live <=> ~closed)
    OBVIOUS
  <1> HIDE DEF slot
  <1>4. /\ Len(r.slots) \in Nat /\ DOMAIN r.slots = 1..Len(r.slots)
        /\ DOMAIN s = 1..(Len(r.slots) + 1) /\ s[Len(r.slots) + 1] = slot
        /\ \A i \in 1..Len(r.slots) : s[i] = r.slots[i]
    BY <1>2, LenProperties, AppendProperties
  <1>5. /\ \A i \in DOMAIN s : s[i] = slot \/ (i \in DOMAIN r.slots /\ s[i] = r.slots[i])
        /\ \A i \in DOMAIN r.slots : i \in DOMAIN s /\ s[i] = r.slots[i]
        /\ Len(r.slots) + 1 \in DOMAIN s
    BY <1>4
  <1> HIDE DEF s
  <1>6. LiveCalls(r.slots) \subseteq LiveCalls(s)
    BY <1>5 DEF LiveCalls, LiveAt
  <1>7. ~closed => c \in LiveCalls(s)
    BY <1>3, <1>4, <1>5 DEF LiveCalls, LiveAt
  <1> QED
    BY <1>1, <1>3, <1>5, <1>6, <1>7

\* The slots after a block: none is new, and only the one it completes stops
\* being live.
LEMMA CompleteOwned ==
  ASSUME NEW r \in Replies, NEW block \in Block
  PROVE  LET s == Complete(r, block).slots
         IN  /\ \A i \in DOMAIN s : \E j \in DOMAIN r.slots : s[i].call = r.slots[j].call
             /\ \A c \in LiveCalls(r.slots) :
                  \/ c \in LiveCalls(s)
                  \/ Completes(r, block) /\ Head(r.slots).live /\ c = Head(r.slots).call
  <1> DEFINE s == Complete(r, block).slots
  <1>1. /\ r.slots \in Seq(Slot) /\ \A i \in DOMAIN r.slots : r.slots[i] \in Slot
        /\ DOMAIN r = {"slots", "live", "earliest"}
    BY SlotCalls DEF Replies
  <1>2. CASE r.slots = <<>>
    BY <1>2 DEF Complete
  <1>3. CASE r.slots # <<>> /\ ~IsLast(Head(r.slots), block)
    <2>1. s = [r.slots EXCEPT ![1] = TookOne(Head(r.slots), block)]
      BY <1>1, <1>3 DEF Complete, Replies
    <2>2. Head(r.slots) = r.slots[1] /\ 1 \in DOMAIN r.slots
      BY <1>1, <1>3, HeadTailProperties, LenProperties, EmptySeq
    <2>3. /\ TookOne(Head(r.slots), block).call = r.slots[1].call
          /\ TookOne(Head(r.slots), block).live = r.slots[1].live
      BY <1>1, <2>2 DEF TookOne, Slot
    <2>4. /\ DOMAIN s = DOMAIN r.slots
          /\ \A i \in DOMAIN s : s[i].call = r.slots[i].call /\ s[i].live = r.slots[i].live
      BY <2>1, <2>2, <2>3
    <2> HIDE DEF s
    <2>5. /\ \A i \in DOMAIN s : \E j \in DOMAIN r.slots : s[i].call = r.slots[j].call
          /\ \A c \in LiveCalls(r.slots) : c \in LiveCalls(s)
      BY <2>4 DEF LiveCalls, LiveAt
    <2> QED
      BY <2>5 DEF s
  <1>4. CASE r.slots # <<>> /\ IsLast(Head(r.slots), block)
    <2>1. s = Tail(r.slots) /\ Completes(r, block)
      BY <1>4 DEF Complete, Completes
    <2>2. /\ Len(r.slots) \in Nat /\ Len(r.slots) >= 1 /\ DOMAIN r.slots = 1..Len(r.slots)
          /\ Head(r.slots) = r.slots[1] /\ DOMAIN s = 1..(Len(r.slots) - 1)
          /\ \A i \in 1..(Len(r.slots) - 1) : s[i] = r.slots[i + 1]
      BY <1>1, <1>4, <2>1, HeadTailProperties, LenProperties, EmptySeq
    <2>3. \A i \in DOMAIN s : i + 1 \in DOMAIN r.slots /\ s[i] = r.slots[i + 1]
      BY <2>2
    <2>4. \A i \in DOMAIN r.slots : i = 1 \/ (i - 1 \in DOMAIN s /\ s[i - 1] = r.slots[i])
      BY <2>2
    <2> HIDE DEF s
    <2>5. ASSUME NEW c \in LiveCalls(r.slots)
          PROVE  c \in LiveCalls(s) \/ (Head(r.slots).live /\ c = Head(r.slots).call)
      <3>1. PICK i \in DOMAIN r.slots : r.slots[i].live /\ r.slots[i].call = c
        BY <2>5 DEF LiveCalls, LiveAt
      <3> QED
        BY <2>2, <2>4, <3>1 DEF LiveCalls, LiveAt
    <2>6. \A i \in DOMAIN s : \E j \in DOMAIN r.slots : s[i].call = r.slots[j].call
      BY <2>3
    <2>7. Completes(r, block)
      BY <2>1
    <2> QED
      BY <2>5, <2>6, <2>7 DEF s
  <1> QED
    BY <1>2, <1>3, <1>4

\* The callers in S are answered, which is allowed if they are not told their
\* line was not dispatched after it was, and accounted for if nobody else
\* loses a request or a slot.
LEMMA AnsweredInv ==
  ASSUME IInv, NEW S, NEW v \in AnswerType, v # NoAnswer, Tell(S, v),
         UNCHANGED <<call, commit, written>>,
         queue' \in Seq(Calls),
         \A i, j \in DOMAIN queue' : queue'[i] = queue'[j] => i = j,
         Range(queue') \subseteq Range(queue),
         \A c \in S : c \notin Range(queue'),
         \A i \in DOMAIN awaiting'.slots :
           \E j \in DOMAIN awaiting.slots : awaiting'.slots[i].call = awaiting.slots[j].call,
         current' = NoCall \/ current' = current,
         v.kind = "dispatchTimedOut" => \A c \in S : commit[c] # "sent",
         \A c \in Calls : Listening(c) /\ ~HasAnswer(c) /\ c \notin S =>
           /\ c \in LiveCalls(awaiting.slots) \cup {current} =>
                c \in LiveCalls(awaiting'.slots) \cup {current'}
           /\ c \in Range(queue) => c \in Range(queue')
  PROVE  CallTypeOK' /\ CallInv'
  <1>a. CallTypeOK /\ UnsentIsUnknown /\ WithdrawnIsOver /\ QueuedIsUncommitted
        /\ WrittenIsCommitted /\ WaitingCallIsOwned
    BY Facts
  <1>b. answer' = [c \in Calls |-> IF c \in S /\ Listening(c) THEN v ELSE answer[c]]
    BY DEF Tell
  <1>c. \A c \in Calls : /\ answer'[c] = v \/ answer'[c] = answer[c]
                         /\ c \notin S => answer'[c] = answer[c]
                         /\ ~Listening(c) => answer'[c] = answer[c]
                         /\ c \in S /\ Listening(c) => answer'[c] = v
    BY <1>b
  <1>d. \A i \in DOMAIN queue' : queue'[i] \in Calls /\ queue'[i] \in Range(queue')
    BY LenProperties, ElementOfSeq DEF Range
  <1>1. CallTypeOK'
    <2>1. answer' \in [Calls -> AnswerType]
      BY <1>a, <1>b DEF CallTypeOK, AnswerType
    <2> QED
      BY <1>a, <2>1 DEF CallTypeOK, AnswerType
  <1>2. UnsentIsUnknown' /\ WithdrawnIsOver'
    <2>1. \A c \in Calls : call[c] \in {"idle", "reserving", "permit"} => ~Listening(c)
      BY DEF Listening
    <2>2. UnsentIsUnknown'
      BY <1>a, <1>c, <2>1 DEF UnsentIsUnknown
    <2> QED
      BY <1>a, <2>2 DEF WithdrawnIsOver
  <1>3. QueuedIsUncommitted'
    <2>1. \A c \in Range(queue) : commit[c] # "sent" /\ (commit[c] = "open" => answer[c] = NoAnswer)
      BY <1>a DEF QueuedIsUncommitted, Range
    <2>2. \A i \in DOMAIN queue' : queue'[i] \in Range(queue) /\ queue'[i] \notin S
      BY <1>d
    <2> QED
      BY <1>c, <1>d, <2>1, <2>2 DEF QueuedIsUncommitted
  <1>4. WrittenIsCommitted'
    <2>1. ASSUME NEW c \in Calls, commit[c] = "sent"
          PROVE  answer'[c].kind # "dispatchTimedOut"
      <3>1. answer[c].kind # "dispatchTimedOut"
        BY <1>a, <2>1 DEF WrittenIsCommitted
      <3>2. CASE answer'[c] = answer[c]
        BY <3>1, <3>2
      <3>3. CASE answer'[c] # answer[c]
        <4>1. c \in S /\ answer'[c] = v
          BY <1>c, <3>3
        <4> QED
          BY <2>1, <4>1
      <3> QED
        BY <3>2, <3>3
    <2> QED
      BY <1>a, <2>1 DEF WrittenIsCommitted
  <1>5. WaitingCallIsOwned'
    <2> SUFFICES ASSUME NEW c \in Calls, Listening(c)', ~HasAnswer(c)'
                 PROVE  IF commit[c] = "sent"
                        THEN c \in LiveCalls(awaiting'.slots) \cup {current'}
                        ELSE c \in Range(queue')
      BY DEF WaitingCallIsOwned
    <2>1. Listening(c)
      BY DEF Listening
    <2>2. c \notin S /\ ~HasAnswer(c)
      BY <1>c, <2>1 DEF HasAnswer
    <2> QED
      BY <1>a, <2>1, <2>2 DEF WaitingCallIsOwned
  <1> QED
    BY <1>1, <1>2, <1>3, <1>4, <1>5 DEF CallInv

-----------------------------------------------------------------------------
(* What several steps of the task share.                                   *)

\* A step that changes nothing the callers' invariant is about.
LEMMA QuietStep ==
  ASSUME IInv, UNCHANGED callView, EnvTypeOK', TaskTypeOK', DeliveryTypeOK', TmuxTypeOK'
  PROVE  IInv'
  <1>1. UNCHANGED callVars /\ UNCHANGED awaiting
    BY DEF callView
  <1> QED
    BY <1>1, Facts, CallSame, CachesSame, CallInvSame DEF IInv, TypeOK

\* The end of the loops, whatever ended them.
LEMMA FinishStep ==
  ASSUME IInv, NEW o \in Outcomes, Finish(o),
         UNCHANGED <<call, commit, blockDeadline, sending, watching, written>>
  PROVE  CallTypeOK' /\ TaskTypeOK' /\ CachesAreExact' /\ CallInv'
  <1>a. TaskTypeOK /\ CallTypeOK
    BY Facts
  <1>b. /\ outcome' = o /\ Tell(Owned, Err(Reason(o))) /\ queue' = <<>>
        /\ awaiting' = NoReplies /\ current' = NoCall /\ mode' \in {"drain", "ended"}
    BY DEF Finish
  <1>c. Reason(o) \in AnswerKinds \ {None} /\ Reason(o) # "dispatchTimedOut"
    BY DEF Reason, AnswerKinds, None
  <1>d. Err(Reason(o)) \in AnswerType /\ Err(Reason(o)) # NoAnswer
        /\ Err(Reason(o)).kind # "dispatchTimedOut"
    BY <1>c, ErrTyped
  <1>e. DOMAIN awaiting'.slots = {} /\ DOMAIN queue' = {} /\ Range(queue') = {}
        /\ queue' \in Seq(Calls)
    BY <1>b, EmptySeq DEF NoReplies, Range
  <1>1. TaskTypeOK'
    BY <1>a, <1>b, NoRepliesExact DEF TaskTypeOK
  <1>2. CachesAreExact'
    BY <1>b, NoRepliesExact DEF CachesAreExact
  <1>3. \A c \in Calls : c \notin Owned =>
          c \notin LiveCalls(awaiting.slots) \cup {current} /\ c \notin Range(queue)
    BY NoCallIsNoCall DEF Owned
  <1>4. CallTypeOK' /\ CallInv'
    BY <1>b, <1>d, <1>e, <1>3, AnsweredInv
  <1> QED
    BY <1>1, <1>2, <1>4

\* A finishing step that leaves the rest alone.
LEMMA FinishOnly ==
  ASSUME IInv, NEW o \in Outcomes, Finish(o), FinishUnchanged, UNCHANGED written,
         TmuxTypeOK'
  PROVE  IInv'
  <1>1. UNCHANGED <<call, commit, blockDeadline, sending, watching, written>>
        /\ UNCHANGED <<held, watcherVars>> /\ UNCHANGED envVars
    BY DEF FinishUnchanged
  <1> QED
    BY <1>1, Facts, FinishStep, EnvSame, DeliverySame DEF IInv, TypeOK

LEMMA FinishQuietly ==
  ASSUME IInv, NEW o \in Outcomes, Finish(o), FinishUnchanged, UNCHANGED tmuxVars
  PROVE  IInv'
  <1>1. UNCHANGED written
    BY DEF tmuxVars
  <1> QED
    BY <1>1, Facts, TmuxSame, FinishOnly

LEMMA OutcomesAre ==
  /\ "ok" \in Outcomes /\ "closed" \in Outcomes /\ "frame" \in Outcomes
  /\ "timedOut" \in Outcomes /\ "shutdown" \in Outcomes /\ "cleanup" \in Outcomes
  BY DEF Outcomes

\* The next line is read.
LEMMA ReadLine ==
  ASSUME IInv, Readable, rd' = rd + 1,
         UNCHANGED <<log, written, tmuxLine, tmuxCmd, tmuxOpen, tmux>>
  PROVE  TmuxTypeOK' /\ rd + 1 \in Nat /\ log[rd + 1] \in Line
  <1>1. TmuxTypeOK /\ log \in Seq(Line) /\ rd \in 0..Len(log) /\ rd < Len(log)
    BY Facts DEF TmuxTypeOK, Readable
  <1>2. Len(log) \in Nat
    BY <1>1, LenProperties
  <1>3. rd + 1 \in 0..Len(log) /\ rd + 1 \in 1..Len(log) /\ rd + 1 \in Nat
    BY <1>1, <1>2
  <1>4. log[rd + 1] \in Line
    BY <1>1, <1>3, ElementOfSeq
  <1>5. TmuxTypeOK'
    BY <1>1, <1>3 DEF TmuxTypeOK
  <1> QED
    BY <1>3, <1>4, <1>5

LEMMA ReportTyped ==
  ASSUME DeliveryTypeOK, NEW p \in Nat, Report(p), UNCHANGED <<watcher, delivered>>
  PROVE  DeliveryTypeOK'
  <1>1. /\ Append(held, p) \in Seq(Nat) /\ Append(events, p) \in Seq(Nat) /\ <<p>> \in Seq(Nat)
    BY AppendProperties DEF DeliveryTypeOK
  <1>2. held' \in Seq(Nat) /\ events' \in Seq(Nat)
    BY <1>1 DEF Report, DeliveryTypeOK
  <1> QED
    BY <1>2 DEF DeliveryTypeOK

\* One held delivery goes to the watcher.
LEMMA DeliveryMoves ==
  ASSUME DeliveryTypeOK, held # <<>>, UNCHANGED <<watcher, delivered>>,
         events' = Append(events, Head(held)), held' = Tail(held)
  PROVE  DeliveryTypeOK'
  <1>1. Head(held) \in Nat /\ Tail(held) \in Seq(Nat)
    BY HeadTailProperties DEF DeliveryTypeOK
  <1>2. Append(events, Head(held)) \in Seq(Nat)
    BY <1>1, AppendProperties DEF DeliveryTypeOK
  <1> QED
    BY <1>1, <1>2 DEF DeliveryTypeOK

-----------------------------------------------------------------------------
(* Opening, and the public handles.                                        *)

LEMMA OpeningPreserves ==
  ASSUME IInv, OpeningStep
  PROVE  IInv'
  <1>a. EnvTypeOK /\ TaskTypeOK /\ DeliveryTypeOK /\ TmuxTypeOK
    BY Facts
  <1>1. CASE OpeningCancelled
    BY <1>1, OutcomesAre, FinishQuietly DEF OpeningCancelled
  <1>2. CASE OpeningCoreStopped
    BY <1>2, OutcomesAre, FinishQuietly DEF OpeningCoreStopped
  <1>3. CASE OpeningTimedOut
    BY <1>3, OutcomesAre, FinishQuietly DEF OpeningTimedOut
  <1>4. CASE OpeningEvent
    <2>1. /\ TmuxTypeOK' /\ rd + 1 \in Nat /\ events' = Append(events, rd + 1)
          /\ UNCHANGED <<watcher, delivered, written>> /\ UNCHANGED envVars
          /\ UNCHANGED callVars /\ UNCHANGED actorVars
      BY <1>4, ReadLine DEF OpeningEvent, OpeningReads
    <2>2. DeliveryTypeOK'
      BY <1>a, <2>1, AppendProperties DEF DeliveryTypeOK, actorVars
    <2> QED
      BY <1>a, <2>1, <2>2, EnvSame, TaskSame, QuietStep DEF callView, actorVars
  <1>5. CASE OpeningBegin
    <2>1. TmuxTypeOK' /\ UNCHANGED written
      BY <1>5, ReadLine DEF OpeningBegin, OpeningReads
    <2>2. TaskTypeOK'
      BY <1>a, <1>5 DEF OpeningBegin, TaskTypeOK
    <2> QED
      BY <1>a, <1>5, <2>1, <2>2, EnvSame, DeliverySame, QuietStep
         DEF OpeningBegin, callView
  <1>6. CASE OpeningEnd
    <2>1. TmuxTypeOK' /\ UNCHANGED written
      BY <1>6, ReadLine DEF OpeningEnd, OpeningReads
    <2>2. TaskTypeOK'
      BY <1>a, <1>6 DEF OpeningEnd, TaskTypeOK
    <2>3. EnvTypeOK'
      BY <1>a, <1>6 DEF OpeningEnd, EnvTypeOK
    <2> QED
      BY <1>a, <1>6, <2>1, <2>2, <2>3, DeliverySame, QuietStep DEF OpeningEnd, callView
  <1>7. CASE OpeningFails
    <2>1. TmuxTypeOK' /\ UNCHANGED written
      BY <1>7, ReadLine DEF OpeningFails, OpeningReads
    <2> QED
      BY <1>7, <2>1, OutcomesAre, FinishOnly DEF OpeningFails
  <1> QED
    BY <1>1, <1>2, <1>3, <1>4, <1>5, <1>6, <1>7 DEF OpeningStep

LEMMA HandlesPreserve ==
  ASSUME IInv, Handles \/ Tick
  PROVE  IInv'
  <1>a. EnvTypeOK /\ TaskTypeOK /\ DeliveryTypeOK /\ TmuxTypeOK
    BY Facts
  <1>b. UNCHANGED callVars /\ UNCHANGED actorVars /\ UNCHANGED tmuxVars
    BY DEF Handles, DropSender, Next_event, TakeOutcome, Shutdown, DropWatcher,
           CancelAttach, CoreShutdown, Tick
  <1>c. /\ UNCHANGED callView
        /\ UNCHANGED <<mode, current, awaiting, blockDeadline, sending, watching, outcome>>
    BY <1>b DEF callView, actorVars, tmuxVars
  <1>1. EnvTypeOK'
    <2>1. CASE Tick
      BY <1>a, <2>1, TimeAssumption DEF Tick, EnvTypeOK
    <2>2. CASE Handles
      BY <1>a, <2>2 DEF Handles, DropSender, Next_event, TakeOutcome, Shutdown, DropWatcher,
           CancelAttach, CoreShutdown, EnvTypeOK, envVars
    <2> QED
      BY <2>1, <2>2
  <1>2. DeliveryTypeOK'
    <2>1. CASE Next_event
      <3>1. Head(events) \in Nat /\ Tail(events) \in Seq(Nat)
        BY <1>a, <2>1, HeadTailProperties DEF Next_event, DeliveryTypeOK
      <3>2. Append(delivered, Head(events)) \in Seq(Nat)
        BY <1>a, <3>1, AppendProperties DEF DeliveryTypeOK
      <3> QED
        BY <1>a, <1>b, <2>1, <3>1, <3>2 DEF Next_event, DeliveryTypeOK, actorVars
    <2>2. CASE TakeOutcome
      BY <1>a, <1>b, <2>2 DEF TakeOutcome, DeliveryTypeOK, actorVars
    <2>3. CASE Shutdown \/ DropWatcher \/ CancelAttach
      BY <1>a, <1>b, <2>3, EmptySeq
         DEF Shutdown, DropWatcher, CancelAttach, DeliveryTypeOK, actorVars
    <2>4. CASE DropSender \/ CoreShutdown \/ Tick
      BY <1>a, <1>b, <2>4, DeliverySame DEF DropSender, CoreShutdown, Tick, actorVars
    <2> QED
      BY <2>1, <2>2, <2>3, <2>4 DEF Handles
  <1> QED
    BY <1>a, <1>b, <1>c, <1>1, <1>2, TaskSame, TmuxSame, QuietStep

-----------------------------------------------------------------------------
(* The steps of serve() and of a write.                                    *)

\* Live slots and the line being written belong to committed requests.
LEMMA LiveIsCommitted ==
  ASSUME IInv, NEW c \in LiveCalls(awaiting.slots)
  PROVE  c \in Calls /\ commit[c] = "sent" /\ c \notin Range(queue)
  <1>1. PICK i \in DOMAIN awaiting.slots : c = awaiting.slots[i].call
    BY DEF LiveCalls, LiveAt
  <1>2. c \in Calls /\ commit[c] = "sent"
    BY <1>1, Facts, SlotCalls DEF TaskTypeOK, WrittenIsCommitted
  <1> QED
    BY <1>2, Facts DEF QueuedIsUncommitted, Range

LEMMA RefuseUnreadStep ==
  ASSUME IInv, RefuseUnread
  PROVE  IInv'
  <1>a. /\ TaskTypeOK /\ CallTypeOK /\ CachesAreExact /\ QueuedIsUncommitted
        /\ awaiting \in Replies
    BY Facts DEF TaskTypeOK
  <1>b. /\ Tell(LiveCalls(awaiting.slots), Err("unread"))
        /\ awaiting' = RefuseLive(awaiting)
        /\ UNCHANGED <<call, commit, queue, mode, current, blockDeadline, held, sending,
                       watching, outcome, written>>
        /\ UNCHANGED envVars /\ UNCHANGED watcherVars /\ UNCHANGED tmuxVars
    BY DEF RefuseUnread, tmuxVars
  <1>c. "unread" \in AnswerKinds \ {None}
    BY DEF AnswerKinds, None
  <1>d. Err("unread") \in AnswerType /\ Err("unread") # NoAnswer
        /\ Err("unread").kind # "dispatchTimedOut"
    BY <1>c, ErrTyped
  <1>e. awaiting' \in Replies /\ CachesAreExact'
    BY <1>a, <1>b, RefuseLiveExact DEF CachesAreExact
  <1>f. \A i \in DOMAIN awaiting'.slots :
          i \in DOMAIN awaiting.slots /\ awaiting'.slots[i].call = awaiting.slots[i].call
    <2>1. awaiting'.slots = [i \in DOMAIN awaiting.slots |->
                              [awaiting.slots[i] EXCEPT !.live = FALSE, !.received = <<>>]]
      BY <1>b DEF RefuseLive
    <2>2. \A i \in DOMAIN awaiting.slots : awaiting.slots[i] \in Slot
      BY <1>a, SlotCalls
    <2>3. \A x \in Slot : [x EXCEPT !.live = FALSE, !.received = <<>>].call = x.call
      BY DEF Slot
    <2> QED
      BY <2>1, <2>2, <2>3
  <1>1. CallTypeOK' /\ CallInv'
    <2>1. queue' \in Seq(Calls)
      BY <1>a, <1>b DEF CallTypeOK
    <2>2. \A i, j \in DOMAIN queue' : queue'[i] = queue'[j] => i = j
      BY <1>a, <1>b DEF QueuedIsUncommitted
    <2>3. \A c \in LiveCalls(awaiting.slots) : c \notin Range(queue')
      BY <1>b, LiveIsCommitted
    <2>4. \A i \in DOMAIN awaiting'.slots :
            \E j \in DOMAIN awaiting.slots : awaiting'.slots[i].call = awaiting.slots[j].call
      BY <1>f
    <2>5. \A c \in Calls : c \notin LiveCalls(awaiting.slots) =>
            /\ c \in LiveCalls(awaiting.slots) \cup {current} =>
                 c \in LiveCalls(awaiting'.slots) \cup {current'}
            /\ c \in Range(queue) => c \in Range(queue')
      BY <1>b
    <2>6. Range(queue') \subseteq Range(queue)
      BY <1>b
    <2> QED
      BY <1>b, <1>d, <2>1, <2>2, <2>3, <2>4, <2>5, <2>6, AnsweredInv
  <1>2. TaskTypeOK'
    BY <1>a, <1>b, <1>e DEF TaskTypeOK
  <1> QED
    BY <1>b, <1>e, <1>1, <1>2, Facts, EnvSame, DeliverySame, TmuxSame DEF IInv, TypeOK

LEMMA RefuseRequestStep ==
  ASSUME IInv, RefuseRequest
  PROVE  IInv'
  <1> DEFINE c == Head(queue)
  <1>a. CallTypeOK /\ QueuedIsUncommitted /\ queue \in Seq(Calls) /\ TaskTypeOK
    BY Facts DEF CallTypeOK
  <1>b. /\ queue # <<>> /\ queue' = Tail(queue)
        /\ UNCHANGED <<call, commit, awaiting, current, written>>
        /\ UNCHANGED envVars /\ UNCHANGED watcherVars /\ UNCHANGED tmuxVars
        /\ UNCHANGED <<held, watcherVars>>
        /\ UNCHANGED <<mode, current, awaiting, blockDeadline, sending, watching, outcome>>
    BY DEF RefuseRequest, actorVars, tmuxVars
  <1>c. PICK kind \in {"dispatchTimedOut", "unread"} : Tell({c}, Err(kind))
    BY DEF RefuseRequest
  <1>d. kind \in AnswerKinds \ {None}
    BY DEF AnswerKinds, None
  <1>e. Err(kind) \in AnswerType /\ Err(kind) # NoAnswer
    BY <1>d, ErrTyped
  <1>f. \A i, j \in DOMAIN queue : queue[i] = queue[j] => i = j
    BY <1>a DEF QueuedIsUncommitted
  <1>g. /\ c \in Calls /\ queue' \in Seq(Calls)
        /\ \A i, j \in DOMAIN queue' : queue'[i] = queue'[j] => i = j
        /\ c \in Range(queue) /\ c \notin Range(queue')
        /\ Range(queue') \subseteq Range(queue)
        /\ Range(queue) \subseteq Range(queue') \cup {c}
    BY <1>a, <1>b, <1>f, TailRange
  <1>h. commit[c] # "sent"
    BY <1>a, <1>g DEF QueuedIsUncommitted, Range
  <1> HIDE DEF c
  <1>1. \A x \in Calls : x \notin {c} =>
            /\ x \in LiveCalls(awaiting.slots) \cup {current} =>
                 x \in LiveCalls(awaiting'.slots) \cup {current'}
            /\ x \in Range(queue) => x \in Range(queue')
    BY <1>b, <1>g
  <1>2. \A i \in DOMAIN awaiting'.slots :
          \E j \in DOMAIN awaiting.slots : awaiting'.slots[i].call = awaiting.slots[j].call
    BY <1>b
  <1>3. \A x \in {c} : x \notin Range(queue') /\ commit[x] # "sent"
    BY <1>g, <1>h
  <1>4. CallTypeOK' /\ CallInv'
    BY <1>b, <1>c, <1>e, <1>g, <1>1, <1>2, <1>3, AnsweredInv
  <1> QED
    BY <1>b, <1>4, Facts, EnvSame, TaskSame, DeliverySame, TmuxSame, CachesSame
       DEF IInv, TypeOK

LEMMA CommitRequestStep ==
  ASSUME IInv, CommitRequest
  PROVE  IInv'
  <1> DEFINE c == Head(queue)
  <1>a. /\ CallTypeOK /\ UnsentIsUnknown /\ WithdrawnIsOver /\ QueuedIsUncommitted
        /\ WrittenIsCommitted /\ WaitingCallIsOwned /\ TaskTypeOK /\ queue \in Seq(Calls)
    BY Facts DEF CallTypeOK
  <1>b. /\ queue # <<>> /\ queue' = Tail(queue) /\ mode = "serve"
        /\ UNCHANGED <<call, answer, awaiting, held, blockDeadline, sending, watching,
                       outcome, written>>
        /\ UNCHANGED envVars /\ UNCHANGED watcherVars /\ UNCHANGED tmuxVars
    BY DEF CommitRequest, Taking, Selecting, tmuxVars
  <1>c. \/ commit[c] = "withdrawn" /\ UNCHANGED <<commit, mode, current>>
        \/ /\ commit[c] # "withdrawn" /\ commit' = [commit EXCEPT ![c] = "sent"]
           /\ mode' = "write" /\ current' = c
    BY DEF CommitRequest
  <1>d. current = NoCall
    BY <1>a, <1>b DEF TaskTypeOK
  <1>f. \A i, j \in DOMAIN queue : queue[i] = queue[j] => i = j
    BY <1>a DEF QueuedIsUncommitted
  <1>g. /\ c \in Calls /\ queue' \in Seq(Calls)
        /\ \A i, j \in DOMAIN queue' : queue'[i] = queue'[j] => i = j
        /\ c \in Range(queue) /\ c \notin Range(queue')
        /\ Range(queue') \subseteq Range(queue)
        /\ Range(queue) \subseteq Range(queue') \cup {c}
    BY <1>a, <1>b, <1>f, TailRange
  <1>h. \A x \in Range(queue) : commit[x] # "sent" /\ (commit[x] = "open" => answer[x] = NoAnswer)
    BY <1>a DEF QueuedIsUncommitted, Range
  <1>i. \A x \in Range(queue) : call[x] \notin {"idle", "reserving", "permit"}
    <2>1. \A x \in Range(queue) : x \in Calls
      BY <1>a, LenProperties, ElementOfSeq DEF Range
    <2> QED
      BY <1>a, <2>1 DEF UnsentIsUnknown
  <1>j. c \in Calls /\ NoCall \notin Calls
    BY <1>g, NoCallIsNoCall
  <1> HIDE DEF c
  <1>k. /\ commit' \in [Calls -> {"open", "sent", "withdrawn"}]
        /\ \A x \in Calls : x # c => commit'[x] = commit[x]
        /\ commit[c] = "withdrawn" => commit'[c] = "withdrawn"
        /\ commit[c] # "withdrawn" => commit'[c] = "sent"
        /\ \A x \in Calls : commit[x] = "sent" => commit'[x] = "sent"
        /\ current' # NoCall => current' = c /\ commit'[c] = "sent"
    BY <1>a, <1>c, <1>d, <1>j DEF CallTypeOK
  <1>1. CallTypeOK'
    BY <1>a, <1>b, <1>g, <1>k DEF CallTypeOK
  <1>2. UnsentIsUnknown'
    BY <1>a, <1>b, <1>g, <1>i, <1>k DEF UnsentIsUnknown
  <1>3. WithdrawnIsOver'
    <2>1. \A x \in Calls : commit'[x] = "withdrawn" => commit[x] = "withdrawn"
      BY <1>k
    <2> QED
      BY <1>a, <1>b, <2>1 DEF WithdrawnIsOver
  <1>4. QueuedIsUncommitted'
    <2>1. \A i \in DOMAIN queue' : queue'[i] \in Range(queue') /\ queue'[i] \in Calls
      BY <1>g, LenProperties, ElementOfSeq DEF Range
    <2>2. \A x \in Range(queue') : x \in Calls => x # c /\ commit'[x] = commit[x]
      BY <1>g, <1>k
    <2>3. \A i \in DOMAIN queue' :
            /\ commit'[queue'[i]] # "sent"
            /\ commit'[queue'[i]] = "open" => answer'[queue'[i]] = NoAnswer
      BY <1>b, <1>g, <1>h, <2>1, <2>2
    <2> QED
      BY <1>g, <2>3 DEF QueuedIsUncommitted
  <1>5. WrittenIsCommitted'
    <2>1. \A i \in DOMAIN written : written[i] \in Calls
      BY Facts, LenProperties, ElementOfSeq DEF TmuxTypeOK
    <2>2. \A i \in DOMAIN awaiting.slots : awaiting.slots[i].call \in Calls
      BY Facts, SlotCalls DEF TaskTypeOK
    <2>3. ASSUME NEW x \in Calls, commit'[x] = "sent"
          PROVE  answer'[x].kind # "dispatchTimedOut"
      <3>1. CASE x # c
        BY <1>a, <1>b, <1>k, <2>3, <3>1 DEF WrittenIsCommitted
      <3>2. CASE x = c
        <4>1. commit[c] = "open"
          BY <1>a, <1>g, <1>h, <1>k, <2>3, <3>2 DEF CallTypeOK
        <4> QED
          BY <1>b, <1>g, <1>h, <3>2, <4>1 DEF NoAnswer, None
      <3> QED
        BY <3>1, <3>2
    <2>4. \A i \in DOMAIN written' : commit'[written'[i]] = "sent"
      BY <1>a, <1>b, <1>k, <2>1 DEF WrittenIsCommitted
    <2>5. \A i \in DOMAIN awaiting'.slots : commit'[awaiting'.slots[i].call] = "sent"
      BY <1>a, <1>b, <1>k, <2>2 DEF WrittenIsCommitted
    <2> QED
      BY <1>k, <2>3, <2>4, <2>5 DEF WrittenIsCommitted
  <1>6. WaitingCallIsOwned'
    <2> SUFFICES ASSUME NEW x \in Calls, Listening(x)', ~HasAnswer(x)'
                 PROVE  IF commit'[x] = "sent"
                        THEN x \in LiveCalls(awaiting'.slots) \cup {current'}
                        ELSE x \in Range(queue')
      BY DEF WaitingCallIsOwned
    <2>1. Listening(x) /\ ~HasAnswer(x)
      BY <1>b DEF Listening, HasAnswer
    <2>2. IF commit[x] = "sent" THEN x \in LiveCalls(awaiting.slots) \cup {current}
          ELSE x \in Range(queue)
      BY <1>a, <2>1 DEF WaitingCallIsOwned
    <2>3. CASE x = c
      <3>1. commit[c] # "withdrawn"
        BY <1>a, <1>b, <2>1, <2>3 DEF WithdrawnIsOver, Listening
      <3> QED
        BY <1>c, <1>k, <2>3, <3>1
    <2>4. CASE x # c
      BY <1>b, <1>d, <1>g, <1>j, <1>k, <2>2, <2>4
    <2> QED
      BY <2>3, <2>4
  <1>7. TaskTypeOK'
    BY <1>a, <1>b, <1>c, <1>j DEF TaskTypeOK
  <1> QED
    BY <1>b, <1>1, <1>2, <1>3, <1>4, <1>5, <1>6, <1>7, Facts, EnvSame, DeliverySame, TmuxSame,
       CachesSame DEF IInv, TypeOK, CallInv

LEMMA WriteDoneStep ==
  ASSUME IInv, WriteDone
  PROVE  IInv'
  <1> DEFINE closed == ~Listening(current)
  <1>a. /\ TaskTypeOK /\ CallTypeOK /\ CachesAreExact /\ awaiting \in Replies /\ current \in Calls
        /\ UnsentIsUnknown /\ WithdrawnIsOver /\ QueuedIsUncommitted
        /\ WrittenIsCommitted /\ WaitingCallIsOwned
    BY Facts DEF WriteDone, Writing, TaskTypeOK
  <1>b. /\ awaiting' = PushOrdered(awaiting, current, closed) /\ mode' = "serve" /\ current' = NoCall
        /\ UNCHANGED <<call, answer, commit, queue, held, blockDeadline, sending, watching,
                       outcome, written>>
        /\ UNCHANGED callVars
        /\ UNCHANGED envVars /\ UNCHANGED watcherVars /\ UNCHANGED tmuxVars
    BY DEF WriteDone, tmuxVars, callVars
  <1>c. closed \in BOOLEAN
    OBVIOUS
  <1>d. closed => ~Listening(current)
    OBVIOUS
  <1> HIDE DEF closed
  <1>1. awaiting' \in Replies /\ CachesAreExact'
    BY <1>a, <1>b, <1>c, PushOrderedExact DEF CachesAreExact
  <1>2. /\ \A i \in DOMAIN awaiting'.slots :
             awaiting'.slots[i].call = current
             \/ \E j \in DOMAIN awaiting.slots : awaiting'.slots[i].call = awaiting.slots[j].call
        /\ LiveCalls(awaiting.slots) \subseteq LiveCalls(awaiting'.slots)
        /\ ~closed => current \in LiveCalls(awaiting'.slots)
    BY <1>a, <1>b, <1>c, PushOwned
  <1>3. TaskTypeOK'
    BY <1>a, <1>b, <1>1 DEF TaskTypeOK
  <1>4. UnsentIsUnknown' /\ WithdrawnIsOver' /\ QueuedIsUncommitted'
    BY <1>a, <1>b DEF UnsentIsUnknown, WithdrawnIsOver, QueuedIsUncommitted
  <1>5. WrittenIsCommitted'
    <2>1. commit[current] = "sent"
      BY <1>a, NoCallIsNoCall DEF WrittenIsCommitted
    <2> QED
      BY <1>a, <1>b, <1>2, <2>1 DEF WrittenIsCommitted
  <1>6. WaitingCallIsOwned'
    <2> SUFFICES ASSUME NEW x \in Calls, Listening(x)', ~HasAnswer(x)'
                 PROVE  IF commit[x] = "sent"
                        THEN x \in LiveCalls(awaiting'.slots) \cup {current'}
                        ELSE x \in Range(queue)
      BY <1>b DEF WaitingCallIsOwned
    <2>1. Listening(x) /\ ~HasAnswer(x)
      BY <1>b DEF Listening, HasAnswer
    <2>2. IF commit[x] = "sent" THEN x \in LiveCalls(awaiting.slots) \cup {current}
          ELSE x \in Range(queue)
      BY <1>a, <2>1 DEF WaitingCallIsOwned
    <2> QED
      BY <1>d, <1>2, <2>1, <2>2
  <1> QED
    BY <1>b, <1>1, <1>3, <1>4, <1>5, <1>6, Facts, EnvSame, CallSame, DeliverySame, TmuxSame
       DEF IInv, TypeOK, CallInv

LEMMA ServePreserves ==
  ASSUME IInv, ServeStep
  PROVE  IInv'
  <1>a. EnvTypeOK /\ TaskTypeOK /\ DeliveryTypeOK /\ TmuxTypeOK /\ CallTypeOK
    BY Facts
  <1>1. CASE RefuseUnread \/ RefuseRequest \/ CommitRequest
    BY <1>1, RefuseUnreadStep, RefuseRequestStep, CommitRequestStep
  <1>2. CASE ServeEnds \/ StopAsked \/ CoreStopped \/ TimedOut
    BY <1>2, OutcomesAre, FinishQuietly DEF ServeEnds, StopAsked, CoreStopped, TimedOut
  <1>3. CASE Unwatched \/ SendersGone
    <2>1. /\ UNCHANGED <<mode, current, awaiting, blockDeadline, held, outcome>>
          /\ sending' \in BOOLEAN /\ watching' \in BOOLEAN
          /\ UNCHANGED envVars /\ UNCHANGED callVars /\ UNCHANGED watcherVars
          /\ UNCHANGED tmuxVars /\ UNCHANGED <<held, watcherVars>>
      BY <1>a, <1>3 DEF Unwatched, SendersGone, TaskTypeOK
    <2>2. TaskTypeOK'
      BY <1>a, <2>1 DEF TaskTypeOK
    <2>3. UNCHANGED callView
      BY <2>1 DEF callView, tmuxVars
    <2> QED
      BY <1>a, <2>1, <2>2, <2>3, EnvSame, DeliverySame, TmuxSame, QuietStep
  <1>4. CASE ReadEvent
    <2>1. /\ TmuxTypeOK' /\ rd + 1 \in Nat /\ UNCHANGED written
      BY <1>4, ReadLine DEF ReadEvent, Reads, ReadReady
    <2>2. DeliveryTypeOK'
      BY <1>a, <1>4, <2>1, ReportTyped DEF ReadEvent
    <2> QED
      BY <1>a, <1>4, <2>1, <2>2, EnvSame, TaskSame, QuietStep DEF ReadEvent, callView
  <1>5. CASE ReadExit
    <2>1. /\ TmuxTypeOK' /\ rd + 1 \in Nat /\ UNCHANGED written
      BY <1>5, ReadLine DEF ReadExit, Reads, ReadReady
    <2>2. DeliveryTypeOK'
      BY <1>a, <1>5, <2>1, ReportTyped DEF ReadExit
    <2>3. CallTypeOK' /\ TaskTypeOK' /\ CachesAreExact' /\ CallInv'
      BY <1>5, <2>1, OutcomesAre, FinishStep DEF ReadExit
    <2> QED
      BY <1>a, <1>5, <2>1, <2>2, <2>3, EnvSame DEF ReadExit, IInv, TypeOK
  <1>6. CASE ReadFails
    <2>1. TmuxTypeOK' /\ UNCHANGED written
      BY <1>6, ReadLine DEF ReadFails, Reads, ReadReady
    <2> QED
      BY <1>6, <2>1, OutcomesAre, FinishOnly DEF ReadFails, ReadError
  <1>7. CASE ReadBegin
    <2>1. TmuxTypeOK' /\ UNCHANGED written /\ mode = "serve"
      BY <1>7, ReadLine DEF ReadBegin, Reads, ReadReady, Selecting
    <2>2. blockDeadline' \in Nat \cup {Never}
      <3>1. now + BlockTimeout \in Nat
        BY <1>a, TimeAssumption DEF EnvTypeOK
      <3> QED
        BY <1>a, <1>7, <3>1 DEF ReadBegin, TaskTypeOK, Replies
    <2>3. TaskTypeOK'
      BY <1>a, <1>7, <2>1, <2>2 DEF ReadBegin, TaskTypeOK
    <2> QED
      BY <1>a, <1>7, <2>1, <2>3, EnvSame, DeliverySame, QuietStep DEF ReadBegin, callView
  <1>8. CASE Deliver
    <2>1. DeliveryTypeOK'
      <3>1. CASE ReceiverOpen
        BY <1>a, <1>8, <3>1, DeliveryMoves DEF Deliver, DeliverReady
      <3>2. CASE ~ReceiverOpen
        BY <1>a, <1>8, <3>2, EmptySeq DEF Deliver, DeliveryTypeOK
      <3> QED
        BY <3>1, <3>2
    <2> QED
      BY <1>a, <1>8, <2>1, EnvSame, TaskSame, TmuxSame, QuietStep
         DEF Deliver, callView, tmuxVars
  <1> QED
    BY <1>1, <1>2, <1>3, <1>4, <1>5, <1>6, <1>7, <1>8 DEF ServeStep

LEMMA WritePreserves ==
  ASSUME IInv, WriteStep
  PROVE  IInv'
  <1>1. CASE WriteCoreStopped \/ WriteStopped \/ WriteTimedOut \/ WriteFails
    BY <1>1, OutcomesAre, FinishQuietly
       DEF WriteCoreStopped, WriteStopped, WriteTimedOut, WriteFails
  <1> QED
    BY <1>1, WriteDoneStep DEF WriteStep

-----------------------------------------------------------------------------
(* Reading a block, and the drain.                                         *)

LEMMA BlockCompletesStep ==
  ASSUME IInv, BlockCompletes
  PROVE  IInv'
  <1> DEFINE block == BlockAt(rd + 1)
             front == Head(awaiting.slots)
             told == Completes(awaiting, block) /\ front.live
             S == IF told THEN {front.call} ELSE {}
             v == IF told THEN Reply(WholeReply(awaiting, block)) ELSE Err("closed")
  <1>a. /\ TaskTypeOK /\ DeliveryTypeOK /\ CallTypeOK /\ CachesAreExact /\ awaiting \in Replies
        /\ QueuedIsUncommitted
    BY Facts DEF TaskTypeOK
  <1>b. TmuxTypeOK' /\ rd + 1 \in Nat /\ log[rd + 1] \in Line
    BY ReadLine DEF BlockCompletes, BlockReads
  <1>c. block \in Block
    BY <1>b DEF BlockAt, Line, Block
  <1>d. /\ Report(rd + 1) \/ UNCHANGED <<held, events>>
        /\ IF told THEN Tell({front.call}, Reply(WholeReply(awaiting, block)))
           ELSE UNCHANGED answer
        /\ awaiting' = Complete(awaiting, block) /\ mode' = "serve" /\ mode = "block"
        /\ UNCHANGED <<call, commit, queue, current, blockDeadline, sending, watching,
                       outcome, watcher, delivered, written>>
        /\ UNCHANGED envVars
    BY DEF BlockCompletes, BlockReads
  <1>e. awaiting' \in Replies /\ CachesAreExact'
    BY <1>a, <1>c, <1>d, CompleteExact DEF CachesAreExact
  <1>f. told => /\ awaiting.slots # <<>> /\ front \in Slot
                /\ front.call \in LiveCalls(awaiting.slots)
    <2>1. awaiting.slots \in Seq(Slot)
      BY <1>a, SlotCalls
    <2>2. awaiting.slots # <<>> => front = awaiting.slots[1] /\ 1 \in DOMAIN awaiting.slots
      BY <2>1, HeadTailProperties, LenProperties, EmptySeq
    <2> QED
      BY <1>a, <2>2, SlotCalls DEF Completes, LiveCalls, LiveAt
  <1>g. told => Reply(WholeReply(awaiting, block)) \in AnswerType
    <2>1. ASSUME told PROVE WholeReply(awaiting, block) \in Seq(Block)
      BY <1>c, <1>f, <2>1, AppendProperties DEF WholeReply, Slot
    <2> QED
      BY <2>1 DEF Reply, AnswerType, AnswerKinds
  <1>h. v \in AnswerType /\ v # NoAnswer /\ v.kind # "dispatchTimedOut"
    <2>1. "closed" \in AnswerKinds \ {None}
      BY DEF AnswerKinds, None
    <2> QED
      BY <1>g, <2>1, ErrTyped DEF Reply, NoAnswer, None
  <1>i. /\ \A i \in DOMAIN awaiting'.slots :
             \E j \in DOMAIN awaiting.slots : awaiting'.slots[i].call = awaiting.slots[j].call
        /\ \A c \in LiveCalls(awaiting.slots) : c \in LiveCalls(awaiting'.slots) \/ c \in S
    BY <1>a, <1>c, <1>d, CompleteOwned
  <1> HIDE DEF block
  <1>j. Tell(S, v)
    <2>1. CASE told
      BY <1>d, <2>1
    <2>2. CASE ~told
      <3>1. answer' = answer /\ answer = [c \in Calls |-> answer[c]] /\ S = {}
        BY <1>a, <1>d, <2>2 DEF CallTypeOK
      <3> QED
        BY <3>1 DEF Tell
    <2> QED
      BY <2>1, <2>2
  <1>k. \A c \in S : c \notin Range(queue')
    BY <1>d, <1>f, LiveIsCommitted
  <1> HIDE DEF S, v, told, front
  <1>1. CallTypeOK' /\ CallInv'
    <2>1. queue' \in Seq(Calls)
      BY <1>a, <1>d DEF CallTypeOK
    <2>2. \A i, j \in DOMAIN queue' : queue'[i] = queue'[j] => i = j
      BY <1>a, <1>d DEF QueuedIsUncommitted
    <2>3. \A c \in Calls : c \notin S =>
            /\ c \in LiveCalls(awaiting.slots) \cup {current} =>
                 c \in LiveCalls(awaiting'.slots) \cup {current'}
            /\ c \in Range(queue) => c \in Range(queue')
      BY <1>d, <1>i
    <2>4. Range(queue') \subseteq Range(queue)
      BY <1>d
    <2> QED
      BY <1>d, <1>h, <1>i, <1>j, <1>k, <2>1, <2>2, <2>3, <2>4, AnsweredInv
  <1>2. TaskTypeOK'
    BY <1>a, <1>d, <1>e DEF TaskTypeOK
  <1>3. DeliveryTypeOK'
    <2>1. CASE Report(rd + 1)
      BY <1>a, <1>b, <1>d, <2>1, ReportTyped
    <2>2. CASE UNCHANGED <<held, events>>
      BY <1>a, <1>d, <2>2 DEF DeliveryTypeOK
    <2> QED
      BY <1>d, <2>1, <2>2
  <1> QED
    BY <1>b, <1>d, <1>e, <1>1, <1>2, <1>3, Facts, EnvSame DEF IInv, TypeOK

LEMMA BlockPreserves ==
  ASSUME IInv, BlockStep
  PROVE  IInv'
  <1>1. CASE BlockCoreStopped \/ BlockStopped \/ BlockTimedOut
    BY <1>1, OutcomesAre, FinishQuietly DEF BlockCoreStopped, BlockStopped, BlockTimedOut
  <1>2. CASE BlockFails
    <2>1. TmuxTypeOK' /\ UNCHANGED written
      BY <1>2, ReadLine DEF BlockFails, BlockReads
    <2> QED
      BY <1>2, <2>1, OutcomesAre, FinishOnly DEF BlockFails, ReadError
  <1> QED
    BY <1>1, <1>2, BlockCompletesStep DEF BlockStep

\* The task returns.
LEMMA ExitStep ==
  ASSUME IInv, NEW o \in Outcomes, Exit(o), mode = "drain", UNCHANGED watcherVars
  PROVE  IInv'
  <1>a. /\ TaskTypeOK /\ CallTypeOK /\ DeliveryTypeOK /\ TmuxTypeOK /\ EnvTypeOK
    BY Facts
  <1>b. /\ mode' = "ended" /\ held' = <<>> /\ outcome' \in Outcomes
        /\ Tell(Range(queue), Err("closed")) /\ queue' = <<>>
        /\ UNCHANGED <<call, commit, current, awaiting, blockDeadline, sending, watching>>
        /\ UNCHANGED envVars /\ UNCHANGED tmuxVars /\ UNCHANGED written
    BY OutcomesAre DEF Exit, tmuxVars
  <1>c. "closed" \in AnswerKinds \ {None}
    BY DEF AnswerKinds, None
  <1>d. Err("closed") \in AnswerType /\ Err("closed") # NoAnswer
        /\ Err("closed").kind # "dispatchTimedOut"
    BY <1>c, ErrTyped
  <1>e. DOMAIN queue' = {} /\ Range(queue') = {} /\ queue' \in Seq(Calls)
    BY <1>b, EmptySeq DEF Range
  <1>1. \A i \in DOMAIN awaiting'.slots :
          \E j \in DOMAIN awaiting.slots : awaiting'.slots[i].call = awaiting.slots[j].call
    BY <1>b
  <1>2. CallTypeOK' /\ CallInv'
    BY <1>b, <1>d, <1>e, <1>1, AnsweredInv
  <1>3. TaskTypeOK'
    BY <1>a, <1>b DEF TaskTypeOK
  <1>4. DeliveryTypeOK'
    BY <1>a, <1>b, EmptySeq DEF DeliveryTypeOK, watcherVars
  <1> QED
    BY <1>a, <1>b, <1>2, <1>3, <1>4, Facts, EnvSame, TmuxSame, CachesSame DEF IInv, TypeOK

LEMMA DrainPreserves ==
  ASSUME IInv, DrainStep
  PROVE  IInv'
  <1>a. EnvTypeOK /\ TaskTypeOK /\ DeliveryTypeOK /\ TmuxTypeOK /\ outcome \in Outcomes
    BY Facts DEF TaskTypeOK
  <1>1. CASE DrainCoreStopped
    BY <1>a, <1>1, OutcomesAre, ExitStep DEF DrainCoreStopped
  <1>2. CASE DrainUnwatched \/ DrainDone
    BY <1>a, <1>2, ExitStep DEF DrainUnwatched, DrainDone
  <1>3. CASE DrainDelivers
    <2>1. DeliveryTypeOK'
      BY <1>a, <1>3, DeliveryMoves DEF DrainDelivers
    <2> QED
      BY <1>a, <1>3, <2>1, EnvSame, TaskSame, TmuxSame, QuietStep
         DEF DrainDelivers, callView, tmuxVars
  <1> QED
    BY <1>1, <1>2, <1>3 DEF DrainStep

-----------------------------------------------------------------------------
(* tmux, and the whole of Next.                                            *)

\* The log grows by one line or by two.
LEMMA LogGrows ==
  ASSUME TmuxTypeOK, NEW x \in Line, NEW y \in Line,
         log' = Append(log, x) \/ log' = log \o <<x, y>>, UNCHANGED rd
  PROVE  log' \in Seq(Line) /\ rd' \in 0..Len(log')
  <1>1. log \in Seq(Line) /\ rd \in 0..Len(log) /\ Len(log) \in Nat
    BY LenProperties DEF TmuxTypeOK
  <1>2. log' \in Seq(Line) /\ Len(log') \in Nat /\ Len(log') >= Len(log)
    <2>1. CASE log' = Append(log, x)
      BY <1>1, <2>1, AppendProperties
    <2>2. CASE log' = log \o <<x, y>>
      <3>1. <<x, y>> \in Seq(Line) /\ Len(<<x, y>>) = 2
        OBVIOUS
      <3> QED
        BY <1>1, <2>2, <3>1, ConcatProperties
    <2> QED
      BY <2>1, <2>2
  <1> QED
    BY <1>1, <1>2

LEMMA EmitTyped ==
  ASSUME NEW kind \in {"begin", "end", "event", "exit", "eof", "overlong"},
         NEW line \in Nat, NEW cmd \in Nat, NEW ok \in BOOLEAN
  PROVE  Emit(kind, line, cmd, ok) \in Line
  BY DEF Emit, Line

LEMMA TmuxPreserves ==
  ASSUME IInv, Tmux
  PROVE  IInv'
  <1>a. /\ EnvTypeOK /\ TaskTypeOK /\ DeliveryTypeOK /\ TmuxTypeOK
        /\ tmuxLine \in Nat \ {0} /\ tmuxCmd \in Nat \ {0}
        /\ tmuxLine \in Nat /\ tmuxCmd \in Nat
    BY Facts DEF TmuxTypeOK
  <1>1. CASE WriteReachesTmux
    <2>1. /\ mode = "write" /\ written' = Append(written, current)
          /\ UNCHANGED <<log, rd, tmuxLine, tmuxCmd, tmuxOpen, tmux>>
          /\ UNCHANGED envVars /\ UNCHANGED callVars /\ UNCHANGED actorVars
          /\ UNCHANGED watcherVars
      BY <1>1 DEF WriteReachesTmux
    <2>2. current \in Calls /\ commit[current] = "sent"
      BY <1>a, <2>1, Facts, NoCallIsNoCall DEF TaskTypeOK, WrittenIsCommitted
    <2>3. /\ written \in Seq(Calls) /\ written' \in Seq(Calls)
          /\ \A i \in DOMAIN written' : written'[i] = current
                                        \/ (i \in DOMAIN written /\ written'[i] = written[i])
      BY <1>a, <2>1, <2>2, AppendProperties, LenProperties DEF TmuxTypeOK
    <2>4. TmuxTypeOK'
      BY <1>a, <2>1, <2>3 DEF TmuxTypeOK
    <2>5. UNCHANGED <<call, answer, commit, queue, current, awaiting, mode, blockDeadline,
                      sending, watching, outcome, held>>
      BY <2>1 DEF callVars, actorVars
    <2>6. UnsentIsUnknown' /\ WithdrawnIsOver' /\ QueuedIsUncommitted' /\ WaitingCallIsOwned'
      BY <2>5, Facts DEF UnsentIsUnknown, WithdrawnIsOver, QueuedIsUncommitted,
         WaitingCallIsOwned, Listening, HasAnswer
    <2>7. WrittenIsCommitted'
      BY <2>2, <2>3, <2>5, Facts DEF WrittenIsCommitted
    <2> QED
      BY <1>a, <2>1, <2>4, <2>5, <2>6, <2>7, Facts, EnvSame, CallSame, TaskSame, DeliverySame,
         CachesSame DEF IInv, TypeOK, CallInv
  <1>2. ASSUME /\ UNCHANGED <<rd, written>> /\ UNCHANGED envVars /\ UNCHANGED callVars
               /\ UNCHANGED actorVars /\ UNCHANGED watcherVars,
               log' \in Seq(Line) /\ rd' \in 0..Len(log'),
               tmuxLine' \in Nat \ {0} /\ tmuxCmd' \in Nat \ {0},
               tmuxOpen' \in BOOLEAN /\ tmux' \in {"starting", "up", "gone"}
        PROVE  IInv'
    <2>1. TmuxTypeOK'
      BY <1>a, <1>2 DEF TmuxTypeOK
    <2>2. UNCHANGED callView
      BY <1>2 DEF callView, actorVars
    <2> QED
      BY <1>a, <1>2, <2>1, <2>2, EnvSame, TaskSame, DeliverySame, QuietStep DEF actorVars
  <1>3. CASE TmuxAttaches
    <2>1. PICK ok \in BOOLEAN :
            log' = log \o <<Emit("begin", 0, 1, TRUE), Emit("end", 0, 1, ok)>>
      BY <1>3 DEF TmuxAttaches
    <2>2. Emit("begin", 0, 1, TRUE) \in Line /\ Emit("end", 0, 1, ok) \in Line
      BY EmitTyped
    <2>3. log' \in Seq(Line) /\ rd' \in 0..Len(log')
      BY <1>3, <1>a, <2>1, <2>2, LogGrows DEF TmuxAttaches, TmuxUnchanged
    <2> QED
      BY <1>2, <1>3, <1>a, <2>3 DEF TmuxAttaches, TmuxUnchanged, TmuxTypeOK
  <1>4. CASE TmuxNotifies
    <2>1. Emit("event", tmuxLine, tmuxCmd, TRUE) \in Line
      BY <1>a, EmitTyped
    <2>2. log' \in Seq(Line) /\ rd' \in 0..Len(log')
      BY <1>4, <1>a, <2>1, LogGrows DEF TmuxNotifies, TmuxUnchanged
    <2> QED
      BY <1>2, <1>4, <1>a, <2>2 DEF TmuxNotifies, TmuxUnchanged, TmuxTypeOK
  <1>5. CASE TmuxBegins
    <2>1. Emit("begin", tmuxLine, tmuxCmd, TRUE) \in Line
      BY <1>a, EmitTyped
    <2>2. log' \in Seq(Line) /\ rd' \in 0..Len(log')
      BY <1>5, <1>a, <2>1, LogGrows DEF TmuxBegins, TmuxUnchanged
    <2> QED
      BY <1>2, <1>5, <1>a, <2>2 DEF TmuxBegins, TmuxUnchanged, TmuxTypeOK
  <1>6. CASE TmuxEnds
    <2>1. PICK ok \in BOOLEAN :
            /\ log' = Append(log, Emit("end", tmuxLine, tmuxCmd, ok))
            /\ \/ tmuxCmd' = tmuxCmd + 1 /\ UNCHANGED tmuxLine
               \/ tmuxCmd' = 1 /\ tmuxLine' = tmuxLine + 1
      BY <1>6 DEF TmuxEnds
    <2>2. Emit("end", tmuxLine, tmuxCmd, ok) \in Line
      BY <1>a, EmitTyped
    <2>3. log' \in Seq(Line) /\ rd' \in 0..Len(log')
      BY <1>6, <1>a, <2>1, <2>2, LogGrows DEF TmuxEnds, TmuxUnchanged
    <2>4. tmuxLine' \in Nat \ {0} /\ tmuxCmd' \in Nat \ {0}
      BY <1>a, <2>1
    <2> QED
      BY <1>2, <1>6, <1>a, <2>3, <2>4 DEF TmuxEnds, TmuxUnchanged, TmuxTypeOK
  <1>7. CASE TmuxHookBlock
    <2>1. Emit("begin", 0, 0, TRUE) \in Line /\ Emit("end", 0, 0, TRUE) \in Line
      BY EmitTyped
    <2>2. log' \in Seq(Line) /\ rd' \in 0..Len(log')
      BY <1>7, <1>a, <2>1, LogGrows DEF TmuxHookBlock, TmuxUnchanged
    <2> QED
      BY <1>2, <1>7, <1>a, <2>2 DEF TmuxHookBlock, TmuxUnchanged, TmuxTypeOK
  <1>8. CASE TmuxGoes
    <2>1. /\ Emit("exit", 0, 0, TRUE) \in Line /\ Emit("eof", 0, 0, TRUE) \in Line
          /\ \A kind \in TerminalKinds : Emit(kind, 0, 0, TRUE) \in Line
      BY EmitTyped DEF TerminalKinds
    <2>2. \/ log' = log \o <<Emit("exit", 0, 0, TRUE), Emit("eof", 0, 0, TRUE)>>
          \/ \E kind \in TerminalKinds : log' = Append(log, Emit(kind, 0, 0, TRUE))
      BY <1>8 DEF TmuxGoes
    <2>3. log' \in Seq(Line) /\ rd' \in 0..Len(log')
      BY <1>8, <1>a, <2>1, <2>2, LogGrows DEF TmuxGoes, TmuxUnchanged
    <2> QED
      BY <1>2, <1>8, <1>a, <2>3 DEF TmuxGoes, TmuxUnchanged, TmuxTypeOK
  <1> QED
    BY <1>1, <1>3, <1>4, <1>5, <1>6, <1>7, <1>8 DEF Tmux

LEMMA StepPreserves == IInv /\ [Next]_vars => IInv'
  <1> SUFFICES ASSUME IInv, [Next]_vars PROVE IInv'
    OBVIOUS
  <1>1. CASE UNCHANGED vars
    <2>1. /\ UNCHANGED envVars /\ UNCHANGED callVars /\ UNCHANGED actorVars
          /\ UNCHANGED watcherVars /\ UNCHANGED tmuxVars
      BY <1>1 DEF vars
    <2>2. CallTypeOK' /\ CallInv'
      BY <2>1, Facts, CallSame, CallInvSame DEF callView, actorVars, tmuxVars
    <2> QED
      BY <2>1, <2>2, CallerFrame
  <1>2. CASE \E c \in Calls : Caller(c)
    BY <1>2, CallerStep
  <1>3. CASE Handles \/ Tick
    BY <1>3, HandlesPreserve
  <1>4. CASE Tmux
    BY <1>4, TmuxPreserves
  <1>5. CASE Actor
    BY <1>5, OpeningPreserves, ServePreserves, WritePreserves, BlockPreserves, DrainPreserves
       DEF Actor
  <1> QED
    BY <1>1, <1>2, <1>3, <1>4, <1>5 DEF Next

-----------------------------------------------------------------------------
(* The theorems.                                                           *)

\* The inductive invariant holds throughout.
THEOREM Invariance == Spec => []IInv
  BY InitInv, StepPreserves, PTL DEF Spec

\* Every variable keeps its type, and the task writes exactly while it has a
\* request in hand: Connection::serve.
THEOREM TypeCorrect == Spec => []TypeOK
  <1>1. IInv => TypeOK
    BY DEF IInv
  <1> QED
    BY <1>1, Invariance, PTL

\* The live count and the earliest deadline ReplySlots caches never go stale,
\* whatever is written, answered, refused or abandoned.
THEOREM CachesStayExact == Spec => []CachesAreExact
  <1>1. IInv => CachesAreExact
    BY DEF IInv
  <1> QED
    BY <1>1, Invariance, PTL

\* No caller of dispatch_line waits for an answer nobody owes it: the end of
\* the connection, a refusal and a skipped request all reach it.
THEOREM NobodyIsForgotten == Spec => []WaitingCallIsOwned
  <1>1. IInv => WaitingCallIsOwned
    BY DEF IInv, CallInv
  <1> QED
    BY <1>1, Invariance, PTL

\* The commitment decides the race between a caller's deadline and the write:
\* a line reported as not dispatched never reaches tmux.
THEOREM NotDispatchedIsTrue == Spec => []WithdrawnIsNeverWritten
  <1>1. IInv => WithdrawnIsNeverWritten
    <2> SUFFICES ASSUME IInv, NEW c \in Calls,
                        commit[c] = "withdrawn" \/ answer[c].kind = "dispatchTimedOut"
                 PROVE  ~Written(c) /\ current # c
      BY DEF WithdrawnIsNeverWritten
    <2>1. WrittenIsCommitted
      BY Facts
    <2>2. commit[c] # "sent"
      BY <2>1 DEF WrittenIsCommitted
    <2> QED
      BY <2>1, <2>2, NoCallIsNoCall DEF WrittenIsCommitted, Written
  <1> QED
    BY <1>1, Invariance, PTL

-----------------------------------------------------------------------------
(* Part 3: the answers and the stream.                                     *)

\* A block is only begun with room for the boundary it may end in.
RoomInv ==
  HeldIsBounded /\ (mode = "block" => Len(held) < HeldWhileAwaiting)

\* The line being written has wholly reached tmux but has no slot yet.
Unpushed == IF current # NoCall /\ Written(current) THEN 1 ELSE 0

\* How many lines have had their whole answer.
Popped == Len(written) - Unpushed - Len(awaiting.slots)

\* The slots are the last lines written, in order.
SlotsFollow ==
  /\ Popped \in Nat
  /\ \A i \in DOMAIN awaiting.slots :
       /\ Popped + i \in DOMAIN written
       /\ awaiting.slots[i].call = written[Popped + i]
  /\ Unpushed = 1 => current = written[Len(written)]

\* Every line is written once, after the attach.
WriteOrder ==
  /\ \A i, j \in DOMAIN written : written[i] = written[j] => i = j
  /\ ~attached => written = <<>>
  /\ mode \in {"serve", "write", "block"} => attached
  /\ ~Closed => SlotsFollow

\* Who is owed an answer by the task does not have one.
OwedIsUnanswered ==
  \A c \in Calls : c \in LiveCalls(awaiting.slots) \cup {current} /\ Listening(c) =>
    answer[c] = NoAnswer

\* A slot's account: what it is still owed and what it was given make up its
\* line, in order.  `n` is the number of its line.
Account(slot, n) ==
  /\ slot.owed \in 1..Owed(slot.call)
  /\ slot.live =>
       /\ Len(slot.received) = Owed(slot.call) - slot.owed
       /\ \A k \in DOMAIN slot.received :
            /\ slot.received[k].line = n /\ slot.received[k].cmd = k
            /\ slot.received[k].ok

\* Every slot's account is right, and only the front one has been drawn on.
SlotProgress ==
  ~Closed => \A i \in DOMAIN awaiting.slots :
    /\ Account(awaiting.slots[i], Popped + i)
    /\ i # 1 => awaiting.slots[i].owed = Owed(awaiting.slots[i].call)

IsEnd(p) == log[p].kind = "end" /\ log[p].line # 0

\* Ends answer lines that were written; the attach is answered once, before
\* open() returns.
TmuxOrder ==
  /\ \A p \in DOMAIN log : IsEnd(p) => log[p].line \in DOMAIN written
  /\ tmuxOpen => tmuxLine \in DOMAIN written
  /\ \A p, q \in DOMAIN log :
       log[p].kind = "end" /\ log[p].line = 0 /\ log[q].kind = "end" /\ log[q].line = 0
         => p = q
  /\ tmux = "starting" => ~attached /\ \A p \in DOMAIN log : log[p].kind # "end"
  /\ attached => \A p \in DOMAIN log : p > rd /\ log[p].kind = "end" => IsEnd(p)

\* The block that is due after b, as tmux runs the lines.
After(b) == IF b.ok /\ b.cmd < Owed(written[b.line])
            THEN <<b.line, b.cmd + 1>> ELSE <<b.line + 1, 1>>

\* The block the task expects next.
Expected == <<Popped + 1, IF awaiting.slots = <<>> THEN 1
                          ELSE Owed(awaiting.slots[1].call) - awaiting.slots[1].owed + 1>>

\* Which block ends at p; at the end of the log, the block tmux is at.
BlockOf(p) == IF p \in DOMAIN log THEN <<log[p].line, log[p].cmd>> ELSE <<tmuxLine, tmuxCmd>>

NoEndIn(p, q) == \A x \in DOMAIN log : p < x /\ x < q => ~IsEnd(x)

\* The block at p comes next after what was read, or after the one before it.
Due(p) ==
  /\ NoEndIn(rd, p) => BlockOf(p) = Expected
  /\ \A q \in DOMAIN log :
       rd < q /\ q < p /\ IsEnd(q) /\ NoEndIn(q, p) => BlockOf(p) = After(log[q])

\* The pipe holds the blocks the task expects, in the order it expects them,
\* and tmux is at the one after.
PipeOrder ==
  ~Closed => \A p \in 1..(Len(log) + 1) :
    p > rd /\ (p \in DOMAIN log => IsEnd(p)) => Due(p)

-----------------------------------------------------------------------------
(* The room held deliveries take.                                          *)

LEMMA Capacities ==
  /\ EventQueue \in Nat /\ EventQueue >= 1
  /\ HeldWhileAwaiting \in Nat /\ HeldWhileAwaiting >= EventQueue
  BY QueueAssumption

\* Where there is room for one more delivery, there is still no excess after it.
LEMMA ReportFits ==
  ASSUME DeliveryTypeOK, HeldIsBounded, Len(held) < HeldWhileAwaiting,
         NEW p \in Nat, Report(p)
  PROVE  HeldIsBounded'
  <1>1. /\ Len(held) \in Nat /\ Len(events) \in Nat
        /\ Len(Append(held, p)) = Len(held) + 1 /\ Len(Append(events, p)) = Len(events) + 1
        /\ Len(<<p>>) = 1
    BY AppendProperties, LenProperties DEF DeliveryTypeOK
  <1> QED
    BY <1>1, Capacities DEF Report, HeldIsBounded

\* A held delivery moves only where the channel has room.
LEMMA DeliverFits ==
  ASSUME DeliveryTypeOK, HeldIsBounded, held # <<>>, Len(events) < EventQueue,
         events' = Append(events, Head(held)), held' = Tail(held)
  PROVE  HeldIsBounded'
  <1>1. Head(held) \in Nat /\ Len(Tail(held)) = Len(held) - 1 /\ Len(held) \in Nat
    BY HeadTailProperties, LenProperties DEF DeliveryTypeOK
  <1>2. Len(Append(events, Head(held))) = Len(events) + 1 /\ Len(events) \in Nat
    BY <1>1, AppendProperties, LenProperties DEF DeliveryTypeOK
  <1> QED
    BY <1>1, <1>2, Capacities DEF HeldIsBounded

\* The task reads only where it has room for what it may have to report.
LEMMA ReadsWithRoom ==
  ASSUME Reads, DeliveryTypeOK
  PROVE  Len(held) < HeldWhileAwaiting
  <1>1. Len(held) \in Nat
    BY LenProperties DEF DeliveryTypeOK
  <1> QED
    BY <1>1, Capacities DEF Reads, Selecting, ReadReady, HeldBack, AtHeldLimit

\* A step that adds nothing to what is held or queued.
LEMMA RoomStays ==
  ASSUME RoomInv,
         held' = held \/ held' = <<>>, events' = events \/ events' = <<>>,
         mode' = "block" => mode = "block"
  PROVE  RoomInv'
  <1>1. Len(<<>>) = 0
    BY EmptySeq
  <1>2. /\ Len(held') = Len(held) \/ Len(held') = 0
        /\ Len(events') = Len(events) \/ Len(events') = 0
    BY <1>1
  <1>3. HeldIsBounded'
    BY <1>2, Capacities DEF RoomInv, HeldIsBounded
  <1>4. mode' = "block" => Len(held') < HeldWhileAwaiting
    BY <1>2, Capacities DEF RoomInv
  <1> QED
    BY <1>3, <1>4 DEF RoomInv

LEMMA RoomInit == Init => RoomInv
  BY EmptySeq, Capacities DEF Init, RoomInv, HeldIsBounded

LEMMA RoomStep == IInv /\ RoomInv /\ [Next]_vars => RoomInv'
  <1> SUFFICES ASSUME IInv, RoomInv, [Next]_vars PROVE RoomInv'
    OBVIOUS
  <1>a. DeliveryTypeOK /\ HeldIsBounded
    BY Facts DEF RoomInv
  <1>1. CASE UNCHANGED vars \/ Tmux \/ Tick \/ \E c \in Calls : Caller(c)
    <2>1. UNCHANGED <<mode, held, events>>
      BY <1>1 DEF vars, envVars, callVars, actorVars, watcherVars, tmuxVars, Tmux, Tick,
         Caller, WriteReachesTmux, TmuxAttaches, TmuxNotifies, TmuxBegins, TmuxEnds,
         TmuxHookBlock, TmuxGoes, TmuxUnchanged, Start, Reserve, SendRequest, TakeAnswer,
         CallDeadline, SeeCommit, DropCall
    <2> QED
      BY <2>1, RoomStays
  <1>2. CASE Handles
    <2>1. CASE Next_event
      <3>1. Len(Tail(events)) = Len(events) - 1 /\ Len(events) \in Nat
        BY <1>a, <2>1, HeadTailProperties, LenProperties DEF Next_event, DeliveryTypeOK
      <3> QED
        BY <2>1, <3>1, Capacities DEF Next_event, RoomInv, HeldIsBounded, actorVars
    <2>2. CASE TakeOutcome \/ Shutdown \/ DropWatcher \/ CancelAttach \/ DropSender
               \/ CoreShutdown
      <3>1. UNCHANGED <<mode, held>> /\ (events' = events \/ events' = <<>>)
        BY <2>2 DEF TakeOutcome, Shutdown, DropWatcher, CancelAttach, DropSender,
           CoreShutdown, actorVars, watcherVars
      <3> QED
        BY <3>1, RoomStays
    <2> QED
      BY <1>2, <2>1, <2>2 DEF Handles
  <1>3. CASE OpeningEvent
    <2>1. /\ Len(events) < EventQueue /\ events' = Append(events, rd + 1) /\ rd + 1 \in Nat
          /\ UNCHANGED <<mode, held>>
      BY <1>3, ReadLine DEF OpeningEvent, OpeningReads, actorVars
    <2>2. Len(events') = Len(events) + 1 /\ Len(events) \in Nat
      BY <1>a, <2>1, AppendProperties, LenProperties DEF DeliveryTypeOK
    <2> QED
      BY <2>1, <2>2, Capacities DEF RoomInv, HeldIsBounded
  <1>4. CASE ReadEvent \/ ReadExit
    <2>1. /\ Reads /\ rd + 1 \in Nat /\ Report(rd + 1) /\ mode' # "block"
      BY <1>4, ReadLine DEF ReadEvent, ReadExit, Reads, ReadReady, Selecting, Finish
    <2>2. Len(held) < HeldWhileAwaiting
      BY <1>a, <2>1, ReadsWithRoom
    <2>3. HeldIsBounded'
      BY <1>a, <2>1, <2>2, ReportFits
    <2> QED
      BY <2>1, <2>3 DEF RoomInv
  <1>5. CASE ReadBegin
    <2>1. Reads /\ UNCHANGED <<held, events>>
      BY <1>5 DEF ReadBegin, watcherVars
    <2>2. Len(held) < HeldWhileAwaiting
      BY <1>a, <2>1, ReadsWithRoom
    <2> QED
      BY <1>a, <2>1, <2>2 DEF RoomInv, HeldIsBounded
  <1>6. CASE BlockCompletes
    <2>1. /\ mode = "block" /\ mode' = "serve" /\ rd + 1 \in Nat
          /\ Report(rd + 1) \/ UNCHANGED <<held, events>>
      BY <1>6, ReadLine DEF BlockCompletes, BlockReads
    <2> QED
      BY <1>a, <2>1, ReportFits DEF RoomInv, HeldIsBounded
  <1>7. CASE Deliver \/ DrainDelivers
    <2>1. CASE Deliver /\ ~ReceiverOpen
      BY <2>1, RoomStays DEF Deliver
    <2>2. CASE DrainDelivers \/ (Deliver /\ ReceiverOpen)
      <3>1. /\ held # <<>> /\ Len(events) < EventQueue /\ mode' # "block"
            /\ events' = Append(events, Head(held)) /\ held' = Tail(held)
        BY <2>2 DEF Deliver, DeliverReady, DrainDelivers, Selecting
      <3>2. HeldIsBounded'
        BY <1>a, <3>1, DeliverFits
      <3> QED
        BY <3>1, <3>2 DEF RoomInv
    <2> QED
      BY <1>7, <2>1, <2>2
  <1>8. CASE \/ OpeningCancelled \/ OpeningCoreStopped \/ OpeningTimedOut \/ OpeningBegin
             \/ OpeningEnd \/ OpeningFails
             \/ RefuseUnread \/ ServeEnds \/ StopAsked \/ Unwatched \/ CoreStopped
             \/ ReadFails \/ SendersGone \/ RefuseRequest \/ CommitRequest \/ TimedOut
             \/ WriteStep \/ BlockCoreStopped \/ BlockStopped \/ BlockTimedOut \/ BlockFails
             \/ DrainCoreStopped \/ DrainUnwatched \/ DrainDone
    <2>1. /\ held' = held \/ held' = <<>>
          /\ events' = events
          /\ mode' = mode \/ mode' # "block"
      BY <1>8 DEF OpeningCancelled, OpeningCoreStopped, OpeningTimedOut, OpeningBegin,
         OpeningEnd, OpeningFails, RefuseUnread, ServeEnds, StopAsked, Unwatched,
         CoreStopped, ReadFails, SendersGone, RefuseRequest, CommitRequest, TimedOut,
         WriteStep, WriteCoreStopped, WriteStopped, WriteTimedOut, WriteFails, WriteDone,
         BlockCoreStopped, BlockStopped, BlockTimedOut, BlockFails, DrainCoreStopped,
         DrainUnwatched, DrainDone, Exit, Finish, FinishUnchanged, watcherVars, actorVars
    <2> QED
      BY <2>1, RoomStays
  <1> QED
    BY <1>1, <1>2, <1>3, <1>4, <1>5, <1>6, <1>7, <1>8
       DEF Next, Actor, OpeningStep, ServeStep, BlockStep, DrainStep

\* However far behind the watcher falls, the deliveries the task holds for it
\* stay within the limit and the channel within its capacity, for every limit
\* that is no smaller than the capacity.
THEOREM HeldStaysBounded == Spec => []HeldIsBounded
  <1>1. RoomInv => HeldIsBounded
    BY DEF RoomInv
  <1> QED
    BY <1>1, RoomInit, RoomStep, Invariance, PTL DEF Spec

-----------------------------------------------------------------------------
(* The slots follow what was written.                                      *)

\* The steps of the connection, as far as the order of the lines, the slots
\* and the pipe can tell them apart: the loops are over, nothing of it moves,
\* or a line that ends no block is read.
PipeSame == UNCHANGED <<log, tmuxLine, tmuxCmd, tmuxOpen, tmux>>

Ends == Closed' /\ PipeSame /\ UNCHANGED <<written, attached>> /\ rd' \in {rd, rd + 1}

Stays ==
  /\ PipeSame /\ UNCHANGED <<written, current, awaiting, attached>>
  /\ Closed => Closed'
  /\ mode' \in {"serve", "write", "block"} => mode \in {"serve", "write", "block"}

Rests == Stays /\ UNCHANGED rd

ReadsNoEnd == Stays /\ Readable /\ rd' = rd + 1 /\ log[rd + 1].kind # "end"

LEMMA Shapes ==
  ASSUME IInv, [Next]_vars
  PROVE  \/ Ends \/ Rests \/ ReadsNoEnd \/ OpeningEnd \/ Tmux \/ CommitRequest
         \/ WriteDone \/ BlockCompletes \/ RefuseUnread
  <1> USE DEF PipeSame, Closed
  <1>1. CASE UNCHANGED vars \/ Handles \/ Tick \/ \E c \in Calls : Caller(c)
    <2>1. \/ UNCHANGED actorVars /\ UNCHANGED tmuxVars /\ UNCHANGED attached
      BY <1>1 DEF vars, envVars, Handles, DropSender, Next_event, TakeOutcome, Shutdown,
         DropWatcher, CancelAttach, CoreShutdown, Tick, Caller, Start, Reserve, SendRequest,
         TakeAnswer, CallDeadline, SeeCommit, DropCall
    <2> QED
      BY <2>1 DEF Rests, Stays, actorVars, tmuxVars
  <1>2. CASE OpeningCancelled \/ OpeningCoreStopped \/ OpeningTimedOut \/ ServeEnds
             \/ StopAsked \/ CoreStopped \/ TimedOut \/ WriteCoreStopped \/ WriteStopped
             \/ WriteTimedOut \/ WriteFails \/ BlockCoreStopped \/ BlockStopped
             \/ BlockTimedOut
    <2>1. (\E o \in Outcomes : Finish(o)) /\ FinishUnchanged /\ UNCHANGED tmuxVars
      BY <1>2, OutcomesAre DEF OpeningCancelled, OpeningCoreStopped, OpeningTimedOut,
         ServeEnds, StopAsked, CoreStopped, TimedOut, WriteCoreStopped, WriteStopped,
         WriteTimedOut, WriteFails, BlockCoreStopped, BlockStopped, BlockTimedOut
    <2> QED
      BY <2>1 DEF Ends, Finish, FinishUnchanged, tmuxVars, envVars
  <1>3. CASE OpeningFails \/ ReadFails \/ ReadExit \/ BlockFails
    <2>1. /\ \E o : Finish(o)
          /\ rd' = rd + 1 /\ UNCHANGED <<log, written, tmuxLine, tmuxCmd, tmuxOpen, tmux>>
          /\ UNCHANGED attached
      BY <1>3 DEF OpeningFails, OpeningReads, ReadFails, ReadExit, Reads, BlockFails,
         BlockReads, FinishUnchanged, envVars
    <2> QED
      BY <2>1 DEF Ends, Finish
  <1>4. CASE OpeningEvent \/ OpeningBegin
    BY <1>4 DEF OpeningEvent, OpeningBegin, OpeningReads, Opening, Readable, Next_line, ReadsNoEnd,
       Stays, actorVars, envVars
  <1>5. CASE ReadEvent \/ ReadBegin
    BY <1>5 DEF ReadEvent, ReadBegin, Reads, ReadReady, Readable, Next_line, ReadsNoEnd,
       Stays, Selecting, actorVars, envVars
  <1>6. CASE Unwatched \/ Deliver \/ SendersGone \/ RefuseRequest \/ DrainDelivers
    BY <1>6 DEF Unwatched, Deliver, SendersGone, RefuseRequest, DrainDelivers, Rests, Stays,
       actorVars, tmuxVars, envVars
  <1>7. CASE DrainCoreStopped \/ DrainUnwatched \/ DrainDone
    BY <1>7 DEF DrainCoreStopped, DrainUnwatched, DrainDone, Exit, Ends, tmuxVars, envVars
  <1> QED
    BY <1>1, <1>2, <1>3, <1>4, <1>5, <1>6, <1>7
       DEF Next, Actor, OpeningStep, ServeStep, WriteStep, BlockStep, DrainStep

\* Sequences over one domain have one length.
LEMMA LenDomain ==
  ASSUME NEW S, NEW s \in Seq(S), NEW t \in Seq(S), DOMAIN s = DOMAIN t
  PROVE  Len(s) = Len(t)
  <1>1. /\ Len(s) \in Nat /\ DOMAIN s = 1..Len(s)
        /\ Len(t) \in Nat /\ DOMAIN t = 1..Len(t)
    BY LenProperties
  <1> DEFINE m == Len(s)
             n == Len(t)
  <1>2. m \in Nat /\ n \in Nat /\ 1..m = 1..n
    BY <1>1
  <1> HIDE DEF m, n
  <1>3. m >= 1 => m \in 1..n
    BY <1>2
  <1>4. n >= 1 => n \in 1..m
    BY <1>2
  <1>5. m = n
    BY <1>2, <1>3, <1>4
  <1> QED
    BY <1>5 DEF m, n

\* The slots after a block, one by one.
LEMMA CompleteSlots ==
  ASSUME NEW r \in Replies, Exact(r), NEW block \in Block, NEW s,
         s = Complete(r, block).slots
  PROVE  /\ Completes(r, block) =>
              /\ Len(s) = Len(r.slots) - 1 /\ DOMAIN s = 1..(Len(r.slots) - 1)
              /\ \A i \in DOMAIN s : i + 1 \in DOMAIN r.slots /\ s[i] = r.slots[i + 1]
         /\ ~Completes(r, block) =>
              /\ Len(s) = Len(r.slots) /\ DOMAIN s = DOMAIN r.slots
              /\ \A i \in DOMAIN s : s[i] = IF i = 1 THEN TookOne(r.slots[1], block)
                                            ELSE r.slots[i]
         /\ r.slots # <<>> => Head(r.slots) = r.slots[1] /\ 1 \in DOMAIN r.slots
         /\ r.slots \in Seq(Slot) /\ Len(r.slots) \in Nat
         /\ DOMAIN r.slots = 1..Len(r.slots)
  <1>1. /\ r.slots \in Seq(Slot) /\ DOMAIN r = {"slots", "live", "earliest"}
        /\ Len(r.slots) \in Nat /\ DOMAIN r.slots = 1..Len(r.slots)
    BY SlotCalls, LenProperties DEF Replies
  <1>2. r.slots # <<>> => /\ Head(r.slots) = r.slots[1] /\ 1 \in DOMAIN r.slots
                          /\ Len(r.slots) >= 1
    BY <1>1, HeadTailProperties, EmptySeq, LenProperties
  <1>3. CASE r.slots = <<>>
    BY <1>1, <1>3, EmptySeq DEF Complete, Completes
  <1>4. CASE r.slots # <<>> /\ ~Completes(r, block)
    <2>1. s = [r.slots EXCEPT ![1] = TookOne(Head(r.slots), block)]
      BY <1>1, <1>4 DEF Complete, Completes, Replies
    <2>2. /\ DOMAIN s = DOMAIN r.slots
          /\ \A i \in DOMAIN s : s[i] = IF i = 1 THEN TookOne(r.slots[1], block)
                                        ELSE r.slots[i]
      BY <1>2, <1>4, <2>1
    <2>3. s \in Seq(Slot)
      BY CompleteExact DEF Replies
    <2>4. Len(s) = Len(r.slots)
      BY <1>1, <2>2, <2>3, LenDomain
    <2> QED
      BY <1>1, <1>2, <1>4, <2>2, <2>4, LenProperties
  <1>5. CASE Completes(r, block)
    <2>1. s = Tail(r.slots) /\ r.slots # <<>>
      BY <1>5 DEF Complete, Completes
    <2>2. /\ Len(s) = Len(r.slots) - 1 /\ s \in Seq(Slot)
          /\ \A i \in 1..Len(s) : s[i] = r.slots[i + 1]
      BY <1>1, <2>1, HeadTailProperties
    <2>3. DOMAIN s = 1..(Len(r.slots) - 1)
      BY <2>2, LenProperties
    <2> QED
      BY <1>1, <1>2, <1>5, <2>1, <2>2, <2>3
  <1> QED
    BY <1>3, <1>4, <1>5

LEMMA WriteOrderInit == Init => WriteOrder
  <1> SUFFICES ASSUME Init PROVE WriteOrder
    OBVIOUS
  <1>1. DOMAIN written = {} /\ DOMAIN awaiting.slots = {} /\ Len(written) = 0
        /\ Len(awaiting.slots) = 0
    BY EmptySeq DEF Init, NoReplies
  <1> QED
    BY <1>1 DEF Init, WriteOrder, SlotsFollow, Popped, Unpushed

\* Slots follow while nothing they are about moves, and need not once the
\* loops are over.
LEMMA WriteOrderStays == WriteOrder /\ Stays => WriteOrder'
  <1> SUFFICES ASSUME WriteOrder, Stays PROVE WriteOrder'
    OBVIOUS
  <1>1. SlotsFollow => SlotsFollow'
    BY DEF Stays, SlotsFollow, Popped, Unpushed, Written
  <1> QED
    BY <1>1 DEF WriteOrder, Stays

LEMMA WriteOrderEnds == WriteOrder /\ Ends => WriteOrder'
  BY DEF WriteOrder, Ends, Closed

\* What WriteOrder says while the loops run, and the types it is said over.
LEMMA OrderFacts ==
  ASSUME IInv, WriteOrder, ~Closed
  PROVE  /\ SlotsFollow /\ awaiting \in Replies
         /\ written \in Seq(Calls) /\ Len(written) \in Nat /\ DOMAIN written = 1..Len(written)
         /\ awaiting.slots \in Seq(Slot) /\ Len(awaiting.slots) \in Nat
         /\ DOMAIN awaiting.slots = 1..Len(awaiting.slots)
         /\ Popped \in Nat /\ Unpushed \in {0, 1}
         /\ Len(written) = Popped + Unpushed + Len(awaiting.slots)
         /\ \A i \in DOMAIN awaiting.slots : awaiting.slots[i] \in Slot
  <1>1. /\ SlotsFollow /\ awaiting \in Replies /\ written \in Seq(Calls)
        /\ Unpushed \in {0, 1} /\ Popped \in Nat
    BY Facts DEF WriteOrder, SlotsFollow, TaskTypeOK, TmuxTypeOK, Unpushed
  <1>2. /\ awaiting.slots \in Seq(Slot)
        /\ \A i \in DOMAIN awaiting.slots : awaiting.slots[i] \in Slot
    BY <1>1, SlotCalls
  <1>3. /\ Len(written) \in Nat /\ DOMAIN written = 1..Len(written)
        /\ Len(awaiting.slots) \in Nat /\ DOMAIN awaiting.slots = 1..Len(awaiting.slots)
    BY <1>1, <1>2, LenProperties
  <1>4. Len(written) = Popped + Unpushed + Len(awaiting.slots)
    BY <1>1, <1>3 DEF Popped
  <1> QED
    BY <1>1, <1>2, <1>3, <1>4

\* No call has two slots.
LEMMA SlotsDistinct ==
  ASSUME IInv, WriteOrder, ~Closed,
         NEW i \in DOMAIN awaiting.slots, NEW j \in DOMAIN awaiting.slots,
         awaiting.slots[i].call = awaiting.slots[j].call
  PROVE  i = j
  <1>1. Popped + i = Popped + j
    BY OrderFacts DEF SlotsFollow, WriteOrder
  <1> QED
    BY <1>1, OrderFacts

\* The line reaches tmux: its slot is due.
LEMMA WriteOrderWrites ==
  ASSUME IInv, WriteOrder, WriteReachesTmux
  PROVE  WriteOrder' /\ Popped' = Popped /\ Unpushed' = 1 /\ Unpushed = 0
         /\ Len(written') = Len(written) + 1
  <1>a. /\ mode = "write" /\ ~Closed /\ attached /\ current \in Calls /\ current # NoCall
        /\ ~Written(current) /\ written' = Append(written, current)
        /\ UNCHANGED <<mode, current, awaiting, attached>>
    BY Facts, NoCallIsNoCall
       DEF WriteReachesTmux, WriteOrder, Closed, TaskTypeOK, actorVars, envVars
  <1>b. /\ SlotsFollow /\ written \in Seq(Calls) /\ Len(written) \in Nat
        /\ DOMAIN written = 1..Len(written) /\ Popped \in Nat
        /\ Len(awaiting.slots) \in Nat /\ DOMAIN awaiting.slots = 1..Len(awaiting.slots)
    BY <1>a, OrderFacts
  <1>c. /\ Len(written') = Len(written) + 1 /\ DOMAIN written' = 1..(Len(written) + 1)
        /\ written'[Len(written) + 1] = current
        /\ \A i \in 1..Len(written) : written'[i] = written[i]
    BY <1>a, <1>b, AppendProperties, LenProperties
  <1>d. \A i \in DOMAIN written : i \in DOMAIN written' /\ written'[i] = written[i]
                                  /\ written[i] # current
    BY <1>a, <1>b, <1>c DEF Written
  <1>e. Len(written) + 1 \in DOMAIN written'
    BY <1>b, <1>c
  <1>1. Unpushed = 0 /\ Unpushed' = 1
    <2>1. Written(current)'
      BY <1>a, <1>c, <1>e DEF Written
    <2> QED
      BY <1>a, <2>1 DEF Unpushed, Written
  <1>2. Popped' = Popped
    BY <1>a, <1>b, <1>c, <1>1 DEF Popped
  <1>3. SlotsFollow'
    BY <1>a, <1>b, <1>c, <1>d, <1>1, <1>2 DEF SlotsFollow
  <1>4. \A i, j \in DOMAIN written' : written'[i] = written'[j] => i = j
    <2>1. \A i \in DOMAIN written' : i \in DOMAIN written \/ i = Len(written) + 1
      BY <1>b, <1>c
    <2> QED
      BY <1>c, <1>d, <2>1 DEF WriteOrder
  <1> QED
    BY <1>a, <1>c, <1>1, <1>2, <1>3, <1>4 DEF WriteOrder, Closed

\* A request is committed: it is not among those written.
LEMMA WriteOrderCommits ==
  ASSUME IInv, WriteOrder, CommitRequest
  PROVE  WriteOrder' /\ Popped' = Popped /\ Unpushed' = Unpushed /\ Unpushed = 0
  <1>a. /\ mode = "serve" /\ mode' \in {"serve", "write"} /\ ~Closed /\ attached
        /\ queue # <<>> /\ current = NoCall
        /\ UNCHANGED <<awaiting, written, attached>>
        /\ current' = NoCall \/ current' = Head(queue)
    BY Facts DEF CommitRequest, Taking, Selecting, WriteOrder, Closed, TaskTypeOK,
       tmuxVars, envVars
  <1>1. ~Written(Head(queue))
    <2>1. queue \in Seq(Calls) /\ 1 \in DOMAIN queue /\ Head(queue) = queue[1]
      BY <1>a, Facts, HeadTailProperties, LenProperties, EmptySeq DEF CallTypeOK
    <2>2. commit[Head(queue)] # "sent"
      BY <2>1, Facts DEF QueuedIsUncommitted
    <2> QED
      BY <2>2, Facts DEF WrittenIsCommitted, Written
  <1>2. Unpushed = 0 /\ Unpushed' = 0
    BY <1>a, <1>1 DEF Unpushed, Written
  <1>3. Popped' = Popped
    BY <1>a, <1>2 DEF Popped
  <1>4. SlotsFollow'
    BY <1>a, <1>2, <1>3 DEF SlotsFollow, WriteOrder
  <1> QED
    BY <1>a, <1>2, <1>3, <1>4 DEF WriteOrder

\* The slot of a written line goes behind those of the lines before it.
LEMMA WriteOrderPushes ==
  ASSUME IInv, WriteOrder, WriteDone
  PROVE  /\ WriteOrder' /\ Popped' = Popped /\ Unpushed' = 0 /\ Unpushed = 1
         /\ Len(awaiting'.slots) = Len(awaiting.slots) + 1
         /\ awaiting'.slots = Append(awaiting.slots,
              [call |-> current, live |-> Listening(current), owed |-> Owed(current),
               received |-> <<>>])
         /\ \A i \in DOMAIN awaiting.slots :
              i \in DOMAIN awaiting'.slots /\ awaiting'.slots[i] = awaiting.slots[i]
         /\ \A i \in DOMAIN awaiting'.slots :
              i \in DOMAIN awaiting.slots \/ i = Len(awaiting.slots) + 1
         /\ Len(awaiting.slots) + 1 \in DOMAIN awaiting'.slots
         /\ awaiting'.slots[Len(awaiting.slots) + 1] =
              [call |-> current, live |-> Listening(current), owed |-> Owed(current),
               received |-> <<>>]
  <1> DEFINE slot == [call |-> current, live |-> Listening(current), owed |-> Owed(current),
                      received |-> <<>>]
             n == Len(awaiting.slots)
  <1>a. /\ mode = "write" /\ mode' = "serve" /\ ~Closed /\ attached /\ current \in Calls
        /\ current # NoCall /\ Written(current) /\ current' = NoCall
        /\ awaiting'.slots = Append(awaiting.slots, slot)
        /\ UNCHANGED <<written, attached>>
    BY Facts, NoCallIsNoCall DEF WriteDone, Writing, WriteOrder, Closed, TaskTypeOK,
       tmuxVars, envVars, PushOrdered, Listening
  <1>b. /\ SlotsFollow /\ awaiting.slots \in Seq(Slot) /\ n \in Nat
        /\ DOMAIN awaiting.slots = 1..n /\ Popped \in Nat /\ Len(written) \in Nat
        /\ DOMAIN written = 1..Len(written)
        /\ Len(written) = Popped + Unpushed + n
    BY <1>a, OrderFacts
  <1>c. slot \in Slot
    BY <1>a, OwedIsPositive, EmptySeq DEF Slot, Listening
  <1>d. slot.call = current
    OBVIOUS
  <1> HIDE DEF slot
  <1>e. /\ Len(awaiting'.slots) = n + 1 /\ DOMAIN awaiting'.slots = 1..(n + 1)
        /\ awaiting'.slots[n + 1] = slot
        /\ \A i \in 1..n : awaiting'.slots[i] = awaiting.slots[i]
    BY <1>a, <1>b, <1>c, AppendProperties, LenProperties
  <1> HIDE DEF n
  <1>f. /\ \A i \in DOMAIN awaiting.slots :
              i \in DOMAIN awaiting'.slots /\ awaiting'.slots[i] = awaiting.slots[i]
        /\ \A i \in DOMAIN awaiting'.slots : i \in DOMAIN awaiting.slots \/ i = n + 1
        /\ n + 1 \in DOMAIN awaiting'.slots
    BY <1>b, <1>e
  <1>1. Unpushed = 1 /\ Unpushed' = 0
    BY <1>a DEF Unpushed, Written
  <1>2. Popped' = Popped
    <2>1. Popped' = Len(written) - 0 - (n + 1)
      BY <1>a, <1>e, <1>1 DEF Popped
    <2> QED
      BY <1>b, <1>1, <2>1
  <1>3. SlotsFollow'
    <2>1. Popped + (n + 1) = Len(written) /\ Len(written) \in DOMAIN written
      BY <1>b, <1>1
    <2>2. slot.call = written[Popped + (n + 1)]
      BY <1>b, <1>d, <1>1, <2>1 DEF SlotsFollow
    <2>3. ASSUME NEW i \in DOMAIN awaiting'.slots
          PROVE  Popped + i \in DOMAIN written /\ awaiting'.slots[i].call = written[Popped + i]
      BY <1>b, <1>e, <1>f, <2>1, <2>2 DEF SlotsFollow
    <2> QED
      BY <1>a, <1>b, <1>1, <1>2, <2>3 DEF SlotsFollow
  <1> QED
    BY <1>a, <1>e, <1>f, <1>1, <1>2, <1>3 DEF WriteOrder, n, slot

\* A block takes the front slot away or leaves every slot in its place.
LEMMA WriteOrderAnswers ==
  ASSUME IInv, WriteOrder, BlockCompletes, NEW block, block = BlockAt(rd + 1)
  PROVE  /\ WriteOrder' /\ block \in Block /\ awaiting' = Complete(awaiting, block)
         /\ Unpushed = 0 /\ current = NoCall /\ ~Closed
         /\ Popped' = IF Completes(awaiting, block) THEN Popped + 1 ELSE Popped
  <1> DEFINE s == awaiting'.slots
             n == Len(awaiting.slots)
  <1>a. /\ mode = "block" /\ mode' = "serve" /\ ~Closed /\ attached /\ current = NoCall
        /\ awaiting' = Complete(awaiting, block)
        /\ UNCHANGED <<written, attached, current>>
    BY Facts DEF BlockCompletes, BlockReads, WriteOrder, Closed, TaskTypeOK, envVars
  <1>b. block \in Block
    <2>1. log[rd + 1] \in Line
      BY ReadLine DEF BlockCompletes, BlockReads
    <2> QED
      BY <2>1 DEF BlockAt, Line, Block
  <1>c. /\ SlotsFollow /\ awaiting \in Replies /\ Popped \in Nat /\ Len(written) \in Nat
        /\ DOMAIN written = 1..Len(written) /\ n \in Nat
        /\ DOMAIN awaiting.slots = 1..n /\ Len(written) = Popped + Unpushed + n
        /\ \A i \in DOMAIN awaiting.slots : awaiting.slots[i] \in Slot
    BY <1>a, OrderFacts
  <1>d. /\ Completes(awaiting, block) =>
             /\ Len(s) = n - 1 /\ DOMAIN s = 1..(n - 1)
             /\ \A i \in DOMAIN s : /\ i + 1 \in DOMAIN awaiting.slots
                                    /\ s[i] = awaiting.slots[i + 1]
        /\ ~Completes(awaiting, block) =>
             /\ Len(s) = n /\ DOMAIN s = DOMAIN awaiting.slots
             /\ \A i \in DOMAIN s : s[i] = IF i = 1 THEN TookOne(awaiting.slots[1], block)
                                           ELSE awaiting.slots[i]
    BY <1>a, <1>b, <1>c, Facts, CompleteSlots DEF CachesAreExact
  <1>e. \A x \in Slot : TookOne(x, block).call = x.call
    BY DEF TookOne, Slot
  <1>1. Unpushed = 0 /\ Unpushed' = 0
    BY <1>a DEF Unpushed
  <1>2. Popped' = Len(written) - Len(s)
    BY <1>a, <1>c, <1>d, <1>1 DEF Popped
  <1> HIDE DEF s, n
  <1>3. CASE Completes(awaiting, block)
    <2>1. Popped' = Popped + 1
      BY <1>c, <1>d, <1>1, <1>2, <1>3
    <2>2. \A i \in DOMAIN s : /\ Popped + (i + 1) \in DOMAIN written
                              /\ s[i].call = written[Popped + (i + 1)]
      BY <1>c, <1>d, <1>3 DEF SlotsFollow
    <2>3. \A i \in DOMAIN s : i \in Nat /\ Popped + (i + 1) = (Popped + 1) + i
      BY <1>c, <1>d, <1>3
    <2>4. SlotsFollow'
      BY <1>a, <1>c, <1>1, <2>1, <2>2, <2>3 DEF SlotsFollow, s
    <2> QED
      BY <1>a, <1>b, <1>1, <1>3, <2>1, <2>4 DEF WriteOrder
  <1>4. CASE ~Completes(awaiting, block)
    <2>1. Popped' = Popped
      BY <1>c, <1>d, <1>1, <1>2, <1>4
    <2>2. \A i \in DOMAIN s : i \in DOMAIN awaiting.slots
                              /\ s[i].call = awaiting.slots[i].call
      BY <1>c, <1>d, <1>e, <1>4
    <2>3. SlotsFollow'
      BY <1>a, <1>c, <1>1, <2>1, <2>2 DEF SlotsFollow, s
    <2> QED
      BY <1>a, <1>b, <1>1, <1>4, <2>1, <2>3 DEF WriteOrder
  <1> QED
    BY <1>3, <1>4

\* A refusal keeps the slots where they are.
LEMMA WriteOrderRefuses ==
  ASSUME IInv, WriteOrder, RefuseUnread
  PROVE  /\ WriteOrder' /\ Popped' = Popped /\ ~Closed /\ current = NoCall
         /\ DOMAIN awaiting'.slots = DOMAIN awaiting.slots
         /\ awaiting'.slots \in Seq(Slot)
         /\ \A i \in DOMAIN awaiting.slots :
              /\ awaiting'.slots[i].call = awaiting.slots[i].call
              /\ awaiting'.slots[i].owed = awaiting.slots[i].owed
              /\ ~awaiting'.slots[i].live
  <1>a. /\ mode = "serve" /\ mode' = "serve" /\ ~Closed /\ attached /\ current = NoCall
        /\ awaiting' = RefuseLive(awaiting)
        /\ UNCHANGED <<written, attached, current>>
    BY Facts DEF RefuseUnread, WriteOrder, Closed, TaskTypeOK, envVars, tmuxVars
  <1>b. /\ SlotsFollow /\ awaiting.slots \in Seq(Slot) /\ Popped \in Nat /\ awaiting \in Replies
        /\ \A i \in DOMAIN awaiting.slots : awaiting.slots[i] \in Slot
    BY <1>a, OrderFacts
  <1>c. awaiting'.slots \in Seq(Slot)
    BY <1>a, <1>b, Facts, RefuseLiveExact DEF CachesAreExact, Replies
  <1>d. awaiting'.slots = [i \in DOMAIN awaiting.slots |->
                            [awaiting.slots[i] EXCEPT !.live = FALSE, !.received = <<>>]]
    BY <1>a DEF RefuseLive
  <1>e. \A x \in Slot : /\ [x EXCEPT !.live = FALSE, !.received = <<>>].call = x.call
                        /\ [x EXCEPT !.live = FALSE, !.received = <<>>].owed = x.owed
                        /\ ~[x EXCEPT !.live = FALSE, !.received = <<>>].live
    BY DEF Slot
  <1>f. /\ DOMAIN awaiting'.slots = DOMAIN awaiting.slots
        /\ \A i \in DOMAIN awaiting.slots :
              /\ awaiting'.slots[i].call = awaiting.slots[i].call
              /\ awaiting'.slots[i].owed = awaiting.slots[i].owed
              /\ ~awaiting'.slots[i].live
    <2>1. \A i \in DOMAIN awaiting.slots :
            awaiting'.slots[i] = [awaiting.slots[i] EXCEPT !.live = FALSE, !.received = <<>>]
      BY <1>d
    <2>2. DOMAIN awaiting'.slots = DOMAIN awaiting.slots
      BY <1>d
    <2> QED
      BY <1>b, <1>e, <2>1, <2>2
  <1>g. Len(awaiting'.slots) = Len(awaiting.slots)
    BY <1>b, <1>c, <1>f, LenDomain
  <1>1. Popped' = Popped /\ Unpushed' = Unpushed
    BY <1>a, <1>g DEF Popped, Unpushed, Written
  <1>2. SlotsFollow'
    BY <1>a, <1>b, <1>f, <1>1 DEF SlotsFollow
  <1> QED
    BY <1>a, <1>c, <1>f, <1>1, <1>2 DEF WriteOrder

\* tmux moves what it says and nothing of the lines, unless one reaches it.
LEMMA TmuxStays ==
  Tmux => WriteReachesTmux \/ UNCHANGED <<mode, written, current, awaiting, attached, rd>>
  BY DEF Tmux, TmuxAttaches, TmuxNotifies, TmuxBegins, TmuxEnds, TmuxHookBlock, TmuxGoes,
     TmuxUnchanged, actorVars, envVars

LEMMA WriteOrderStep == IInv /\ WriteOrder /\ [Next]_vars => WriteOrder'
  <1> SUFFICES ASSUME IInv, WriteOrder, [Next]_vars PROVE WriteOrder'
    OBVIOUS
  <1>1. CASE Ends
    BY <1>1, WriteOrderEnds
  <1>2. CASE Rests \/ ReadsNoEnd
    BY <1>2, WriteOrderStays DEF Rests, ReadsNoEnd
  <1>3. CASE OpeningEnd
    <2>1. /\ UNCHANGED <<written, current, awaiting>> /\ attached' /\ ~Closed
      BY <1>3 DEF OpeningEnd, OpeningReads, Opening, Closed
    <2>2. SlotsFollow'
      BY <2>1 DEF WriteOrder, SlotsFollow, Popped, Unpushed, Written
    <2> QED
      BY <2>1, <2>2 DEF WriteOrder
  <1>4. CASE Tmux
    <2>1. CASE UNCHANGED <<mode, written, current, awaiting, attached>>
      <3>1. SlotsFollow => SlotsFollow'
        BY <2>1 DEF SlotsFollow, Popped, Unpushed, Written
      <3> QED
        BY <2>1, <3>1 DEF WriteOrder, Closed
    <2> QED
      BY <1>4, <2>1, TmuxStays, WriteOrderWrites
  <1>5. CASE CommitRequest \/ WriteDone \/ BlockCompletes \/ RefuseUnread
    BY <1>5, WriteOrderCommits, WriteOrderPushes, WriteOrderAnswers, WriteOrderRefuses
  <1> QED
    BY <1>1, <1>2, <1>3, <1>4, <1>5, Shapes

-----------------------------------------------------------------------------
(* Nobody who is owed an answer has one.                                   *)

\* The requests in the queue have no answer.
LEMMA QueuedIsFresh ==
  ASSUME IInv, NEW c \in Range(queue)
  PROVE  /\ c \in Calls /\ commit[c] # "sent"
         /\ Listening(c) => answer[c] = NoAnswer
  <1>1. PICK i \in DOMAIN queue : queue[i] = c
    BY DEF Range
  <1>2. c \in Calls
    BY <1>1, Facts, LenProperties, ElementOfSeq DEF CallTypeOK
  <1>3. commit[c] # "sent" /\ (commit[c] = "open" => answer[c] = NoAnswer)
    BY <1>1, Facts DEF QueuedIsUncommitted
  <1>4. Listening(c) => commit[c] # "withdrawn"
    BY <1>2, Facts DEF WithdrawnIsOver, Listening
  <1> QED
    BY <1>2, <1>3, <1>4, Facts DEF CallTypeOK

LEMMA HeadIsQueued ==
  ASSUME IInv, queue # <<>>
  PROVE  Head(queue) \in Range(queue) /\ Head(queue) \in Calls
  BY Facts, TailRange DEF CallTypeOK, QueuedIsUncommitted

\* Nobody new is owed an answer, and nobody who is has been given one.
LEMMA OwedStays ==
  ASSUME OwedIsUnanswered,
         \A c \in Calls : c \in LiveCalls(awaiting'.slots) \cup {current'} /\ Listening(c)' =>
           /\ c \in LiveCalls(awaiting.slots) \cup {current} /\ Listening(c)
           /\ answer'[c] = answer[c]
  PROVE  OwedIsUnanswered'
  BY DEF OwedIsUnanswered

LEMMA OwedInit == Init => OwedIsUnanswered
  <1>1. Init => DOMAIN awaiting.slots = {} /\ current = NoCall
    BY EmptySeq DEF Init, NoReplies
  <1> QED
    BY <1>1, NoCallIsNoCall DEF OwedIsUnanswered, LiveCalls, LiveAt

\* Whose slot is live or whose line is being written is committed.
LEMMA OwedIsCommitted ==
  ASSUME IInv, NEW c \in Calls, c \in LiveCalls(awaiting.slots) \cup {current}
  PROVE  commit[c] = "sent"
  BY LiveIsCommitted, NoCallIsNoCall, Facts DEF WrittenIsCommitted

LEMMA CallerAnswers ==
  ASSUME IInv, OwedIsUnanswered, NEW c \in Calls, Caller(c)
  PROVE  OwedIsUnanswered'
  <1>a. CallTypeOK /\ UnsentIsUnknown
    BY Facts
  <1>b. UNCHANGED <<current, awaiting>>
    BY DEF Caller, Start, Reserve, SendRequest, TakeAnswer, CallDeadline, SeeCommit, DropCall,
       actorVars
  <1>1. CASE Start(c) \/ Reserve(c) \/ CallDeadline(c) \/ DropCall(c)
    <2>1. /\ \A x \in Calls : x # c => call'[x] = call[x] /\ answer'[x] = answer[x]
          /\ Listening(c)' => Listening(c) /\ answer'[c] = answer[c]
      BY <1>1, <1>a DEF Start, Reserve, CallDeadline, DropCall, Return, Listening, HasAnswer,
         CallTypeOK, UnsentIsUnknown
    <2> QED
      BY <1>b, <2>1, OwedStays DEF Listening
  <1>2. CASE SendRequest(c)
    <2>1. c \notin LiveCalls(awaiting.slots) \cup {current}
      BY <1>2, <1>a, OwedIsCommitted DEF SendRequest, UnsentIsUnknown
    <2>2. /\ \A x \in Calls : x # c => call'[x] = call[x]
          /\ answer' = answer
      BY <1>2, <1>a DEF SendRequest, CallTypeOK
    <2> QED
      BY <1>b, <2>1, <2>2, OwedStays DEF Listening
  <1>3. CASE TakeAnswer(c) \/ SeeCommit(c)
    <2>1. /\ \A x \in Calls : Listening(x)' => Listening(x)
          /\ answer' = answer
      BY <1>3, <1>a DEF TakeAnswer, SeeCommit, CallTypeOK, Listening
    <2> QED
      BY <1>b, <2>1, OwedStays
  <1> QED
    BY <1>1, <1>2, <1>3 DEF Caller

\* The end of the loops tells everyone the task owes, and owes nobody after.
LEMMA FinishAnswers ==
  ASSUME IInv, OwedIsUnanswered, NEW o, Finish(o)
  PROVE  OwedIsUnanswered'
  <1>1. awaiting' = NoReplies /\ current' = NoCall
    BY DEF Finish
  <1>2. LiveCalls(awaiting'.slots) = {}
    <2>1. DOMAIN awaiting'.slots = {}
      BY <1>1, EmptySeq DEF NoReplies
    <2> QED
      BY <2>1 DEF LiveCalls, LiveAt
  <1> QED
    BY <1>1, <1>2, NoCallIsNoCall DEF OwedIsUnanswered

\* Whoever is told without a slot was in the queue.
LEMMA QueueAnswers ==
  ASSUME IInv, OwedIsUnanswered, NEW S, S \subseteq Range(queue), NEW v, Tell(S, v),
         UNCHANGED <<call, current, awaiting>>
  PROVE  OwedIsUnanswered'
  <1>1. \A c \in Calls : c \in LiveCalls(awaiting.slots) \cup {current} => answer'[c] = answer[c]
    BY OwedIsCommitted, QueuedIsFresh DEF Tell
  <1> QED
    BY <1>1, OwedStays DEF Listening

\* The reply goes to the front slot's caller and takes its only slot away.
LEMMA BlockAnswers ==
  ASSUME IInv, WriteOrder, OwedIsUnanswered, BlockCompletes
  PROVE  OwedIsUnanswered'
  <1> DEFINE block == BlockAt(rd + 1)
             front == Head(awaiting.slots)
             told == Completes(awaiting, block) /\ front.live
             s == awaiting'.slots
  <1>a. /\ block \in Block /\ awaiting' = Complete(awaiting, block) /\ current = NoCall
        /\ ~Closed /\ current' = current /\ call' = call
        /\ IF told THEN \E v : Tell({front.call}, v) ELSE UNCHANGED answer
    BY WriteOrderAnswers DEF BlockCompletes
  <1>b. /\ awaiting.slots \in Seq(Slot) /\ awaiting \in Replies /\ Exact(awaiting)
        /\ \A i \in DOMAIN awaiting.slots : awaiting.slots[i] \in Slot
    BY <1>a, OrderFacts, Facts DEF CachesAreExact
  <1> HIDE DEF block
  <1>c. /\ Completes(awaiting, block) =>
             /\ DOMAIN s = 1..(Len(awaiting.slots) - 1)
             /\ \A i \in DOMAIN s : /\ i + 1 \in DOMAIN awaiting.slots
                                    /\ s[i] = awaiting.slots[i + 1]
        /\ ~Completes(awaiting, block) =>
             /\ DOMAIN s = DOMAIN awaiting.slots
             /\ \A i \in DOMAIN s : s[i] = IF i = 1 THEN TookOne(awaiting.slots[1], block)
                                           ELSE awaiting.slots[i]
        /\ awaiting.slots # <<>> => /\ front = awaiting.slots[1]
                                    /\ 1 \in DOMAIN awaiting.slots
    BY <1>a, <1>b, CompleteSlots
  <1>d. told => /\ awaiting.slots # <<>> /\ front.call \in Calls
                /\ front.call \in LiveCalls(awaiting.slots)
    BY <1>b, <1>c DEF Completes, LiveCalls, LiveAt, Slot
  <1>e. \A x \in Slot : TookOne(x, block).call = x.call /\ TookOne(x, block).live = x.live
    BY DEF TookOne, Slot
  <1> HIDE DEF s
  <1>1. ASSUME NEW c \in LiveCalls(s)
        PROVE  c \in LiveCalls(awaiting.slots) /\ (told => c # front.call)
    <2>1. PICK i \in DOMAIN s : s[i].live /\ s[i].call = c
      BY <1>1 DEF LiveCalls, LiveAt
    <2>2. CASE Completes(awaiting, block)
      <3>1. /\ i + 1 \in DOMAIN awaiting.slots /\ s[i] = awaiting.slots[i + 1]
            /\ i + 1 # 1
        BY <1>c, <2>1, <2>2
      <3>2. c \in LiveCalls(awaiting.slots)
        BY <2>1, <3>1 DEF LiveCalls, LiveAt
      <3>3. front = awaiting.slots[1] /\ 1 \in DOMAIN awaiting.slots
        BY <1>c, <2>2 DEF Completes
      <3>4. front.call # c
        BY <1>a, <2>1, <3>1, <3>3, SlotsDistinct
      <3> QED
        BY <3>2, <3>4
    <2>3. CASE ~Completes(awaiting, block)
      <3>1. i \in DOMAIN awaiting.slots /\ awaiting.slots[i].live
            /\ awaiting.slots[i].call = c
        BY <1>b, <1>c, <1>e, <2>1, <2>3
      <3> QED
        BY <2>3, <3>1 DEF LiveCalls, LiveAt
    <2> QED
      BY <2>2, <2>3
  <1>2. \A c \in Calls : c \in LiveCalls(s) => answer'[c] = answer[c]
    BY <1>a, <1>1 DEF Tell
  <1> QED
    BY <1>a, <1>1, <1>2, NoCallIsNoCall, OwedStays DEF Listening, s

LEMMA RefuseAnswers ==
  ASSUME IInv, WriteOrder, OwedIsUnanswered, RefuseUnread
  PROVE  OwedIsUnanswered'
  <1>1. current = NoCall /\ current' = current
    BY WriteOrderRefuses DEF RefuseUnread
  <1>2. LiveCalls(awaiting'.slots) = {}
    BY WriteOrderRefuses DEF LiveCalls, LiveAt
  <1> QED
    BY <1>1, <1>2, NoCallIsNoCall DEF OwedIsUnanswered

LEMMA CommitAnswers ==
  ASSUME IInv, OwedIsUnanswered, CommitRequest
  PROVE  OwedIsUnanswered'
  <1>1. /\ queue # <<>> /\ UNCHANGED <<call, answer, awaiting>>
        /\ current' = current \/ current' = Head(queue)
    BY DEF CommitRequest
  <1>2. Listening(Head(queue)) => answer[Head(queue)] = NoAnswer
    BY <1>1, HeadIsQueued, QueuedIsFresh
  <1> QED
    BY <1>1, <1>2 DEF OwedIsUnanswered, Listening

LEMMA PushAnswers ==
  ASSUME IInv, WriteOrder, OwedIsUnanswered, WriteDone
  PROVE  OwedIsUnanswered'
  <1>1. UNCHANGED <<call, answer>> /\ current' = NoCall /\ current \in Calls
    BY Facts DEF WriteDone, Writing, callVars, TaskTypeOK
  <1>2. ASSUME NEW c \in LiveCalls(awaiting'.slots)
        PROVE  c \in LiveCalls(awaiting.slots) \cup {current}
    <2>1. PICK i \in DOMAIN awaiting'.slots :
            awaiting'.slots[i].live /\ awaiting'.slots[i].call = c
      BY <1>2 DEF LiveCalls, LiveAt
    <2>2. CASE i \in DOMAIN awaiting.slots
      BY <2>1, <2>2, WriteOrderPushes DEF LiveCalls, LiveAt
    <2>3. CASE i \notin DOMAIN awaiting.slots
      BY <2>1, <2>3, WriteOrderPushes
    <2> QED
      BY <2>2, <2>3
  <1> QED
    BY <1>1, <1>2, NoCallIsNoCall DEF OwedIsUnanswered, Listening

LEMMA AnswerStep ==
  ASSUME IInv, WriteOrder, OwedIsUnanswered, [Next]_vars
  PROVE  OwedIsUnanswered'
  <1>1. ASSUME UNCHANGED <<call, answer, current, awaiting>>
        PROVE  OwedIsUnanswered'
    BY <1>1 DEF OwedIsUnanswered, Listening
  <1>2. CASE UNCHANGED vars \/ Tmux \/ Handles \/ Tick
    BY <1>1, <1>2 DEF vars, callVars, actorVars, Tmux, WriteReachesTmux, TmuxAttaches,
       TmuxNotifies, TmuxBegins, TmuxEnds, TmuxHookBlock, TmuxGoes, TmuxUnchanged, Handles,
       DropSender, Next_event, TakeOutcome, Shutdown, DropWatcher, CancelAttach,
       CoreShutdown, Tick
  <1>3. CASE OpeningEvent \/ OpeningBegin \/ OpeningEnd \/ ReadEvent \/ ReadBegin \/ Unwatched
             \/ Deliver \/ SendersGone \/ DrainDelivers
    BY <1>1, <1>3 DEF callVars, actorVars, OpeningEvent, OpeningBegin, OpeningEnd, ReadEvent,
       ReadBegin, Unwatched, Deliver, SendersGone, DrainDelivers
  <1>4. CASE \E c \in Calls : Caller(c)
    BY <1>4, CallerAnswers
  <1>5. CASE \E o : Finish(o)
    BY <1>5, FinishAnswers
  <1>6. CASE OpeningCancelled \/ OpeningCoreStopped \/ OpeningTimedOut \/ OpeningFails
             \/ ServeEnds \/ StopAsked \/ CoreStopped \/ ReadExit \/ ReadFails \/ TimedOut
             \/ WriteCoreStopped \/ WriteStopped \/ WriteTimedOut \/ WriteFails
             \/ BlockCoreStopped \/ BlockStopped \/ BlockTimedOut \/ BlockFails
    <2>1. \E o : Finish(o)
      BY <1>6 DEF OpeningCancelled, OpeningCoreStopped, OpeningTimedOut, OpeningFails,
         ServeEnds, StopAsked, CoreStopped, ReadExit, ReadFails, TimedOut, WriteCoreStopped,
         WriteStopped, WriteTimedOut, WriteFails, BlockCoreStopped, BlockStopped,
         BlockTimedOut, BlockFails
    <2> QED
      BY <1>5, <2>1
  <1>7. CASE RefuseRequest
    <2>1. UNCHANGED <<call, current, awaiting>> /\ \E v : Tell({Head(queue)}, v)
      BY <1>7 DEF RefuseRequest, actorVars
    <2>2. {Head(queue)} \subseteq Range(queue)
      BY <1>7, HeadIsQueued DEF RefuseRequest
    <2> QED
      BY <2>1, <2>2, QueueAnswers
  <1>8. CASE DrainCoreStopped \/ DrainUnwatched \/ DrainDone
    <2>1. UNCHANGED <<call, current, awaiting>> /\ \E v : Tell(Range(queue), v)
      BY <1>8 DEF DrainCoreStopped, DrainUnwatched, DrainDone, Exit
    <2> QED
      BY <2>1, QueueAnswers
  <1>9. CASE RefuseUnread \/ CommitRequest \/ WriteDone \/ BlockCompletes
    BY <1>9, RefuseAnswers, CommitAnswers, PushAnswers, BlockAnswers
  <1> QED
    BY <1>2, <1>3, <1>4, <1>6, <1>7, <1>8, <1>9
       DEF Next, Actor, OpeningStep, ServeStep, WriteStep, BlockStep, DrainStep

\* Throughout, lines are answered in the order they were written and nobody
\* who is owed an answer has one.
OInv == IInv /\ WriteOrder /\ OwedIsUnanswered

LEMMA OrderInvariance == Spec => []OInv
  <1>1. Init => OInv
    BY InitInv, WriteOrderInit, OwedInit DEF OInv
  <1>2. OInv /\ [Next]_vars => OInv'
    BY StepPreserves, WriteOrderStep, AnswerStep DEF OInv
  <1> QED
    BY <1>1, <1>2, PTL DEF Spec

-----------------------------------------------------------------------------
(* What the pipe holds.                                                    *)

\* The log after one more line, and after two.
LEMMA LogPlusOne ==
  ASSUME IInv, NEW x \in Line, log' = Append(log, x)
  PROVE  /\ Len(log) \in Nat /\ DOMAIN log = 1..Len(log) /\ rd \in 0..Len(log)
         /\ Len(log') = Len(log) + 1 /\ DOMAIN log' = 1..(Len(log) + 1)
         /\ \A p \in DOMAIN log : p \in DOMAIN log' /\ log'[p] = log[p]
         /\ \A p \in DOMAIN log' : p \in DOMAIN log \/ p = Len(log) + 1
         /\ log'[Len(log) + 1] = x
  <1>1. log \in Seq(Line) /\ rd \in 0..Len(log)
    BY Facts DEF TmuxTypeOK
  <1> QED
    BY <1>1, AppendProperties, LenProperties

LEMMA LogPlusTwo ==
  ASSUME IInv, NEW x \in Line, NEW y \in Line, log' = log \o <<x, y>>
  PROVE  /\ Len(log) \in Nat /\ DOMAIN log = 1..Len(log) /\ rd \in 0..Len(log)
         /\ Len(log') = Len(log) + 2 /\ DOMAIN log' = 1..(Len(log) + 2)
         /\ \A p \in DOMAIN log : p \in DOMAIN log' /\ log'[p] = log[p]
         /\ \A p \in DOMAIN log' : p \in DOMAIN log \/ p = Len(log) + 1 \/ p = Len(log) + 2
         /\ log'[Len(log) + 1] = x /\ log'[Len(log) + 2] = y
  <1>1. log \in Seq(Line) /\ rd \in 0..Len(log) /\ Len(log) \in Nat
        /\ DOMAIN log = 1..Len(log)
    BY Facts, LenProperties DEF TmuxTypeOK
  <1> DEFINE t == <<x, y>>
             n == Len(log)
  <1>2. t \in Seq(Line) /\ Len(t) = 2 /\ t[1] = x /\ t[2] = y /\ log' = log \o t
    OBVIOUS
  <1> HIDE DEF t
  <1>3. /\ log' \in Seq(Line) /\ Len(log') = n + 2
        /\ \A i \in 1..(n + 2) : log'[i] = IF i <= n THEN log[i] ELSE t[i - n]
    BY <1>1, <1>2, ConcatProperties
  <1>4. DOMAIN log' = 1..(n + 2)
    BY <1>3, LenProperties
  <1>5. n \in Nat /\ DOMAIN log = 1..n
    BY <1>1
  <1> HIDE DEF n
  <1>6. \A p \in 1..n : p \in 1..(n + 2) /\ log'[p] = log[p]
    BY <1>3, <1>5
  <1>7. \A p \in 1..(n + 2) : p \in 1..n \/ p = n + 1 \/ p = n + 2
    BY <1>5
  <1>8. log'[n + 1] = t[1] /\ log'[n + 2] = t[2]
    <2>1. /\ n + 1 \in 1..(n + 2) /\ ~(n + 1 <= n) /\ (n + 1) - n = 1
          /\ n + 2 \in 1..(n + 2) /\ ~(n + 2 <= n) /\ (n + 2) - n = 2
      BY <1>5
    <2> QED
      BY <1>3, <2>1
  <1> QED
    BY <1>1, <1>2, <1>3, <1>4, <1>5, <1>6, <1>7, <1>8 DEF n

\* What tmux adds to the log is an end only where it closes a block of its
\* own: no hook's.
NoNewEnd ==
  /\ Len(log') \in Nat /\ Len(log') > Len(log) /\ DOMAIN log' = 1..Len(log')
  /\ \A p \in DOMAIN log : p \in DOMAIN log' /\ log'[p] = log[p]
  /\ \A p \in DOMAIN log' : p > Len(log) => ~IsEnd(p)'
  /\ UNCHANGED <<tmuxLine, tmuxCmd>>

NewEnd ==
  /\ Len(log') = Len(log) + 1 /\ DOMAIN log' = 1..(Len(log) + 1)
  /\ \A p \in DOMAIN log : p \in DOMAIN log' /\ log'[p] = log[p]
  /\ log'[Len(log) + 1].kind = "end"
  /\ log'[Len(log) + 1].line = tmuxLine /\ log'[Len(log) + 1].cmd = tmuxCmd
  /\ <<tmuxLine', tmuxCmd'>> = After(log'[Len(log) + 1])

\* tmux adds no end of a block, except the attach's.
LEMMA TmuxAdds ==
  ASSUME IInv, ~HookBlocks, Tmux
  PROVE  \/ WriteReachesTmux
         \/ TmuxEnds /\ NewEnd
         \/ /\ TmuxAttaches /\ NoNewEnd
            /\ \A p \in DOMAIN log' :
                 p \in DOMAIN log \/ p = Len(log) + 1 \/ p = Len(log) + 2
            /\ log'[Len(log) + 1].kind # "end"
         \/ /\ TmuxNotifies \/ TmuxBegins \/ TmuxGoes
            /\ NoNewEnd
            /\ \A p \in DOMAIN log' : p > Len(log) => log'[p].kind # "end"
  <1>a. tmuxLine \in Nat /\ tmuxCmd \in Nat
    BY Facts DEF TmuxTypeOK
  <1>1. CASE TmuxAttaches
    <2>1. PICK ok \in BOOLEAN :
            log' = log \o <<Emit("begin", 0, 1, TRUE), Emit("end", 0, 1, ok)>>
      BY <1>1 DEF TmuxAttaches
    <2>2. Emit("begin", 0, 1, TRUE) \in Line /\ Emit("end", 0, 1, ok) \in Line
      BY EmitTyped
    <2>3. /\ Len(log) \in Nat /\ DOMAIN log = 1..Len(log)
          /\ Len(log') = Len(log) + 2 /\ DOMAIN log' = 1..(Len(log) + 2)
          /\ \A p \in DOMAIN log : p \in DOMAIN log' /\ log'[p] = log[p]
          /\ \A p \in DOMAIN log' : p \in DOMAIN log \/ p = Len(log) + 1 \/ p = Len(log) + 2
          /\ log'[Len(log) + 1] = Emit("begin", 0, 1, TRUE)
          /\ log'[Len(log) + 2] = Emit("end", 0, 1, ok)
      BY <2>1, <2>2, LogPlusTwo
    <2>4. /\ Emit("begin", 0, 1, TRUE).kind = "begin" /\ Emit("end", 0, 1, ok).line = 0
      BY DEF Emit
    <2>5. \A p \in DOMAIN log' : p > Len(log) => ~IsEnd(p)'
      <3> TAKE p \in DOMAIN log'
      <3>1. p > Len(log) => p = Len(log) + 1 \/ p = Len(log) + 2
        BY <2>3
      <3> QED
        BY <2>3, <2>4, <3>1 DEF IsEnd
    <2>6. Len(log') \in Nat /\ Len(log') > Len(log) /\ DOMAIN log' = 1..Len(log')
      BY <2>3
    <2>7. UNCHANGED <<tmuxLine, tmuxCmd>>
      BY <1>1 DEF TmuxAttaches
    <2>8. NoNewEnd
      BY <2>3, <2>5, <2>6, <2>7 DEF NoNewEnd
    <2>9. log'[Len(log) + 1].kind # "end"
      BY <2>3, <2>4
    <2> QED
      BY <1>1, <2>3, <2>8, <2>9
  <1>2. ASSUME NEW x \in Line, log' = Append(log, x), x.kind # "end",
               UNCHANGED <<tmuxLine, tmuxCmd>>
        PROVE  NoNewEnd /\ \A p \in DOMAIN log' : p > Len(log) => log'[p].kind # "end"
    <2>1. /\ Len(log) \in Nat /\ DOMAIN log = 1..Len(log)
          /\ Len(log') = Len(log) + 1 /\ DOMAIN log' = 1..(Len(log) + 1)
          /\ \A p \in DOMAIN log : p \in DOMAIN log' /\ log'[p] = log[p]
          /\ log'[Len(log) + 1] = x
      BY <1>2, LogPlusOne
    <2>2. \A p \in DOMAIN log' : p > Len(log) => p = Len(log) + 1
      BY <2>1
    <2> QED
      BY <1>2, <2>1, <2>2 DEF NoNewEnd, IsEnd
  <1>3. CASE TmuxNotifies
    <2>1. /\ Emit("event", tmuxLine, tmuxCmd, TRUE) \in Line
          /\ Emit("event", tmuxLine, tmuxCmd, TRUE).kind # "end"
      BY <1>a, EmitTyped DEF Emit
    <2> QED
      BY <1>2, <1>3, <2>1 DEF TmuxNotifies
  <1>4. CASE TmuxBegins
    <2>1. /\ Emit("begin", tmuxLine, tmuxCmd, TRUE) \in Line
          /\ Emit("begin", tmuxLine, tmuxCmd, TRUE).kind # "end"
      BY <1>a, EmitTyped DEF Emit
    <2> QED
      BY <1>2, <1>4, <2>1 DEF TmuxBegins
  <1>5. CASE TmuxGoes
    <2>1. /\ \A kind \in {"exit", "eof", "overlong"} :
               Emit(kind, 0, 0, TRUE) \in Line /\ Emit(kind, 0, 0, TRUE).kind # "end"
      BY EmitTyped DEF Emit
    <2>2. CASE \E kind \in TerminalKinds : log' = Append(log, Emit(kind, 0, 0, TRUE))
      BY <1>2, <1>5, <2>1, <2>2 DEF TmuxGoes, TerminalKinds
    <2>3. CASE log' = log \o <<Emit("exit", 0, 0, TRUE), Emit("eof", 0, 0, TRUE)>>
      <3>1. /\ Len(log) \in Nat /\ DOMAIN log = 1..Len(log)
            /\ Len(log') = Len(log) + 2 /\ DOMAIN log' = 1..(Len(log) + 2)
            /\ \A p \in DOMAIN log : p \in DOMAIN log' /\ log'[p] = log[p]
            /\ log'[Len(log) + 1].kind # "end" /\ log'[Len(log) + 2].kind # "end"
        BY <2>1, <2>3, LogPlusTwo
      <3>2. \A p \in DOMAIN log' : p > Len(log) => p = Len(log) + 1 \/ p = Len(log) + 2
        BY <3>1
      <3>3. Len(log') \in Nat /\ Len(log') > Len(log) /\ DOMAIN log' = 1..Len(log')
        BY <3>1
      <3>4. \A p \in DOMAIN log' : p > Len(log) => log'[p].kind # "end"
        BY <3>1, <3>2
      <3>5. NoNewEnd
        BY <1>5, <3>1, <3>3, <3>4 DEF NoNewEnd, IsEnd, TmuxGoes
      <3> QED
        BY <1>5, <3>4, <3>5
    <2> QED
      BY <1>5, <2>2, <2>3 DEF TmuxGoes
  <1>6. CASE TmuxEnds
    <2>1. PICK ok \in BOOLEAN :
            /\ log' = Append(log, Emit("end", tmuxLine, tmuxCmd, ok))
            /\ IF ok /\ tmuxCmd < Owed(written[tmuxLine])
               THEN tmuxCmd' = tmuxCmd + 1 /\ UNCHANGED tmuxLine
               ELSE tmuxCmd' = 1 /\ tmuxLine' = tmuxLine + 1
      BY <1>6 DEF TmuxEnds
    <2>2. Emit("end", tmuxLine, tmuxCmd, ok) \in Line
      BY <1>a, EmitTyped
    <2>3. /\ Len(log') = Len(log) + 1 /\ DOMAIN log' = 1..(Len(log) + 1)
          /\ \A p \in DOMAIN log : p \in DOMAIN log' /\ log'[p] = log[p]
          /\ log'[Len(log) + 1] = Emit("end", tmuxLine, tmuxCmd, ok)
      BY <2>1, <2>2, LogPlusOne
    <2>4. LET x == Emit("end", tmuxLine, tmuxCmd, ok)
          IN  x.kind = "end" /\ x.line = tmuxLine /\ x.cmd = tmuxCmd /\ (x.ok <=> ok)
      BY DEF Emit
    <2>5. <<tmuxLine', tmuxCmd'>> = After(Emit("end", tmuxLine, tmuxCmd, ok))
      BY <2>1, <2>4 DEF After
    <2> QED
      BY <1>6, <2>3, <2>4, <2>5 DEF NewEnd
  <1>7. ~TmuxHookBlock
    BY DEF TmuxHookBlock
  <1> QED
    BY <1>1, <1>3, <1>4, <1>5, <1>6, <1>7 DEF Tmux

LEMMA TmuxOrderInit == Init => TmuxOrder
  BY EmptySeq DEF Init, TmuxOrder

LEMMA TmuxOrderSame ==
  ASSUME IInv, TmuxOrder, PipeSame, UNCHANGED attached, DOMAIN written \subseteq DOMAIN written',
         rd' \in {rd, rd + 1}
  PROVE  TmuxOrder'
  <1>1. /\ \A p : IsEnd(p)' <=> IsEnd(p)
        /\ UNCHANGED <<log, tmux, tmuxLine, tmuxOpen>>
    BY DEF PipeSame, IsEnd
  <1>2. \A p \in DOMAIN log : p > rd' => p > rd
    <2>1. rd \in Nat /\ \A p \in DOMAIN log : p \in Nat
      BY Facts, LenProperties DEF TmuxTypeOK
    <2> QED
      BY <2>1
  <1> QED
    BY <1>1, <1>2 DEF TmuxOrder

\* The attach's own answer is read: nothing else had been answered.
LEMMA TmuxOrderOpens ==
  ASSUME IInv, WriteOrder, TmuxOrder, OpeningEnd
  PROVE  TmuxOrder' /\ ~IsEnd(rd + 1)
  <1>1. /\ PipeSame /\ UNCHANGED written /\ rd' = rd + 1 /\ attached' /\ ~attached
        /\ Readable /\ log[rd + 1].kind = "end"
    BY DEF OpeningEnd, OpeningReads, Opening, PipeSame, Next_line
  <1>2. /\ rd \in Nat /\ rd + 1 \in DOMAIN log /\ \A p \in DOMAIN log : p \in Nat
    BY <1>1, Facts, LenProperties DEF TmuxTypeOK, Readable
  <1>3. DOMAIN written = {}
    BY <1>1, EmptySeq DEF WriteOrder
  <1>4. \A p \in DOMAIN log : ~IsEnd(p)
    BY <1>3 DEF TmuxOrder
  <1>5. \A p \in DOMAIN log : log[p].kind = "end" => log[p].line = 0
    BY <1>4 DEF IsEnd
  <1>6. \A p \in DOMAIN log : log[p].kind = "end" => p = rd + 1
    BY <1>1, <1>2, <1>5 DEF TmuxOrder
  <1>7. tmux # "starting"
    BY <1>1, <1>2 DEF TmuxOrder
  <1>8. UNCHANGED <<log, tmux, tmuxLine, tmuxOpen>> /\ \A p : IsEnd(p)' <=> IsEnd(p)
    BY <1>1 DEF PipeSame, IsEnd
  <1>9. \A p \in DOMAIN log : p > rd + 1 => log[p].kind # "end"
    BY <1>2, <1>6
  <1> QED
    BY <1>1, <1>2, <1>3, <1>4, <1>7, <1>8, <1>9 DEF TmuxOrder

LEMMA TmuxOrderTmux ==
  ASSUME IInv, ~HookBlocks, WriteOrder, TmuxOrder, Tmux
  PROVE  TmuxOrder'
  <1>a. rd \in Nat /\ Len(log) \in Nat /\ DOMAIN log = 1..Len(log) /\ rd <= Len(log)
        /\ tmuxLine \in Nat \ {0}
    BY Facts, LenProperties DEF TmuxTypeOK
  <1>1. CASE WriteReachesTmux
    <2>1. DOMAIN written \subseteq DOMAIN written'
      <3>1. written' = Append(written, current) /\ current \in Calls /\ written \in Seq(Calls)
        BY <1>1, Facts, NoCallIsNoCall DEF WriteReachesTmux, TaskTypeOK, TmuxTypeOK
      <3>2. /\ Len(written) \in Nat /\ DOMAIN written = 1..Len(written)
            /\ written' \in Seq(Calls) /\ Len(written') = Len(written) + 1
            /\ DOMAIN written' = 1..Len(written')
        BY <3>1, AppendProperties, LenProperties
      <3> QED
        BY <3>2
    <2> QED
      BY <1>1, <2>1, TmuxOrderSame DEF WriteReachesTmux, PipeSame, envVars
  <1>2. ASSUME \A p \in DOMAIN log : p \in DOMAIN log' /\ log'[p] = log[p]
        PROVE  \A p \in DOMAIN log : IsEnd(p)' <=> IsEnd(p)
    BY <1>2 DEF IsEnd
  <1>3. CASE TmuxEnds /\ NewEnd
    <2>1. /\ DOMAIN log' = 1..(Len(log) + 1) /\ tmuxOpen /\ tmux = "up" /\ tmux' = "up"
          /\ \A p \in DOMAIN log : p \in DOMAIN log' /\ log'[p] = log[p]
          /\ log'[Len(log) + 1].line = tmuxLine /\ ~tmuxOpen'
          /\ UNCHANGED <<attached, written, rd>>
      BY <1>3 DEF TmuxEnds, NewEnd, TmuxUnchanged, envVars
    <2>2. /\ \A p \in DOMAIN log' : p \in DOMAIN log \/ p = Len(log) + 1
          /\ tmuxLine \in DOMAIN written /\ tmuxLine # 0
      BY <1>a, <2>1 DEF TmuxOrder
    <2>3. \A p \in DOMAIN log' : IsEnd(p)' => log'[p].line \in DOMAIN written
      BY <1>2, <2>1, <2>2 DEF TmuxOrder
    <2>4. \A p \in DOMAIN log' : log'[p].kind = "end" /\ log'[p].line = 0 => p \in DOMAIN log
      BY <2>1, <2>2
    <2>5. attached => \A p \in DOMAIN log' : p > rd /\ log'[p].kind = "end" => IsEnd(p)'
      BY <2>1, <2>2 DEF TmuxOrder, IsEnd
    <2>6. \A p, q \in DOMAIN log' :
            log'[p].kind = "end" /\ log'[p].line = 0 /\ log'[q].kind = "end" /\ log'[q].line = 0
              => p = q
      BY <2>1, <2>4 DEF TmuxOrder
    <2> QED
      BY <2>1, <2>3, <2>5, <2>6 DEF TmuxOrder
  <1>4. CASE /\ TmuxNotifies \/ TmuxBegins \/ TmuxGoes
             /\ NoNewEnd
             /\ \A p \in DOMAIN log' : p > Len(log) => log'[p].kind # "end"
    <2>1. /\ DOMAIN log' = 1..Len(log') /\ Len(log') \in Nat
          /\ \A p \in DOMAIN log : p \in DOMAIN log' /\ log'[p] = log[p]
          /\ UNCHANGED <<attached, written, rd, tmuxLine>>
          /\ tmux' = "starting" => tmux = "starting"
          /\ tmuxOpen' => tmuxOpen \/ tmuxLine \in DOMAIN written
      <3>1. DOMAIN written = 1..Len(written) /\ Len(written) \in Nat
        BY Facts, LenProperties DEF TmuxTypeOK
      <3>2. /\ UNCHANGED <<attached, written, rd>>
            /\ tmux' = "starting" => tmux = "starting"
            /\ tmuxOpen' => tmuxOpen \/ tmuxLine <= Len(written)
        <4>1. CASE TmuxNotifies
          BY <4>1 DEF TmuxNotifies, TmuxUnchanged, envVars
        <4>2. CASE TmuxBegins
          BY <4>2 DEF TmuxBegins, TmuxUnchanged, envVars
        <4>3. CASE TmuxGoes
          BY <4>3 DEF TmuxGoes, TmuxUnchanged, envVars
        <4> QED
          BY <1>4, <4>1, <4>2, <4>3
      <3>3. tmuxLine <= Len(written) => tmuxLine \in DOMAIN written
        BY <1>a, <3>1
      <3> QED
        BY <1>4, <3>2, <3>3 DEF NoNewEnd
    <2>2. \A p \in DOMAIN log' : log'[p].kind = "end" => p \in DOMAIN log
      BY <1>4, <1>a, <2>1
    <2>3. \A p \in DOMAIN log' : IsEnd(p)' => p \in DOMAIN log /\ IsEnd(p)
      BY <1>2, <2>1, <2>2 DEF IsEnd
    <2>4. attached => \A p \in DOMAIN log' : p > rd /\ log'[p].kind = "end" => IsEnd(p)'
      BY <1>2, <2>1, <2>2 DEF TmuxOrder
    <2>5. \A p, q \in DOMAIN log' :
            log'[p].kind = "end" /\ log'[p].line = 0 /\ log'[q].kind = "end" /\ log'[q].line = 0
              => p = q
      BY <2>1, <2>2 DEF TmuxOrder
    <2>6. \A p \in DOMAIN log' : IsEnd(p)' => log'[p].line \in DOMAIN written
      BY <2>1, <2>3 DEF TmuxOrder
    <2>7. tmux' = "starting" => ~attached /\ \A p \in DOMAIN log' : log'[p].kind # "end"
      BY <2>1, <2>2 DEF TmuxOrder
    <2> QED
      BY <2>1, <2>4, <2>5, <2>6, <2>7 DEF TmuxOrder
  <1>5. CASE /\ TmuxAttaches /\ NoNewEnd
             /\ \A p \in DOMAIN log' : p \in DOMAIN log \/ p = Len(log) + 1 \/ p = Len(log) + 2
             /\ log'[Len(log) + 1].kind # "end"
    <2>1. /\ \A p \in DOMAIN log : p \in DOMAIN log' /\ log'[p] = log[p]
          /\ UNCHANGED <<attached, written, rd, tmuxLine, tmuxOpen>>
          /\ tmux = "starting" /\ tmux' = "up"
      BY <1>5 DEF TmuxAttaches, NoNewEnd, TmuxUnchanged, envVars
    <2>2. ~attached /\ \A p \in DOMAIN log : log[p].kind # "end"
      BY <2>1 DEF TmuxOrder
    <2>3. \A p \in DOMAIN log' : log'[p].kind = "end" => p = Len(log) + 2
      BY <1>5, <2>1, <2>2
    <2>4. \A p \in DOMAIN log' : ~IsEnd(p)'
      <3>1. \A p \in DOMAIN log' : IsEnd(p)' => p = Len(log) + 2
        BY <2>3 DEF IsEnd
      <3>2. Len(log) + 2 > Len(log)
        BY <1>a
      <3> QED
        BY <1>5, <3>1, <3>2 DEF NoNewEnd
    <2> QED
      BY <2>1, <2>2, <2>3, <2>4 DEF TmuxOrder
  <1> QED
    BY <1>1, <1>3, <1>4, <1>5, TmuxAdds

LEMMA PipeOrderInit == Init => PipeOrder
  <1> SUFFICES ASSUME Init PROVE PipeOrder
    OBVIOUS
  <1>1. /\ Len(log) = 0 /\ DOMAIN log = {} /\ Len(written) = 0 /\ awaiting.slots = <<>>
        /\ Len(awaiting.slots) = 0 /\ tmuxLine = 1 /\ tmuxCmd = 1 /\ current = NoCall
    BY EmptySeq DEF Init, NoReplies
  <1>2. Expected = <<1, 1>>
    BY <1>1 DEF Expected, Popped, Unpushed
  <1> QED
    BY <1>1, <1>2 DEF PipeOrder, Due, BlockOf

\* The reader's place in the log, and the positions of the log.
LEMMA LogFacts ==
  ASSUME IInv
  PROVE  /\ rd \in Nat /\ Len(log) \in Nat /\ DOMAIN log = 1..Len(log) /\ rd <= Len(log)
         /\ \A p \in DOMAIN log : p \in Nat /\ p <= Len(log) /\ log[p] \in Line
         /\ tmuxLine \in Nat \ {0}
  <1>1. log \in Seq(Line) /\ rd \in 0..Len(log) /\ tmuxLine \in Nat \ {0}
    BY Facts DEF TmuxTypeOK
  <1> QED
    BY <1>1, LenProperties, ElementOfSeq

\* Lines already written keep their calls.
WrittenKept == \A i \in DOMAIN written : i \in DOMAIN written' /\ written'[i] = written[i]

LEMMA AfterKept ==
  ASSUME TmuxOrder, WrittenKept, NEW q \in DOMAIN log, IsEnd(q), log'[q] = log[q]
  PROVE  After(log[q])' = After(log[q])
  BY DEF TmuxOrder, WrittenKept, After

\* Nothing of the pipe moves.
LEMMA PipeOrderSame ==
  ASSUME TmuxOrder, PipeOrder, PipeSame, UNCHANGED rd, WrittenKept, Closed => Closed',
         ~Closed' => Expected' = Expected
  PROVE  PipeOrder'
  <1> SUFFICES ASSUME ~Closed', NEW p \in 1..(Len(log) + 1), p > rd,
                      p \in DOMAIN log => IsEnd(p)
               PROVE  Due(p)'
    BY DEF PipeOrder, PipeSame, IsEnd
  <1>1. Due(p)
    BY DEF PipeOrder
  <1>2. /\ BlockOf(p)' = BlockOf(p) /\ log' = log
        /\ \A x, y : NoEndIn(x, y)' <=> NoEndIn(x, y)
        /\ \A q : IsEnd(q)' <=> IsEnd(q)
    BY DEF PipeSame, BlockOf, NoEndIn, IsEnd
  <1>3. \A q \in DOMAIN log : IsEnd(q) => After(log[q])' = After(log[q])
    BY <1>2, AfterKept
  <1> QED
    BY <1>1, <1>2, <1>3 DEF Due

\* A line is read that ends no block.
LEMMA PipeOrderReads ==
  ASSUME IInv, TmuxOrder, PipeOrder, PipeSame, UNCHANGED written, Closed => Closed',
         rd' = rd + 1, ~IsEnd(rd + 1), Expected' = Expected
  PROVE  PipeOrder'
  <1> SUFFICES ASSUME ~Closed', NEW p \in 1..(Len(log) + 1), p > rd + 1,
                      p \in DOMAIN log => IsEnd(p)
               PROVE  Due(p)'
    BY DEF PipeOrder, PipeSame, IsEnd
  <1>0. rd \in Nat /\ p \in Nat /\ \A x \in DOMAIN log : x \in Nat
    BY LogFacts
  <1>1. Due(p)
    BY <1>0 DEF PipeOrder
  <1>2. /\ BlockOf(p)' = BlockOf(p) /\ log' = log
        /\ \A x, y : NoEndIn(x, y)' <=> NoEndIn(x, y)
        /\ \A q : IsEnd(q)' <=> IsEnd(q)
        /\ \A q \in DOMAIN log : After(log[q])' = After(log[q])
    BY DEF PipeSame, BlockOf, NoEndIn, IsEnd, After
  <1>3. NoEndIn(rd + 1, p) => NoEndIn(rd, p)
    <2>1. \A x \in DOMAIN log : rd < x => x = rd + 1 \/ rd + 1 < x
      BY <1>0
    <2> QED
      BY <2>1 DEF NoEndIn
  <1>4. \A q \in DOMAIN log : rd + 1 < q => rd < q
    BY <1>0
  <1> QED
    BY <1>1, <1>2, <1>3, <1>4 DEF Due

\* tmux writes lines that end no block of its own.
LEMMA PipeOrderGrows ==
  ASSUME IInv, TmuxOrder, PipeOrder, NoNewEnd, UNCHANGED <<rd, written>>, Closed => Closed',
         Expected' = Expected
  PROVE  PipeOrder'
  <1> SUFFICES ASSUME ~Closed', NEW p \in 1..(Len(log') + 1), p > rd,
                      p \in DOMAIN log' => IsEnd(p)'
               PROVE  Due(p)'
    BY DEF PipeOrder
  <1>a. /\ rd \in Nat /\ Len(log) \in Nat /\ DOMAIN log = 1..Len(log) /\ rd <= Len(log)
        /\ Len(log') \in Nat /\ DOMAIN log' = 1..Len(log') /\ Len(log') > Len(log)
        /\ p \in Nat
    BY LogFacts DEF NoNewEnd
  <1>b. /\ \A q \in DOMAIN log : /\ q \in DOMAIN log' /\ log'[q] = log[q]
                                 /\ IsEnd(q)' <=> IsEnd(q)
        /\ \A q \in DOMAIN log' : IsEnd(q)' => q \in DOMAIN log /\ IsEnd(q)
    <2>1. \A q \in DOMAIN log' : q > Len(log) \/ q \in DOMAIN log
      BY <1>a
    <2> QED
      BY <2>1 DEF NoNewEnd, IsEnd
  <1>c. /\ \A x, y : NoEndIn(x, y)' => NoEndIn(x, y)
        /\ \A q \in DOMAIN log : After(log[q])' = After(log[q])
    BY <1>b DEF NoEndIn, After
  <1>1. CASE p \in DOMAIN log
    <2>1. Due(p)
      BY <1>a, <1>b, <1>1 DEF PipeOrder
    <2>2. BlockOf(p)' = BlockOf(p)
      BY <1>b, <1>1 DEF BlockOf
    <2> QED
      BY <1>b, <1>c, <2>1, <2>2 DEF Due
  <1>2. CASE p \notin DOMAIN log
    <2> DEFINE e == Len(log) + 1
    <2>1. p = Len(log') + 1
      BY <1>a, <1>b, <1>2
    <2>2. e \in 1..(Len(log) + 1) /\ e > rd /\ e \notin DOMAIN log /\ e <= p
      BY <1>a, <2>1
    <2>3. Due(e)
      BY <2>2 DEF PipeOrder
    <2>4. BlockOf(p)' = BlockOf(e)
      <3>1. p \notin DOMAIN log'
        BY <1>a, <2>1
      <3> QED
        BY <2>2, <3>1 DEF BlockOf, NoNewEnd
    <2>5. \A q \in DOMAIN log : q < e /\ q < p
      BY <1>a, <2>1
    <2>6. \A x : NoEndIn(x, p)' => NoEndIn(x, e)
      BY <1>b, <2>5 DEF NoEndIn
    <2> HIDE DEF e
    <2> QED
      BY <1>b, <1>c, <2>3, <2>4, <2>5, <2>6 DEF Due
  <1> QED
    BY <1>1, <1>2

\* tmux ends the block it is at.
LEMMA PipeOrderEnds ==
  ASSUME IInv, TmuxOrder, PipeOrder, NewEnd, UNCHANGED <<rd, written>>, Closed => Closed',
         Expected' = Expected
  PROVE  PipeOrder'
  <1> SUFFICES ASSUME ~Closed', NEW p \in 1..(Len(log') + 1), p > rd,
                      p \in DOMAIN log' => IsEnd(p)'
               PROVE  Due(p)'
    BY DEF PipeOrder
  <1>0. PICK e \in Nat : e = Len(log) + 1
    BY LogFacts
  <1>a. /\ rd \in Nat /\ Len(log) \in Nat /\ DOMAIN log = 1..Len(log) /\ rd < e
        /\ Len(log') = e /\ DOMAIN log' = 1..e /\ tmuxLine # 0
        /\ p \in Nat /\ e \in Nat /\ p <= e + 1 /\ p >= 1
    BY <1>0, LogFacts DEF NewEnd
  <1>b. /\ \A q \in DOMAIN log : q \in DOMAIN log' /\ log'[q] = log[q] /\ q < e
        /\ \A q \in DOMAIN log' : q \in DOMAIN log \/ q = e
        /\ e \in DOMAIN log' /\ e \notin DOMAIN log /\ \A q \in DOMAIN log' : q < e + 1
    BY <1>a DEF NewEnd
  <1>c. /\ log'[e].kind = "end" /\ log'[e].line = tmuxLine /\ log'[e].cmd = tmuxCmd
        /\ <<tmuxLine', tmuxCmd'>> = After(log'[e])
    BY <1>0 DEF NewEnd
  <1>d. /\ \A q \in DOMAIN log : IsEnd(q)' <=> IsEnd(q)
        /\ IsEnd(e)'
    BY <1>a, <1>b, <1>c DEF IsEnd
  <1>e. /\ \A x, y : NoEndIn(x, y)' => NoEndIn(x, y)
        /\ \A q \in DOMAIN log : After(log[q])' = After(log[q])
        /\ After(log[e])' = After(log'[e])
    BY <1>b, <1>d DEF NoEndIn, After
  <1>1. CASE p <= e
    <2>1. BlockOf(p)' = BlockOf(p)
      <3>1. CASE p = e
        BY <1>b, <1>c, <3>1 DEF BlockOf
      <3>2. CASE p # e
        <4>1. p \in DOMAIN log
          BY <1>0, <1>a, <1>1, <3>2
        <4> QED
          BY <1>b, <4>1 DEF BlockOf
      <3> QED
        BY <3>1, <3>2
    <2>2. p \in 1..(Len(log) + 1) /\ (p \in DOMAIN log => IsEnd(p))
      BY <1>0, <1>a, <1>b, <1>d, <1>1
    <2>3. Due(p)
      BY <2>2 DEF PipeOrder
    <2>4. \A q \in DOMAIN log' : q < p => q \in DOMAIN log
      BY <1>a, <1>b, <1>1
    <2> QED
      BY <1>b, <1>d, <1>e, <2>1, <2>3, <2>4 DEF Due
  <1>2. CASE p = e + 1
    <2>1. BlockOf(p)' = After(log[e])'
      <3>1. p \notin DOMAIN log'
        BY <1>a, <1>2
      <3> QED
        BY <1>c, <1>e, <3>1 DEF BlockOf
    <2>2. rd < e /\ e < p
      BY <1>a, <1>2
    <2>3. ~NoEndIn(rd, p)'
      BY <1>b, <1>d, <2>2 DEF NoEndIn
    <2>4. \A q \in DOMAIN log' : NoEndIn(q, p)' => q = e
      BY <1>b, <1>d, <2>2 DEF NoEndIn
    <2> QED
      BY <2>1, <2>3, <2>4 DEF Due
  <1> QED
    BY <1>a, <1>1, <1>2

-----------------------------------------------------------------------------
(* What the slots have received, and what their callers are sent.          *)

RInv == SlotProgress /\ TmuxOrder /\ PipeOrder

\* The block that is read is the one the front slot expects.
LEMMA BlockIsDue ==
  ASSUME OInv, RInv, BlockCompletes, NEW block, block = BlockAt(rd + 1)
  PROVE  /\ awaiting.slots # <<>> /\ rd + 1 \in DOMAIN log /\ IsEnd(rd + 1)
         /\ block \in Block /\ block.line = Popped + 1 /\ block.line \in DOMAIN written
         /\ block.cmd = Owed(awaiting.slots[1].call) - awaiting.slots[1].owed + 1
         /\ 1 \in DOMAIN awaiting.slots /\ Head(awaiting.slots) = awaiting.slots[1]
         /\ written[Popped + 1] = awaiting.slots[1].call
         /\ After(log[rd + 1]) = After(block)
  <1>a. /\ IInv /\ WriteOrder /\ SlotProgress /\ TmuxOrder /\ PipeOrder
        /\ block \in Block /\ Unpushed = 0 /\ ~Closed
    BY WriteOrderAnswers DEF OInv, RInv
  <1>b. mode = "block" /\ Readable /\ log[rd + 1].kind = "end"
    BY DEF BlockCompletes, BlockReads, Next_line
  <1>1. rd \in Nat /\ rd + 1 \in DOMAIN log /\ rd + 1 > rd /\ rd + 1 \in 1..(Len(log) + 1)
        /\ \A x \in DOMAIN log : ~(rd < x /\ x < rd + 1)
    BY <1>a, <1>b, LogFacts DEF Readable
  <1>2. IsEnd(rd + 1)
    BY <1>a, <1>b, <1>1 DEF WriteOrder, TmuxOrder
  <1>3. BlockOf(rd + 1) = Expected
    <2>1. Due(rd + 1) /\ NoEndIn(rd, rd + 1)
      BY <1>a, <1>1, <1>2 DEF PipeOrder, NoEndIn
    <2> QED
      BY <2>1 DEF Due
  <1>4. /\ block.line = log[rd + 1].line /\ block.cmd = log[rd + 1].cmd
        /\ block.ok = log[rd + 1].ok
    BY DEF BlockAt
  <1>5. /\ block.line = Popped + 1
        /\ awaiting.slots # <<>> =>
             block.cmd = Owed(awaiting.slots[1].call) - awaiting.slots[1].owed + 1
    BY <1>1, <1>3, <1>4 DEF BlockOf, Expected
  <1>6. block.line \in DOMAIN written
    BY <1>a, <1>1, <1>2, <1>4 DEF TmuxOrder
  <1>7. /\ SlotsFollow /\ Popped \in Nat /\ DOMAIN written = 1..Len(written)
        /\ Len(written) \in Nat /\ Len(written) = Popped + Unpushed + Len(awaiting.slots)
        /\ awaiting.slots \in Seq(Slot) /\ Len(awaiting.slots) \in Nat
        /\ DOMAIN awaiting.slots = 1..Len(awaiting.slots)
    BY <1>a, OrderFacts
  <1>8. 1 \in DOMAIN awaiting.slots
    BY <1>a, <1>5, <1>6, <1>7
  <1>9. awaiting.slots # <<>> /\ Head(awaiting.slots) = awaiting.slots[1]
    BY <1>7, <1>8, EmptySeq, HeadTailProperties
  <1>10. written[Popped + 1] = awaiting.slots[1].call
    BY <1>7, <1>8 DEF SlotsFollow
  <1>11. After(log[rd + 1]) = After(block)
    BY <1>4 DEF After
  <1> QED
    BY <1>a, <1>1, <1>2, <1>5, <1>6, <1>8, <1>9, <1>10, <1>11

\* A block that is not the last goes to the account of the slot.
LEMMA AccountTakes ==
  ASSUME NEW slot \in Slot, NEW n \in Nat, NEW block \in Block, Account(slot, n),
         ~IsLast(slot, block), block.line = n, block.cmd = Owed(slot.call) - slot.owed + 1
  PROVE  /\ Account(TookOne(slot, block), n)
         /\ TookOne(slot, block).owed = slot.owed - 1
         /\ TookOne(slot, block).call = slot.call
  <1> DEFINE new == TookOne(slot, block)
  <1>1. /\ Owed(slot.call) \in Nat /\ slot.owed \in Nat /\ slot.owed <= Owed(slot.call)
        /\ slot.owed > 1 /\ block.ok /\ slot.received \in Seq(Block)
    BY OwedIsPositive DEF Account, IsLast, Slot
  <1>2. /\ new.owed = slot.owed - 1 /\ new.call = slot.call /\ (new.live <=> slot.live)
        /\ slot.live => new.received = Append(slot.received, block)
    BY DEF TookOne, Slot
  <1>3. new.owed \in 1..Owed(slot.call)
    BY <1>1, <1>2
  <1> HIDE DEF new
  <1>4. ASSUME slot.live
        PROVE  /\ Len(new.received) = Owed(slot.call) - new.owed
               /\ \A k \in DOMAIN new.received :
                    /\ new.received[k].line = n /\ new.received[k].cmd = k
                    /\ new.received[k].ok
    <2> DEFINE m == Len(slot.received)
               s == Append(slot.received, block)
    <2>1. /\ m \in Nat /\ DOMAIN slot.received = 1..m
          /\ Len(s) = m + 1 /\ DOMAIN s = 1..(m + 1) /\ s[m + 1] = block
          /\ \A k \in 1..m : s[k] = slot.received[k]
      BY <1>1, AppendProperties, LenProperties
    <2>2. m = Owed(slot.call) - slot.owed
      BY <1>4 DEF Account
    <2>3. new.received = s
      BY <1>2, <1>4
    <2> HIDE DEF m, s
    <2>4. block.cmd = m + 1
      BY <2>2
    <2>5. \A k \in DOMAIN s : k \in 1..m \/ k = m + 1
      BY <2>1
    <2>6. \A k \in 1..m : s[k].line = n /\ s[k].cmd = k /\ s[k].ok
      BY <1>4, <2>1 DEF Account
    <2>7. \A k \in DOMAIN s : s[k].line = n /\ s[k].cmd = k /\ s[k].ok
      BY <1>1, <2>1, <2>4, <2>5, <2>6
    <2>8. Len(s) = Owed(slot.call) - new.owed
      BY <1>1, <1>2, <2>1, <2>2
    <2> QED
      BY <2>3, <2>7, <2>8
  <1> QED
    BY <1>2, <1>3, <1>4 DEF Account, new

\* A slot that has received nothing opens its account wherever it stands.
LEMMA AccountOpens ==
  ASSUME NEW slot \in Slot, NEW n, NEW m, Account(slot, n), slot.owed = Owed(slot.call)
  PROVE  Account(slot, m)
  <1>1. Owed(slot.call) \in Nat /\ slot.received \in Seq(Block)
    BY OwedIsPositive DEF Slot
  <1>2. slot.live => Len(slot.received) = 0
    BY <1>1 DEF Account
  <1>3. slot.live => DOMAIN slot.received = {}
    BY <1>1, <1>2, LenProperties
  <1> QED
    BY <1>3 DEF Account

LEMMA SlotProgressInit == Init => SlotProgress
  <1>1. Init => DOMAIN awaiting.slots = {}
    BY EmptySeq DEF Init, NoReplies
  <1> QED
    BY <1>1 DEF SlotProgress

\* The steps that leave the slots alone leave what the task expects.
LEMMA SlotsSame ==
  ASSUME IInv, WriteOrder, Rests \/ ReadsNoEnd \/ OpeningEnd \/ Tmux \/ CommitRequest
  PROVE  UNCHANGED awaiting /\ Popped' = Popped /\ Expected' = Expected /\ (Closed => Closed')
  <1>1. UNCHANGED awaiting /\ Popped' = Popped /\ (Closed => Closed')
    <2>1. CASE Rests \/ ReadsNoEnd
      BY <2>1 DEF Rests, ReadsNoEnd, Stays, Popped, Unpushed, Written
    <2>2. CASE OpeningEnd
      <3>1. UNCHANGED <<written, current, awaiting>> /\ ~Closed
        BY <2>2 DEF OpeningEnd, OpeningReads, Opening, Closed
      <3> QED
        BY <3>1 DEF Popped, Unpushed, Written
    <2>3. CASE CommitRequest
      BY <2>3, WriteOrderCommits DEF CommitRequest, Taking, Selecting, Closed
    <2>4. CASE WriteReachesTmux
      BY <2>4, WriteOrderWrites DEF WriteReachesTmux, Closed, actorVars
    <2>5. CASE UNCHANGED <<mode, written, current, awaiting, attached, rd>>
      BY <2>5 DEF Popped, Unpushed, Written, Closed
    <2> QED
      BY <2>1, <2>2, <2>3, <2>4, <2>5, TmuxStays
  <1> QED
    BY <1>1 DEF Expected

LEMMA SlotProgressSame ==
  ASSUME SlotProgress, UNCHANGED awaiting, Popped' = Popped, Closed => Closed'
  PROVE  SlotProgress'
  BY DEF SlotProgress

\* The slot of a written line opens its account.
LEMMA SlotProgressPushes ==
  ASSUME IInv, WriteOrder, SlotProgress, WriteDone
  PROVE  SlotProgress' /\ Expected' = Expected
  <1> DEFINE slot == [call |-> current, live |-> Listening(current), owed |-> Owed(current),
                      received |-> <<>>]
             s == awaiting'.slots
             n == Len(awaiting.slots)
  <1>a. current \in Calls /\ ~Closed
    BY Facts, NoCallIsNoCall DEF WriteDone, Writing, TaskTypeOK, Closed
  <1>b. /\ n \in Nat /\ DOMAIN awaiting.slots = 1..n /\ Popped' = Popped
        /\ \A i \in DOMAIN awaiting.slots : i \in DOMAIN s /\ s[i] = awaiting.slots[i]
        /\ \A i \in DOMAIN s : i \in DOMAIN awaiting.slots \/ i = n + 1
        /\ s[n + 1] = slot
    BY <1>a, WriteOrderPushes, OrderFacts
  <1>c. /\ slot.call = current /\ slot.owed = Owed(current) /\ slot.owed \in 1..Owed(slot.call)
        /\ Len(slot.received) = 0 /\ DOMAIN slot.received = {}
    BY <1>a, OwedIsPositive, EmptySeq
  <1> HIDE DEF slot
  <1>d. Account(slot, Popped + (n + 1)) /\ slot.owed = Owed(slot.call)
    <2>1. Owed(slot.call) - slot.owed = 0
      BY <1>a, <1>c, OwedIsPositive
    <2> QED
      BY <1>c, <2>1 DEF Account
  <1> HIDE DEF s, n
  <1>1. ASSUME NEW i \in DOMAIN s
        PROVE  Account(s[i], Popped + i) /\ (i # 1 => s[i].owed = Owed(s[i].call))
    BY <1>a, <1>b, <1>d DEF SlotProgress
  <1>2. SlotProgress'
    <2>1. \A i : (Account(s[i], Popped + i) => Account(awaiting.slots[i], Popped + i)')
      BY <1>b DEF Account, s
    <2> QED
      BY <1>1, <1>b, <2>1 DEF SlotProgress, s
  <1>3. Expected' = Expected
    <2>1. s # <<>>
      BY <1>b, WriteOrderPushes, EmptySeq DEF s, n
    <2>2. CASE awaiting.slots = <<>>
      <3>1. n = 0 /\ s[1] = slot
        BY <1>b, <2>2, EmptySeq DEF n
      <3>2. Owed(slot.call) - slot.owed + 1 = 1
        BY <1>a, <1>c, OwedIsPositive
      <3> QED
        BY <1>b, <2>1, <2>2, <3>1, <3>2 DEF Expected, s
    <2>3. CASE awaiting.slots # <<>>
      <3>1. 1 \in DOMAIN awaiting.slots
        BY <1>a, <2>3, OrderFacts, EmptySeq
      <3>2. s[1] = awaiting.slots[1]
        BY <1>b, <3>1
      <3> QED
        BY <1>b, <2>1, <2>3, <3>2 DEF Expected, s
    <2> QED
      BY <2>2, <2>3
  <1> QED
    BY <1>2, <1>3

\* A refusal leaves the accounts of tombstones.
LEMMA SlotProgressRefuses ==
  ASSUME IInv, WriteOrder, SlotProgress, RefuseUnread
  PROVE  SlotProgress' /\ Expected' = Expected
  <1>1. /\ Popped' = Popped /\ ~Closed
        /\ DOMAIN awaiting'.slots = DOMAIN awaiting.slots
        /\ \A i \in DOMAIN awaiting.slots :
             /\ awaiting'.slots[i].call = awaiting.slots[i].call
             /\ awaiting'.slots[i].owed = awaiting.slots[i].owed
             /\ ~awaiting'.slots[i].live
    BY WriteOrderRefuses
  <1>2. SlotProgress'
    BY <1>1 DEF SlotProgress, Account
  <1>3. awaiting'.slots = <<>> <=> awaiting.slots = <<>>
    <2>1. awaiting.slots \in Seq(Slot) /\ awaiting'.slots \in Seq(Slot)
      BY <1>1, OrderFacts, WriteOrderRefuses
    <2> QED
      BY <1>1, <2>1, EmptySeq, LenProperties
  <1>4. awaiting.slots # <<>> => 1 \in DOMAIN awaiting.slots
    BY <1>1, OrderFacts, EmptySeq
  <1> QED
    BY <1>1, <1>2, <1>3, <1>4 DEF Expected

\* A block goes to the account of the front slot, or takes the slot away; the
\* block expected next is the one tmux runs after it.
LEMMA SlotProgressTakes ==
  ASSUME OInv, RInv, BlockCompletes
  PROVE  SlotProgress' /\ Expected' = After(log[rd + 1])
  <1> DEFINE s == awaiting'.slots
             front == awaiting.slots[1]
  <1>0. PICK block : block = BlockAt(rd + 1)
    OBVIOUS
  <1>a. /\ IInv /\ WriteOrder /\ SlotProgress /\ block \in Block
        /\ awaiting' = Complete(awaiting, block) /\ ~Closed
        /\ Popped' = IF Completes(awaiting, block) THEN Popped + 1 ELSE Popped
    BY <1>0, WriteOrderAnswers DEF OInv, RInv
  <1>b. /\ awaiting.slots # <<>> /\ 1 \in DOMAIN awaiting.slots
        /\ Head(awaiting.slots) = front
        /\ block.line = Popped + 1 /\ written[block.line] = front.call
        /\ block.cmd = Owed(front.call) - front.owed + 1
        /\ After(log[rd + 1]) = After(block)
    BY <1>0, BlockIsDue
  <1>c. /\ awaiting \in Replies /\ awaiting.slots \in Seq(Slot) /\ Popped \in Nat
        /\ Exact(awaiting) /\ front \in Slot /\ front.call \in Calls
        /\ \A i \in DOMAIN awaiting.slots : awaiting.slots[i] \in Slot /\ i \in Nat
        /\ Len(awaiting.slots) \in Nat
    BY <1>a, <1>b, OrderFacts, Facts DEF CachesAreExact, Slot
  <1>d. /\ Completes(awaiting, block) =>
             /\ Len(s) = Len(awaiting.slots) - 1
             /\ DOMAIN s = 1..(Len(awaiting.slots) - 1)
             /\ \A i \in DOMAIN s : /\ i + 1 \in DOMAIN awaiting.slots
                                    /\ s[i] = awaiting.slots[i + 1]
        /\ ~Completes(awaiting, block) =>
             /\ DOMAIN s = DOMAIN awaiting.slots
             /\ \A i \in DOMAIN s : s[i] = IF i = 1 THEN TookOne(awaiting.slots[1], block)
                                           ELSE awaiting.slots[i]
    BY <1>a, <1>c, CompleteSlots
  <1>e. /\ Account(front, Popped + 1)
        /\ \A i \in DOMAIN awaiting.slots :
             /\ Account(awaiting.slots[i], Popped + i)
             /\ i # 1 => awaiting.slots[i].owed = Owed(awaiting.slots[i].call)
    BY <1>a, <1>b DEF SlotProgress
  <1>f. Owed(front.call) \in Nat /\ front.owed \in Nat /\ front.owed <= Owed(front.call)
        /\ front.owed >= 1
    BY <1>c, <1>e, OwedIsPositive DEF Account
  <1>g. \A x, m : Account(x, m)' <=> Account(x, m)
    BY DEF Account
  <1> HIDE DEF front
  <1>1. CASE Completes(awaiting, block)
    <2>1. Popped' = Popped + 1
      BY <1>a, <1>1
    <2>2. ASSUME NEW i \in DOMAIN s
          PROVE  /\ Account(s[i], Popped + 1 + i) /\ s[i].owed = Owed(s[i].call)
                 /\ s[i].call \in Calls
      <3>1. /\ i + 1 \in DOMAIN awaiting.slots /\ s[i] = awaiting.slots[i + 1]
            /\ i + 1 # 1
        BY <1>d, <1>1
      <3>2. s[i] \in Slot /\ s[i].call \in Calls
        BY <1>c, <3>1 DEF Slot
      <3> QED
        BY <1>e, <3>1, <3>2, AccountOpens
    <2>3. SlotProgress'
      BY <1>g, <2>1, <2>2 DEF SlotProgress
    <2>4. Expected' = <<Popped + 2, 1>>
      <3>1. s # <<>> => 1 \in DOMAIN s
        <4>1. s = Tail(awaiting.slots) /\ s \in Seq(Slot)
          BY <1>a, <1>b, <1>c, <1>1, HeadTailProperties DEF Complete, Completes
        <4> QED
          BY <4>1, EmptySeq, LenProperties
      <3>2. s # <<>> => Owed(s[1].call) - s[1].owed + 1 = 1
        BY <2>2, <3>1, OwedIsPositive
      <3>3. Popped' + 1 = Popped + 2
        BY <1>c, <2>1
      <3> QED
        BY <3>2, <3>3 DEF Expected
    <2>5. ~(block.ok /\ block.cmd < Owed(front.call))
      BY <1>b, <1>f, <1>1 DEF Completes, IsLast, front
    <2>6. After(block) = <<Popped + 2, 1>>
      BY <1>b, <1>c, <2>5 DEF After
    <2> QED
      BY <1>b, <2>3, <2>4, <2>6
  <1>2. CASE ~Completes(awaiting, block)
    <2>1. Popped' = Popped /\ ~IsLast(front, block)
      BY <1>a, <1>b, <1>2 DEF Completes
    <2>2. /\ Account(TookOne(front, block), Popped + 1)
          /\ TookOne(front, block).owed = front.owed - 1
          /\ TookOne(front, block).call = front.call
      BY <1>a, <1>b, <1>c, <1>e, <2>1, AccountTakes
    <2>3. s[1] = TookOne(front, block) /\ 1 \in DOMAIN s
      BY <1>b, <1>d, <1>2 DEF front
    <2>4. ASSUME NEW i \in DOMAIN s
          PROVE  Account(s[i], Popped + i) /\ (i # 1 => s[i].owed = Owed(s[i].call))
      BY <1>d, <1>e, <1>2, <2>2, <2>3
    <2>5. SlotProgress'
      BY <1>g, <2>1, <2>4 DEF SlotProgress
    <2>6. Expected' = <<Popped + 1, block.cmd + 1>>
      <3>1. s # <<>>
        BY <2>3, EmptySeq
      <3>2. Owed(s[1].call) - s[1].owed + 1 = block.cmd + 1
        BY <1>b, <1>f, <2>2, <2>3
      <3> QED
        BY <2>1, <3>1, <3>2 DEF Expected
    <2>7. block.ok /\ block.cmd < Owed(front.call)
      BY <1>a, <1>b, <1>f, <2>1 DEF IsLast, Block
    <2>8. After(block) = <<Popped + 1, block.cmd + 1>>
      BY <1>b, <2>7 DEF After
    <2> QED
      BY <1>b, <2>5, <2>6, <2>8
  <1> QED
    BY <1>1, <1>2

\* The block that was expected is read, and the one after it is expected.
LEMMA PipeOrderAnswers ==
  ASSUME OInv, RInv, BlockCompletes
  PROVE  PipeOrder'
  <1> SUFFICES ASSUME ~Closed', NEW p \in 1..(Len(log') + 1), p > rd',
                      p \in DOMAIN log' => IsEnd(p)'
               PROVE  Due(p)'
    BY DEF PipeOrder
  <1>a. /\ PipeSame /\ log' = log /\ rd' = rd + 1 /\ UNCHANGED written /\ ~Closed
    BY DEF BlockCompletes, BlockReads, PipeSame, Closed
  <1>b. /\ rd \in Nat /\ Len(log) \in Nat /\ rd + 1 \in DOMAIN log /\ IsEnd(rd + 1)
        /\ \A x \in DOMAIN log : x \in Nat
    BY LogFacts, BlockIsDue DEF OInv
  <1>c. /\ \A x : IsEnd(x)' <=> IsEnd(x)
        /\ \A x, y : NoEndIn(x, y)' <=> NoEndIn(x, y)
        /\ BlockOf(p)' = BlockOf(p)
        /\ \A q \in DOMAIN log : After(log[q])' = After(log[q])
    BY <1>a DEF PipeSame, IsEnd, NoEndIn, BlockOf, After
  <1>1. p > rd /\ rd + 1 < p /\ rd < rd + 1
    BY <1>a, <1>b
  <1>2. Due(p)
    BY <1>a, <1>c, <1>1 DEF PipeOrder, RInv
  <1>3. NoEndIn(rd + 1, p) => BlockOf(p) = Expected'
    BY <1>b, <1>1, <1>2, SlotProgressTakes DEF Due
  <1>4. \A q \in DOMAIN log : rd + 1 < q => rd < q
    BY <1>b
  <1> QED
    BY <1>a, <1>c, <1>2, <1>3, <1>4 DEF Due

\* A line that is wholly written adds itself to those written.
LEMMA WrittenGrows ==
  ASSUME IInv, WriteReachesTmux
  PROVE  WrittenKept /\ DOMAIN written \subseteq DOMAIN written'
  <1>1. written' = Append(written, current) /\ current \in Calls /\ written \in Seq(Calls)
    BY Facts, NoCallIsNoCall DEF WriteReachesTmux, TaskTypeOK, TmuxTypeOK
  <1>2. /\ Len(written) \in Nat /\ DOMAIN written = 1..Len(written)
        /\ written' \in Seq(Calls) /\ Len(written') = Len(written) + 1
        /\ DOMAIN written' = 1..Len(written')
        /\ \A i \in 1..Len(written) : written'[i] = written[i]
    BY <1>1, AppendProperties, LenProperties
  <1> QED
    BY <1>2 DEF WrittenKept

LEMMA TmuxStep ==
  ASSUME OInv, ~HookBlocks, RInv, Tmux
  PROVE  RInv'
  <1>a. /\ IInv /\ WriteOrder /\ SlotProgress /\ TmuxOrder /\ PipeOrder
    BY DEF OInv, RInv
  <1>b. /\ SlotProgress' /\ TmuxOrder' /\ Expected' = Expected /\ (Closed => Closed')
    BY <1>a, SlotsSame, SlotProgressSame, TmuxOrderTmux
  <1>1. CASE WriteReachesTmux
    BY <1>a, <1>b, <1>1, WrittenGrows, PipeOrderSame DEF RInv, WriteReachesTmux, PipeSame
  <1>2. CASE ~WriteReachesTmux
    <2>1. UNCHANGED <<rd, written>>
      BY <1>2, TmuxStays
    <2>2. NewEnd \/ NoNewEnd
      BY <1>a, <1>2, TmuxAdds
    <2> QED
      BY <1>a, <1>b, <2>1, <2>2, PipeOrderGrows, PipeOrderEnds DEF RInv
  <1> QED
    BY <1>1, <1>2

LEMMA RepliesStep == OInv /\ ~HookBlocks /\ RInv /\ [Next]_vars => RInv'
  <1> SUFFICES ASSUME OInv, ~HookBlocks, RInv, [Next]_vars PROVE RInv'
    OBVIOUS
  <1>a. /\ IInv /\ WriteOrder /\ SlotProgress /\ TmuxOrder /\ PipeOrder
    BY DEF OInv, RInv
  <1>1. CASE Ends
    BY <1>a, <1>1, TmuxOrderSame DEF Ends, RInv, SlotProgress, PipeOrder
  <1>2. CASE Rests
    <2>1. /\ PipeSame /\ UNCHANGED <<written, attached, rd>>
      BY <1>2 DEF Rests, Stays
    <2>2. WrittenKept
      BY <2>1 DEF WrittenKept
    <2> QED
      BY <1>a, <1>2, <2>1, <2>2, SlotsSame, SlotProgressSame, TmuxOrderSame, PipeOrderSame
         DEF RInv
  <1>3. CASE ReadsNoEnd
    <2>1. /\ PipeSame /\ UNCHANGED <<written, attached>> /\ rd' = rd + 1 /\ ~IsEnd(rd + 1)
      BY <1>3 DEF ReadsNoEnd, Stays, IsEnd
    <2> QED
      BY <1>a, <1>3, <2>1, SlotsSame, SlotProgressSame, TmuxOrderSame, PipeOrderReads
         DEF RInv
  <1>4. CASE OpeningEnd
    <2>1. /\ PipeSame /\ UNCHANGED written /\ rd' = rd + 1
      BY <1>4 DEF OpeningEnd, OpeningReads, PipeSame
    <2> QED
      BY <1>a, <1>4, <2>1, SlotsSame, SlotProgressSame, TmuxOrderOpens, PipeOrderReads
         DEF RInv
  <1>5. CASE Tmux
    BY <1>5, TmuxStep
  <1>6. CASE CommitRequest \/ WriteDone \/ RefuseUnread
    <2>1. /\ PipeSame /\ UNCHANGED <<written, attached, rd>> /\ ~Closed
      BY <1>a, <1>6 DEF CommitRequest, WriteDone, RefuseUnread, PipeSame, tmuxVars, envVars,
         Taking, Selecting, Writing, Closed
    <2>2. WrittenKept
      BY <2>1 DEF WrittenKept
    <2>3. SlotProgress' /\ Expected' = Expected
      BY <1>a, <1>6, SlotsSame, SlotProgressSame, SlotProgressPushes, SlotProgressRefuses
    <2> QED
      BY <1>a, <2>1, <2>2, <2>3, TmuxOrderSame, PipeOrderSame DEF RInv
  <1>7. CASE BlockCompletes
    <2>1. PipeSame /\ UNCHANGED <<written, attached>> /\ rd' = rd + 1
      BY <1>7 DEF BlockCompletes, BlockReads, PipeSame, envVars
    <2> QED
      BY <1>a, <1>7, <2>1, SlotProgressTakes, TmuxOrderSame, PipeOrderAnswers DEF RInv
  <1> QED
    BY <1>a, <1>1, <1>2, <1>3, <1>4, <1>5, <1>6, <1>7, Shapes

\* A block ends the live front slot and its caller is given the whole reply.
Given(c) ==
  /\ Completes(awaiting, BlockAt(rd + 1)) /\ awaiting.slots[1].live
  /\ c = awaiting.slots[1].call
  /\ answer'[c] = Reply(WholeReply(awaiting, BlockAt(rd + 1)))

RepliesKept ==
  \A c \in Calls : answer'[c] = answer[c] \/ answer'[c].kind # "reply"

LEMMA TellsNoReply ==
  ASSUME NEW S, NEW kind, kind # "reply", Tell(S, Err(kind))
  PROVE  RepliesKept
  BY DEF Tell, Err, RepliesKept

LEMMA CallerKeepsReplies ==
  ASSUME IInv, NEW c \in Calls, Caller(c)
  PROVE  RepliesKept
  <1>a. CallTypeOK
    BY Facts
  <1>1. CASE Start(c) \/ Reserve(c) \/ CallDeadline(c) \/ DropCall(c)
    <2>1. \/ UNCHANGED answer
          \/ \E kind \in {"dispatchTimedOut", "closed", "dropped"} :
               answer' = [answer EXCEPT ![c] = Err(kind)]
      BY <1>1 DEF Start, Reserve, CallDeadline, DropCall, Return
    <2> QED
      BY <1>a, <2>1 DEF CallTypeOK, RepliesKept, Err
  <1>2. CASE SendRequest(c) \/ TakeAnswer(c) \/ SeeCommit(c)
    BY <1>2 DEF SendRequest, TakeAnswer, SeeCommit, RepliesKept
  <1> QED
    BY <1>1, <1>2 DEF Caller

LEMMA FinishTellsNoReply ==
  ASSUME NEW o, Finish(o)
  PROVE  RepliesKept
  <1>1. Reason(o) # "reply" /\ Tell(Owned, Err(Reason(o)))
    BY DEF Finish, Reason
  <1> QED
    BY <1>1, TellsNoReply

LEMMA AnswersAre ==
  ASSUME IInv, [Next]_vars
  PROVE  RepliesKept \/ BlockCompletes
  <1>1. ASSUME UNCHANGED answer
        PROVE  RepliesKept
    BY <1>1 DEF RepliesKept
  <1>2. CASE UNCHANGED vars \/ Tmux \/ Handles \/ Tick
    BY <1>1, <1>2 DEF vars, callVars, Tmux, WriteReachesTmux, TmuxAttaches,
       TmuxNotifies, TmuxBegins, TmuxEnds, TmuxHookBlock, TmuxGoes, TmuxUnchanged, Handles,
       DropSender, Next_event, TakeOutcome, Shutdown, DropWatcher, CancelAttach,
       CoreShutdown, Tick
  <1>3. CASE OpeningEvent \/ OpeningBegin \/ OpeningEnd \/ ReadEvent \/ ReadBegin \/ Unwatched
             \/ Deliver \/ SendersGone \/ DrainDelivers \/ CommitRequest \/ WriteDone
    BY <1>1, <1>3 DEF callVars, OpeningEvent, OpeningBegin, OpeningEnd, ReadEvent,
       ReadBegin, Unwatched, Deliver, SendersGone, DrainDelivers, CommitRequest, WriteDone
  <1>4. CASE \E c \in Calls : Caller(c)
    BY <1>4, CallerKeepsReplies
  <1>5. CASE OpeningCancelled \/ OpeningCoreStopped \/ OpeningTimedOut \/ OpeningFails
             \/ ServeEnds \/ StopAsked \/ CoreStopped \/ ReadExit \/ ReadFails \/ TimedOut
             \/ WriteCoreStopped \/ WriteStopped \/ WriteTimedOut \/ WriteFails
             \/ BlockCoreStopped \/ BlockStopped \/ BlockTimedOut \/ BlockFails
    <2>1. \E o : Finish(o)
      BY <1>5 DEF OpeningCancelled, OpeningCoreStopped, OpeningTimedOut, OpeningFails,
         ServeEnds, StopAsked, CoreStopped, ReadExit, ReadFails, TimedOut, WriteCoreStopped,
         WriteStopped, WriteTimedOut, WriteFails, BlockCoreStopped, BlockStopped,
         BlockTimedOut, BlockFails
    <2> QED
      BY <2>1, FinishTellsNoReply
  <1>6. CASE RefuseRequest \/ RefuseUnread \/ DrainCoreStopped \/ DrainUnwatched \/ DrainDone
    <2>1. \E S : \E kind \in {"dispatchTimedOut", "unread", "closed"} : Tell(S, Err(kind))
      BY <1>6 DEF RefuseRequest, RefuseUnread, DrainCoreStopped, DrainUnwatched, DrainDone, Exit
    <2> QED
      BY <2>1, TellsNoReply
  <1> QED
    BY <1>2, <1>3, <1>4, <1>5, <1>6
       DEF Next, Actor, OpeningStep, ServeStep, WriteStep, BlockStep, DrainStep

\* What is written stays written, in its place.
LEMMA WrittenStays == IInv /\ [Next]_vars => WrittenKept
  <1> SUFFICES ASSUME IInv, [Next]_vars PROVE WrittenKept
    OBVIOUS
  <1>1. WriteReachesTmux \/ UNCHANGED written
    BY Shapes, TmuxStays DEF Ends, Rests, ReadsNoEnd, Stays, OpeningEnd, OpeningReads,
       CommitRequest, WriteDone, BlockCompletes, BlockReads, RefuseUnread, tmuxVars
  <1> QED
    BY <1>1, WrittenGrows DEF WrittenKept

\* The blocks are the whole answer to c's line among the lines.
Own(lines, c, blocks) ==
  LET n == Len(blocks)
  IN  /\ n \in 1..Owed(c)
      /\ \A i \in 1..n :
           /\ blocks[i].line \in DOMAIN lines
           /\ lines[blocks[i].line] = c
           /\ blocks[i].cmd = i
           /\ i < n => blocks[i].ok
      /\ n = Owed(c) \/ ~blocks[n].ok

LEMMA RepliesAre == RepliesAreOwn <=> \A c \in Calls :
                      answer[c].kind = "reply" => Own(written, c, answer[c].blocks)
  BY DEF RepliesAreOwn, Own

\* The account of a live front slot, with the last block, is its whole reply.
LEMMA ReplyIsOwn ==
  ASSUME OInv, RInv, BlockCompletes, NEW c \in Calls, Given(c)
  PROVE  Own(written, c, answer'[c].blocks)
  <1> DEFINE front == awaiting.slots[1]
  <1>0. PICK block : block = BlockAt(rd + 1)
    OBVIOUS
  <1>a. /\ awaiting.slots # <<>> /\ block \in Block /\ block.line = Popped + 1
        /\ block.line \in DOMAIN written
        /\ block.cmd = Owed(front.call) - front.owed + 1 /\ 1 \in DOMAIN awaiting.slots
        /\ Head(awaiting.slots) = front /\ written[Popped + 1] = front.call
    BY <1>0, BlockIsDue
  <1>b. /\ IsLast(front, block) /\ front.live /\ front.call = c
        /\ answer'[c].blocks = Append(front.received, block)
    BY <1>0, <1>a DEF Given, Completes, WholeReply, Reply
  <1>c. ~Closed /\ IInv /\ WriteOrder /\ SlotProgress /\ front \in Slot
    BY <1>0, <1>a, WriteOrderAnswers, OrderFacts DEF OInv, RInv
  <1>d. Account(front, Popped + 1)
    BY <1>a, <1>c DEF SlotProgress
  <1>e. /\ Owed(c) \in Nat /\ front.owed \in Nat /\ front.owed >= 1 /\ front.owed <= Owed(c)
        /\ front.received \in Seq(Block)
    BY <1>b, <1>c, <1>d, OwedIsPositive DEF Account, Slot
  <1> DEFINE m == Len(front.received)
             blocks == Append(front.received, block)
  <1>f. /\ m \in Nat /\ DOMAIN front.received = 1..m
        /\ Len(blocks) = m + 1 /\ blocks[m + 1] = block
        /\ \A k \in 1..m : blocks[k] = front.received[k]
    BY <1>a, <1>e, AppendProperties, LenProperties
  <1> HIDE DEF blocks
  <1>g. /\ m = Owed(c) - front.owed
        /\ \A k \in 1..m : /\ front.received[k].line = Popped + 1
                           /\ front.received[k].cmd = k /\ front.received[k].ok
    BY <1>b, <1>d, <1>f DEF Account
  <1>h. block.cmd = m + 1 /\ (m + 1 = Owed(c) \/ ~block.ok) /\ m + 1 \in 1..Owed(c)
    <2>1. block.cmd = m + 1
      BY <1>a, <1>b, <1>g
    <2>2. \A n, o \in Nat : o >= 1 /\ o <= n /\ m = n - o =>
            m + 1 \in 1..n /\ (o <= 1 => m + 1 = n)
      BY <1>f
    <2>3. m + 1 \in 1..Owed(c) /\ (front.owed <= 1 => m + 1 = Owed(c))
      BY <1>e, <1>g, <2>2
    <2> QED
      BY <1>b, <2>1, <2>3 DEF IsLast
  <1> HIDE DEF m, front
  <1>1. \A i \in 1..(m + 1) : i \in 1..m \/ i = m + 1
    BY <1>f
  <1>2. \A i \in 1..m : /\ blocks[i].line = Popped + 1 /\ blocks[i].cmd = i
                        /\ blocks[i].ok
    BY <1>f, <1>g
  <1>3. \A i \in 1..(m + 1) : /\ blocks[i].line = Popped + 1
                              /\ blocks[i].cmd = i
                              /\ i < m + 1 => blocks[i].ok
    <2> TAKE i \in 1..(m + 1)
    <2>1. CASE i \in 1..m
      BY <1>2, <2>1
    <2>2. CASE i = m + 1
      <3>1. ~(i < m + 1)
        BY <1>f, <2>2
      <3> QED
        BY <1>a, <1>f, <1>h, <2>2, <3>1
    <2> QED
      BY <1>1, <2>1, <2>2
  <1>4. Own(written, c, blocks)
    BY <1>a, <1>b, <1>f, <1>h, <1>3 DEF Own
  <1> QED
    BY <1>b, <1>4 DEF blocks

LEMMA RepliesAreOwnStep ==
  ASSUME OInv, RInv, RepliesAreOwn, [Next]_vars
  PROVE  RepliesAreOwn'
  <1>a. IInv /\ WrittenKept
    BY WrittenStays DEF OInv
  <1>1. ASSUME NEW c \in Calls, NEW blocks, Own(written, c, blocks)
        PROVE  Own(written', c, blocks)
    BY <1>a, <1>1 DEF Own, WrittenKept
  <1>2. ASSUME NEW c \in Calls, answer'[c].kind = "reply"
        PROVE  Own(written', c, answer'[c].blocks)
    <2>1. CASE answer'[c] = answer[c]
      BY <1>1, <1>2, <2>1, RepliesAre
    <2>2. CASE answer'[c] # answer[c]
      <3>1. BlockCompletes
        BY <1>a, <1>2, <2>2, AnswersAre DEF RepliesKept
      <3>2. Given(c)
        BY <2>2, <3>1, BlockIsDue DEF BlockCompletes, Tell, Given
      <3>3. Own(written, c, answer'[c].blocks)
        BY <3>1, <3>2, ReplyIsOwn
      <3> QED
        BY <1>1, <3>3
    <2> QED
      BY <2>1, <2>2
  <1> QED
    BY <1>2 DEF RepliesAreOwn, Own

LEMMA RepliesInit == Init => RInv /\ RepliesAreOwn
  BY SlotProgressInit, TmuxOrderInit, PipeOrderInit DEF RInv, Init, RepliesAreOwn, NoAnswer, None

\* As long as tmux sends no block of its own between those that answer lines,
\* a caller's reply is made of exactly the blocks of its line, for any number
\* of callers, lines and commands and every moment at which a caller gives up.
THEOREM RepliesStayOwn == ~HookBlocks => (Spec => []RepliesAreOwn)
  <1> SUFFICES ASSUME ~HookBlocks PROVE Spec => []RepliesAreOwn
    OBVIOUS
  <1> DEFINE J == RInv /\ RepliesAreOwn
  <1>1. Init => J
    BY RepliesInit
  <1>2. OInv /\ OInv' /\ J /\ [Next]_vars => J'
    BY RepliesStep, RepliesAreOwnStep
  <1>3. J => RepliesAreOwn
    OBVIOUS
  <1> HIDE DEF J
  <1> QED
    BY <1>1, <1>2, <1>3, OrderInvariance, PTL DEF Spec

-----------------------------------------------------------------------------
(* What the watcher is owed.                                               *)

\* The head of what follows goes to the end of what precedes.
LEMMA HeadMoves ==
  ASSUME NEW S, NEW a \in Seq(S), NEW b \in Seq(S), b # <<>>
  PROVE  Append(a, Head(b)) \o Tail(b) = a \o b
  <1>1. Head(b) \in S /\ Tail(b) \in Seq(S) /\ <<Head(b)>> \in Seq(S)
    BY HeadTailProperties
  <1>2. <<Head(b)>> \o Tail(b) = b
    BY <1>1, HeadTailProperties, LenProperties, EmptySeq
  <1>3. Append(a, Head(b)) = a \o <<Head(b)>>
    BY <1>1, AppendIsConcat
  <1> QED
    BY <1>1, <1>2, <1>3, ConcatAssociative

\* An element appended to what comes last is appended to the whole.
LEMMA LastAppends ==
  ASSUME NEW S, NEW a \in Seq(S), NEW b \in Seq(S), NEW x \in S
  PROVE  a \o Append(b, x) = Append(a \o b, x)
  <1>1. a \o b \in Seq(S) /\ <<x>> \in Seq(S)
    BY ConcatProperties
  <1> QED
    BY <1>1, AppendIsConcat, ConcatAssociative

LEMMA StreamTyped ==
  ASSUME IInv
  PROVE  /\ delivered \in Seq(Nat) /\ events \in Seq(Nat) /\ held \in Seq(Nat)
         /\ delivered \o events \in Seq(Nat) /\ Stream \in Seq(Nat)
         /\ DOMAIN Stream = 1..Len(Stream) /\ Len(Stream) \in Nat
  <1>1. delivered \in Seq(Nat) /\ events \in Seq(Nat) /\ held \in Seq(Nat)
    BY Facts DEF DeliveryTypeOK
  <1>2. delivered \o events \in Seq(Nat)
    BY <1>1, ConcatProperties
  <1>3. Stream \in Seq(Nat)
    BY <1>1, <1>2, ConcatProperties DEF Stream
  <1> QED
    BY <1>1, <1>2, <1>3, LenProperties

\* The watcher takes an event, or the task hands it one that was held.
LEMMA StreamMoves ==
  ASSUME IInv,
         \/ /\ events # <<>> /\ delivered' = Append(delivered, Head(events))
            /\ events' = Tail(events) /\ held' = held
         \/ /\ held # <<>> /\ events' = Append(events, Head(held))
            /\ held' = Tail(held) /\ delivered' = delivered
  PROVE  Stream' = Stream
  <1>1. ASSUME events # <<>>
        PROVE  Append(delivered, Head(events)) \o Tail(events) = delivered \o events
    BY <1>1, StreamTyped, HeadMoves
  <1>2. ASSUME held # <<>>
        PROVE  delivered \o Append(events, Head(held)) \o Tail(held) = Stream
    <2>1. Head(held) \in Nat
      BY <1>2, StreamTyped, HeadTailProperties
    <2>2. delivered \o Append(events, Head(held)) = Append(delivered \o events, Head(held))
      BY <2>1, StreamTyped, LastAppends
    <2>3. Append(delivered \o events, Head(held)) \o Tail(held) = (delivered \o events) \o held
      BY <1>2, StreamTyped, HeadMoves
    <2> QED
      BY <2>2, <2>3 DEF Stream
  <1> QED
    BY <1>1, <1>2 DEF Stream

\* What the task reports goes to the end of the stream.
LEMMA StreamReports ==
  ASSUME IInv, NEW p \in Nat, Report(p), watcher = "open", UNCHANGED delivered
  PROVE  Stream' = Append(Stream, p)
  <1>1. delivered \o events \o Append(held, p) = Append(Stream, p)
    <2> DEFINE a == delivered \o events
    <2>1. a \in Seq(Nat) /\ held \in Seq(Nat)
      BY StreamTyped
    <2> HIDE DEF a
    <2>2. a \o Append(held, p) = Append(a \o held, p)
      BY <2>1, LastAppends
    <2> QED
      BY <2>2 DEF Stream, a
  <1>2. held = <<>> => delivered \o Append(events, p) \o held = Append(Stream, p)
    <2>1. delivered \o Append(events, p) = Append(delivered \o events, p)
      BY StreamTyped, LastAppends
    <2>2. Append(delivered \o events, p) \in Seq(Nat)
      BY StreamTyped, AppendProperties
    <2> QED
      BY <2>1, <2>2, StreamTyped, ConcatEmptySeq DEF Stream
  <1>3. <<p>> = Append(<<>>, p)
    BY EmptySeq
  <1> QED
    BY <1>1, <1>2, <1>3 DEF Report, ReceiverOpen, Stream

\* The watcher's handle is in use and the connection not discarded: by a stop
\* of the server, or by an attach that failed.
Watched ==
  /\ watcher \in {"open", "finished"} /\ ~(coreStopped /\ mode = "ended")
  /\ Closed => attached

\* The stream is in order and is what was reportable of the lines read.
Faithful ==
  /\ \A i, j \in DOMAIN Stream : i < j => Stream[i] < Stream[j]
  /\ Range(Stream) = {p \in 1..rd : Reportable(p)}

HandleFits ==
  /\ ~attached => held = <<>>
  /\ watcher = "finished" => mode = "ended"

EventOrder == HandleFits /\ (Watched => Faithful)

\* What a step does to the stream: it reads a line and reports it, or it reads
\* none that is to be reported.
ReadsLine == rd' = rd + 1 /\ rd + 1 \in DOMAIN log

Keeps == Stream' = Stream /\ (rd' = rd \/ (ReadsLine /\ ~Reportable(rd + 1)))

Adds == Stream' = Append(Stream, rd + 1) /\ ReadsLine /\ Reportable(rd + 1)

LEMMA EventOrderInit == Init => EventOrder
  <1> SUFFICES ASSUME Init PROVE EventOrder
    OBVIOUS
  <1>1. <<>> \o <<>> = <<>> /\ DOMAIN <<>> = {}
    BY ConcatEmptySeq, EmptySeq
  <1>2. Stream = <<>> /\ rd = 0 /\ held = <<>> /\ watcher = "open"
    BY <1>1 DEF Init, Stream
  <1>3. Faithful
    BY <1>1, <1>2 DEF Faithful, Range
  <1> QED
    BY <1>2, <1>3 DEF EventOrder, HandleFits

LEMMA HandleStep ==
  ASSUME OInv, HandleFits, [Next]_vars
  PROVE  HandleFits'
  <1>a. /\ mode \in {"serve", "write", "block"} => attached
        /\ mode \in {"opening", "openingBlock", "serve", "write", "block", "drain", "ended"}
    BY Facts DEF OInv, WriteOrder, TaskTypeOK
  <1>1. ASSUME held' = held \/ held' = <<>>, attached => attached',
               watcher' = watcher, mode = "ended" => mode' = "ended"
        PROVE  HandleFits'
    BY <1>1 DEF HandleFits
  <1>2. CASE UNCHANGED vars \/ Tmux \/ Tick \/ DropSender \/ CoreShutdown
             \/ \E c \in Calls : Caller(c)
    <2>1. UNCHANGED <<held, attached, watcher, mode>>
      BY <1>2 DEF vars, envVars, actorVars, watcherVars, Tmux, WriteReachesTmux,
         TmuxAttaches, TmuxNotifies, TmuxBegins, TmuxEnds, TmuxHookBlock, TmuxGoes,
         TmuxUnchanged, Tick, DropSender, CoreShutdown, Caller, Start, Reserve, SendRequest,
         TakeAnswer, CallDeadline, SeeCommit, DropCall
    <2> QED
      BY <1>1, <2>1
  <1>3. CASE Next_event \/ TakeOutcome \/ Shutdown \/ DropWatcher \/ CancelAttach
    BY <1>3 DEF Next_event, TakeOutcome, Shutdown, DropWatcher, CancelAttach, actorVars,
       envVars, HandleFits
  <1>4. CASE \/ OpeningEvent \/ ReadEvent \/ ReadExit \/ BlockCompletes \/ Deliver
             \/ DrainDelivers \/ OpeningEnd
    <2>1. /\ watcher' = watcher /\ mode # "ended"
          /\ attached' \/ UNCHANGED <<held, attached>> \/ (held # <<>> /\ UNCHANGED attached)
      BY <1>4, <1>a DEF OpeningEvent, OpeningReads, Opening, ReadEvent, ReadExit, Reads, Selecting,
         BlockCompletes, BlockReads, Deliver, DeliverReady, DrainDelivers, OpeningEnd,
         actorVars, envVars, watcherVars
    <2> QED
      BY <2>1 DEF HandleFits
  <1>5. CASE \/ OpeningCancelled \/ OpeningCoreStopped \/ OpeningTimedOut \/ OpeningBegin
             \/ OpeningFails
             \/ RefuseUnread \/ ServeEnds \/ StopAsked \/ Unwatched \/ CoreStopped
             \/ ReadFails \/ ReadBegin \/ SendersGone \/ RefuseRequest \/ CommitRequest
             \/ TimedOut \/ WriteStep \/ BlockCoreStopped \/ BlockStopped \/ BlockTimedOut
             \/ BlockFails
             \/ DrainCoreStopped \/ DrainUnwatched \/ DrainDone
    <2>1. /\ held' = held \/ held' = <<>>
          /\ UNCHANGED <<attached, watcher>>
          /\ mode # "ended"
      BY <1>5 DEF OpeningCancelled, OpeningCoreStopped, OpeningTimedOut, OpeningBegin,
         OpeningFails, Opening, OpeningReads, RefuseUnread, ServeEnds, StopAsked, Unwatched,
         CoreStopped, Reads, Selecting, Taking, ReadFails, ReadBegin, SendersGone,
         RefuseRequest, CommitRequest, TimedOut,
         WriteStep, WriteCoreStopped, WriteStopped, WriteTimedOut, WriteFails, WriteDone, Writing,
         BlockCoreStopped, BlockStopped, BlockTimedOut, BlockFails, BlockReads,
         DrainCoreStopped, DrainUnwatched, DrainDone, Exit, Finish, FinishUnchanged,
         envVars, watcherVars, actorVars
    <2> QED
      BY <1>1, <2>1
  <1> QED
    BY <1>2, <1>3, <1>4, <1>5
       DEF Next, Actor, OpeningStep, ServeStep, BlockStep, DrainStep, Handles

\* The blocks that complete an ordered slot are the boundaries a watcher is
\* owed.
LEMMA BoundaryIsDue ==
  ASSUME OInv, RInv, BlockCompletes
  PROVE  /\ rd + 1 \in DOMAIN log
         /\ Reportable(rd + 1) <=> /\ Completes(awaiting, BlockAt(rd + 1))
                                   /\ Ordered[Head(awaiting.slots).call]
  <1> DEFINE front == awaiting.slots[1]
  <1>0. PICK block : block = BlockAt(rd + 1)
    OBVIOUS
  <1>a. /\ awaiting.slots # <<>> /\ block \in Block /\ block.line = Popped + 1
        /\ block.line \in DOMAIN written
        /\ block.cmd = Owed(front.call) - front.owed + 1 /\ 1 \in DOMAIN awaiting.slots
        /\ Head(awaiting.slots) = front /\ written[block.line] = front.call
        /\ rd + 1 \in DOMAIN log
    BY <1>0, BlockIsDue
  <1>b. ~Closed /\ IInv /\ WriteOrder /\ SlotProgress /\ front \in Slot
    BY <1>0, <1>a, WriteOrderAnswers, OrderFacts DEF OInv, RInv
  <1>c. Owed(front.call) \in Nat /\ front.owed \in 1..Owed(front.call)
    BY <1>a, <1>b, OwedIsPositive DEF Account, Slot, SlotProgress
  <1>d. /\ log[rd + 1].kind = "end" /\ log[rd + 1].line = block.line
        /\ log[rd + 1].cmd = block.cmd /\ log[rd + 1].ok = block.ok
    BY <1>0 DEF BlockCompletes, BlockReads, Next_line, BlockAt
  <1>1. Completes(awaiting, block) <=> (front.owed <= 1 \/ ~block.ok)
    BY <1>a DEF Completes, IsLast
  <1>2. Reportable(rd + 1) <=> /\ Ordered[front.call]
                               /\ block.cmd = Owed(front.call) \/ ~block.ok
    BY <1>a, <1>d DEF Reportable
  <1> HIDE DEF front
  <1>3. block.cmd = Owed(front.call) <=> front.owed <= 1
    BY <1>a, <1>c
  <1> QED
    BY <1>0, <1>a, <1>1, <1>2, <1>3

\* A line that ends nothing of a caller's is not to be reported.
LEMMA NotReported ==
  ASSUME IInv, NEW p \in DOMAIN log, log[p].kind \notin {"event", "exit"}, ~IsEnd(p)
  PROVE  ~Reportable(p)
  <1>1. 0 \notin DOMAIN written
    BY Facts, LenProperties DEF TmuxTypeOK
  <1> QED
    BY <1>1 DEF Reportable, IsEnd

\* The task ends without reading, or reading what is not reported.
LEMMA FinishKeeps ==
  ASSUME OInv, [Next]_vars, FinishUnchanged, ~Closed, \E o : Finish(o), Watched',
         rd' = rd \/ (ReadsLine /\ ~Reportable(rd + 1))
  PROVE  Watched /\ Keeps
  BY DEF FinishUnchanged, watcherVars, envVars, Watched, Closed, Keeps, Stream

LEMMA StreamStep ==
  ASSUME OInv, RInv, HandleFits, [Next]_vars, Watched'
  PROVE  Watched /\ (Keeps \/ Adds)
  <1>a. /\ IInv /\ WriteOrder
        /\ mode \in {"serve", "write", "block"} => attached
        /\ mode \in {"opening", "openingBlock", "serve", "write", "block", "drain", "ended"}
    BY Facts DEF OInv, WriteOrder, TaskTypeOK
  <1>b. Readable => rd + 1 \in DOMAIN log /\ rd + 1 \in Nat
    BY <1>a, LogFacts DEF Readable
  <1>c. watcher = "finished" => mode = "ended"
    BY DEF HandleFits
  <1>1. ASSUME UNCHANGED <<rd, held, events, delivered, watcher, attached>>,
               coreStopped => coreStopped', ~Closed \/ UNCHANGED mode
        PROVE  Watched /\ Keeps
    BY <1>1 DEF Watched, Closed, Keeps, Stream
  <1>2. CASE UNCHANGED vars \/ Tmux \/ Tick \/ DropSender \/ CoreShutdown
             \/ \E c \in Calls : Caller(c)
    <2> DEFINE Q == /\ UNCHANGED <<rd, held, events, delivered, watcher, attached, mode>>
                    /\ coreStopped => coreStopped'
    <2>1. ASSUME UNCHANGED vars \/ Tick \/ DropSender \/ CoreShutdown
          PROVE  Q
      BY <2>1 DEF vars, envVars, actorVars, watcherVars, tmuxVars, Tick, DropSender,
         CoreShutdown
    <2>2. ASSUME Tmux PROVE Q
      <3>1. UNCHANGED <<rd, envVars, actorVars, watcherVars>>
        BY <2>2 DEF Tmux, WriteReachesTmux, TmuxAttaches, TmuxNotifies, TmuxBegins, TmuxEnds,
           TmuxHookBlock, TmuxGoes, TmuxUnchanged
      <3> QED
        BY <3>1 DEF envVars, actorVars, watcherVars
    <2>3. ASSUME \E c \in Calls : Caller(c) PROVE Q
      BY <2>3 DEF envVars, actorVars, watcherVars, tmuxVars, Caller, Start, Reserve,
         SendRequest, TakeAnswer, CallDeadline, SeeCommit, DropCall
    <2>4. Q
      BY <1>2, <2>1, <2>2, <2>3
    <2> QED
      BY <1>1, <2>4
  <1>3. CASE Shutdown \/ DropWatcher \/ CancelAttach
    BY <1>3 DEF Shutdown, DropWatcher, CancelAttach, Watched
  <1>4. CASE Next_event
    <2>1. UNCHANGED <<rd, watcher, attached, mode, coreStopped, held>> /\ Stream' = Stream
      BY <1>a, <1>4, StreamMoves DEF Next_event, tmuxVars, envVars, actorVars
    <2> QED
      BY <2>1 DEF Watched, Closed, Keeps
  <1>5. CASE TakeOutcome
    BY <1>5 DEF TakeOutcome, tmuxVars, envVars, actorVars, Watched, Closed, Keeps, Stream
  <1>6. CASE OpeningCancelled \/ OpeningCoreStopped \/ OpeningTimedOut \/ ServeEnds
             \/ StopAsked \/ CoreStopped \/ TimedOut \/ WriteCoreStopped \/ WriteStopped
             \/ WriteTimedOut \/ WriteFails \/ BlockCoreStopped \/ BlockStopped
             \/ BlockTimedOut
    <2>1. /\ \E o : Finish(o)
          /\ FinishUnchanged /\ rd' = rd /\ ~Closed
      BY <1>6 DEF OpeningCancelled, OpeningCoreStopped, OpeningTimedOut, Opening, ServeEnds,
         StopAsked, CoreStopped, Selecting, TimedOut, WriteCoreStopped, WriteStopped,
         WriteTimedOut, WriteFails, Writing, BlockCoreStopped, BlockStopped, BlockTimedOut,
         tmuxVars, Closed
    <2> QED
      BY <2>1, FinishKeeps
  <1>7. CASE ReadFails \/ BlockFails
    <2>1. /\ \E o : Finish(o)
          /\ FinishUnchanged /\ rd' = rd + 1 /\ Readable /\ ~Closed
          /\ log[rd + 1].kind \in {"eof", "overlong"}
      BY <1>7 DEF ReadFails, BlockFails, Reads, ReadReady, Selecting, BlockReads, Closed,
         TerminalKinds, Next_line
    <2>2. ReadsLine /\ ~Reportable(rd + 1)
      BY <1>a, <1>b, <2>1, NotReported DEF ReadsLine, IsEnd
    <2> QED
      BY <2>1, <2>2, FinishKeeps
  <1>8. CASE OpeningFails
    BY <1>8 DEF OpeningFails, OpeningReads, Opening, Finish, FinishUnchanged, envVars, Watched,
       Closed
  <1>9. CASE OpeningBegin \/ ReadBegin \/ OpeningEnd
    <2>1. /\ ~Closed /\ rd' = rd + 1 /\ Readable /\ UNCHANGED <<coreStopped, watcher>>
          /\ UNCHANGED <<delivered, events, held>>
          /\ log[rd + 1].kind \in {"begin", "end"}
      BY <1>9 DEF OpeningBegin, ReadBegin, OpeningEnd, OpeningReads, Opening, Reads, Selecting,
         ReadReady, Closed, Next_line, envVars, watcherVars
    <2>2. ~IsEnd(rd + 1)
      BY <1>a, <1>9, TmuxOrderOpens DEF OpeningBegin, ReadBegin, Next_line, IsEnd, RInv
    <2>3. ReadsLine /\ ~Reportable(rd + 1)
      BY <1>a, <1>b, <2>1, <2>2, NotReported DEF ReadsLine
    <2> QED
      BY <2>1, <2>3 DEF Watched, Closed, Keeps, Stream
  <1>10. ASSUME Report(rd + 1), ReadsLine, Reportable(rd + 1), ~Closed, rd + 1 \in Nat,
                UNCHANGED <<coreStopped, watcher, delivered>>
         PROVE  Watched /\ Adds
    <2>1. watcher = "open"
      BY <1>c, <1>10 DEF Watched, Closed
    <2>2. Stream' = Append(Stream, rd + 1)
      BY <1>a, <1>10, <2>1, StreamReports
    <2> QED
      BY <1>10, <2>1, <2>2 DEF Watched, Closed, Adds
  <1>11. CASE OpeningEvent
    <2>1. /\ ~Closed /\ Readable /\ rd' = rd + 1 /\ log[rd + 1].kind = "event" /\ held = <<>>
          /\ Len(events) < EventQueue /\ events' = Append(events, rd + 1) /\ held' = held
          /\ UNCHANGED <<coreStopped, watcher, delivered>>
      BY <1>11 DEF OpeningEvent, OpeningReads, Opening, Closed, Next_line, HandleFits,
         envVars, actorVars
    <2>2. watcher = "open"
      BY <1>c, <2>1 DEF Watched, Closed
    <2>3. Report(rd + 1)
      BY <2>1, <2>2 DEF Report, ReceiverOpen
    <2> QED
      BY <1>b, <1>10, <2>1, <2>3 DEF ReadsLine, Reportable
  <1>12. CASE ReadEvent \/ ReadExit
    <2>1. /\ ~Closed /\ Readable /\ rd' = rd + 1 /\ log[rd + 1].kind \in {"event", "exit"}
          /\ Report(rd + 1) /\ UNCHANGED <<coreStopped, watcher, delivered>>
      BY <1>12 DEF ReadEvent, ReadExit, Reads, ReadReady, Selecting, Closed, Next_line, envVars
    <2> QED
      BY <1>b, <1>10, <2>1 DEF ReadsLine, Reportable
  <1>13. CASE BlockCompletes
    <2>1. /\ ~Closed /\ Readable /\ rd' = rd + 1
          /\ UNCHANGED <<coreStopped, watcher, delivered>>
          /\ IF Completes(awaiting, BlockAt(rd + 1)) /\ Ordered[Head(awaiting.slots).call]
             THEN Report(rd + 1) ELSE UNCHANGED <<held, events>>
      BY <1>13 DEF BlockCompletes, BlockReads, Closed, envVars
    <2>2. CASE Reportable(rd + 1)
      BY <1>b, <1>10, <1>13, <2>1, <2>2, BoundaryIsDue DEF ReadsLine
    <2>3. CASE ~Reportable(rd + 1)
      <3>1. UNCHANGED <<held, events>>
        BY <1>13, <2>1, <2>3, BoundaryIsDue
      <3> QED
        BY <1>b, <2>1, <2>3, <3>1 DEF ReadsLine, Keeps, Stream, Watched, Closed
    <2> QED
      BY <2>2, <2>3
  <1>14. CASE \/ RefuseUnread \/ Unwatched \/ SendersGone \/ RefuseRequest \/ CommitRequest
              \/ WriteDone
    <2>1. /\ ~Closed
          /\ UNCHANGED <<rd, held, events, delivered, watcher, attached, coreStopped>>
      BY <1>14 DEF RefuseUnread, Unwatched, SendersGone, RefuseRequest, CommitRequest,
         WriteDone, Writing, Taking, Selecting, Closed, tmuxVars, envVars, watcherVars,
         actorVars
    <2> QED
      BY <1>1, <2>1
  <1>15. CASE Deliver \/ DrainDelivers
    <2>1. /\ UNCHANGED <<rd, delivered, watcher, attached, coreStopped, mode>>
          /\ held # <<>> /\ mode # "ended"
          /\ ReceiverOpen => events' = Append(events, Head(held)) /\ held' = Tail(held)
      BY <1>15 DEF Deliver, DeliverReady, DrainDelivers, Selecting, tmuxVars, envVars
    <2>2. ReceiverOpen
      BY <1>c, <2>1 DEF Watched, ReceiverOpen
    <2>3. Stream' = Stream
      BY <1>a, <2>1, <2>2, StreamMoves
    <2> QED
      BY <2>1, <2>3 DEF Watched, Closed, Keeps
  <1>16. CASE DrainCoreStopped \/ DrainUnwatched
    BY <1>c, <1>16 DEF DrainCoreStopped, DrainUnwatched, Exit, Watched, ReceiverOpen, envVars,
       watcherVars
  <1>17. CASE DrainDone
    BY <1>17 DEF DrainDone, Exit, Watched, Closed, Keeps, Stream, envVars, watcherVars,
       tmuxVars
  <1> QED
    BY <1>2, <1>3, <1>4, <1>5, <1>6, <1>7, <1>8, <1>9, <1>11, <1>12, <1>13, <1>14, <1>15,
       <1>16, <1>17
       DEF Next, Actor, OpeningStep, ServeStep, WriteStep, BlockStep, DrainStep, Handles

\* tmux only adds to the log.
LEMMA LogStays ==
  ASSUME IInv, ~HookBlocks, [Next]_vars
  PROVE  \A p \in DOMAIN log : p \in DOMAIN log' /\ log'[p] = log[p]
  <1>1. CASE Tmux
    BY <1>1, TmuxAdds DEF WriteReachesTmux, NewEnd, NoNewEnd
  <1>2. CASE UNCHANGED log
    BY <1>2
  <1> QED
    BY <1>1, <1>2, Shapes DEF Ends, Rests, ReadsNoEnd, Stays, PipeSame, OpeningEnd,
       OpeningReads, CommitRequest, WriteDone, BlockCompletes, BlockReads, RefuseUnread,
       tmuxVars

\* What is to be reported of a line does not change once tmux wrote it.
LEMMA ReportableStays ==
  ASSUME IInv, ~HookBlocks, TmuxOrder, [Next]_vars, NEW p \in DOMAIN log
  PROVE  Reportable(p)' <=> Reportable(p)
  <1>1. log'[p] = log[p] /\ WrittenKept
    BY LogStays, WrittenStays
  <1>2. 0 \notin DOMAIN written'
    <2>1. TmuxTypeOK'
      BY StepPreserves DEF IInv, TypeOK
    <2> QED
      BY <2>1, LenProperties DEF TmuxTypeOK
  <1>3. log[p].kind = "end" => log[p].line \in DOMAIN written \/ log[p].line = 0
    BY DEF TmuxOrder, IsEnd
  <1>4. 0 \notin DOMAIN written
    BY <1>1, <1>2 DEF WrittenKept
  <1> QED
    BY <1>1, <1>2, <1>3, <1>4 DEF Reportable, WrittenKept

LEMMA FaithfulStep ==
  ASSUME OInv, RInv, EventOrder, ~HookBlocks, [Next]_vars, Watched'
  PROVE  Faithful'
  <1>a. /\ IInv /\ TmuxOrder /\ Watched /\ Faithful
        /\ Keeps \/ Adds
    BY StreamStep DEF OInv, RInv, EventOrder
  <1>b. /\ rd \in Nat /\ Stream \in Seq(Nat) /\ Len(Stream) \in Nat
        /\ DOMAIN Stream = 1..Len(Stream)
        /\ \A p \in 1..rd : p \in DOMAIN log /\ p < rd + 1
    BY <1>a, LogFacts, StreamTyped
  <1>c. \A p \in DOMAIN log : Reportable(p)' <=> Reportable(p)
    BY <1>a, ReportableStays
  <1>1. CASE Keeps
    <2>1. {p \in 1..rd' : Reportable(p)'} = {p \in 1..rd : Reportable(p)}
      <3>1. CASE rd' = rd
        BY <1>b, <1>c, <3>1
      <3>2. CASE ReadsLine /\ ~Reportable(rd + 1)
        <4>1. \A p \in 1..(rd + 1) : p \in 1..rd \/ p = rd + 1
          BY <1>b
        <4>2. \A p \in 1..rd : p \in 1..(rd + 1)
          BY <1>b
        <4> QED
          BY <1>b, <1>c, <3>2, <4>1, <4>2 DEF ReadsLine
      <3> QED
        BY <1>1, <3>1, <3>2 DEF Keeps
    <2> QED
      BY <1>a, <1>1, <2>1 DEF Keeps, Faithful, Range
  <1>2. CASE Adds
    <2> DEFINE n == Len(Stream)
               s == Append(Stream, rd + 1)
    <2>1. /\ n \in Nat /\ DOMAIN s = 1..(n + 1) /\ s[n + 1] = rd + 1
          /\ \A i \in 1..n : s[i] = Stream[i]
      BY <1>b, AppendProperties, LenProperties
    <2>2. /\ \A i \in 1..(n + 1) : i \in 1..n \/ i = n + 1
          /\ \A i \in 1..n : i \in 1..(n + 1) /\ i < n + 1
          /\ n + 1 \in 1..(n + 1)
      BY <2>1
    <2>3. \A i \in 1..n : Stream[i] \in 1..rd /\ Stream[i] < rd + 1
      BY <1>a, <1>b DEF Faithful, Range
    <2>4. Stream' = s /\ rd' = rd + 1
      BY <1>2 DEF Adds, ReadsLine
    <2>a. DOMAIN Stream = 1..n
      BY <1>b
    <2> HIDE DEF n, s
    <2>5. \A i, j \in DOMAIN s : i < j => s[i] < s[j]
      <3> TAKE i, j \in DOMAIN s
      <3>1. CASE j \in 1..n
        <4>1. i < j => i \in 1..n
          BY <2>1, <3>1
        <4> QED
          BY <1>a, <2>a, <2>1, <3>1, <4>1 DEF Faithful
      <3>2. CASE j = n + 1
        <4>1. i < j => i \in 1..n
          BY <2>1, <3>2
        <4> QED
          BY <2>1, <2>3, <3>2, <4>1
      <3> QED
        BY <2>1, <2>2, <3>1, <3>2
    <2>6. Range(s) = Range(Stream) \cup {rd + 1}
      BY <2>a, <2>1, <2>2 DEF Range
    <2>7. {p \in 1..(rd + 1) : Reportable(p)'} = {p \in 1..rd : Reportable(p)} \cup {rd + 1}
      <3>1. \A p \in 1..(rd + 1) : p \in 1..rd \/ p = rd + 1
        BY <1>b
      <3>2. rd + 1 \in 1..(rd + 1) /\ \A p \in 1..rd : p \in 1..(rd + 1)
        BY <1>b
      <3>3. rd + 1 \in DOMAIN log /\ Reportable(rd + 1)
        BY <1>2 DEF Adds, ReadsLine
      <3> QED
        BY <1>b, <1>c, <3>1, <3>2, <3>3
    <2>8. Range(s) = {p \in 1..(rd + 1) : Reportable(p)'}
      BY <1>a, <2>6, <2>7 DEF Faithful
    <2> QED
      BY <2>4, <2>5, <2>8 DEF Faithful
  <1> QED
    BY <1>a, <1>1, <1>2

\* As long as tmux sends no block of its own between those that answer lines,
\* a watcher that keeps its handle receives every notification and the
\* boundary of every ordered line, once and in tmux's order, for every channel
\* capacity and hold limit and however far it falls behind.
THEOREM NothingGetsLost == ~HookBlocks => (Spec => []NothingIsDropped)
  <1> SUFFICES ASSUME ~HookBlocks PROVE Spec => []NothingIsDropped
    OBVIOUS
  <1> DEFINE J == RInv /\ EventOrder
  <1>1. Init => J
    BY RepliesInit, EventOrderInit
  <1>2. OInv /\ OInv' /\ J /\ [Next]_vars => J'
    BY RepliesStep, HandleStep, FaithfulStep DEF EventOrder
  <1>3. J => NothingIsDropped
    BY DEF EventOrder, Watched, Faithful, NothingIsDropped
  <1> HIDE DEF J
  <1> QED
    BY <1>1, <1>2, <1>3, OrderInvariance, PTL DEF Spec

=============================================================================
