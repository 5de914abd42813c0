---------------------------- MODULE PlanRunProofs ----------------------------
(***************************************************************************)
(* A run reports of every operation what tmux did with it, for plans of    *)
(* any length under every planner.                                         *)
(*                                                                         *)
(* The argument: the operations tmux has accepted are the first so many of *)
(* the plan.  How many follows from where the run is and from how much of  *)
(* the line is left (LineIsDue), so that the exit status of an invocation  *)
(* says how far the plan got; and while a marked invocation decorates its  *)
(* new pane, that pane or nothing is marked (MarkIsTheNewPane), because no *)
(* pause lies in between.                                                  *)
(***************************************************************************)
EXTENDS PlanRun, FiniteSetTheorems, SequenceTheorems, TLAPS

-----------------------------------------------------------------------------
(* The planner: the last operation of an invocation.                       *)

LEMMA NatHasMinimum ==
  ASSUME NEW D \in SUBSET Nat, D # {}
  PROVE  \E d \in D : \A e \in D : d <= e
  <1>1. PICK d \in D : \A e \in D : ~(<<e, d>> \in OpToRel(<, Nat))
    BY NatLessThanWellFounded, WFMin
  <1>2. \A e \in D : ~(e < d)
    BY <1>1 DEF OpToRel
  <1> QED
    BY <1>2

LEMMA BoundedHasMaximum ==
  ASSUME NEW n \in Nat, NEW D \in SUBSET (1 .. n), D # {}
  PROVE  Max(D) \in D /\ \A e \in D : e <= Max(D)
  <1> DEFINE C == {n - e : e \in D}
  <1>1. C \in SUBSET Nat /\ C # {}
    <2>1. \A e \in D : n - e \in Nat
      OBVIOUS
    <2> QED
      BY <2>1
  <1>2. PICK c \in C : \A x \in C : c <= x
    BY <1>1, NatHasMinimum
  <1>3. PICK d \in D : c = n - d
    OBVIOUS
  <1>4. \A e \in D : d >= e
    BY <1>2, <1>3
  <1> QED
    BY <1>4 DEF Max

\* What joins an operation is a run of operations right behind it.
LEMMA ThroughJoins ==
  ASSUME NEW i \in Index, NEW joining
  PROVE  /\ Through(i, joining) \in i .. Length
         /\ i + 1 .. Through(i, joining) \subseteq joining
  <1> DEFINE D == {e \in i .. Length : i + 1 .. e \subseteq joining}
  <1>1. D \in SUBSET (1 .. Length) /\ i \in D
    BY PlanAssumption DEF Index
  <1>2. Max(D) \in D
    BY <1>1, BoundedHasMaximum, PlanAssumption
  <1> QED
    BY <1>2 DEF Through

-----------------------------------------------------------------------------
(* The inductive invariant.                                                *)

Commands == [op : 0 .. Length, does : {"op", "mark", "unmark"}, token : {"id", "marked"}]

Results == {"running", "Done", "Transient", "Unbound", "Unsure", "AfterEffect", "Decode"}

TypeOK ==
  /\ plan \in [Index -> Op]
  /\ steps \in [Index -> [first : Index, last : Index, marked : BOOLEAN]]
  /\ at \in 1 .. Length + 1 /\ line \in Seq(Commands)
  /\ verdict \in {"none", "ok", "failed"} /\ printed \in 0 .. Length
  /\ bound \subseteq Index /\ outcomes \in [Index -> Outcomes] /\ effect \in BOOLEAN
  /\ result \in Results
  /\ ran \in Seq(Index \X Objects) /\ refused \in 0 .. Length
  /\ gone \subseteq Objects /\ current \in Objects /\ mark \in Objects

\* An invocation of several operations is a fold of chainable ones, or a
\* creation and what decorates the pane it leaves active.
Decorates(i, j) ==
  Chainable(plan[j]) /\ Slots(plan[j]) # {} /\ Slots(plan[j]) \subseteq FocusedPane(plan[i], i)

StepsFit ==
  \A i \in Index :
    /\ steps[i].first = i /\ steps[i].last \in i .. Length
    /\ steps[i].marked =>
         steps[i].last > i /\ \A j \in i + 1 .. steps[i].last : Decorates(i, j)
    /\ ~steps[i].marked /\ steps[i].last > i =>
         \A j \in i .. steps[i].last : Chainable(plan[j])

\* The commands of an invocation that tmux has been through.
Left == Len(line)
Sent == Len(Lower(steps[at]))

\* How many operations tmux has accepted once d commands of the invocation ran.
Accepted(d) ==
  IF d = Sent THEN steps[at].last
  ELSE IF steps[at].marked
  THEN IF d = 0 THEN at - 1 ELSE IF d = 1 THEN at ELSE at + d - 2
  ELSE at - 1 + d

\* What is left of a line is its end, and tells how much of the plan was done.
LineIsDue ==
  line # <<>> =>
    /\ at \in Index /\ verdict = "none" /\ refused = 0 /\ Left <= Sent
    /\ \A k \in 1 .. Left : line[k] = Lower(steps[at])[Sent - Left + k]
    /\ Len(ran) = Accepted(Sent - Left)

\* An exit status tells how much of the plan was done, too.
VerdictIsDue ==
  /\ verdict = "ok" => /\ line = <<>> /\ at \in Index /\ refused = 0
                       /\ Len(ran) = steps[at].last
  /\ verdict = "failed" => /\ line = <<>> /\ at \in Index /\ refused = Len(ran) + 1
                           /\ refused \in Members(steps[at])
  /\ Running /\ line = <<>> /\ verdict = "none" => Len(ran) = at - 1 /\ refused = 0

\* The creation that begins an invocation has printed its ids if it was done.
PrintedIsDone ==
  line # <<>> \/ verdict # "none" =>
    printed = IF Creates(plan[at]) /\ Len(ran) >= at THEN at ELSE 0

\* While a marked invocation decorates its new pane, that is what is marked.
MarkIsTheNewPane ==
  line # <<>> /\ steps[at].marked =>
    /\ Sent - Left = 1 => current \in FocusedPane(plan[at], at)
    /\ Sent - Left > 1 => mark \in FocusedPane(plan[at], at) \cup {NoObject}

\* A run that goes on has completed what it is past, and knows its ids.
PastIsComplete ==
  Running =>
    /\ bound = {i \in Index : i < at /\ Creates(plan[i])}
    /\ \A i \in Index : outcomes[i] = IF i < at THEN "Complete" ELSE "Skipped"
    /\ effect <=> \E i \in Index : i < at /\ ~ReadOnly(plan[i])

\* A run that ended for a reason of its own has nothing under way in tmux.
EndedIsOver ==
  result \in {"Done", "Transient"} => line = <<>> /\ verdict = "none"

IInv ==
  /\ TypeOK /\ Valid(plan) /\ StepsFit
  /\ LineIsDue /\ VerdictIsDue /\ PrintedIsDone /\ MarkIsTheNewPane
  /\ PastIsComplete /\ EndedIsOver
  /\ RunsAsRecorded /\ OutcomesAreTrue /\ ErrorsAreTrue

-----------------------------------------------------------------------------
(* Operations and what they are done to.                                   *)

LEMMA OpFacts ==
  ASSUME NEW op \in Op
  PROVE  /\ op.on \in Objects /\ op.on # NoObject /\ op.focus \in BOOLEAN
         /\ op.focus => Creates(op)
         /\ op.kind = "pause" => Slots(op) = {}
         /\ Creates(op) => ~Chainable(op) /\ ~ReadOnly(op)
         /\ Slots(op) = IF op.on = Existing THEN {} ELSE {op.on}
  <1>0. Existing \in Objects /\ Existing # NoObject
    <2>1. 0 \in 0 .. Length
      BY PlanAssumption
    <2> QED
      BY <2>1 DEF Objects, Existing, NoObject
  <1>1. op.on \in Objects /\ op.on # NoObject /\ op.focus \in BOOLEAN
    BY <1>0 DEF Op
  <1>2. op.focus => Creates(op)
    BY DEF Op, Creates
  <1>3. op.kind = "pause" => op.on = Existing
    BY DEF Op
  <1> QED
    BY <1>1, <1>2, <1>3 DEF Creates, Chainable, ReadOnly, Slots

LEMMA FocusedFacts ==
  ASSUME NEW op \in Op, NEW i \in Index
  PROVE  /\ FocusedPane(op, i) \subseteq Objects \ {NoObject}
         /\ \A o \in FocusedPane(op, i) : o[1] = i
         /\ \A o, q \in FocusedPane(op, i) : o = q
         /\ FocusedPane(op, i) # {} => op.focus /\ NewPane(op, i) = FocusedPane(op, i)
         /\ op.focus => NewPane(op, i) # {} /\ NewPane(op, i) \subseteq Objects
  <1>1. i \in 0 .. Length /\ i # 0
    BY PlanAssumption DEF Index
  <1>2. op.focus \in BOOLEAN /\ (op.focus => op.kind = "split" \/ op.kind = "window")
    BY DEF Op
  <1>3. CASE op.kind = "split"
    BY <1>1, <1>2, <1>3 DEF NewPane, FocusedPane, Objects, NoObject
  <1>4. CASE op.kind = "window"
    BY <1>1, <1>2, <1>4 DEF NewPane, FocusedPane, Objects, NoObject
  <1>5. CASE op.kind # "split" /\ op.kind # "window"
    BY <1>2, <1>5 DEF NewPane, FocusedPane
  <1> QED
    BY <1>3, <1>4, <1>5

\* A slot names a creation before it.
LEMMA SlotsAreEarlier ==
  ASSUME TypeOK, Valid(plan), NEW i \in Index, NEW slot \in Slots(plan[i])
  PROVE  slot[1] \in 1 .. i - 1 /\ slot[1] \in Index /\ Creates(plan[slot[1]])
  <1>1. slot[1] \in 1 .. i - 1 /\ OutputScope(plan[slot[1]], slot[2]) \in Expects(plan[i])
    BY DEF Valid
  <1>2. slot[1] \in Index
    BY <1>1, PlanAssumption DEF Index
  <1>3. OutputScope(plan[slot[1]], slot[2]) # "none"
    BY <1>1 DEF Expects
  <1> QED
    BY <1>1, <1>2, <1>3 DEF OutputScope, Creates

-----------------------------------------------------------------------------
(* The commands of an invocation.                                          *)

LEMMA ListIsSeq ==
  ASSUME NEW S, NEW n \in Nat, NEW f \in [1 .. n -> S]
  PROVE  f \in Seq(S) /\ Len(f) = n
  <1>1. f \in Seq(S)
    BY SeqDef
  <1>2. Len(f) \in Nat /\ DOMAIN f = 1 .. Len(f) /\ DOMAIN f = 1 .. n
    BY <1>1, LenProperties
  <1> QED
    BY <1>1, <1>2

\* Two elements, a sequence and one more element.
LEMMA BracketFacts ==
  ASSUME NEW S, NEW s \in Seq(S), NEW t \in Seq(S), NEW e \in Seq(S),
         Len(s) = 2, Len(e) = 1
  PROVE  /\ (s \o t) \o e \in Seq(S) /\ Len((s \o t) \o e) = Len(t) + 3
         /\ ((s \o t) \o e)[1] = s[1] /\ ((s \o t) \o e)[2] = s[2]
         /\ ((s \o t) \o e)[Len(t) + 3] = e[1]
         /\ \A k \in 3 .. Len(t) + 2 : ((s \o t) \o e)[k] = t[k - 2]
  <1> DEFINE n == Len(t)
             b == s \o t
             u == b \o e
  <1>0. n \in Nat /\ Len(t) = n
    BY LenProperties
  <1> HIDE DEF n
  <1>1. /\ b \in Seq(S) /\ Len(b) = 2 + n
        /\ \A k \in 1 .. 2 + n : b[k] = IF k <= 2 THEN s[k] ELSE t[k - 2]
    <2>1. /\ b \in Seq(S) /\ Len(b) = Len(s) + Len(t)
          /\ \A k \in 1 .. Len(s) + Len(t) : b[k] = IF k <= Len(s) THEN s[k] ELSE t[k - Len(s)]
      BY ONLY ConcatProperties, s \in Seq(S), t \in Seq(S)
    <2> HIDE DEF b
    <2> QED
      BY <1>0, <2>1
  <1>2. /\ u \in Seq(S) /\ Len(u) = n + 3
        /\ \A k \in 1 .. n + 3 : u[k] = IF k <= 2 + n THEN b[k] ELSE e[k - (2 + n)]
    <2> HIDE DEF b
    <2>1. /\ u \in Seq(S) /\ Len(u) = Len(b) + Len(e)
          /\ \A k \in 1 .. Len(b) + Len(e) : u[k] = IF k <= Len(b) THEN b[k] ELSE e[k - Len(b)]
      BY ONLY <1>1, ConcatProperties, e \in Seq(S)
    <2> HIDE DEF u
    <2> QED
      BY <1>0, <1>1, <2>1
  <1> HIDE DEF b, u
  <1>3. u[n + 3] = e[1]
    <2>1. n + 3 \in 1 .. n + 3 /\ n + 3 - (2 + n) = 1 /\ ~(n + 3 <= 2 + n)
      BY <1>0
    <2> DEFINE k == n + 3
    <2> HIDE DEF k
    <2>2. k \in 1 .. n + 3 /\ k - (2 + n) = 1 /\ ~(k <= 2 + n)
      BY <1>0, <2>1 DEF k
    <2>3. u[k] = e[k - (2 + n)]
      BY <1>2, <2>2
    <2> QED
      BY <2>2, <2>3 DEF k
  <1>4. /\ u[1] = s[1] /\ u[2] = s[2]
        /\ \A k \in 3 .. n + 2 : u[k] = t[k - 2]
    BY <1>0, <1>1, <1>2
  <1> QED
    BY <1>0, <1>2, <1>3, <1>4 DEF u, b

LEMMA LowerShape ==
  ASSUME TypeOK, StepsFit, at \in Index
  PROVE  LET step == steps[at] IN
         /\ Lower(step) \in Seq(Commands) /\ Sent \in Nat /\ Sent > 0
         /\ step.marked =>
              /\ Sent = step.last - at + 3
              /\ Lower(step)[1] = Command(step, at) /\ Lower(step)[2] = Register("mark")
              /\ \A k \in 3 .. Sent - 1 : Lower(step)[k] = Command(step, at + k - 2)
              /\ Lower(step)[Sent] = Register("unmark")
         /\ ~step.marked =>
              /\ Sent = step.last - at + 1
              /\ \A k \in 1 .. Sent : Lower(step)[k] = Command(step, at + k - 1)
  <1> DEFINE step == steps[at]
             ops(from) == [n \in 1 .. step.last - from + 1 |-> Command(step, from + n - 1)]
  <1>1. step.first = at /\ step.last \in at .. Length /\ step.marked \in BOOLEAN /\ at \in 1 .. Length
    BY DEF TypeOK, StepsFit, Index
  <1>2. \A i \in 0 .. Length : Command(step, i) \in Commands
    BY DEF Command, Commands, Token
  <1>3. Register("mark") \in Commands /\ Register("unmark") \in Commands
    BY PlanAssumption DEF Register, Commands
  <1>4. \A from \in {at, at + 1} :
          /\ ops(from) \in Seq(Commands) /\ Len(ops(from)) = step.last - from + 1
          /\ \A k \in 1 .. step.last - from + 1 : ops(from)[k] = Command(step, from + k - 1)
    <2> SUFFICES ASSUME NEW from \in {at, at + 1}
                 PROVE  /\ ops(from) \in Seq(Commands) /\ Len(ops(from)) = step.last - from + 1
                        /\ \A k \in 1 .. step.last - from + 1 : ops(from)[k] = Command(step, from + k - 1)
      OBVIOUS
    <2>1. step.last - from + 1 \in Nat /\ from \in Nat
      BY <1>1, PlanAssumption
    <2>2. \A n \in 1 .. step.last - from + 1 : Command(step, from + n - 1) \in Commands
      BY <1>1, <1>2, <2>1, PlanAssumption
    <2>3. ops(from) \in [1 .. step.last - from + 1 -> Commands]
      BY <2>2
    <2>4. ops(from) \in Seq(Commands) /\ Len(ops(from)) = step.last - from + 1
      <3> DEFINE m == step.last - from + 1
      <3> HIDE DEF ops, m
      <3>1. m \in Nat /\ ops(from) \in [1 .. m -> Commands]
        BY <2>1, <2>3 DEF m
      <3> QED
        BY <3>1, ListIsSeq DEF m
    <2> QED
      BY <2>4
  <1>5. CASE step.marked
    <2> DEFINE n == step.last - at
               begin == <<Command(step, at), Register("mark")>>
               middle == ops(at + 1)
               end == <<Register("unmark")>>
    <2>1. Lower(step) = (begin \o middle) \o end
      BY <1>1, <1>5 DEF Lower
    <2>2. begin \in Seq(Commands) /\ end \in Seq(Commands) /\ Len(begin) = 2 /\ Len(end) = 1
      BY <1>1, <1>2, <1>3, PlanAssumption
    <2>3. /\ middle \in Seq(Commands) /\ Len(middle) = n /\ n \in Nat
          /\ \A k \in 1 .. n : middle[k] = Command(step, at + k)
      <3>1. step.last - (at + 1) + 1 = n /\ n \in Nat
        BY <1>1, PlanAssumption
      <3>2. \A k \in 1 .. n : (at + 1) + k - 1 = at + k
        BY <1>1, <3>1
      <3>3. /\ middle \in Seq(Commands) /\ Len(middle) = n
            /\ \A k \in 1 .. n : middle[k] = Command(step, (at + 1) + k - 1)
        BY <1>4, <3>1
      <3> QED
        BY <3>1, <3>2, <3>3
    <2> HIDE DEF begin, middle, end
    <2>4. /\ Lower(step) \in Seq(Commands) /\ Len(Lower(step)) = n + 3
          /\ Lower(step)[1] = begin[1] /\ Lower(step)[2] = begin[2]
          /\ Lower(step)[n + 3] = end[1]
          /\ \A k \in 3 .. n + 2 : Lower(step)[k] = middle[k - 2]
      <3>1. middle \in Seq(Commands)
        BY <2>3
      <3>2. /\ (begin \o middle) \o end \in Seq(Commands)
            /\ Len((begin \o middle) \o end) = Len(middle) + 3
            /\ ((begin \o middle) \o end)[1] = begin[1]
            /\ ((begin \o middle) \o end)[2] = begin[2]
            /\ ((begin \o middle) \o end)[Len(middle) + 3] = end[1]
            /\ \A k \in 3 .. Len(middle) + 2 : ((begin \o middle) \o end)[k] = middle[k - 2]
        BY ONLY <2>2, <3>1, BracketFacts
      <3> QED
        BY <2>1, <2>3, <3>2
    <2>5. \A k \in 3 .. n + 2 : Lower(step)[k] = Command(step, at + k - 2)
      <3> SUFFICES ASSUME NEW k \in 3 .. n + 2 PROVE Lower(step)[k] = Command(step, at + k - 2)
        OBVIOUS
      <3>1. k - 2 \in 1 .. n /\ at + (k - 2) = at + k - 2
        BY <1>1, <2>3, PlanAssumption
      <3> QED
        BY <2>3, <2>4, <3>1
    <2>6. Sent = n + 3 /\ Sent - 1 = n + 2 /\ Sent \in Nat /\ Sent > 0
      BY <2>3, <2>4 DEF Sent
    <2> QED
      BY <1>1, <1>5, <2>4, <2>5, <2>6 DEF begin, end
  <1>6. CASE ~step.marked
    <2>1. Lower(step) = ops(at)
      BY <1>1, <1>6 DEF Lower
    <2>2. /\ Lower(step) \in Seq(Commands) /\ Len(Lower(step)) = step.last - at + 1
          /\ \A k \in 1 .. step.last - at + 1 : Lower(step)[k] = Command(step, at + k - 1)
      BY <1>4, <2>1
    <2>3. Sent = step.last - at + 1
      BY <2>2 DEF Sent
    <2>4. Sent \in Nat /\ Sent > 0
      BY <1>1, <2>3
    <2> HIDE DEF ops
    <2> QED
      BY <1>6, <2>2, <2>3, <2>4
  <1> QED
    BY <1>1, <1>5, <1>6

\* The command tmux is about to run, and the rest of the line.
LEMMA HeadIsNext ==
  ASSUME IInv, line # <<>>
  PROVE  /\ Left \in 1 .. Sent /\ Sent \in Nat
         /\ Head(line) = Lower(steps[at])[Sent - Left + 1] /\ Head(line) \in Commands
         /\ Tail(line) \in Seq(Commands) /\ Len(Tail(line)) = Left - 1
         /\ \A k \in 1 .. Left - 1 : Tail(line)[k] = Lower(steps[at])[Sent - (Left - 1) + k]
  <1>1. line \in Seq(Commands) /\ TypeOK /\ StepsFit /\ LineIsDue
    BY DEF IInv, TypeOK
  <1>2. /\ at \in Index /\ Left <= Sent
        /\ \A k \in 1 .. Left : line[k] = Lower(steps[at])[Sent - Left + k]
    BY <1>1 DEF LineIsDue
  <1>3. Left \in Nat /\ Left > 0 /\ Sent \in Nat
    BY <1>1, <1>2, LowerShape DEF Left
  <1>4. /\ Head(line) = line[1] /\ Head(line) \in Commands
        /\ Tail(line) \in Seq(Commands) /\ Len(Tail(line)) = Left - 1
        /\ \A k \in 1 .. Left - 1 : Tail(line)[k] = line[k + 1]
    BY <1>1, <1>3 DEF Left
  <1>5. \A k \in 1 .. Left - 1 : Tail(line)[k] = Lower(steps[at])[Sent - (Left - 1) + k]
    <2> SUFFICES ASSUME NEW k \in 1 .. Left - 1
                 PROVE  Tail(line)[k] = Lower(steps[at])[Sent - (Left - 1) + k]
      OBVIOUS
    <2>1. k + 1 \in 1 .. Left /\ Sent - Left + (k + 1) = Sent - (Left - 1) + k
      BY <1>3
    <2> QED
      BY <1>2, <1>4, <2>1
  <1> QED
    BY <1>2, <1>3, <1>4, <1>5

-----------------------------------------------------------------------------
(* tmux runs the line.                                                     *)

\* What tmux is about to run, if it is an operation.
LEMMA NextOp ==
  ASSUME IInv, line # <<>>, Head(line).does = "op"
  PROVE  LET c == Head(line) IN
         /\ c.op = Len(ran) + 1 /\ c.op \in Members(steps[at]) /\ c.op \in Index
         /\ Addressable(c) => Target(c) = plan[c.op].on
         /\ c.op = at <=> Left = Sent
         /\ steps[at].marked => /\ Left # Sent - 1 /\ Left > 1
                                /\ c.op # at => Decorates(at, c.op)
                                /\ FocusedPane(plan[at], at) # {}
         /\ ~steps[at].marked => c.op = at + (Sent - Left) /\ Sent = steps[at].last - at + 1
  <1> DEFINE step == steps[at]
             c == Head(line)
             d == Sent - Left
  <1>1. TypeOK /\ StepsFit /\ at \in Index /\ Valid(plan) /\ Len(ran) = Accepted(d)
    BY DEF IInv, LineIsDue
  <1>2. /\ step.first = at /\ step.last \in at .. Length /\ step.marked \in BOOLEAN
        /\ at \in Nat /\ step.last \in Nat /\ at \in 1 .. Length /\ Members(step) = at .. step.last /\ Members(step) \subseteq Index
        /\ step.marked => step.last > at /\ \A j \in at + 1 .. step.last : Decorates(at, j)
    BY <1>1, PlanAssumption DEF TypeOK, StepsFit, Index, Members
  <1>3. /\ Left \in 1 .. Sent /\ Sent \in Nat /\ d \in 0 .. Sent - 1
        /\ c = Lower(step)[d + 1] /\ d + 1 \in 1 .. Sent /\ Left = Sent - d
    BY HeadIsNext
  <1>4. plan[at] \in Op
    BY <1>1 DEF TypeOK
  <1>7. d # Sent /\ Len(ran) = IF step.marked THEN IF d = 0 THEN at - 1 ELSE IF d = 1 THEN at ELSE at + d - 2
                                            ELSE at - 1 + d
    BY <1>1, <1>3 DEF Accepted
  <1>8. step.marked /\ d > 1 => mark \in FocusedPane(plan[at], at) \cup {NoObject}
    BY DEF IInv, MarkIsTheNewPane
  <1>9. /\ at \in Nat /\ step.last \in Nat /\ at <= step.last
        /\ d \in Nat /\ Sent \in Nat /\ d < Sent /\ Left = Sent - d
    BY <1>2, <1>3
  <1> HIDE DEF d
  <1>5. CASE step.marked
    <2>1. /\ Sent = step.last - at + 3
          /\ Lower(step)[1] = Command(step, at) /\ Lower(step)[2] = Register("mark")
          /\ \A k \in 3 .. Sent - 1 : Lower(step)[k] = Command(step, at + k - 2)
          /\ Lower(step)[Sent] = Register("unmark")
      BY <1>1, <1>5, LowerShape
    <2>2. FocusedPane(plan[at], at) # {}
      <3>1. at + 1 \in at + 1 .. step.last
        BY <1>2, <1>5
      <3> QED
        BY <1>2, <1>5, <3>1 DEF Decorates
    <2>3. d # 1 /\ d + 1 # Sent
      <3>1. Lower(step)[1 + 1] # c /\ Lower(step)[Sent] # c
        BY <2>1 DEF Register
      <3> QED
        BY <1>3, <3>1
    <2>4. CASE d = 0
      <3>1. c = Command(step, at)
        <4>1. d + 1 = 1
          BY <2>4
        <4> QED
          BY <1>3, <2>1, <4>1
      <3>2. c.op = at /\ Len(ran) = at - 1 /\ Left = Sent /\ Left > 1
        BY <1>7, <1>2, <1>3, <1>5, <2>1, <2>4, <3>1 DEF Command
      <3>3. plan[at].on \notin FocusedPane(plan[at], at)
        <4> SUFFICES ASSUME plan[at].on \in FocusedPane(plan[at], at) PROVE FALSE
          OBVIOUS
        <4>1. plan[at].on[1] = at
          BY <1>1, <1>4, FocusedFacts
        <4>2. plan[at].on # Existing
          BY <1>2, <4>1 DEF Existing
        <4>3. plan[at].on \in Slots(plan[at])
          BY <4>2 DEF Slots
        <4> QED
          BY <1>1, <1>2, <4>1, <4>3, SlotsAreEarlier
      <3>4. Target(c) = plan[c.op].on
        BY <1>2, <3>1, <3>3 DEF Target, Command, Token
      <3> QED
        BY <1>2, <1>3, <1>5, <2>2, <3>2, <3>4
    <2>5. CASE d > 1
      <3>1. d + 1 \in 3 .. Sent - 1 /\ at + (d + 1) - 2 = at + d - 1
        BY <1>9, <2>3, <2>5
      <3>2. c = Command(step, at + d - 1)
        BY <1>3, <2>1, <3>1
      <3>3. /\ c.op = at + d - 1 /\ Len(ran) = at + d - 2 /\ c.op \in at + 1 .. step.last
            /\ Left # Sent /\ Left > 1
        <4>1. c.op = at + d - 1
          BY <3>2 DEF Command
        <4>2. Len(ran) = at + d - 2
          BY <1>3, <1>5, <1>7, <2>5
        <4>3. at + d - 1 \in at + 1 .. step.last
          <5>1. d + 1 <= (step.last - at + 3) - 1
            BY <1>9, <2>1, <3>1
          <5> QED
            BY ONLY <1>9, <2>5, <5>1
        <4>4. Left # Sent /\ Left > 1
          BY <1>9, <2>5, <3>1
        <4> QED
          BY <4>1, <4>2, <4>3, <4>4
      <3>11. c.op = Len(ran) + 1 /\ c.op # at
        <4>1. at + d - 1 = (at + d - 2) + 1 /\ at + d - 1 # at
          BY <1>9, <2>5
        <4> QED
          BY <3>3, <4>1
      <3>4. Decorates(at, c.op) /\ plan[c.op] \in Op
        BY <1>1, <1>2, <1>5, <3>3 DEF TypeOK, Index
      <3>5. plan[c.op].on \in FocusedPane(plan[at], at)
        BY <3>4 DEF Decorates, Slots
      <3>6. c.token = "marked"
        BY <1>2, <1>5, <3>2, <3>3, <3>5 DEF Command, Token
      <3>7. mark \in FocusedPane(plan[at], at) \cup {NoObject}
        BY <1>8, <1>5, <2>5
      <3>8. Addressable(c) => Target(c) = plan[c.op].on
        BY <1>1, <1>4, <3>5, <3>6, <3>7, FocusedFacts DEF Addressable, Target
      <3>9. Left # Sent - 1
        BY <1>3, <2>3
      <3>10. c.op \in Members(step) /\ c.op \in Index
        BY <1>2, <1>5, <3>3
      <3> QED
        BY <1>5, <2>2, <3>3, <3>11, <3>4, <3>8, <3>9, <3>10
    <2> QED
      BY <1>3, <2>3, <2>4, <2>5
  <1>6. CASE ~step.marked
    <2>1. Sent = step.last - at + 1 /\ c = Command(step, at + d)
      <3>1. at + (d + 1) - 1 = at + d
        BY <1>2, <1>3
      <3> QED
        BY <1>1, <1>3, <1>6, <3>1, LowerShape
    <2>2. c.op = at + d /\ Len(ran) = at - 1 + d
      BY <1>7, <1>6, <2>1 DEF Command
    <2>3. Target(c) = plan[c.op].on
      BY <1>6, <2>1, <2>2 DEF Target, Command, Token
    <2>4. c.op \in at .. step.last /\ c.op = Len(ran) + 1 /\ (c.op = at <=> Left = Sent)
      <3>1. at + d \in at .. step.last
        <4>1. Sent = step.last - at + 1
          BY <2>1
        <4> QED
          BY ONLY <1>9, <4>1
      <3>2. at + d = (at - 1 + d) + 1 /\ (at + d = at <=> Left = Sent)
        BY <1>9
      <3> QED
        BY <2>2, <3>1, <3>2
    <2>5. d = Sent - Left
      BY <1>9
    <2> QED
      BY <1>2, <1>6, <2>1, <2>2, <2>3, <2>4, <2>5
  <1> QED
    BY <1>2, <1>5, <1>6

\* A step that leaves the request alone leaves the invocation as it is.
LEMMA RequestStays ==
  ASSUME UNCHANGED <<request, at>>
  PROVE  /\ Sent' = Sent /\ Lower(steps[at])' = Lower(steps[at])
         /\ StepsFit => StepsFit'
         /\ Valid(plan) => Valid(plan')
  BY DEF request, Sent, Lower, Command, Token, FocusedPane, NewPane, StepsFit,
         Decorates, Chainable, Creates, Slots, Valid

\* tmux goes on to the next command of the line, or the line is done.
LEMMA AdvanceIsDue ==
  ASSUME IInv, line # <<>>, Advances, UNCHANGED <<request, at, refused>>,
         Len(ran') = Accepted(Sent - Left + 1)
  PROVE  /\ LineIsDue' /\ VerdictIsDue'
         /\ line' \in Seq(Commands) /\ verdict' \in {"none", "ok"} /\ Left' = Left - 1
         /\ line' = <<>> <=> Left = 1
         /\ line' = <<>> <=> verdict' = "ok"
         /\ Sent' = Sent
  <1>1. /\ Left \in 1 .. Sent /\ Sent \in Nat
        /\ Tail(line) \in Seq(Commands) /\ Len(Tail(line)) = Left - 1
        /\ \A k \in 1 .. Left - 1 : Tail(line)[k] = Lower(steps[at])[Sent - (Left - 1) + k]
    BY HeadIsNext
  <1>2. /\ line' = Tail(line) /\ verdict' = IF Left = 1 THEN "ok" ELSE verdict
        /\ Left' = Left - 1
    BY <1>1 DEF Advances, Left
  <1>3. TypeOK /\ StepsFit /\ at \in Index /\ verdict = "none" /\ refused = 0
    BY DEF IInv, LineIsDue
  <1>4. line' = <<>> <=> Left = 1
    <2>1. line' \in Seq(Commands) /\ Len(line') = Left - 1
      BY <1>1, <1>2
    <2>2. line' = <<>> => Len(line') = 0
      OBVIOUS
    <2>3. line' # <<>> => Len(line') # 0
      BY <2>1
    <2> QED
      BY <1>1, <2>1, <2>2, <2>3
  <1>5. Sent' = Sent /\ Lower(steps[at])' = Lower(steps[at]) /\ Sent - Left + 1 = Sent - (Left - 1)
    BY <1>1, RequestStays
  <1>7. LineIsDue'
    <2> SUFFICES ASSUME line' # <<>>
                 PROVE  /\ at' \in Index /\ verdict' = "none" /\ refused' = 0 /\ Left' <= Sent'
                        /\ \A k \in 1 .. Left' :
                             line'[k] = Lower(steps[at])'[Sent' - Left' + k]
                        /\ Len(ran') = Accepted(Sent - Left)'
      BY DEF LineIsDue
    <2>1. Sent' - Left' = Sent - (Left - 1) /\ Sent' - Left' = Sent - Left + 1 /\ Left' <= Sent'
      BY <1>1, <1>2, <1>5
    <2>2. Accepted(Sent - Left)' = Accepted(Sent - Left + 1)
      BY <1>5, <2>1 DEF Accepted, request
    <2>3. verdict' = "none"
      BY <1>2, <1>3, <1>4
    <2>4. \A k \in 1 .. Left' : line'[k] = Lower(steps[at])'[Sent' - Left' + k]
      BY <1>1, <1>2, <1>5, <2>1
    <2> QED
      BY <1>3, <2>1, <2>2, <2>3, <2>4
  <1>8. VerdictIsDue'
    <2>1. CASE Left = 1
      <3>1. Len(ran') = steps[at].last
        BY <1>1, <2>1 DEF Accepted
      <3> QED
        BY <1>2, <1>3, <1>4, <2>1, <3>1 DEF VerdictIsDue, request
    <2>2. CASE Left # 1
      BY <1>2, <1>3, <1>4, <2>2 DEF VerdictIsDue
    <2> QED
      BY <2>1, <2>2
  <1> QED
    BY <1>1, <1>2, <1>3, <1>4, <1>5, <1>7, <1>8

\* A line under way belongs to a run that has not ended for a reason of its own.
LEMMA LineHasOwner ==
  ASSUME IInv, line # <<>>
  PROVE  /\ result \notin {"Done", "Transient", "Unbound", "Decode"}
         /\ verdict = "none" /\ refused = 0 /\ at \in Index
  BY DEF IInv, EndedIsOver, LineIsDue, ErrorsAreTrue

\* tmux runs and reports nothing of the run itself.
LEMMA RunStays ==
  ASSUME IInv, UNCHANGED <<request, run>>
  PROVE  /\ Valid(plan') /\ StepsFit' /\ PastIsComplete'
         /\ plan' \in [Index -> Op]
         /\ steps' \in [Index -> [first : Index, last : Index, marked : BOOLEAN]]
         /\ at' \in 1 .. Length + 1 /\ bound' \subseteq Index
         /\ outcomes' \in [Index -> Outcomes] /\ effect' \in BOOLEAN /\ result' \in Results
  <1>1. UNCHANGED <<plan, steps, at, bound, outcomes, effect, result>>
    BY DEF request, run
  <1>2. StepsFit' /\ Valid(plan')
    BY <1>1, RequestStays DEF IInv, request
  <1>3. PastIsComplete'
    BY <1>1 DEF IInv, PastIsComplete, Running
  <1> QED
    BY <1>1, <1>2, <1>3 DEF IInv, TypeOK

LEMMA AcceptsKeeps ==
  ASSUME IInv, Accepts
  PROVE  IInv'
  <1> DEFINE c == Head(line)
             op == plan[c.op]
  <1>1. /\ line # <<>> /\ c.does = "op" /\ Addressable(c) /\ Advances
        /\ ran' = Append(ran, <<c.op, Target(c)>>)
        /\ gone' = IF op.kind = "kill" THEN gone \cup ({Target(c)} \ {Existing}) ELSE gone
        /\ mark' = IF op.kind = "kill" /\ mark = Target(c) THEN NoObject ELSE mark
        /\ printed' = IF Creates(op) THEN c.op ELSE printed
        /\ current' = IF op.focus THEN CHOOSE o \in NewPane(op, c.op) : TRUE ELSE current
        /\ UNCHANGED <<request, run, refused>>
    BY DEF Accepts
  <1>2. /\ c.op = Len(ran) + 1 /\ c.op \in Members(steps[at]) /\ c.op \in Index
        /\ Target(c) = plan[c.op].on
        /\ c.op = at <=> Left = Sent
        /\ steps[at].marked => /\ Left # Sent - 1 /\ Left > 1
                               /\ c.op # at => Decorates(at, c.op)
                               /\ FocusedPane(plan[at], at) # {}
        /\ ~steps[at].marked => c.op = at + (Sent - Left) /\ Sent = steps[at].last - at + 1
    BY <1>1, NextOp
  <1>3. /\ TypeOK /\ StepsFit /\ at \in Index /\ LineIsDue /\ op \in Op /\ plan[at] \in Op
        /\ result \notin {"Done", "Transient", "Unbound", "Decode"} /\ RunsAsRecorded
        /\ verdict = "none" /\ refused = 0
    BY <1>1, <1>2, LineHasOwner DEF IInv, TypeOK
  <1>4. /\ Left \in 1 .. Sent /\ Sent \in Nat /\ at \in Nat
        /\ steps[at].first = at /\ steps[at].last \in at .. Length /\ steps[at].last \in Nat
        /\ steps[at].marked \in BOOLEAN /\ Members(steps[at]) = at .. steps[at].last
        /\ Len(ran) = Accepted(Sent - Left)
    <2>1. Left \in 1 .. Sent /\ Sent \in Nat
      BY <1>1, HeadIsNext
    <2>2. steps[at].first = at /\ steps[at].last \in at .. Length /\ at \in 1 .. Length
      BY <1>3 DEF StepsFit, Index
    <2>3. at \in Nat /\ steps[at].last \in Nat /\ Members(steps[at]) = at .. steps[at].last
      BY <2>2, PlanAssumption DEF Members
    <2>4. steps[at].marked \in BOOLEAN
      BY <1>3 DEF TypeOK
    <2>5. Len(ran) = Accepted(Sent - Left)
      BY <1>1, <1>3 DEF LineIsDue
    <2> QED
      BY <2>1, <2>2, <2>3, <2>4, <2>5
  <1>5. op.on \in Objects /\ op.on # NoObject
    BY <1>3, OpFacts
  <1>6. /\ ran' \in Seq(Index \X Objects) /\ Len(ran') = c.op /\ DOMAIN ran' = 1 .. c.op
        /\ ran'[c.op] = <<c.op, op.on>>
        /\ \A n \in 1 .. c.op - 1 : ran'[n] = ran[n]
        /\ DOMAIN ran = 1 .. c.op - 1
    BY <1>1, <1>2, <1>3, <1>5 DEF TypeOK
  <1>7. c.op = Accepted(Sent - Left + 1)
    <2>1. CASE steps[at].marked
      <3>1. Sent = steps[at].last - at + 3
        BY <1>3, <2>1, LowerShape
      <3>2. CASE Left = Sent
        <4>1. Sent - Left + 1 = 1 /\ 1 # Sent /\ 1 # 0
          BY <1>4, <3>1, <3>2
        <4>2. Accepted(1) = at
          BY <2>1, <4>1 DEF Accepted
        <4> QED
          BY <1>2, <3>2, <4>1, <4>2
      <3>3. CASE Left # Sent
        <4>1. Len(ran) = at + (Sent - Left) - 2
          BY <1>2, <1>4, <2>1, <3>3 DEF Accepted
        <4>2. /\ Sent - Left + 1 \notin {0, 1, Sent}
              /\ at + (Sent - Left) - 2 + 1 = at + (Sent - Left + 1) - 2
          <5>1. Left > 1
            BY <1>2, <2>1
          <5>2. Sent \in Nat /\ Left \in 1 .. Sent /\ at \in Nat
            BY <1>4
          <5> QED
            BY ONLY <3>3, <5>1, <5>2
        <4> QED
          BY <1>2, <2>1, <4>1, <4>2 DEF Accepted
      <3> QED
        BY <3>2, <3>3
    <2>2. CASE ~steps[at].marked
      <3>1. at + (Sent - Left) = at - 1 + (Sent - Left + 1)
        BY <1>4
      <3>2. Sent - Left + 1 = Sent => at + (Sent - Left) = steps[at].last
        BY <1>2, <1>4, <2>2
      <3> QED
        BY <1>2, <2>2, <3>1, <3>2 DEF Accepted
    <2> QED
      BY <1>4, <2>1, <2>2
  <1>8. /\ LineIsDue' /\ VerdictIsDue' /\ line' \in Seq(Commands) /\ verdict' \in {"none", "ok"}
        /\ Left' = Left - 1 /\ Sent' = Sent
        /\ line' = <<>> <=> Left = 1
        /\ line' = <<>> <=> verdict' = "ok"
    <2>1. Len(ran') = Accepted(Sent - Left + 1)
      BY <1>6, <1>7
    <2>2. UNCHANGED <<request, at, refused>>
      BY <1>1 DEF run
    <2> QED
      BY <1>1, <2>1, <2>2, AdvanceIsDue
  <1>9. UNCHANGED <<plan, steps, at, result>>
    BY <1>1 DEF request, run
  <1>10. op.focus => current' \in NewPane(op, c.op) /\ current' \in Objects
    BY <1>1, <1>2, <1>3, FocusedFacts
  <1>11. TypeOK'
    <2>1. NoObject \in Objects
      <3>1. 0 \in 0 .. Length
        BY PlanAssumption
      <3> QED
        BY <3>1 DEF Objects, NoObject
    <2>2. /\ gone' \subseteq Objects /\ mark' \in Objects /\ current' \in Objects
          /\ refused' \in 0 .. Length
      BY <1>1, <1>2, <1>3, <1>5, <1>10, <2>1, OpFacts DEF TypeOK
    <2>3. printed' \in 0 .. Length
      BY <1>1, <1>2, <1>3, PlanAssumption DEF TypeOK, Index
    <2> QED
      BY <1>1, <1>6, <1>8, <2>2, <2>3, RunStays DEF TypeOK
  <1>12. RunsAsRecorded'
    BY <1>2, <1>3, <1>6, <1>9 DEF RunsAsRecorded
  <1>13. PrintedIsDone'
    <2>1. printed = IF Creates(plan[at]) /\ Len(ran) >= at THEN at ELSE 0
      BY <1>1 DEF IInv, PrintedIsDone
    <2>2. Creates(op) => c.op = at
      <3> SUFFICES ASSUME Creates(op), c.op # at PROVE FALSE
        OBVIOUS
      <3>1. ~Chainable(op)
        BY <1>3, OpFacts
      <3>2. CASE steps[at].marked
        BY <1>2, <3>1, <3>2 DEF Decorates
      <3>3. CASE ~steps[at].marked
        <4>1. steps[at].last > at /\ c.op \in at .. steps[at].last
          BY <1>2, <1>4
        <4> QED
          BY <1>3, <3>1, <3>3, <4>1 DEF StepsFit
      <3> QED
        BY <1>4, <3>2, <3>3
    <2>3. c.op >= at
      BY <1>2, <1>4
    <2>4. CASE c.op = at
      BY <1>1, <1>2, <1>6, <1>9, <2>1, <2>4 DEF PrintedIsDone
    <2>5. CASE c.op # at
      <3>1. Len(ran) >= at /\ Len(ran') >= at
        BY <1>2, <1>4, <1>6, <2>3, <2>5
      <3> QED
        BY <1>1, <1>9, <2>1, <2>2, <2>5, <3>1 DEF PrintedIsDone
    <2> QED
      BY <2>4, <2>5
  <1>14. MarkIsTheNewPane'
    <2> SUFFICES ASSUME steps[at].marked
                 PROVE  /\ Sent - Left + 1 = 1 => current' \in FocusedPane(plan[at], at)
                        /\ Sent - Left + 1 > 1 => mark' \in FocusedPane(plan[at], at) \cup {NoObject}
      <3>1. Sent' - Left' = Sent - Left + 1
        BY <1>4, <1>8
      <3>2. FocusedPane(plan[at], at)' = FocusedPane(plan[at], at)
        BY <1>9 DEF FocusedPane, NewPane
      <3> QED
        BY <1>9, <3>1, <3>2 DEF MarkIsTheNewPane
    <2>1. CASE c.op = at
      <3>1. Sent - Left + 1 = 1 /\ ~(Sent - Left + 1 > 1)
        BY <1>2, <1>4, <2>1
      <3>2. plan[at].focus /\ NewPane(plan[at], at) = FocusedPane(plan[at], at)
        BY <1>2, <1>3, FocusedFacts
      <3> QED
        BY <1>10, <2>1, <3>1, <3>2
    <2>2. CASE c.op # at
      <3>1. Sent - Left > 1 /\ ~(Sent - Left + 1 = 1)
        BY <1>2, <1>4, <2>2
      <3>2. mark \in FocusedPane(plan[at], at) \cup {NoObject}
        BY <1>1, <3>1 DEF IInv, MarkIsTheNewPane
      <3> QED
        BY <1>1, <3>1, <3>2
    <2> QED
      BY <2>1, <2>2
  <1>15. EndedIsOver' /\ OutcomesAreTrue'
    BY <1>3, <1>9 DEF EndedIsOver, OutcomesAreTrue
  <1>16. ErrorsAreTrue'
    <2> SUFFICES ASSUME result = "AfterEffect"
                 PROVE  \E n \in DOMAIN ran' : ~ReadOnly(plan[ran'[n][1]])
      BY <1>3, <1>9 DEF ErrorsAreTrue
    <2>1. PICK n \in DOMAIN ran : ~ReadOnly(plan[ran[n][1]])
      BY DEF IInv, ErrorsAreTrue
    <2>2. n \in DOMAIN ran' /\ ran'[n] = ran[n]
      BY <1>2, <1>6, PlanAssumption DEF Index
    <2> QED
      BY <2>1, <2>2
  <1>17. Valid(plan') /\ StepsFit' /\ PastIsComplete'
    BY <1>1, RunStays
  <1> QED
    BY <1>8, <1>11, <1>12, <1>13, <1>14, <1>15, <1>16, <1>17 DEF IInv

\* What is no operation sets the mark behind the creation, or clears it last.
LEMMA NextFlag ==
  ASSUME IInv, line # <<>>, Head(line).does # "op"
  PROVE  /\ steps[at].marked /\ Sent = steps[at].last - at + 3 /\ steps[at].last > at
         /\ \/ Sent - Left = 1 /\ Head(line).does = "mark"
            \/ Sent - Left = Sent - 1 /\ Left = 1 /\ Head(line).does = "unmark"
  <1> DEFINE step == steps[at]
             c == Head(line)
             d == Sent - Left
  <1>1. TypeOK /\ StepsFit /\ at \in Index
    BY DEF IInv, LineIsDue
  <1>2. Left \in 1 .. Sent /\ Sent \in Nat /\ c = Lower(step)[d + 1] /\ d + 1 \in 1 .. Sent
    BY HeadIsNext
  <1>3. \A i : Command(step, i).does = "op"
    BY DEF Command
  <1> HIDE DEF d
  <1>4. step.marked
    <2> SUFFICES ASSUME ~step.marked PROVE FALSE
      OBVIOUS
    <2>1. c = Command(step, at + (d + 1) - 1)
      BY <1>1, <1>2, LowerShape
    <2> QED
      BY <1>3, <2>1
  <1>5. /\ Sent = step.last - at + 3
        /\ Lower(step)[1] = Command(step, at) /\ Lower(step)[2] = Register("mark")
        /\ \A k \in 3 .. Sent - 1 : Lower(step)[k] = Command(step, at + k - 2)
        /\ Lower(step)[Sent] = Register("unmark")
    BY <1>1, <1>4, LowerShape
  <1>6. d + 1 # 1 /\ d + 1 \notin 3 .. Sent - 1
    BY <1>2, <1>3, <1>5
  <1>7. d + 1 = 2 \/ d + 1 = Sent
    BY <1>2, <1>6
  <1>8. step.last > at
    BY <1>1, <1>4 DEF StepsFit
  <1>9. d + 1 = 2 => c.does = "mark"
    BY <1>2, <1>5 DEF Register
  <1>10. d + 1 = Sent => c.does = "unmark"
    BY <1>2, <1>5 DEF Register
  <1>11. (d + 1 = 2 => Sent - Left = 1) /\ (d + 1 = Sent => Left = 1 /\ Sent - Left = Sent - 1)
    BY <1>2 DEF d
  <1> QED
    BY <1>4, <1>5, <1>7, <1>8, <1>9, <1>10, <1>11

LEMMA MarksKeeps ==
  ASSUME IInv, Marks
  PROVE  IInv'
  <1>1. /\ line # <<>> /\ Head(line).does # "op" /\ Advances
        /\ mark' = IF Head(line).does = "mark" THEN current ELSE NoObject
        /\ UNCHANGED <<request, run, printed, current, ran, refused, gone>>
    BY DEF Marks
  <1>2. /\ steps[at].marked /\ Sent = steps[at].last - at + 3 /\ steps[at].last > at
        /\ \/ Sent - Left = 1 /\ Head(line).does = "mark"
           \/ Sent - Left = Sent - 1 /\ Left = 1 /\ Head(line).does = "unmark"
    BY <1>1, NextFlag
  <1>3. /\ TypeOK /\ StepsFit /\ at \in Index /\ LineIsDue
        /\ result \notin {"Done", "Transient", "Unbound", "Decode"}
        /\ verdict = "none" /\ refused = 0
    BY <1>1, LineHasOwner DEF IInv
  <1>4. Left \in 1 .. Sent /\ Sent \in Nat /\ at \in Nat /\ steps[at].last \in Nat
    BY <1>1, <1>3, HeadIsNext, PlanAssumption DEF TypeOK, Index
  <1>5. Len(ran) = Accepted(Sent - Left + 1)
    <2>1. Len(ran) = Accepted(Sent - Left)
      BY <1>1, <1>3 DEF LineIsDue
    <2>2. CASE Sent - Left = 1
      <3>1. Sent - Left + 1 = 2 /\ Sent \notin {1, 2} /\ at + 2 - 2 = at
        BY <1>2, <1>4, <2>2
      <3>2. Accepted(1) = at /\ Accepted(2) = at
        BY <1>2, <3>1 DEF Accepted
      <3> QED
        BY <2>1, <2>2, <3>1, <3>2
    <2>3. CASE Sent - Left = Sent - 1
      <3>1. /\ Sent - Left + 1 = Sent /\ Sent - 1 \notin {0, 1, Sent}
            /\ at + (Sent - 1) - 2 = steps[at].last
        BY <1>2, <1>4, <2>3
      <3>2. Accepted(Sent - 1) = steps[at].last /\ Accepted(Sent) = steps[at].last
        BY <1>2, <3>1 DEF Accepted
      <3> QED
        BY <2>1, <2>3, <3>1, <3>2
    <2> QED
      BY <1>2, <2>2, <2>3
  <1>6. /\ LineIsDue' /\ VerdictIsDue' /\ line' \in Seq(Commands) /\ verdict' \in {"none", "ok"}
        /\ Left' = Left - 1 /\ Sent' = Sent
        /\ line' = <<>> <=> Left = 1
    <2>1. Len(ran') = Accepted(Sent - Left + 1)
      BY <1>1, <1>5
    <2>2. UNCHANGED <<request, at, refused>>
      BY <1>1 DEF run
    <2> QED
      BY <1>1, <2>1, <2>2, AdvanceIsDue
  <1>7. UNCHANGED <<plan, steps, at, result>>
    BY <1>1 DEF request, run
  <1>8. TypeOK'
    <2>1. NoObject \in Objects
      <3>1. 0 \in 0 .. Length
        BY PlanAssumption
      <3> QED
        BY <3>1 DEF Objects, NoObject
    <2> QED
      BY <1>1, <1>3, <1>6, <2>1, RunStays DEF TypeOK
  <1>9. PrintedIsDone'
    <2>1. printed = IF Creates(plan[at]) /\ Len(ran) >= at THEN at ELSE 0
      BY <1>1 DEF IInv, PrintedIsDone
    <2> QED
      BY <1>1, <1>7, <2>1 DEF PrintedIsDone
  <1>10. MarkIsTheNewPane'
    <2> SUFFICES ASSUME line' # <<>>
                 PROVE  /\ Sent - Left + 1 = 1 => current' \in FocusedPane(plan[at], at)
                        /\ Sent - Left + 1 > 1 => mark' \in FocusedPane(plan[at], at) \cup {NoObject}
      <3>1. Sent' - Left' = Sent - Left + 1
        BY <1>4, <1>6
      <3>2. FocusedPane(plan[at], at)' = FocusedPane(plan[at], at)
        BY <1>7 DEF FocusedPane, NewPane
      <3> QED
        BY <1>7, <3>1, <3>2 DEF MarkIsTheNewPane
    <2>1. Sent - Left = 1 /\ Head(line).does = "mark" /\ Sent - Left + 1 # 1
      BY <1>2, <1>4, <1>6
    <2>2. current \in FocusedPane(plan[at], at)
      BY <1>1, <1>2, <2>1 DEF IInv, MarkIsTheNewPane
    <2> QED
      BY <1>1, <2>1, <2>2
  <1>11. EndedIsOver' /\ OutcomesAreTrue'
    BY <1>3, <1>7 DEF EndedIsOver, OutcomesAreTrue
  <1>12. RunsAsRecorded' /\ ErrorsAreTrue'
    BY <1>1, <1>7 DEF IInv, RunsAsRecorded, ErrorsAreTrue
  <1>13. Valid(plan') /\ StepsFit' /\ PastIsComplete'
    BY <1>1, RunStays
  <1> QED
    BY <1>6, <1>8, <1>9, <1>10, <1>11, <1>12, <1>13 DEF IInv

LEMMA RefusesKeeps ==
  ASSUME IInv, Refuses
  PROVE  IInv'
  <1>1. /\ line # <<>> /\ Head(line).does = "op"
        /\ refused' = Head(line).op /\ line' = <<>> /\ verdict' = "failed"
        /\ UNCHANGED <<request, run, printed, current, ran, gone, mark>>
    BY DEF Refuses
  <1>2. /\ refused' = Len(ran) + 1 /\ refused' \in Members(steps[at]) /\ refused' \in Index
    BY <1>1, NextOp
  <1>3. /\ TypeOK /\ at \in Index /\ result \notin {"Done", "Transient", "Unbound", "Decode"}
    BY <1>1, LineHasOwner DEF IInv
  <1>4. UNCHANGED <<plan, steps, at, result>>
    BY <1>1 DEF request, run
  <1>5. TypeOK'
    <2>1. line' \in Seq(Commands)
      BY <1>1
    <2>2. refused' \in 0 .. Length
      BY <1>2, PlanAssumption DEF Index
    <2> QED
      BY <1>1, <1>3, <2>1, <2>2, RunStays DEF TypeOK
  <1>6. LineIsDue' /\ VerdictIsDue' /\ MarkIsTheNewPane'
    <2>1. Members(steps[at])' = Members(steps[at])
      BY <1>4 DEF Members
    <2> QED
      BY <1>1, <1>2, <1>3, <1>4, <2>1 DEF LineIsDue, VerdictIsDue, MarkIsTheNewPane
  <1>7. PrintedIsDone'
    BY <1>1, <1>4 DEF IInv, PrintedIsDone
  <1>8. EndedIsOver' /\ OutcomesAreTrue'
    BY <1>3, <1>4 DEF EndedIsOver, OutcomesAreTrue
  <1>9. RunsAsRecorded' /\ ErrorsAreTrue'
    BY <1>1, <1>4 DEF IInv, RunsAsRecorded, ErrorsAreTrue
  <1>10. Valid(plan') /\ StepsFit' /\ PastIsComplete'
    BY <1>1, RunStays
  <1> QED
    BY <1>5, <1>6, <1>7, <1>8, <1>9, <1>10 DEF IInv

\* tmux serves no other client between the commands of a marked invocation.
LEMMA NoPauseIsDecorated ==
  ASSUME IInv, ServesOthers, line # <<>>
  PROVE  ~steps[at].marked
  <1> SUFFICES ASSUME steps[at].marked PROVE FALSE
    OBVIOUS
  <1> DEFINE c == Head(line)
  <1>1. c.does = "op" /\ plan[c.op].kind = "pause"
    BY DEF ServesOthers
  <1>2. /\ c.op \in Index /\ at \in Index
        /\ c.op # at => Decorates(at, c.op)
        /\ FocusedPane(plan[at], at) # {}
    BY <1>1, NextOp, LineHasOwner
  <1>3. plan[c.op] \in Op /\ plan[at] \in Op
    BY <1>2 DEF IInv, TypeOK
  <1>4. ~Creates(plan[c.op]) /\ Slots(plan[c.op]) = {}
    BY <1>1, <1>3, OpFacts DEF Creates
  <1>5. Creates(plan[at])
    BY <1>2, <1>3, FocusedFacts, OpFacts
  <1> QED
    BY <1>2, <1>4, <1>5 DEF Decorates

LEMMA InterferesKeeps ==
  ASSUME IInv, Interferes
  PROVE  IInv'
  <1>1. ServesOthers /\ Running /\ UNCHANGED <<request, run, invocation, ran, refused>>
    BY DEF Interferes
  <1>2. UNCHANGED <<plan, steps, at, line, verdict, printed, current, result, ran, refused>>
    BY <1>1 DEF request, run, invocation
  <1>3. UNCHANGED <<Sent, Left>> /\ Lower(steps[at])' = Lower(steps[at])
    BY <1>1, <1>2, RequestStays DEF Left
  <1>4. gone' \subseteq Objects /\ mark' \in Objects
    <2>1. 0 \in 0 .. Length /\ Index \subseteq 0 .. Length
      BY PlanAssumption DEF Index
    <2>2. Existing \in Objects /\ NoObject \in Objects
      BY <2>1 DEF Objects, Existing, NoObject
    <2>3. \A i \in Index, part \in {"created", "firstPane"} : <<i, part>> \in Objects
      BY <2>1 DEF Objects
    <2>4. gone \subseteq Objects /\ mark \in Objects
      BY DEF IInv, TypeOK
    <2> QED
      BY <2>2, <2>3, <2>4 DEF Interferes
  <1>5. TypeOK'
    BY <1>1, <1>2, <1>4, RunStays DEF IInv, TypeOK
  <1>6. LineIsDue'
    <2>1. Accepted(Sent - Left)' = Accepted(Sent - Left)
      BY <1>2, <1>3 DEF Accepted
    <2> QED
      BY <1>2, <1>3, <2>1 DEF IInv, LineIsDue
  <1>7. VerdictIsDue' /\ PrintedIsDone' /\ EndedIsOver'
    BY <1>2 DEF IInv, VerdictIsDue, PrintedIsDone, EndedIsOver, Running, Members
  <1>8. MarkIsTheNewPane'
    BY <1>1, <1>2, NoPauseIsDecorated DEF MarkIsTheNewPane
  <1>9. OutcomesAreTrue'
    BY <1>1, <1>2 DEF Running, OutcomesAreTrue
  <1>10. RunsAsRecorded' /\ ErrorsAreTrue'
    BY <1>2 DEF IInv, RunsAsRecorded, ErrorsAreTrue
  <1>11. Valid(plan') /\ StepsFit' /\ PastIsComplete'
    BY <1>1, RunStays
  <1> QED
    BY <1>5, <1>6, <1>7, <1>8, <1>9, <1>10, <1>11 DEF IInv

-----------------------------------------------------------------------------
(* The run sends an invocation, and reports it.                            *)

\* Whoever ran, something changed when an operation that was run is not a read.
Changed == \E n \in DOMAIN ran : ~ReadOnly(plan[ran[n][1]])

LEMMA RanFacts ==
  ASSUME IInv
  PROVE  /\ Len(ran) \in 0 .. Length /\ DOMAIN ran = 1 .. Len(ran)
         /\ \A i \in Index : (\E n \in DOMAIN ran : ran[n][1] = i) <=> i <= Len(ran)
         /\ Changed <=> \E i \in Index : i <= Len(ran) /\ ~ReadOnly(plan[i])
         /\ Running /\ at \in Index => at - 1 <= Len(ran)
  <1>1. /\ ran \in Seq(Index \X Objects) /\ RunsAsRecorded /\ TypeOK /\ StepsFit
        /\ at \in 1 .. Length + 1
    BY DEF IInv, TypeOK
  <1>2. Len(ran) \in Nat /\ DOMAIN ran = 1 .. Len(ran)
    BY <1>1
  <1>3. \A n \in 1 .. Len(ran) : ran[n][1] = n /\ n \in Index
    <2> SUFFICES ASSUME NEW n \in 1 .. Len(ran) PROVE ran[n][1] = n /\ n \in Index
      OBVIOUS
    <2>1. ran[n] = <<n, plan[n].on>> /\ ran[n] \in Index \X Objects
      BY <1>1, <1>2 DEF RunsAsRecorded
    <2> QED
      BY <2>1
  <1>4. Len(ran) \in 0 .. Length
    <2>1. Len(ran) # 0 => Len(ran) \in Index
      BY <1>2, <1>3
    <2> QED
      BY <1>2, <2>1, PlanAssumption DEF Index
  <1>5. \A i \in Index : i \in 1 .. Len(ran) <=> i <= Len(ran)
    BY <1>2, PlanAssumption DEF Index
  <1>6. Running /\ at \in Index => at - 1 <= Len(ran)
    <2> SUFFICES ASSUME Running, at \in Index PROVE at - 1 <= Len(ran)
      OBVIOUS
    <2>1. at \in Nat /\ steps[at].last \in Nat /\ at <= steps[at].last /\ steps[at].first = at
      BY <1>1, PlanAssumption DEF StepsFit, Index
    <2>2. CASE line # <<>>
      <3> DEFINE d == Sent - Left
      <3>1. Len(ran) = Accepted(d) /\ d \in Nat
        BY <2>2, HeadIsNext DEF IInv, LineIsDue
      <3> HIDE DEF d
      <3> QED
        BY <2>1, <3>1 DEF Accepted
    <2>3. CASE verdict = "ok"
      BY <1>2, <2>1, <2>3 DEF IInv, VerdictIsDue
    <2>4. CASE verdict = "failed"
      <3>1. refused = Len(ran) + 1 /\ refused \in at .. steps[at].last
        BY <2>1, <2>4 DEF IInv, VerdictIsDue, Members
      <3> QED
        BY <1>2, <2>1, <3>1
    <2>5. CASE line = <<>> /\ verdict = "none"
      BY <1>2, <2>1, <2>5 DEF IInv, VerdictIsDue
    <2> QED
      BY <1>1, <2>2, <2>3, <2>4, <2>5 DEF TypeOK
  <1> QED
    BY <1>2, <1>3, <1>4, <1>5, <1>6 DEF Changed

\* What the run has seen of an effect was one.
LEMMA EffectIsTrue ==
  ASSUME IInv, Running, at \in Index, effect
  PROVE  Changed
  <1>1. PICK i \in Index : i < at /\ ~ReadOnly(plan[i])
    BY DEF IInv, PastIsComplete
  <1>2. i <= Len(ran)
    <2>1. at - 1 <= Len(ran) /\ Len(ran) \in Nat /\ i \in Nat /\ at \in Nat
      BY RanFacts, PlanAssumption DEF Index
    <2> QED
      BY <1>1, <2>1
  <1> QED
    BY <1>1, <1>2, RanFacts

\* An invocation never lacks an id: its slots were bound, or are marked.
LEMMA RendersAll ==
  ASSUME IInv, Running, at \in Index
  PROVE  Renders(steps[at])
  <1> DEFINE step == steps[at]
  <1>1. TypeOK /\ StepsFit /\ Valid(plan)
    BY DEF IInv
  <1>2. /\ step.first = at /\ step.last \in at .. Length /\ step.marked \in BOOLEAN
        /\ at \in Nat /\ step.last \in Nat /\ Members(step) = at .. step.last
        /\ Members(step) \subseteq Index
    BY <1>1, PlanAssumption DEF TypeOK, StepsFit, Index, Members
  <1> SUFFICES ASSUME NEW i \in Members(step), NEW slot \in Slots(plan[i])
               PROVE  slot[1] \in bound \/ Token(step, slot) = "marked"
    BY DEF Renders
  <1>3. slot[1] \in 1 .. i - 1 /\ slot[1] \in Index /\ Creates(plan[slot[1]])
    BY <1>1, <1>2, SlotsAreEarlier
  <1>4. CASE slot[1] < at
    BY <1>3, <1>4 DEF IInv, PastIsComplete
  <1>5. CASE ~(slot[1] < at)
    <2>1. i \in at + 1 .. step.last /\ slot[1] \in at .. step.last /\ step.last > at
      BY <1>2, <1>3, <1>5
    <2>2. CASE step.marked
      <3>1. Decorates(at, i)
        BY <1>1, <2>1, <2>2 DEF StepsFit
      <3>2. slot \in FocusedPane(plan[at], at)
        BY <3>1 DEF Decorates
      <3> QED
        BY <1>2, <2>2, <3>2 DEF Token
    <2>3. CASE ~step.marked
      <3>1. Chainable(plan[slot[1]])
        BY <1>1, <2>1, <2>3 DEF StepsFit
      <3> QED
        BY <1>3, <3>1 DEF Chainable
    <2> QED
      BY <1>2, <2>2, <2>3
  <1> QED
    BY <1>2, <1>3, <1>4, <1>5

LEMMA DispatchKeeps ==
  ASSUME IInv, Dispatch
  PROVE  IInv'
  <1>1. /\ Running /\ at \in Index /\ line = <<>> /\ verdict = "none"
        /\ UNCHANGED <<plan, steps, at, bound, outcomes, effect, verdict,
                       ran, refused, gone, mark>>
        /\ Len(ran) = at - 1 /\ refused = 0 /\ TypeOK /\ StepsFit /\ Valid(plan)
    BY DEF Dispatch, request, tmux, run, invocation, IInv, VerdictIsDue
  <1>2. StepsFit' /\ Valid(plan')
    BY <1>1, RequestStays DEF request
  <1>3. RunsAsRecorded'
    BY <1>1 DEF IInv, RunsAsRecorded
  <1>4. CASE line' = Lower(steps[at]) /\ printed' = 0 /\ current' = Existing /\ result' = result
    <2>1. /\ Lower(steps[at]) \in Seq(Commands) /\ Sent \in Nat /\ Sent > 0
          /\ at \in Nat
      BY <1>1, LowerShape, PlanAssumption DEF Index
    <2>2. Left' = Sent /\ Sent' = Sent /\ Lower(steps[at])' = Lower(steps[at]) /\ line' # <<>>
      BY <1>1, <1>4, <2>1, RequestStays DEF Left, Sent, request
    <2>3. TypeOK'
      <3>1. 0 \in 0 .. Length
        BY PlanAssumption
      <3>2. current' \in Objects /\ printed' \in 0 .. Length
        BY <1>4, <3>1 DEF Objects, Existing
      <3> QED
        BY <1>1, <1>4, <2>1, <3>2 DEF TypeOK
    <2>4. LineIsDue'
      <3>1. Sent' - Left' = 0 /\ 0 # Sent /\ at - 1 + 0 = at - 1
        BY <2>1, <2>2
      <3>2. Accepted(Sent - Left)' = at - 1
        BY <1>1, <2>2, <3>1 DEF Accepted
      <3>3. \A k \in 1 .. Left' : line'[k] = Lower(steps[at])'[Sent' - Left' + k]
        BY <1>4, <2>1, <2>2, <3>1
      <3>4. Left' <= Sent'
        BY <2>1, <2>2
      <3> QED
        BY <1>1, <3>2, <3>3, <3>4 DEF LineIsDue
    <2>5. VerdictIsDue'
      BY <1>1, <2>2 DEF VerdictIsDue
    <2>6. PrintedIsDone'
      <3>1. ~(at - 1 >= at)
        BY <2>1
      <3> QED
        BY <1>1, <1>4, <3>1 DEF PrintedIsDone
    <2>7. MarkIsTheNewPane'
      <3>1. Sent' - Left' = 0
        BY <2>1, <2>2
      <3> QED
        BY <3>1 DEF MarkIsTheNewPane
    <2>8. PastIsComplete' /\ EndedIsOver' /\ OutcomesAreTrue' /\ ErrorsAreTrue'
      BY <1>1, <1>4 DEF IInv, PastIsComplete, EndedIsOver, OutcomesAreTrue, ErrorsAreTrue, Running
    <2> QED
      BY <1>2, <1>3, <2>3, <2>4, <2>5, <2>6, <2>7, <2>8 DEF IInv
  <1>5. CASE Failing("Transient", effect) /\ UNCHANGED <<line, printed, current>>
    <2>1. result' = IF effect THEN "AfterEffect" ELSE "Transient"
      BY <1>5 DEF Failing
    <2>2. TypeOK'
      BY <1>1, <1>5, <2>1 DEF TypeOK, Results
    <2>3. /\ LineIsDue' /\ VerdictIsDue' /\ PrintedIsDone' /\ MarkIsTheNewPane'
          /\ PastIsComplete' /\ EndedIsOver' /\ OutcomesAreTrue'
      BY <1>1, <1>5, <2>1 DEF LineIsDue, VerdictIsDue, PrintedIsDone, MarkIsTheNewPane,
         PastIsComplete, EndedIsOver, OutcomesAreTrue, Running
    <2>4. effect <=> Changed
      <3>1. \A i \in Index : i < at <=> i <= at - 1
        BY <1>1, PlanAssumption DEF Index
      <3> QED
        BY <1>1, <3>1, RanFacts DEF IInv, PastIsComplete
    <2>5. ErrorsAreTrue'
      BY <1>1, <2>1, <2>4 DEF ErrorsAreTrue, Changed
    <2> QED
      BY <1>2, <1>3, <2>2, <2>3, <2>5 DEF IInv
  <1> QED
    BY <1>1, <1>4, <1>5, RendersAll DEF Dispatch, run, invocation

LEMMA LoseKeeps ==
  ASSUME IInv, Lose
  PROVE  IInv'
  <1>1. /\ Running /\ at \in Index
        /\ UNCHANGED <<plan, steps, at, bound, outcomes, effect, line, verdict, printed,
                       current, ran, refused, gone, mark>>
        /\ result' = IF effect THEN "AfterEffect" ELSE "Unsure"
    BY DEF Lose, request, tmux, invocation, Failing, IInv, TypeOK, LineIsDue, VerdictIsDue
  <1>2. StepsFit' /\ Valid(plan') /\ Sent' = Sent /\ Lower(steps[at])' = Lower(steps[at])
        /\ Left' = Left
    BY <1>1, RequestStays DEF request, IInv, Left
  <1>3. TypeOK'
    BY <1>1 DEF IInv, TypeOK, Results
  <1>4. LineIsDue'
    <2>1. Accepted(Sent - Left)' = Accepted(Sent - Left)
      BY <1>1, <1>2 DEF Accepted
    <2> QED
      BY <1>1, <1>2, <2>1 DEF IInv, LineIsDue
  <1>5. MarkIsTheNewPane'
    <2>1. FocusedPane(plan[at], at)' = FocusedPane(plan[at], at)
      BY <1>1 DEF FocusedPane, NewPane
    <2> QED
      BY <1>1, <1>2, <2>1 DEF IInv, MarkIsTheNewPane
  <1>6. VerdictIsDue' /\ PrintedIsDone' /\ EndedIsOver'
    BY <1>1 DEF IInv, VerdictIsDue, PrintedIsDone, EndedIsOver, Running, Members
  <1>7. PastIsComplete' /\ OutcomesAreTrue'
    BY <1>1 DEF PastIsComplete, OutcomesAreTrue, Running
  <1>8. RunsAsRecorded'
    BY <1>1 DEF IInv, RunsAsRecorded
  <1>9. ErrorsAreTrue'
    BY <1>1, EffectIsTrue DEF ErrorsAreTrue, Changed
  <1> QED
    BY <1>2, <1>3, <1>4, <1>5, <1>6, <1>7, <1>8, <1>9 DEF IInv

\* What is known of an invocation whose exit status has come.
LEMMA VerdictFacts ==
  ASSUME IInv, Running, verdict # "none"
  PROVE  /\ line = <<>> /\ at \in Index /\ at \in Nat /\ steps[at].first = at
         /\ steps[at].last \in at .. Length /\ steps[at].last \in Nat
         /\ steps[at].marked \in BOOLEAN
         /\ Members(steps[at]) = at .. steps[at].last /\ at \in Members(steps[at])
         /\ Members(steps[at]) \subseteq Index
         /\ Len(ran) \in Nat
         /\ verdict = "ok" => Len(ran) = steps[at].last /\ refused = 0
         /\ verdict = "failed" => refused = Len(ran) + 1 /\ refused \in at .. steps[at].last
         /\ verdict \in {"ok", "failed"}
         /\ printed # 0 => Creates(plan[at]) /\ at <= Len(ran)
         /\ Creates(plan[at]) => ~ReadOnly(plan[at])
  <1>1. TypeOK /\ StepsFit /\ VerdictIsDue /\ verdict \in {"ok", "failed"}
    BY DEF IInv, TypeOK
  <1>2. line = <<>> /\ at \in Index
    BY <1>1 DEF VerdictIsDue
  <1>3. /\ steps[at].first = at /\ steps[at].last \in at .. Length
        /\ at \in Nat /\ steps[at].last \in Nat /\ steps[at].marked \in BOOLEAN
    BY <1>1, <1>2, PlanAssumption DEF StepsFit, Index, TypeOK
  <1>4. Members(steps[at]) = at .. steps[at].last
    BY <1>3 DEF Members
  <1>5. at \in Members(steps[at]) /\ Members(steps[at]) \subseteq Index
    BY <1>2, <1>3, <1>4, PlanAssumption DEF Index
  <1>6. Len(ran) \in Nat
    BY RanFacts
  <1>7. printed # 0 => Creates(plan[at]) /\ at <= Len(ran)
    BY <1>3, <1>6 DEF IInv, PrintedIsDone
  <1>8. Creates(plan[at]) => ~ReadOnly(plan[at])
    BY DEF Creates, ReadOnly
  <1> QED
    BY <1>1, <1>2, <1>3, <1>4, <1>5, <1>6, <1>7, <1>8 DEF VerdictIsDue

LEMMA MisreadsKeeps ==
  ASSUME IInv, Misreads
  PROVE  IInv'
  <1>1. /\ Running /\ verdict # "none" /\ verdict' = "none"
        /\ Evident(steps[at]) /\ Creates(plan[steps[at].first])
        /\ Failing("Decode", EffectThrough(steps[at]))
        /\ UNCHANGED <<plan, steps, at, bound, outcomes, effect, line, printed, current,
                       ran, refused, gone, mark>>
    BY DEF Misreads, request, tmux
  <1>2. /\ line = <<>> /\ at \in Index /\ Creates(plan[at]) /\ ~ReadOnly(plan[at])
        /\ at \in Members(steps[at]) /\ at <= Len(ran)
    <2>1. /\ line = <<>> /\ at \in Index /\ Creates(plan[at]) /\ ~ReadOnly(plan[at])
          /\ at \in Members(steps[at])
      BY <1>1, VerdictFacts
    <2>2. at <= Len(ran)
      BY <1>1, VerdictFacts DEF Evident
    <2> QED
      BY <2>1, <2>2
  <1>3. result' = "AfterEffect"
    BY <1>1, <1>2 DEF Failing, EffectThrough, Evident
  <1>4. Changed
    BY <1>2, RanFacts
  <1>5. StepsFit' /\ Valid(plan')
    BY <1>1, RequestStays DEF request, IInv
  <1>6. TypeOK'
    BY <1>1, <1>3 DEF IInv, TypeOK, Results
  <1>7. /\ LineIsDue' /\ VerdictIsDue' /\ PrintedIsDone' /\ MarkIsTheNewPane'
        /\ PastIsComplete' /\ EndedIsOver' /\ OutcomesAreTrue'
    BY <1>1, <1>2, <1>3 DEF LineIsDue, VerdictIsDue, PrintedIsDone, MarkIsTheNewPane,
       PastIsComplete, EndedIsOver, OutcomesAreTrue, Running
  <1>8. RunsAsRecorded'
    BY <1>1 DEF IInv, RunsAsRecorded
  <1>9. ErrorsAreTrue'
    BY <1>1, <1>3, <1>4 DEF ErrorsAreTrue, Changed
  <1> QED
    BY <1>5, <1>6, <1>7, <1>8, <1>9 DEF IInv

\* Behind its first operation an invocation creates nothing.
LEMMA OnlyTheFirstCreates ==
  ASSUME IInv, at \in Index, NEW i \in Members(steps[at]), Creates(plan[i])
  PROVE  i = at
  <1>1. /\ TypeOK /\ StepsFit /\ steps[at].first = at /\ steps[at].last \in at .. Length
        /\ at \in Nat /\ steps[at].last \in Nat /\ steps[at].marked \in BOOLEAN
    <2>1. TypeOK /\ StepsFit
      BY DEF IInv
    <2>2. steps[at].first = at /\ steps[at].last \in at .. Length
      BY <2>1 DEF StepsFit
    <2>3. at \in Nat /\ steps[at].last \in Nat
      BY <2>2, PlanAssumption DEF Index
    <2>4. steps[at].marked \in BOOLEAN
      BY <2>1 DEF TypeOK
    <2> QED
      BY <2>1, <2>2, <2>3, <2>4
  <1>2. i \in at .. steps[at].last /\ i \in Nat
    BY <1>1 DEF Members
  <1> SUFFICES ASSUME i # at PROVE FALSE
    OBVIOUS
  <1>3. i \in at + 1 .. steps[at].last /\ steps[at].last > at
    BY <1>1, <1>2
  <1>4. Chainable(plan[i])
    BY <1>1, <1>2, <1>3 DEF StepsFit, Decorates
  <1> QED
    BY <1>4 DEF Chainable

LEMMA ReportKeeps ==
  ASSUME IInv, Report
  PROVE  IInv'
  <1> DEFINE step == steps[at]
             last == steps[at].last
  <1>1. /\ Running /\ verdict # "none" /\ verdict' = "none"
        /\ outcomes' = [i \in Index |->
             IF i \notin Members(step) THEN outcomes[i]
             ELSE IF i \in Binds(step) THEN "Complete" ELSE Attribute(step, i)]
        /\ bound' = Binds(step)
        /\ effect' = IF verdict = "ok" THEN EffectThrough(step) ELSE effect
        /\ at' = IF verdict = "ok" THEN last + 1 ELSE at
        /\ result' = IF at' \in Index /\ verdict = "ok" THEN result ELSE "Done"
        /\ UNCHANGED <<plan, steps, line, printed, current, ran, refused, gone, mark>>
    BY DEF Report, request, tmux
  <1>2. /\ line = <<>> /\ at \in Index /\ at \in Nat /\ step.first = at
        /\ last \in at .. Length /\ last \in Nat /\ step.marked \in BOOLEAN
        /\ Members(step) = at .. last /\ at \in Members(step) /\ Members(step) \subseteq Index
        /\ Len(ran) \in Nat
        /\ verdict = "ok" => Len(ran) = last /\ refused = 0
        /\ verdict = "failed" => refused = Len(ran) + 1 /\ refused \in at .. last
        /\ verdict \in {"ok", "failed"}
        /\ printed # 0 => Creates(plan[at]) /\ at <= Len(ran)
        /\ Creates(plan[at]) => ~ReadOnly(plan[at])
    BY <1>1, VerdictFacts
  <1>3. /\ TypeOK
        /\ bound = {i \in Index : i < at /\ Creates(plan[i])}
        /\ \A i \in Index : outcomes[i] = IF i < at THEN "Complete" ELSE "Skipped"
        /\ effect <=> \E i \in Index : i < at /\ ~ReadOnly(plan[i])
    BY <1>1 DEF IInv, PastIsComplete
  <1>4. \A i \in Index : i \in Nat /\ (i \in Members(step) <=> at <= i /\ i <= last)
    BY <1>2, PlanAssumption DEF Index
  <1>5. /\ Binds(step) = IF Evident(step) /\ Creates(plan[at]) THEN bound \cup {at} ELSE bound
        /\ \A i \in Index : i \in Binds(step) =>
             i < at \/ (i = at /\ Evident(step) /\ Creates(plan[at]))
    BY <1>2, <1>3 DEF Binds
  <1>6. \A i \in Index : (\E n \in DOMAIN ran' : ran'[n][1] = i) <=> i <= Len(ran)
    BY <1>1, RanFacts
  <1> HIDE DEF last
  <1>7. StepsFit' /\ Valid(plan')
    <2>1. StepsFit' <=> StepsFit
      BY <1>1 DEF StepsFit, Decorates, Chainable, Creates, Slots, FocusedPane, NewPane
    <2>2. Valid(plan') <=> Valid(plan)
      BY <1>1
    <2> QED
      BY <2>1, <2>2 DEF IInv
  <1>8. TypeOK'
    <2>1. at' \in 1 .. Length + 1
      <3>1. last + 1 \in 1 .. Length + 1 /\ at \in 1 .. Length + 1
        BY <1>2, PlanAssumption DEF Index
      <3> QED
        BY <1>1, <3>1
    <2>2. \A i \in Index : Attribute(step, i) \in Outcomes
      BY DEF Attribute, Outcomes
    <2>3. outcomes' \in [Index -> Outcomes]
      BY <1>1, <1>3, <2>2 DEF TypeOK, Outcomes
    <2>4. bound' \subseteq Index
      BY <1>1, <1>2, <1>3, <1>5
    <2>5. effect' \in BOOLEAN
      <3>1. EffectThrough(step) \in BOOLEAN
        BY <1>3 DEF EffectThrough, TypeOK
      <3> QED
        BY <1>1, <1>3, <3>1 DEF TypeOK
    <2>6. result' \in Results
      BY <1>1, <1>3 DEF TypeOK, Results
    <2> QED
      BY <1>1, <1>3, <2>1, <2>3, <2>4, <2>5, <2>6 DEF TypeOK
  <1>9. LineIsDue' /\ PrintedIsDone' /\ MarkIsTheNewPane' /\ EndedIsOver'
    BY <1>1, <1>2 DEF LineIsDue, PrintedIsDone, MarkIsTheNewPane, EndedIsOver
  <1>10. RunsAsRecorded'
    BY <1>1 DEF IInv, RunsAsRecorded
  <1>11. ErrorsAreTrue'
    <2>1. result' \in {"running", "Done"}
      BY <1>1 DEF Running
    <2> QED
      BY <2>1 DEF ErrorsAreTrue
  <1>12. CASE verdict = "ok"
    <2>1. Len(ran) = last /\ refused = 0 /\ at' = last + 1
      BY <1>1, <1>2, <1>12
    <2>2. \A i \in Index : i < at' <=> i < at \/ i \in Members(step)
      BY <1>2, <1>4, <2>1
    <2>3. \A i \in Index : outcomes'[i] = IF i < at' THEN "Complete" ELSE "Skipped"
      <3> SUFFICES ASSUME NEW i \in Index
                   PROVE  outcomes'[i] = IF i < at' THEN "Complete" ELSE "Skipped"
        OBVIOUS
      <3>1. CASE i \in Members(step)
        BY <1>1, <1>12, <2>2, <3>1 DEF Attribute
      <3>2. CASE i \notin Members(step)
        BY <1>1, <1>3, <2>2, <3>2
      <3> QED
        BY <3>1, <3>2
    <2>4. bound' = {i \in Index : i < at' /\ Creates(plan[i])}
      <3>1. Evident(step)
        BY <1>12 DEF Evident
      <3>2. \A i \in Members(step) : Creates(plan[i]) => i = at
        BY <1>2, OnlyTheFirstCreates
      <3> QED
        BY <1>1, <1>2, <1>3, <1>5, <2>2, <3>1, <3>2
    <2>5. effect' <=> \E i \in Index : i < at' /\ ~ReadOnly(plan[i])
      <3>1. effect' <=> effect \/ \E i \in Members(step) : ~ReadOnly(plan[i])
        BY <1>1, <1>2, <1>12 DEF EffectThrough
      <3> QED
        BY <1>2, <1>3, <2>2, <3>1
    <2>6. PastIsComplete'
      BY <1>1, <2>3, <2>4, <2>5 DEF PastIsComplete
    <2>7. VerdictIsDue'
      <3>1. Len(ran) = at' - 1
        BY <1>2, <2>1
      <3> QED
        BY <1>1, <2>1, <3>1 DEF VerdictIsDue
    <2>8. OutcomesAreTrue'
      <3> SUFFICES ASSUME result' = "Done", NEW i \in Index
                   PROVE  outcomes'[i] = "Complete" /\ \E n \in DOMAIN ran' : ran'[n][1] = i
        BY DEF OutcomesAreTrue
      <3>1. last + 1 \notin 1 .. Length
        BY <1>1, <1>12, <2>1 DEF Running, Index
      <3>2. last = Length
        BY <1>2, <3>1, PlanAssumption
      <3>3. i <= Len(ran) /\ i < at'
        BY <1>2, <2>1, <3>2, PlanAssumption DEF Index
      <3> QED
        BY <1>6, <2>3, <3>3
    <2> QED
      BY <1>7, <1>8, <1>9, <1>10, <1>11, <2>6, <2>7, <2>8 DEF IInv
  <1>13. CASE verdict = "failed"
    <2>1. refused = Len(ran) + 1 /\ refused \in at .. last /\ at' = at /\ result' = "Done"
      BY <1>1, <1>2, <1>13
    <2>2. PastIsComplete' /\ VerdictIsDue'
      BY <1>1, <2>1 DEF PastIsComplete, VerdictIsDue, Running
    <2>3. OutcomesAreTrue'
      <3>1. \A i \in Index : i < at \/ (i = at /\ Evident(step) /\ Creates(plan[at])) => i <= Len(ran)
        <4>1. Evident(step) => printed # 0
          BY <1>13 DEF Evident
        <4>2. \A i \in Index : i < at => i <= Len(ran)
          BY <1>2, <1>4, <2>1
        <4> QED
          BY <1>2, <4>1, <4>2
      <3>2. ASSUME NEW i \in Index, i \notin Members(step)
            PROVE  \/ outcomes'[i] = "Complete" /\ i <= Len(ran)
                   \/ outcomes'[i] = "Skipped" /\ ~(i <= Len(ran)) /\ refused \in 1 .. i - 1
        <4>1. outcomes'[i] = IF i < at THEN "Complete" ELSE "Skipped"
          BY <1>1, <1>3, <3>2
        <4>2. i < at \/ (last < i /\ ~(i < at))
          BY <1>2, <1>4, <3>2
        <4>3. last < i => ~(i <= Len(ran)) /\ refused \in 1 .. i - 1
          BY <1>2, <1>4, <2>1
        <4> QED
          BY <3>1, <4>1, <4>2, <4>3
      <3>3. ASSUME NEW i \in Members(step)
            PROVE  \/ outcomes'[i] = "Complete" /\ i <= Len(ran)
                   \/ outcomes'[i] = "Failed" /\ i = refused
                   \/ outcomes'[i] = "Unknown" /\ {i, refused} \subseteq Members(step)
        <4>1. i \in Index /\ refused \in Members(step)
          BY <1>2, <2>1
        <4>2. outcomes'[i] = IF i \in Binds(step) THEN "Complete" ELSE Attribute(step, i)
          BY <1>1, <3>3, <4>1
        <4>3. CASE i \in Binds(step)
          BY <1>5, <3>1, <4>1, <4>2, <4>3
        <4>4. CASE i \notin Binds(step) /\ at = last
          <5>1. i = refused
            BY <1>2, <2>1, <3>3, <4>4
          <5> QED
            BY <1>2, <1>13, <4>2, <4>4, <5>1 DEF Attribute, last
        <4>5. CASE i \notin Binds(step) /\ at # last
          BY <1>2, <1>13, <3>3, <4>1, <4>2, <4>5 DEF Attribute, last
        <4> QED
          BY <4>3, <4>4, <4>5
      <3>4. refused' = refused /\ Members(steps[at])' = Members(step)
        BY <1>1, <2>1 DEF Members
      <3> SUFFICES ASSUME NEW i \in Index
                   PROVE  LET accepted == \E n \in DOMAIN ran' : ran'[n][1] = i
                          IN /\ outcomes'[i] = "Complete" => accepted
                             /\ outcomes'[i] = "Failed" => i = refused
                             /\ outcomes'[i] = "Skipped" => ~accepted /\ refused \in 1 .. i - 1
                             /\ outcomes'[i] = "Unknown" => {i, refused} \subseteq Members(step)
        BY <3>4 DEF OutcomesAreTrue
      <3>5. CASE i \notin Members(step)
        BY <1>6, <3>2, <3>5
      <3>6. CASE i \in Members(step)
        BY <1>6, <3>3, <3>6
      <3> QED
        BY <3>5, <3>6
    <2> QED
      BY <1>7, <1>8, <1>9, <1>10, <1>11, <2>2, <2>3 DEF IInv
  <1> QED
    BY <1>2, <1>12, <1>13

-----------------------------------------------------------------------------
(* The theorems.                                                           *)

LEMMA InitHolds ==
  ASSUME Init
  PROVE  IInv
  <1>1. /\ plan \in [Index -> Op] /\ Valid(plan) /\ at = 1 /\ line = <<>> /\ verdict = "none"
        /\ printed = 0 /\ bound = {} /\ outcomes = [i \in Index |-> "Skipped"]
        /\ effect = FALSE /\ result = "running" /\ ran = <<>> /\ refused = 0
        /\ gone = {} /\ current = Existing /\ mark \in {NoObject, Existing}
    BY DEF Init
  <1>2. PICK planner \in {"Sequential", "Folding", "Marked"} : steps = Steps(plan, planner)
    BY DEF Init
  <1>3. \A i \in Index : i \in Nat /\ i \in i .. Length
    BY PlanAssumption DEF Index
  <1>4. ASSUME NEW i \in Index
        PROVE  /\ steps[i] \in [first : Index, last : Index, marked : BOOLEAN]
               /\ steps[i].first = i /\ steps[i].last \in i .. Length
               /\ steps[i].marked =>
                    steps[i].last > i /\ \A j \in i + 1 .. steps[i].last : Decorates(i, j)
               /\ ~steps[i].marked /\ steps[i].last > i =>
                    \A j \in i .. steps[i].last : Chainable(plan[j])
    <2>1. steps[i] = Step(plan, planner, i)
      BY <1>2 DEF Steps
    <2>2. i .. Length \subseteq Index
      BY PlanAssumption DEF Index
    <2>3. CASE planner = "Marked" /\ Decorated(plan, i) > i
      <3> DEFINE last == Decorated(plan, i)
      <3>1. /\ last \in i .. Length
            /\ i + 1 .. last \subseteq {j \in Chain(plan) : /\ Slots(plan[j]) # {}
                                      /\ Slots(plan[j]) \subseteq FocusedPane(plan[i], i)}
        BY ThroughJoins DEF Decorated
      <3>2. steps[i] = [first |-> i, last |-> last, marked |-> TRUE]
        BY <2>1, <2>3 DEF Step
      <3>3. \A j \in i + 1 .. last : Decorates(i, j)
        BY <3>1 DEF Decorates, Chain
      <3> HIDE DEF last
      <3>4. last > i
        BY <2>3 DEF last
      <3> QED
        BY <2>2, <3>1, <3>2, <3>3, <3>4
    <2>4. CASE ~(planner = "Marked" /\ Decorated(plan, i) > i)
      <3> DEFINE last == IF planner # "Sequential" /\ Chainable(plan[i])
                         THEN Through(i, Chain(plan)) ELSE i
      <3>1. steps[i] = [first |-> i, marked |-> FALSE, last |-> last]
        BY <2>1, <2>4 DEF Step
      <3>2. /\ last \in i .. Length
            /\ last > i => \A j \in i .. last : Chainable(plan[j])
        <4>1. CASE planner # "Sequential" /\ Chainable(plan[i])
          <5>1. /\ Through(i, Chain(plan)) \in i .. Length
                /\ i + 1 .. Through(i, Chain(plan)) \subseteq Chain(plan)
            BY ThroughJoins
          <5>2. last = Through(i, Chain(plan))
            BY <4>1
          <5> HIDE DEF last
          <5>3. \A j \in i .. last : j = i \/ j \in i + 1 .. last
            BY <1>3
          <5> QED
            BY <4>1, <5>1, <5>2, <5>3 DEF Chain
        <4>2. CASE ~(planner # "Sequential" /\ Chainable(plan[i]))
          BY <1>3, <4>2
        <4> QED
          BY <4>1, <4>2
      <3> HIDE DEF last
      <3> QED
        BY <2>2, <3>1, <3>2
    <2> QED
      BY <2>3, <2>4
  <1>5. StepsFit
    BY <1>4 DEF StepsFit
  <1>6. TypeOK
    <2>1. DOMAIN steps = Index /\ steps = [i \in Index |-> steps[i]]
      BY <1>2 DEF Steps
    <2>2. steps \in [Index -> [first : Index, last : Index, marked : BOOLEAN]]
      BY <1>4, <2>1
    <2>3. 0 \in 0 .. Length /\ 1 \in 1 .. Length + 1
      BY PlanAssumption
    <2>4. Existing \in Objects /\ NoObject \in Objects
      BY <2>3 DEF Objects, Existing, NoObject
    <2>5. line \in Seq(Commands) /\ ran \in Seq(Index \X Objects)
      BY <1>1
    <2>6. outcomes \in [Index -> Outcomes]
      BY <1>1 DEF Outcomes
    <2>7. /\ at \in 1 .. Length + 1 /\ printed \in 0 .. Length /\ refused \in 0 .. Length
          /\ current \in Objects /\ mark \in Objects
      BY <1>1, <2>3, <2>4
    <2> QED
      BY <1>1, <2>2, <2>5, <2>6, <2>7 DEF TypeOK, Results
  <1>7. LineIsDue /\ VerdictIsDue /\ PrintedIsDone /\ MarkIsTheNewPane /\ EndedIsOver
    BY <1>1 DEF LineIsDue, VerdictIsDue, PrintedIsDone, MarkIsTheNewPane, EndedIsOver
  <1>8. PastIsComplete
    <2>1. \A i \in Index : ~(i < 1)
      BY DEF Index
    <2> QED
      BY <1>1, <2>1 DEF PastIsComplete
  <1>9. RunsAsRecorded /\ OutcomesAreTrue /\ ErrorsAreTrue
    BY <1>1 DEF RunsAsRecorded, OutcomesAreTrue, ErrorsAreTrue
  <1> QED
    BY <1>1, <1>5, <1>6, <1>7, <1>8, <1>9 DEF IInv

\* Every step of a run keeps the invariant.
THEOREM Invariance == Spec => []IInv
  <1>1. Init => IInv
    BY InitHolds
  <1>2. IInv /\ [Next]_vars => IInv'
    <2> SUFFICES ASSUME IInv, [Next]_vars PROVE IInv'
      OBVIOUS
    <2>1. CASE Dispatch
      BY <2>1, DispatchKeeps
    <2>2. CASE Lose
      BY <2>2, LoseKeeps
    <2>3. CASE Report
      BY <2>3, ReportKeeps
    <2>4. CASE Misreads
      BY <2>4, MisreadsKeeps
    <2>5. CASE Accepts
      BY <2>5, AcceptsKeeps
    <2>6. CASE Refuses
      BY <2>6, RefusesKeeps
    <2>7. CASE Marks
      BY <2>7, MarksKeeps
    <2>8. CASE Interferes
      BY <2>8, InterferesKeeps
    <2>9. CASE UNCHANGED vars
      <3>1. UNCHANGED <<plan, steps, at, line, verdict, printed, bound, outcomes, effect,
                        result, ran, refused, gone, current, mark>>
        BY <2>9 DEF vars
      <3>2. /\ StepsFit' /\ Valid(plan') /\ Sent' = Sent /\ Left' = Left
            /\ Lower(steps[at])' = Lower(steps[at])
        BY <3>1, RequestStays DEF request, IInv, Left
      <3>3. Accepted(Sent - Left)' = Accepted(Sent - Left)
        BY <3>1, <3>2 DEF Accepted
      <3>4. FocusedPane(plan[at], at)' = FocusedPane(plan[at], at)
        BY <3>1 DEF FocusedPane, NewPane
      <3>5. TypeOK' /\ LineIsDue' /\ MarkIsTheNewPane'
        BY <3>1, <3>2, <3>3, <3>4 DEF IInv, TypeOK, LineIsDue, MarkIsTheNewPane
      <3>6. VerdictIsDue' /\ PrintedIsDone' /\ EndedIsOver' /\ PastIsComplete'
        BY <3>1 DEF IInv, VerdictIsDue, PrintedIsDone, EndedIsOver, PastIsComplete, Running, Members
      <3>7. RunsAsRecorded' /\ OutcomesAreTrue' /\ ErrorsAreTrue'
        BY <3>1 DEF IInv, RunsAsRecorded, OutcomesAreTrue, ErrorsAreTrue, Members
      <3> QED
        BY <3>2, <3>5, <3>6, <3>7 DEF IInv
    <2> QED
      BY <2>1, <2>2, <2>3, <2>4, <2>5, <2>6, <2>7, <2>8, <2>9 DEF Next
  <1> QED
    BY <1>1, <1>2, PTL DEF Spec

\* The planners group a plan of any length without reordering it: what tmux
\* accepts is the plan from its first operation on, each operation done to the
\* object it names, the marked pane included.
THEOREM PlannersKeepTheOrder == Spec => []RunsAsRecorded
  <1>1. IInv => RunsAsRecorded
    BY DEF IInv
  <1> QED
    BY <1>1, Invariance, PTL

\* What a finished run says of each operation, from exit statuses of whole
\* invocations, is what tmux did with it.
THEOREM ReportsAreTrue == Spec => []OutcomesAreTrue
  <1>1. IInv => OutcomesAreTrue
    BY DEF IInv
  <1> QED
    BY <1>1, Invariance, PTL

\* An error to be retried left nothing changed, one that follows an effect says
\* so, and no valid plan fails for want of an id.
THEOREM ErrorsTellOfEffects == Spec => []ErrorsAreTrue
  <1>1. IInv => ErrorsAreTrue
    BY DEF IInv
  <1> QED
    BY <1>1, Invariance, PTL

=============================================================================
