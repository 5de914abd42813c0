------------------------------- MODULE PlanRun -------------------------------
(***************************************************************************)
(* A plan and its run (crates/libtmux/src/plan.rs, plan/planner.rs,         *)
(* plan/run.rs): operations recorded in order, some of them addressing what *)
(* an earlier one will create, grouped into tmux invocations by a planner   *)
(* and reported one by one from the exit status of each invocation.         *)
(*                                                                          *)
(* tmux runs the commands of an invocation in order and drops what follows  *)
(* the first it refuses.  It serves others between two invocations and      *)
(* while a pause keeps one waiting, and not between other commands of one.  *)
(* Running a plan over a control-mode connection is the Sequential planner. *)
(***************************************************************************)
EXTENDS Naturals, Sequences, FiniteSetsExt

CONSTANT Length     \* bound: operations of a plan

ASSUME PlanAssumption == Length \in Nat \ {0}

VARIABLES
  plan,      \* the recorded operations
  steps,     \* per operation: the invocation the planner would begin with it
  at,        \* the operation that begins the invocation to send, or waited for
  line,      \* the commands of it that tmux has still to run
  verdict,   \* its exit status, once there is one
  printed,   \* the creation whose ids it has printed, or 0
  bound,     \* the creations whose ids the run has read
  outcomes,  \* per operation: what is to be reported of it
  effect,    \* effect_seen
  result,    \* how the run ended
  ran,       \* what tmux accepted, and which object each was done to
  refused,   \* the operation tmux refused, or 0
  gone,      \* the panes that were killed
  current,   \* the pane that is active in the invocation being run
  mark       \* tmux's marked pane

vars == <<plan, steps, at, line, verdict, printed, bound, outcomes, effect,
          result, ran, refused, gone, current, mark>>

request == <<plan, steps>>

run == <<at, bound, outcomes, effect, result>>

invocation == <<line, verdict, printed, current>>

tmux == <<ran, refused, gone, mark>>

-----------------------------------------------------------------------------
(* Operations.  An object is a part of what an operation creates; operation *)
(* 0 stands for everything that is there before.                           *)

Index == 1 .. Length

Objects == (0 .. Length) \X {"created", "firstPane"}

Existing == <<0, "created">>

NoObject == <<0, "firstPane">>

Op == [kind : {"split"}, focus : BOOLEAN, on : Objects \ {NoObject}]
        \cup [kind : {"window"}, focus : BOOLEAN, on : {Existing}]
        \cup [kind : {"type", "rename", "kill", "read"}, focus : {FALSE},
              on : Objects \ {NoObject}]
        \cup [kind : {"pause"}, focus : {FALSE}, on : {Existing}]

Creates(op) == op.kind \in {"split", "window"}

ReadOnly(op) == op.kind \in {"read", "pause"}

Chainable(op) == ~Creates(op) /\ op.kind # "read"

Slots(op) == IF op.on = Existing THEN {} ELSE {op.on}

\* output_scope: what a part of an operation is, if it makes one.
OutputScope(op, part) ==
  CASE op.kind = "split" /\ part = "created" -> "pane"
    [] op.kind = "window" /\ part = "created" -> "window"
    [] op.kind = "window" /\ part = "firstPane" -> "pane"
    [] OTHER -> "none"

\* Which scopes an operation takes as its target.
Expects(op) ==
  CASE op.kind = "split" -> {"pane", "window"}
    [] op.kind = "rename" -> {"window"}
    [] op.kind \in {"window", "pause"} -> {}
    [] OTHER -> {"pane"}

\* validate: the source is earlier and makes an object of that kind.
Valid(p) ==
  \A i \in Index : \A slot \in Slots(p[i]) :
    slot[1] \in 1 .. i - 1 /\ OutputScope(p[slot[1]], slot[2]) \in Expects(p[i])

-----------------------------------------------------------------------------
(* The planner                                                             *)

\* The pane a creation makes, focused or not.  Marked whatever the focus, it is
\* a bug the checks must notice.
NewPane(op, i) ==
  CASE op.kind = "split" -> {<<i, "created">>}
    [] op.kind = "window" -> {<<i, "firstPane">>}
    [] OTHER -> {}

\* focused_pane: the pane a creation leaves active.
FocusedPane(op, i) == IF op.focus THEN NewPane(op, i) ELSE {}

\* The last of the operations after i that may share with it, or i itself.
Through(i, joining) == Max({e \in i .. Length : i + 1 .. e \subseteq joining})

Chain(p) == {j \in Index : Chainable(p[j])}

Decorated(p, i) ==
  Through(i, {j \in Chain(p) : /\ Slots(p[j]) # {}
                               /\ Slots(p[j]) \subseteq FocusedPane(p[i], i)})

Step(p, planner, i) ==
  IF planner = "Marked" /\ Decorated(p, i) > i
  THEN [first |-> i, last |-> Decorated(p, i), marked |-> TRUE]
  ELSE [first |-> i, marked |-> FALSE,
        last |-> IF planner # "Sequential" /\ Chainable(p[i])
                 THEN Through(i, Chain(p)) ELSE i]

\* The grouping: one invocation begins where the one before it ended.
Steps(p, planner) == [i \in Index |-> Step(p, planner, i)]

Members(step) == step.first .. step.last

-----------------------------------------------------------------------------

Outcomes == {"Complete", "Failed", "Skipped", "Unknown"}

Init ==
  /\ plan \in {p \in [Index -> Op] : Valid(p)}
  /\ steps \in {Steps(plan, planner) : planner \in {"Sequential", "Folding", "Marked"}}
  /\ at = 1 /\ line = <<>> /\ verdict = "none" /\ printed = 0
  /\ bound = {} /\ outcomes = [i \in Index |-> "Skipped"]
  /\ effect = FALSE /\ result = "running"
  /\ ran = <<>> /\ refused = 0 /\ gone = {} /\ current = Existing
  /\ mark \in {NoObject, Existing}

Running == result = "running"

\* after_plan_effect: an error that follows an effect is not to be retried.
Failing(kind, seen) == result' = IF seen THEN "AfterEffect" ELSE kind

\* render_step: a slot becomes the id that was bound, or the marked pane.
Token(step, object) ==
  IF step.marked /\ object \in FocusedPane(plan[step.first], step.first)
  THEN "marked" ELSE "id"

Renders(step) ==
  \A i \in Members(step) : \A slot \in Slots(plan[i]) :
    slot[1] \in bound \/ Token(step, slot) = "marked"

Command(step, i) == [op |-> i, does |-> "op", token |-> Token(step, plan[i].on)]

Register(flag) == [op |-> 0, does |-> flag, token |-> "id"]

Lower(step) ==
  LET ops(from) == [n \in 1 .. step.last - from + 1 |-> Command(step, from + n - 1)]
  IN IF step.marked
     THEN <<Command(step, step.first), Register("mark")>> \o ops(step.first + 1)
            \o <<Register("unmark")>>
     ELSE ops(step.first)

\* Send the next invocation, or fail before tmux has any of it.
Dispatch ==
  /\ Running /\ at \in Index /\ line = <<>> /\ verdict = "none"
  /\ \/ /\ Renders(steps[at]) /\ line' = Lower(steps[at])
        /\ printed' = 0 /\ current' = Existing /\ UNCHANGED <<verdict, run>>
     \/ /\ Renders(steps[at]) /\ Failing("Transient", effect)
        /\ UNCHANGED <<at, bound, outcomes, effect, invocation>>
     \/ /\ ~Renders(steps[at]) /\ Failing("Unbound", effect)
        /\ UNCHANGED <<at, bound, outcomes, effect, invocation>>
  /\ UNCHANGED <<request, tmux>>

\* The answer is lost: tmux may have run, and may yet run, any part of it.
Lose ==
  /\ Running /\ (line # <<>> \/ verdict # "none") /\ Failing("Unsure", effect)
  /\ UNCHANGED <<request, at, bound, outcomes, effect, invocation, tmux>>

-----------------------------------------------------------------------------
(* tmux                                                                    *)

Target(c) == IF c.token = "marked" THEN mark ELSE plan[c.op].on

Addressable(c) == Target(c) # NoObject /\ Target(c) \notin gone

Advances == /\ line' = Tail(line)
            /\ verdict' = IF Len(line) = 1 THEN "ok" ELSE verdict

\* The command is accepted and done.
Accepts ==
  /\ line # <<>> /\ Head(line).does = "op" /\ Addressable(Head(line))
  /\ LET c == Head(line)
         op == plan[c.op] IN
     /\ ran' = Append(ran, <<c.op, Target(c)>>)
     /\ gone' = IF op.kind = "kill" THEN gone \cup ({Target(c)} \ {Existing}) ELSE gone
     /\ mark' = IF op.kind = "kill" /\ mark = Target(c) THEN NoObject ELSE mark
     /\ printed' = IF Creates(op) THEN c.op ELSE printed
     /\ current' = IF op.focus THEN CHOOSE o \in NewPane(op, c.op) : TRUE ELSE current
  /\ Advances /\ UNCHANGED <<request, run, refused>>

\* The target is not there, or tmux has a reason of its own.
Refuses ==
  /\ line # <<>> /\ Head(line).does = "op"
  /\ refused' = Head(line).op /\ line' = <<>> /\ verdict' = "failed"
  /\ UNCHANGED <<request, run, printed, current, ran, gone, mark>>

\* select-pane -m and -M.
Marks ==
  /\ line # <<>> /\ Head(line).does # "op"
  /\ mark' = IF Head(line).does = "mark" THEN current ELSE NoObject
  /\ Advances /\ UNCHANGED <<request, run, printed, current, ran, refused, gone>>

\* Another client marks a pane of its own or kills one of the plan's.
ServesOthers ==
  line # <<>> => /\ Head(line).does = "op"
                 /\ plan[Head(line).op].kind = "pause"

Interferes ==
  /\ ServesOthers /\ Running
  /\ \/ mark # Existing /\ mark' = Existing /\ UNCHANGED gone
     \/ \E i \in Index, part \in {"created", "firstPane"} :
          /\ \E n \in DOMAIN ran : ran[n][1] = i
          /\ OutputScope(plan[i], part) = "pane" /\ <<i, part>> \notin gone
          /\ gone' = gone \cup {<<i, part>>}
          /\ mark' = IF mark = <<i, part>> THEN NoObject ELSE mark
  /\ UNCHANGED <<request, run, invocation, ran, refused>>

-----------------------------------------------------------------------------
(* The answer                                                              *)

\* A bug the checks must notice: the first member takes the blame.
AttributeFirst(step, i) ==
  IF verdict = "ok" THEN "Complete"
  ELSE IF i = step.first THEN "Failed" ELSE "Skipped"

\* attribute: a failed group says that one of its members failed, never which.
Attribute(step, i) ==
  IF verdict = "ok" THEN "Complete"
  ELSE IF step.first = step.last THEN "Failed" ELSE "Unknown"

Evident(step) == verdict = "ok" \/ (step.marked /\ printed # 0)

\* A bug the checks must notice: the effect of the last invocation is all.
EffectOfStep(step) ==
  \/ verdict = "ok" /\ \E i \in Members(step) : ~ReadOnly(plan[i])
  \/ step.marked /\ printed # 0

EffectThrough(step) ==
  \/ effect
  \/ verdict = "ok" /\ \E i \in Members(step) : ~ReadOnly(plan[i])
  \/ step.marked /\ printed # 0

\* bind reads the ids of the first member, and a creation so named is done.
Binds(step) ==
  IF Evident(step) /\ Creates(plan[step.first]) THEN bound \cup {step.first} ELSE bound

Report ==
  /\ Running /\ verdict # "none"
  /\ LET step == steps[at] IN
     /\ outcomes' = [i \in Index |->
          IF i \notin Members(step) THEN outcomes[i]
          ELSE IF i \in Binds(step) THEN "Complete" ELSE Attribute(step, i)]
     /\ bound' = Binds(step)
     /\ effect' = IF verdict = "ok" THEN EffectThrough(step) ELSE effect
  /\ at' = IF verdict = "ok" THEN steps[at].last + 1 ELSE at
  /\ result' = IF at' \in Index /\ verdict = "ok" THEN result ELSE "Done"
  /\ verdict' = "none" /\ UNCHANGED <<request, line, printed, current, tmux>>

\* The ids a creation printed cannot be read.
Misreads ==
  /\ Running /\ verdict # "none"
  /\ Evident(steps[at]) /\ Creates(plan[steps[at].first])
  /\ Failing("Decode", EffectThrough(steps[at]))
  /\ verdict' = "none"
  /\ UNCHANGED <<request, at, bound, outcomes, effect, line, printed, current, tmux>>

Next == \/ Dispatch \/ Lose \/ Report \/ Misreads
        \/ Accepts \/ Refuses \/ Marks \/ Interferes

Spec == Init /\ [][Next]_vars

-----------------------------------------------------------------------------

\* Whichever planner grouped them, tmux runs the operations in the order they
\* were recorded, each on the object it names (planner.rs: "Changing the planner
\* changes the number of processes, never the result").
RunsAsRecorded ==
  \A n \in DOMAIN ran : ran[n] = <<n, plan[n].on>>

\* What a finished run says of an operation is what tmux did with it, and it
\* claims ignorance only of members of an invocation that failed.
OutcomesAreTrue ==
  result = "Done" =>
    \A i \in Index :
      LET accepted == \E n \in DOMAIN ran : ran[n][1] = i
      IN /\ outcomes[i] = "Complete" => accepted
         /\ outcomes[i] = "Failed" => i = refused
         /\ outcomes[i] = "Skipped" => ~accepted /\ refused \in 1 .. i - 1
         /\ outcomes[i] = "Unknown" => {i, refused} \subseteq Members(steps[at])

\* An error that is transient left nothing changed, one that says it follows an
\* effect does, and none is for want of an id a valid plan was to bind.
ErrorsAreTrue ==
  LET changed == \E n \in DOMAIN ran : ~ReadOnly(plan[ran[n][1]])
  IN /\ result = "Transient" => ~changed
     /\ result = "AfterEffect" => changed
     /\ result \notin {"Unbound", "Decode"}
=============================================================================
