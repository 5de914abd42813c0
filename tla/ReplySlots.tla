----------------------------- MODULE ReplySlots -----------------------------
(***************************************************************************)
(* The reply queue of one control-mode connection: `ReplySlots` in         *)
(* crates/libtmux/src/control/actor.rs.  tmux answers in order, so a slot  *)
(* is pushed for every line written and the front slot owns the next block *)
(* that completes.  A slot whose caller was refused stays behind as a      *)
(* tombstone that consumes its blocks.                                     *)
(*                                                                         *)
(* A value of the structure is a record with the code's three fields; the  *)
(* operators are its methods, as functions of the old value.  A caller is  *)
(* identified with its command line: a deadline, a number of commands and  *)
(* whether it carries an ordering boundary.                                *)
(***************************************************************************)
EXTENDS Integers, Sequences, FiniteSets, Functions

CONSTANTS
  Calls,      \* the calls of dispatch_line, each with one line to write
  Deadline,   \* the instant a call must be answered by, or Never
  Commands,   \* commands on the call's line: tmux answers each with a block
  Ordered,    \* whether the call's reply is a boundary in the event order
  Never       \* Option::None of a deadline

ASSUME CallAssumption ==
  /\ Never \notin Int
  /\ Deadline \in [Calls -> Nat \cup {Never}]
  /\ Commands \in [Calls -> Nat]
  /\ Ordered \in [Calls -> BOOLEAN]

\* A result block: the line it answers, which of its commands, and whether
\* tmux closed it with %end.  Line 0 answers nothing this end wrote.
Block == [line : Nat, cmd : Nat, ok : BOOLEAN]

Slot == [call : Calls, live : BOOLEAN, owed : Nat, received : Seq(Block)]

Replies == [slots : Seq(Slot), live : Nat, earliest : Nat \cup {Never}]

NoReplies == [slots |-> <<>>, live |-> 0, earliest |-> Never]

\* A line always owes at least one block.
Owed(c) == IF Commands[c] = 0 THEN 1 ELSE Commands[c]

\* Has the deadline passed?  A deadline of Never does not.
Passed(deadline, now) == deadline # Never /\ deadline <= now

EarliestDeadline(left, right) ==
  IF left = Never THEN right
  ELSE IF right = Never THEN left
  ELSE IF left <= right THEN left ELSE right

\* The minimum over the slots of a queue, as `iter().filter_map().min()`.
SlotDeadlines(slots) == {Deadline[slots[i].call] : i \in DOMAIN slots} \ {Never}

MinDeadline(slots) ==
  LET D == SlotDeadlines(slots)
  IN  IF D = {} THEN Never ELSE CHOOSE d \in D : \A e \in D : d <= e

HasLive(r) == r.live # 0

HasSlots(r) == r.slots # <<>>

\* The live slots, and the callers they still answer.
LiveAt(slots) == {i \in DOMAIN slots : slots[i].live}

LiveCalls(slots) == {slots[i].call : i \in LiveAt(slots)}

-----------------------------------------------------------------------------
\* Mutant: a caller that went away while its line was written leaves no slot.
PushOrderedNoTombstone(r, c, closed) ==
  IF closed THEN r
  ELSE [slots    |-> Append(r.slots, [call |-> c, live |-> TRUE, owed |-> Owed(c),
                                      received |-> <<>>]),
        live     |-> r.live + 1,
        earliest |-> EarliestDeadline(r.earliest, Deadline[c])]

\* Mutant: the new slot's deadline is not among the cached ones.
PushOrderedNoDeadline(r, c, closed) ==
  [slots    |-> Append(r.slots, [call |-> c, live |-> ~closed, owed |-> Owed(c),
                                 received |-> <<>>]),
   live     |-> IF closed THEN r.live ELSE r.live + 1,
   earliest |-> r.earliest]

\* Push the slot of a written line; `closed` says its caller is gone.
PushOrdered(r, c, closed) ==
  [slots    |-> Append(r.slots, [call |-> c, live |-> ~closed, owed |-> Owed(c),
                                 received |-> <<>>]),
   live     |-> IF closed THEN r.live ELSE r.live + 1,
   earliest |-> EarliestDeadline(r.earliest, Deadline[c])]

\* Whether the block is the last its slot is owed: tmux runs nothing after
\* the first command of a chain that fails.
IsLast(slot, block) == slot.owed <= 1 \/ ~block.ok

\* The front slot after one block that is not its last.
TookOne(slot, block) ==
  [slot EXCEPT !.owed = @ - 1,
               !.received = IF slot.live THEN Append(@, block) ELSE @]

\* Mutant: a tombstone counts as a live slot when it goes.
CompleteTombstone(r, block) ==
  IF r.slots = <<>> THEN r
  ELSE IF ~IsLast(Head(r.slots), block)
  THEN [r EXCEPT !.slots = [r.slots EXCEPT ![1] = TookOne(Head(r.slots), block)]]
  ELSE [slots    |-> Tail(r.slots),
        live     |-> r.live - 1,
        earliest |-> IF Deadline[Head(r.slots).call] = r.earliest
                     THEN MinDeadline(Tail(r.slots)) ELSE r.earliest]

\* Give a block to the front slot, popping it with its last block.  The
\* cached earliest deadline is recomputed only when it was the slot's own.
Complete(r, block) ==
  IF r.slots = <<>> THEN r
  ELSE IF ~IsLast(Head(r.slots), block)
  THEN [r EXCEPT !.slots = [r.slots EXCEPT ![1] = TookOne(Head(r.slots), block)]]
  ELSE [slots    |-> Tail(r.slots),
        live     |-> IF Head(r.slots).live THEN r.live - 1 ELSE r.live,
        earliest |-> IF Deadline[Head(r.slots).call] = r.earliest
                     THEN MinDeadline(Tail(r.slots)) ELSE r.earliest]

\* Whether the block completes the front slot.
Completes(r, block) == r.slots # <<>> /\ IsLast(Head(r.slots), block)

\* The whole reply the front slot's caller is sent with its last block.
WholeReply(r, block) == Append(Head(r.slots).received, block)

\* Turn every live slot into a tombstone; its caller is told it was refused.
RefuseLive(r) ==
  [slots    |-> [i \in DOMAIN r.slots |->
                   [r.slots[i] EXCEPT !.live = FALSE, !.received = <<>>]],
   live     |-> 0,
   earliest |-> r.earliest]

-----------------------------------------------------------------------------
\* The two caches are what a scan of the slots would give.
Exact(r) ==
  /\ r.live = Cardinality(LiveAt(r.slots))
  /\ r.earliest = MinDeadline(r.slots)

=============================================================================
