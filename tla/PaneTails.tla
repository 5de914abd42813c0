------------------------------ MODULE PaneTails ------------------------------
(***************************************************************************)
(* The pane tails of the MCP server (crates/tmux-mcp/src/tail.rs and       *)
(* tail/): "what has this pane written since I last looked".  A tail is a  *)
(* reader task and the ring of the output it keeps; the table retains a    *)
(* bounded number of them and drops the least recently read.  A caller     *)
(* holds a cursor and nothing else: the tail it came from may have been    *)
(* evicted and replaced, and the whole server may have restarted.          *)
(*                                                                         *)
(* A byte is named by its place in what the pane wrote, <<era, n>>: the    *)
(* n-th byte of the pane with that id under the era-th tmux server.  The   *)
(* stream of an attached reader is what ControlConnection shows it to be:  *)
(* every byte from the attach on, in order, until it ends.                 *)
(***************************************************************************)
EXTENDS Naturals, Sequences, SequencesExt, FiniteSets

CONSTANTS Panes,          \* the panes callers follow
          Callers,        \* the calls that may be in flight
          MaxTails,       \* MAX_TAILS
          RingBytes,      \* RING_BYTES
          SnapshotQueue,  \* SNAPSHOT_QUEUE
          NoPane, NoCaller,
          \* Bounds: bytes written in an era, epochs, servers of either kind, calls.
          MaxWritten, MaxEpoch, MaxOwner, MaxEra, MaxCalls

ASSUME TailsAssumption ==
  /\ {MaxTails, RingBytes, SnapshotQueue, MaxWritten, MaxEpoch, MaxOwner,
      MaxEra, MaxCalls} \subseteq Nat
  /\ MaxTails > 0 /\ RingBytes > 0 /\ SnapshotQueue > 0
  /\ MaxOwner > 0 /\ MaxEra > 0
  /\ NoPane \notin Panes /\ NoCaller \notin Callers

VARIABLES
  era,        \* which tmux server this is
  written,    \* per pane, how many bytes it has written in this era
  gone,       \* panes that were closed in this era
  owner,      \* Tails::identity: which MCP server process this is
  nextEpoch,  \* Tails::next_epoch
  tails,      \* per epoch: the tail, retained or not
  table,      \* TailTable: the epochs retained, least recently read first
  opener,     \* who holds the permit of Tails::opening
  calls,      \* per caller: the read in progress
  held,       \* per caller: the last answer, with the cursor in it
  made        \* calls made so far (bound)

vars == <<era, written, gone, owner, nextEpoch, tails, table, opener, calls,
          held, made>>

-----------------------------------------------------------------------------

Epochs == 1 .. MaxEpoch
Byte == (1 .. MaxEra) \X (1 .. MaxWritten)

\* The ring keeps the newest RingBytes bytes; start is the offset of the first.
Ring == [start : Nat, bytes : Seq(Byte), closed : BOOLEAN]

EmptyRing == [start |-> 0, bytes |-> <<>>, closed |-> FALSE]

RingEnd(ring) == ring.start + Len(ring.bytes)

Push(ring, chunk) ==
  LET all == ring.bytes \o chunk
      excess == IF Len(all) > RingBytes THEN Len(all) - RingBytes ELSE 0
  IN  [ring EXCEPT !.bytes = SubSeq(all, excess + 1, Len(all)),
                   !.start = @ + excess]

\* What a read from an offset finds: an offset outside the ring is a miss, and
\* one before it still gets everything that is retained.
ReadFrom(ring, offset) ==
  [bytes |-> IF offset > RingEnd(ring) THEN <<>>
             ELSE IF offset < ring.start THEN ring.bytes
             ELSE SubSeq(ring.bytes, offset - ring.start + 1, Len(ring.bytes)),
   missed |-> offset < ring.start \/ offset > RingEnd(ring)]

NoCursor == [owner |-> 0, epoch |-> 0, offset |-> 0]

\* A bug the checks must notice: a cursor is matched by its epoch alone.
ResumeAnyOwner(ring, cursor, epoch) ==
  IF cursor.epoch = epoch
  THEN [from |-> cursor.offset, stale |-> FALSE]
  ELSE [from |-> RingEnd(ring), stale |-> TRUE]

\* Where a read resumes: a cursor of another server or another tail names no
\* place in this ring.
ResumeAt(ring, cursor, epoch) ==
  IF cursor.owner = owner /\ cursor.epoch = epoch
  THEN [from |-> cursor.offset, stale |-> FALSE]
  ELSE [from |-> RingEnd(ring), stale |-> TRUE]

\* A reader is reading, capturing the screen for the call it serves, or over:
\* its stream ended or it was aborted.  got is the last byte it was sent.  A
\* request whose caller has gone keeps its place until the reader skips it.
PaneTail == [pane : Panes \cup {NoPane}, era : 0 .. MaxEra, got : Nat, ring : Ring,
             reader : {"none", "reading", "capturing", "over"},
             queue : Seq(Callers \cup {NoCaller}), serving : Callers \cup {NoCaller}]

NoTail == [pane |-> NoPane, era |-> 0, got |-> 0, ring |-> EmptyRing,
           reader |-> "none", queue |-> <<>>, serving |-> NoCaller]

NewTail(p) == [NoTail EXCEPT !.pane = p, !.era = era, !.got = written[p],
                             !.reader = "reading"]

\* Dropping a tail aborts its reader, and the requests it had go with it.
Aborted(tail) == [tail EXCEPT !.reader = "over", !.queue = <<>>,
                              !.serving = NoCaller]

\* The reader takes the next n bytes of its stream into the ring.
Receive(tail, n) ==
  [tail EXCEPT !.ring = Push(@, [i \in 1 .. n |-> <<tail.era, tail.got + i>>]),
               !.got = @ + n]

Unread(tail) == IF tail.era = era THEN written[tail.pane] - tail.got ELSE 0

\* TailTable: look a pane up, mark a tail as just read, publish one and drop one.
\* A tail is looked up by its place in the table, and a pane has at most one.
Retained(p) == {k \in DOMAIN table : tails[table[k]].pane = p}

Touched(k) == Append(RemoveAt(table, k), table[k])

\* A bug the checks must notice: the limit is compared with one tail too few.
EvictedLate == IF Len(table) > MaxTails THEN {Head(table)} ELSE {}

Evicted == IF Len(table) >= MaxTails THEN {Head(table)} ELSE {}

RemoveIfEpoch(p, e) ==
  \/ \E k \in Retained(p) : table[k] = e /\ table' = RemoveAt(table, k)
  \/ (\A k \in Retained(p) : table[k] # e) /\ UNCHANGED table

-----------------------------------------------------------------------------

Idle == [pc |-> "idle", pane |-> NoPane, first |-> FALSE, epoch |-> 0,
         offset |-> 0, last |-> <<0, 0>>]

\* A caller keeps a cursor.  `last` is the last byte of the pane its answers
\* account for: the caller knows it, the cursor does not say it.
NothingHeld == [pane |-> NoPane, cursor |-> NoCursor, last |-> <<0, 0>>]

\* Since: what a read with a cursor answers from the tail it retained, under
\* the one lock of its ring.
Since(c) ==
  LET tail == tails[calls[c].epoch]
      at == ResumeAt(tail.ring, held[c].cursor, calls[c].epoch)
      found == ReadFrom(tail.ring, at.from)
  IN  [text |-> found.bytes, missed |-> found.missed \/ at.stale,
       closed |-> tail.ring.closed, offset |-> RingEnd(tail.ring),
       last |-> <<tail.era, tail.got>>]

Holding(c, offset, last) ==
  [pane |-> calls[c].pane, last |-> last,
   cursor |-> [owner |-> owner, epoch |-> calls[c].epoch, offset |-> offset]]

TypeOK ==
  /\ era \in 1 .. MaxEra /\ owner \in 1 .. MaxOwner /\ nextEpoch \in 0 .. MaxEpoch
  /\ written \in [Panes -> 0 .. MaxWritten] /\ gone \subseteq Panes
  /\ \A e \in Epochs :
       /\ tails[e] \in PaneTail
       /\ Len(tails[e].ring.bytes) <= RingBytes
       /\ Len(tails[e].queue) <= SnapshotQueue
       /\ tails[e].reader \in {"reading", "capturing"} => e \in Range(table)
  /\ table \in BoundedSeq(1 .. nextEpoch, MaxTails)
  /\ \A i, j \in DOMAIN table : tails[table[i]].pane = tails[table[j]].pane => i = j
  /\ opener \in Callers \cup {NoCaller}
  /\ \A c \in Callers : calls[c].pc = "attaching" <=> opener = c

Init ==
  /\ era = 1 /\ owner = 1 /\ nextEpoch = 0 /\ made = 0
  /\ written = [p \in Panes |-> 0] /\ gone = {}
  /\ tails = [e \in Epochs |-> NoTail] /\ table = <<>> /\ opener = NoCaller
  /\ calls = [c \in Callers |-> Idle] /\ held = [c \in Callers |-> NothingHeld]

\* A tail is freed with the last that refers to it: the table or a call.
Referred(e) == e \in Range(table') \/ \E c \in Callers : calls'[c].epoch = e

Keep(ts) == tails' = [e \in Epochs |-> IF Referred(e) THEN ts[e] ELSE NoTail]

Goes(c, pc, e) == calls' = [calls EXCEPT ![c].pc = pc, ![c].epoch = e]

Return(c) == calls' = [calls EXCEPT ![c] = Idle]

world == <<era, written, gone>>

\* Tails::read up to the fast path of ensure.  A first call has no cursor; a
\* later one must carry a cursor of the same pane, and the pane must be there.
Read(c, p, first) ==
  /\ calls[c].pc = "idle" /\ made < MaxCalls /\ made' = made + 1
  /\ p \notin gone /\ (first \/ held[c].pane = p)
  /\ \/ \E k \in Retained(p) :
          /\ table' = Touched(k)
          /\ calls' = [calls EXCEPT ![c] = [Idle EXCEPT !.pc = "retains",
                         !.pane = p, !.first = first, !.epoch = table[k]]]
     \/ /\ Retained(p) = {} /\ UNCHANGED table
        /\ calls' = [calls EXCEPT ![c] = [Idle EXCEPT !.pc = "absent",
                       !.pane = p, !.first = first]]
  /\ UNCHANGED <<world, owner, nextEpoch, tails, opener, held>>

\* The rest of ensure: one opener at a time, who looks again before attaching.
Open(c) ==
  /\ calls[c].pc = "absent"
  /\ \/ /\ opener # NoCaller /\ Return(c)
        /\ UNCHANGED <<nextEpoch, table, opener>>
     \/ \E k \in Retained(calls[c].pane) :
          /\ opener = NoCaller /\ table' = Touched(k) /\ Goes(c, "retains", table[k])
          /\ UNCHANGED <<nextEpoch, opener>>
     \/ /\ opener = NoCaller /\ Retained(calls[c].pane) = {} /\ nextEpoch < MaxEpoch
        /\ opener' = c /\ nextEpoch' = nextEpoch + 1 /\ Goes(c, "attaching", nextEpoch')
        /\ UNCHANGED table
  /\ UNCHANGED <<world, owner, tails, held, made>>

AttachFails(c) ==
  /\ calls[c].pc = "attaching" /\ opener' = NoCaller /\ Return(c)
  /\ UNCHANGED <<world, owner, nextEpoch, tails, table, held, made>>

Attach(c) ==
  /\ calls[c].pc = "attaching" /\ calls[c].pane \notin gone
  /\ LET e == calls[c].epoch IN
       /\ table' = Append(IF Evicted = {} THEN table ELSE Tail(table), e)
       /\ Goes(c, "retains", e)
       /\ Keep([x \in Epochs |-> IF x = e THEN NewTail(calls[c].pane)
                                 ELSE IF x \in Evicted THEN Aborted(tails[x])
                                 ELSE tails[x]])
  /\ opener' = NoCaller
  /\ UNCHANGED <<world, owner, nextEpoch, held, made>>

\* RetainedTail::snapshot: refused when the mailbox is full; a reader that is
\* over has dropped its end of it, and the read drops that tail.
Request(c) ==
  /\ calls[c].pc = "retains" /\ calls[c].first
  /\ LET e == calls[c].epoch IN
     \/ /\ tails[e].reader = "over" /\ Return(c) /\ RemoveIfEpoch(calls[c].pane, e)
        /\ Keep(tails)
     \/ /\ tails[e].reader # "over" /\ Len(tails[e].queue) = SnapshotQueue
        /\ Return(c) /\ UNCHANGED table /\ Keep(tails)
     \/ /\ tails[e].reader # "over" /\ Len(tails[e].queue) < SnapshotQueue
        /\ tails' = [tails EXCEPT ![e].queue = Append(@, c)]
        /\ Goes(c, "waits", e) /\ UNCHANGED table
  /\ UNCHANGED <<world, owner, nextEpoch, opener, held, made>>

\* The reader ended, or was aborted, with the request in its hands.
Stopped(c) ==
  /\ calls[c].pc = "waits" /\ tails[calls[c].epoch].reader = "over"
  /\ Return(c) /\ RemoveIfEpoch(calls[c].pane, calls[c].epoch) /\ Keep(tails)
  /\ UNCHANGED <<world, owner, nextEpoch, opener, held, made>>

\* The first answer: the screen, and the cursor of the place it was captured at.
AnswerFirst(c) ==
  /\ calls[c].pc = "answered" /\ Return(c)
  /\ held' = [held EXCEPT ![c] = Holding(c, calls[c].offset, calls[c].last)]
  /\ UNCHANGED <<world, owner, nextEpoch, table, opener, made>> /\ Keep(tails)

\* A later answer: what the ring holds from the cursor on.
AnswerSince(c) ==
  /\ calls[c].pc = "retains" /\ ~calls[c].first /\ Return(c)
  /\ held' = [held EXCEPT ![c] = Holding(c, Since(c).offset, Since(c).last)]
  /\ UNCHANGED <<world, owner, nextEpoch, table, opener, made>> /\ Keep(tails)

-----------------------------------------------------------------------------
(* The reader task                                                         *)

reading == <<world, owner, nextEpoch, table, opener, held, made>>

\* It prefers a request to output, and skips one whose caller has gone.
TakeRequest(e) ==
  /\ tails[e].reader = "reading" /\ tails[e].queue # <<>>
  /\ LET c == Head(tails[e].queue)
     IN  tails' = [tails EXCEPT ![e].queue = Tail(@), ![e].serving = c,
                     ![e].reader = IF c = NoCaller THEN @ ELSE "capturing"]
  /\ UNCHANGED <<calls, reading>>

\* PaneOutput::snapshot returns, with the output tmux ordered before the
\* capture pushed, whether it failed or not.
Capture(e) ==
  /\ tails[e].reader = "capturing"
  /\ \E n \in 0 .. Unread(tails[e]), answered \in {tails[e].era = era, FALSE} :
       LET c == tails[e].serving
           tail == Receive(tails[e], n)
       IN  /\ tails' = [tails EXCEPT ![e] = [tail EXCEPT !.reader = "reading",
                                                         !.serving = NoCaller]]
           /\ \/ c = NoCaller /\ UNCHANGED calls
              \/ /\ c # NoCaller /\ answered
                 /\ calls' = [calls EXCEPT ![c].pc = "answered",
                                ![c].offset = RingEnd(tail.ring),
                                ![c].last = <<tail.era, tail.got>>]
              \/ c # NoCaller /\ ~answered /\ Return(c)
  /\ UNCHANGED reading

Deliver(e) ==
  /\ tails[e].reader = "reading" /\ tails[e].queue = <<>>
  /\ \E n \in 1 .. Unread(tails[e]) : tails' = [tails EXCEPT ![e] = Receive(@, n)]
  /\ UNCHANGED <<calls, reading>>

\* The stream ends: the pane is gone, or the connection is.
StreamEnds(e) ==
  /\ tails[e].reader = "reading" /\ tails[e].queue = <<>>
  /\ tails' = [tails EXCEPT ![e].reader = "over", ![e].ring.closed = TRUE]
  /\ UNCHANGED <<calls, reading>>

-----------------------------------------------------------------------------
(* What happens around the tails                                           *)

\* A caller gives its call up: what it held and the place it waited in go.
Cancel(c) ==
  /\ calls[c].pc # "idle" /\ Return(c)
  /\ opener' = IF opener = c THEN NoCaller ELSE opener
  /\ UNCHANGED <<world, owner, nextEpoch, table, held, made>>
  /\ Keep([e \in Epochs |->
       [tails[e] EXCEPT !.serving = IF @ = c THEN NoCaller ELSE @,
                        !.queue = ReplaceAll(@, c, NoCaller)]])

\* Bound: no two panes write more than MaxWritten bytes in an era.
Write(p) ==
  /\ p \notin gone /\ written[p] < MaxWritten
  /\ \A q \in Panes \ {p} : written[p] + written[q] < MaxWritten
  /\ written' = [written EXCEPT ![p] = @ + 1]
  /\ UNCHANGED <<era, gone, owner, nextEpoch, tails, table, opener, calls, held, made>>

Close(p) ==
  /\ p \notin gone /\ gone' = gone \cup {p}
  /\ UNCHANGED <<era, written, owner, nextEpoch, tails, table, opener, calls, held, made>>

\* Another tmux server gives the same names to other panes.
TmuxRestarts ==
  /\ era < MaxEra /\ era' = era + 1
  /\ written' = [p \in Panes |-> 0] /\ gone' = {}
  /\ UNCHANGED <<owner, nextEpoch, tails, table, opener, calls, held, made>>

\* The MCP server restarts: its callers keep their cursors, it keeps nothing.
Restarts ==
  /\ owner < MaxOwner /\ owner' = owner + 1
  /\ nextEpoch' = 0 /\ opener' = NoCaller /\ table' = <<>>
  /\ tails' = [e \in Epochs |-> NoTail] /\ calls' = [c \in Callers |-> Idle]
  /\ UNCHANGED <<world, held, made>>

CallerStep(c) ==
  \/ Open(c) \/ AttachFails(c) \/ Attach(c) \/ Request(c) \/ Stopped(c)
  \/ AnswerFirst(c) \/ AnswerSince(c)

ReaderStep(e) == TakeRequest(e) \/ Capture(e) \/ Deliver(e) \/ StreamEnds(e)

Next ==
  \/ \E c \in Callers, p \in Panes, first \in BOOLEAN : Read(c, p, first)
  \/ \E c \in Callers : CallerStep(c) \/ Cancel(c)
  \/ \E e \in Epochs : ReaderStep(e)
  \/ \E p \in Panes : Write(p) \/ Close(p)
  \/ TmuxRestarts \/ Restarts

Spec == Init /\ [][Next]_vars

-----------------------------------------------------------------------------

\* An answer that does not say missed=true goes on exactly where the answers
\* before it ended: no byte of the pane is lost, repeated, or taken from
\* another tail, another MCP server or another pane of the same name (the
\* missed field of Since, tail.rs, and the comment above resume_at, ring.rs).
NoSilentGap ==
  \A c \in Callers :
    (calls[c].pc = "retains" /\ ~calls[c].first /\ ~Since(c).missed) =>
      LET from == held[c].last
          text == Since(c).text
      IN  /\ text = [i \in DOMAIN text |-> <<from[1], from[2] + i>>]
          /\ Since(c).last = <<from[1], from[2] + Len(text)>>

=============================================================================
