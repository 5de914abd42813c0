--------------------------- MODULE PaneOutputProofs --------------------------
(***************************************************************************)
(* What the two ways to follow a pane promise: the stream of libtmux and   *)
(* the retained tails of the MCP server.                                   *)
(*                                                                         *)
(* A stream says that its pane is gone only when it is, and no pane that   *)
(* appears is forgotten between the event that tells of it and the pass    *)
(* that mutes it, unless that pass fails, for any panes, chunks, changes   *)
(* and snapshots.                                                          *)
(*                                                                         *)
(* No answer of a pane tail hides a gap, for any number of panes, callers, *)
(* tails and restarts, any table and any ring. As long as a tail is there, *)
(* an offset of its ring and the byte of the pane it stands for keep their *)
(* distance (IsAt), whatever the ring has dropped. A cursor of this server *)
(* names such a place of its tail (HeldFits): an epoch is given out once,  *)
(* a tail is not freed while a call retains it (CallFits), and while a     *)
(* tail is being attached nobody has a cursor of its epoch (FreshIsUnused).*)
(***************************************************************************)
EXTENDS PaneStream, PaneTails, SequenceTheorems, TLAPS


-----------------------------------------------------------------------------
(* Streams: the inductive invariants.                                      *)

\* The verdict of a pass is true, and stays so: a pane does not come back.
VerdictIsTrue == handle = "gone" => where = "gone"

\* Some event that tells of a pane is still to be read.
GrownIsQueued == \E i \in DOMAIN queue : queue[i] = "grown"

\* A pass that will list the panes from now on is owed.
PassIsOwed == GrownIsQueued \/ narrowing = "dirty" \/ pass \in {"list", "again"}

\* A pane that is not muted yet is on the list of the pass, or of one to come,
\* or was skipped by a pass that failed and was the last one asked for.
UnmutedIsListed ==
  up /\ ended = "no" => \A o \in present \ muted : o \in listed \cup skipped \/ PassIsOwed

StreamIInv == StreamTypeOK /\ VerdictIsTrue /\ GoneMeansGone /\ UnmutedIsListed

-----------------------------------------------------------------------------
(* The queue of events                                                     *)

\* Only the end of the connection is the last of the queue.
EndIsLast == \A i \in DOMAIN queue : queue[i] = "end" => ~up /\ i = Len(queue)

LEMMA DeliveryKeepsQueue ==
  ASSUME StreamTypeOK, NEW kind \in Deliveries, Delivers(kind),
         IF kind = "end" THEN up' = FALSE ELSE UNCHANGED up
  PROVE  /\ queue' \in Seq(Deliveries) /\ EndIsLast'
         /\ GrownIsQueued \/ kind = "grown" => GrownIsQueued'
  <1>1. queue \in Seq(Deliveries) /\ up /\ EndIsLast
    BY DEF StreamTypeOK, Delivers, EndIsLast
  <1>2. queue' = Append(queue, kind)
    BY DEF Delivers
  <1>3. /\ queue' \in Seq(Deliveries) /\ Len(queue') = Len(queue) + 1
        /\ DOMAIN queue' = 1 .. Len(queue) + 1 /\ DOMAIN queue = 1 .. Len(queue)
        /\ queue'[Len(queue) + 1] = kind
        /\ \A i \in 1 .. Len(queue) : queue'[i] = queue[i]
    BY <1>1, <1>2
  <1>4. Len(queue) \in Nat /\ \A i \in 1 .. Len(queue) : queue[i] # "end"
    BY <1>1, <1>3 DEF EndIsLast
  <1>5. EndIsLast'
    BY <1>3, <1>4 DEF EndIsLast
  <1>6. GrownIsQueued \/ kind = "grown" => GrownIsQueued'
    BY <1>3, <1>4 DEF GrownIsQueued
  <1> QED
    BY <1>3, <1>5, <1>6

LEMMA ReadingKeepsQueue ==
  ASSUME StreamTypeOK, queue # <<>>, queue' = Tail(queue), UNCHANGED up
  PROVE  /\ queue' \in Seq(Deliveries) /\ EndIsLast'
         /\ Head(queue) \in Deliveries
         /\ GrownIsQueued /\ Head(queue) # "grown" => GrownIsQueued'
  <1>1. queue \in Seq(Deliveries) /\ EndIsLast
    BY DEF StreamTypeOK, EndIsLast
  <1>2. /\ queue' \in Seq(Deliveries) /\ Len(queue') = Len(queue) - 1
        /\ Len(queue) \in Nat \ {0} /\ Head(queue) = queue[1] /\ Head(queue) \in Deliveries
        /\ DOMAIN queue' = 1 .. Len(queue) - 1 /\ DOMAIN queue = 1 .. Len(queue)
        /\ \A i \in 1 .. Len(queue) - 1 : queue'[i] = queue[i + 1]
    BY <1>1
  <1>3. EndIsLast'
    BY <1>1, <1>2 DEF EndIsLast
  <1>4. GrownIsQueued /\ Head(queue) # "grown" => GrownIsQueued'
    <2> SUFFICES ASSUME NEW i \in DOMAIN queue, queue[i] = "grown", Head(queue) # "grown"
                 PROVE  \E j \in DOMAIN queue' : queue'[j] = "grown"
      BY DEF GrownIsQueued
    <2>1. i - 1 \in DOMAIN queue' /\ queue'[i - 1] = queue[i]
      BY <1>2
    <2> QED
      BY <2>1
  <1> QED
    BY <1>2, <1>3, <1>4

-----------------------------------------------------------------------------
(* The steps                                                               *)

\* tmux writes, and panes appear, change, die or move.
LEMMA TmuxKeeps ==
  ASSUME StreamIInv,
         \/ Writes \/ Changes \/ Dies \/ Moves \/ Disconnects \/ AnswersLate
         \/ \E o \in Others : Appears(o)
  PROVE  StreamIInv'
  <1>a. UNCHANGED <<narrowing, pass, listed, handle, watching, skipped, pc, ended, capture,
                    muted>>
    BY DEF Writes, Changes, Dies, Moves, Disconnects, AnswersLate, Appears, task, reader, tmux
  <1>1. PICK kind \in Deliveries :
          /\ Delivers(kind) /\ IF kind = "end" THEN up' = FALSE ELSE UNCHANGED up
          /\ present' = present \/ kind = "grown"
    BY DEF Writes, Changes, Dies, Moves, Disconnects, AnswersLate, Appears, Deliveries, tmux
  <1>2. /\ queue' \in Seq(Deliveries) /\ EndIsLast'
        /\ GrownIsQueued \/ kind = "grown" => GrownIsQueued'
    BY <1>1, DeliveryKeepsQueue DEF StreamIInv
  <1>3. /\ where' \in {"here", "moved", "gone"} /\ (where = "gone" => where' = "gone")
        /\ present \subseteq present' /\ present' \subseteq Others
        /\ late' \in Nat
    BY DEF StreamIInv, StreamTypeOK, Writes, Changes, Dies, Moves, Disconnects, AnswersLate,
           Appears, tmux, reader
  <1>4. StreamTypeOK'
    BY <1>a, <1>2, <1>3 DEF StreamIInv, StreamTypeOK, EndIsLast
  <1>5. VerdictIsTrue' /\ GoneMeansGone'
    BY <1>a, <1>3 DEF StreamIInv, VerdictIsTrue, GoneMeansGone
  <1>6. UnmutedIsListed'
    <2>1. up' => up
      BY <1>1 DEF Delivers
    <2>2. PassIsOwed => PassIsOwed'
      BY <1>a, <1>2 DEF PassIsOwed
    <2>3. present' = present \/ PassIsOwed'
      BY <1>1, <1>2 DEF PassIsOwed
    <2> QED
      BY <1>a, <2>1, <2>2, <2>3 DEF StreamIInv, UnmutedIsListed
  <1> QED
    BY <1>4, <1>5, <1>6 DEF StreamIInv

\* The task lists, mutes, settles, passes again and looks for the pane.
LEMMA TaskKeeps ==
  ASSUME StreamIInv, TaskStep
  PROVE  StreamIInv'
  <1>a. UNCHANGED <<where, present, up, queue, watching, pc, ended, capture, late>>
    BY DEF TaskStep, ListPanes, MutePane, Settle, PassAgain, CheckPane, tmux, reader
  <1>b. GrownIsQueued' <=> GrownIsQueued
    BY <1>a DEF GrownIsQueued
  <1>1. StreamTypeOK'
    BY <1>a DEF StreamIInv, StreamTypeOK, TaskStep, ListPanes, MutePane, PassFails,
                Settle, PassAgain, CheckPane, tmux
  <1>2. VerdictIsTrue' /\ GoneMeansGone'
    BY <1>a DEF StreamIInv, VerdictIsTrue, GoneMeansGone, TaskStep, ListPanes, MutePane,
                PassFails, Settle, PassAgain, CheckPane, Listed
  <1>3. UnmutedIsListed'
    <2> SUFFICES ASSUME up, ended = "no", NEW o \in present \ muted'
                 PROVE  o \in listed' \cup skipped' \/ PassIsOwed'
      BY <1>a DEF UnmutedIsListed
    <2>f. CASE PassFails /\ UNCHANGED narrowing
      BY <1>a, <2>f DEF PassFails, PassIsOwed
    <2>1. CASE ListPanes /\ ~PassFails
      BY <1>a, <2>1 DEF ListPanes
    <2>2. CASE MutePane /\ ~PassFails
      BY <1>a, <1>b, <2>2 DEF MutePane, StreamIInv, UnmutedIsListed, PassIsOwed
    <2>3. CASE Settle
      BY <1>a, <1>b, <2>3 DEF Settle, StreamIInv, UnmutedIsListed, PassIsOwed, tmux
    <2>4. CASE PassAgain
      BY <2>4 DEF PassAgain, PassIsOwed
    <2>5. CASE CheckPane
      BY <1>a, <1>b, <2>5 DEF CheckPane, StreamIInv, UnmutedIsListed, PassIsOwed, tmux
    <2> QED
      BY <2>f, <2>1, <2>2, <2>3, <2>4, <2>5 DEF TaskStep, ListPanes, MutePane
  <1> QED
    BY <1>1, <1>2, <1>3 DEF StreamIInv

\* A step of the reader that reads no event.
LEMMA PollKeeps ==
  ASSUME StreamIInv, Poll \/ Park \/ Wake \/ Snapshot
  PROVE  StreamIInv'
  <1>a. UNCHANGED <<where, present, muted, up, queue, narrowing, pass, listed, skipped, late>>
    BY DEF Poll, Park, Wake, Snapshot, tmux, task
  <1>b. /\ watching => handle # "none"
        /\ handle = "waiting" <=> pass # "none"
    BY DEF StreamIInv, StreamTypeOK
  <1>c. watching' => handle' # "none"
    BY <1>b, Zenon DEF Poll, Park, Wake, Snapshot, task
  <1>d. handle' = "waiting" <=> pass' # "none"
    BY <1>a, <1>b DEF Poll, Park, Wake, Snapshot, task
  <1>e. /\ pc' \in {"poll", "events", "parked", "snapshot", "over"}
        /\ pc' = "over" <=> ended' # "no"
        /\ capture' # "none" => pc' = "snapshot"
    BY DEF StreamIInv, StreamTypeOK, Poll, Park, Wake, Snapshot, Ends
  <1>1. StreamTypeOK'
    BY <1>a, <1>c, <1>d, <1>e DEF StreamIInv, StreamTypeOK
  <1>2. VerdictIsTrue' /\ GoneMeansGone'
    BY <1>a DEF StreamIInv, StreamTypeOK, VerdictIsTrue, GoneMeansGone, Poll, Park, Wake, Snapshot,
                Ends, task
  <1>3. UnmutedIsListed'
    <2>1. ended' = "no" => ended = "no"
      BY DEF StreamIInv, StreamTypeOK, Poll, Park, Wake, Snapshot, Ends
    <2> QED
      BY <1>a, <2>1 DEF StreamIInv, UnmutedIsListed, PassIsOwed, GrownIsQueued
  <1> QED
    BY <1>1, <1>2, <1>3 DEF StreamIInv

\* Asking for a pass leaves one owed that lists from now on.
LEMMA NarrowOwes ==
  ASSUME StreamTypeOK, Narrow
  PROVE  /\ PassIsOwed'
         /\ narrowing' = "idle" <=> pass' \in {"none", "check"}
         /\ handle' = "waiting" <=> pass' # "none"
         /\ watching' => handle' # "none"
         /\ listed' \subseteq present /\ skipped' \subseteq present
         /\ handle' = "gone" => handle = "gone"
  BY DEF StreamTypeOK, Narrow, PassIsOwed

\* The reader reads one event, in a poll or up to a snapshot's boundary.
LEMMA ReadingKeeps ==
  ASSUME StreamIInv, ReadEvent \/ ReadToBoundary
  PROVE  StreamIInv'
  <1>a. /\ UNCHANGED <<where, present, muted, up, late>>
        /\ queue # <<>> /\ queue' = Tail(queue)
    BY DEF ReadEvent, ReadToBoundary, tmux
  <1>b. /\ queue' \in Seq(Deliveries) /\ EndIsLast'
        /\ Head(queue) \in Deliveries
        /\ GrownIsQueued /\ Head(queue) # "grown" => GrownIsQueued'
    BY <1>a, ReadingKeepsQueue DEF StreamIInv
  <1>c. Narrow \/ (UNCHANGED task /\ Head(queue) # "grown")
    BY <1>b DEF ReadEvent, ReadToBoundary, Deliveries
  <1>d. /\ narrowing' = "idle" <=> pass' \in {"none", "check"}
        /\ handle' = "waiting" <=> pass' # "none"
        /\ watching' => handle' # "none"
        /\ listed' \subseteq present /\ skipped' \subseteq present
        /\ handle' = "gone" => handle = "gone"
    BY <1>c, NarrowOwes DEF StreamIInv, StreamTypeOK, task
  <1>e. /\ pc' \in {"poll", "events", "parked", "snapshot", "over"}
        /\ pc' = "over" <=> ended' # "no"
        /\ capture' # "none" => pc' = "snapshot"
        /\ ended' = "gone" => ended = "gone"
        /\ ended' = "no" => ended = "no"
    BY <1>b DEF StreamIInv, StreamTypeOK, ReadEvent, ReadToBoundary, Ends, Deliveries
  <1>1. StreamTypeOK'
    BY <1>a, <1>b, <1>d, <1>e DEF StreamIInv, StreamTypeOK, EndIsLast
  <1>2. VerdictIsTrue' /\ GoneMeansGone'
    BY <1>a, <1>d, <1>e DEF StreamIInv, VerdictIsTrue, GoneMeansGone
  <1>3. UnmutedIsListed'
    <2>1. CASE Narrow
      BY <2>1, NarrowOwes DEF StreamIInv, UnmutedIsListed, Narrow, PassIsOwed
    <2>2. CASE UNCHANGED task /\ Head(queue) # "grown"
      BY <1>a, <1>b, <1>e, <2>2 DEF StreamIInv, UnmutedIsListed, PassIsOwed, task
    <2> QED
      BY <1>c, <2>1, <2>2
  <1> QED
    BY <1>1, <1>2, <1>3 DEF StreamIInv

\* tmux answers a snapshot.
LEMMA CapturesKeeps ==
  ASSUME StreamIInv, Captures
  PROVE  StreamIInv'
  <1>a. /\ UNCHANGED <<where, present, muted, up, narrowing, pass, listed, handle,
                       watching, skipped, pc, ended, late>>
        /\ pc = "snapshot"
    BY DEF Captures, tmux, task, StreamIInv, StreamTypeOK
  <1>b. /\ queue' \in Seq(Deliveries) /\ EndIsLast'
        /\ GrownIsQueued => GrownIsQueued'
        /\ capture' = "answered"
    BY <1>a, DeliveryKeepsQueue DEF Captures, StreamIInv, Deliveries
  <1>1. StreamTypeOK'
    BY <1>a, <1>b DEF StreamIInv, StreamTypeOK, EndIsLast
  <1>2. VerdictIsTrue' /\ GoneMeansGone' /\ UnmutedIsListed'
    BY <1>a, <1>b DEF StreamIInv, VerdictIsTrue, GoneMeansGone, UnmutedIsListed, PassIsOwed
  <1> QED
    BY <1>1, <1>2 DEF StreamIInv

\* A snapshot is given up: its boundary is another's from now on.
LEMMA GivesUpKeeps ==
  ASSUME StreamIInv, GivesUp
  PROVE  StreamIInv'
  <1>a. /\ UNCHANGED <<where, present, muted, up, narrowing, pass, listed, handle,
                       watching, skipped, ended>>
        /\ pc' = "poll" /\ capture' = "none" /\ pc = "snapshot"
        /\ late' = late \/ late' = late + 1
    BY DEF GivesUp, tmux, task
  <1>1. /\ queue' \in Seq(Deliveries) /\ DOMAIN queue' = DOMAIN queue
        /\ Len(queue') = Len(queue)
        /\ \A i \in DOMAIN queue :
             queue'[i] = IF queue[i] = "boundary" THEN "stale" ELSE queue[i]
    <2>1. /\ queue \in Seq(Deliveries) /\ Len(queue) \in Nat
          /\ DOMAIN queue = 1 .. Len(queue)
          /\ \A i \in DOMAIN queue : queue[i] \in Deliveries
      BY DEF StreamIInv, StreamTypeOK
    <2>2. queue' = [i \in 1 .. Len(queue) |->
                      IF queue[i] = "boundary" THEN "stale" ELSE queue[i]]
      BY <2>1 DEF GivesUp
    <2>3. \A i \in 1 .. Len(queue) :
            (IF queue[i] = "boundary" THEN "stale" ELSE queue[i]) \in Deliveries
      BY <2>1 DEF Deliveries
    <2>4. queue' \in [1 .. Len(queue) -> Deliveries]
      BY <2>2, <2>3
    <2>5. queue' \in Seq(Deliveries) /\ Len(queue') = Len(queue)
      BY <2>1, <2>4, SeqDef, LenProperties
    <2> QED
      BY <2>1, <2>2, <2>5
  <1>2. EndIsLast' /\ (GrownIsQueued => GrownIsQueued')
    BY <1>a, <1>1 DEF StreamIInv, StreamTypeOK, EndIsLast, GrownIsQueued
  <1>3. StreamTypeOK'
    BY <1>a, <1>1, <1>2 DEF StreamIInv, StreamTypeOK, EndIsLast
  <1>4. VerdictIsTrue' /\ GoneMeansGone' /\ UnmutedIsListed'
    BY <1>a, <1>2 DEF StreamIInv, VerdictIsTrue, GoneMeansGone, UnmutedIsListed, PassIsOwed
  <1> QED
    BY <1>3, <1>4 DEF StreamIInv

-----------------------------------------------------------------------------
(* The theorems                                                            *)

LEMMA InitHolds == StreamInit => StreamIInv
  BY DEF StreamInit, StreamIInv, StreamTypeOK, VerdictIsTrue, GoneMeansGone, UnmutedIsListed

LEMMA NextKeeps == StreamIInv /\ [StreamNext]_streamVars => StreamIInv'
  <1> SUFFICES ASSUME StreamIInv, [StreamNext]_streamVars PROVE StreamIInv'
    OBVIOUS
  <1>1. CASE StreamNext
    BY <1>1, TmuxKeeps, TaskKeeps, PollKeeps, ReadingKeeps, CapturesKeeps, GivesUpKeeps
       DEF StreamNext, StreamReaderStep
  <1>2. CASE UNCHANGED streamVars
    <2>1. UNCHANGED <<where, present, muted, up, queue, narrowing, pass, listed, handle,
                      watching, skipped, pc, ended, capture, late>>
      BY <1>2 DEF streamVars
    <2> QED
      BY <2>1 DEF StreamIInv, StreamTypeOK, VerdictIsTrue, GoneMeansGone, UnmutedIsListed, PassIsOwed,
                  GrownIsQueued
  <1> QED
    BY <1>1, <1>2

LEMMA StreamInvariance == StreamSpec => []StreamIInv
  BY InitHolds, NextKeeps, PTL DEF StreamSpec

\* Every variable has its type: among the rest, a task runs exactly while it
\* was asked for, and nothing follows the end of the connection.
THEOREM TypeCorrect == StreamSpec => []StreamTypeOK
  <1>1. StreamIInv => StreamTypeOK
    BY DEF StreamIInv
  <1> QED
    BY <1>1, StreamInvariance, PTL

\* poll_next answers None for a pane that is gone, and for no other: for any
\* panes, and however passes, events, snapshots and the connection's end fall.
THEOREM GoneIsGone == StreamSpec => []GoneMeansGone
  <1>1. StreamIInv => GoneMeansGone
    BY DEF StreamIInv
  <1> QED
    BY <1>1, StreamInvariance, PTL

\* No request for a pass is lost: a pane that is not muted is on the list of
\* the pass that runs, or a pass that will list it is owed (narrow's dirty
\* state and its compare_exchange), or the pass that was to mute it failed,
\* and none was asked for since.
THEOREM NoPaneIsForgotten == StreamSpec => []UnmutedIsListed
  <1>1. StreamIInv => UnmutedIsListed
    BY DEF StreamIInv
  <1> QED
    BY <1>1, StreamInvariance, PTL


-----------------------------------------------------------------------------
(* Tails: the inductive invariant.                                         *)

\* The byte at an offset of a tail is the one after `last`: an offset and the
\* bytes it stands for keep their distance while the tail goes on.
IsAt(tail, offset, last) ==
  /\ last[1] = tail.era /\ offset <= RingEnd(tail.ring)
  /\ last[2] + RingEnd(tail.ring) = tail.got + offset

\* A ring holds the last bytes its reader got, all of them written.
Fits(tail) ==
  tail # NoTail =>
    /\ tail.pane \in Panes /\ tail.era \in 1 .. era /\ tail.got <= MaxWritten
    /\ tail.era = era => tail.got <= written[tail.pane]
    /\ tail.reader # "none" /\ Len(tail.ring.bytes) <= tail.got
    /\ Len(tail.ring.bytes) <= RingBytes /\ Len(tail.queue) <= SnapshotQueue
    /\ \A i \in 1 .. Len(tail.ring.bytes) :
         tail.ring.bytes[i] = <<tail.era, tail.got - Len(tail.ring.bytes) + i>>
    /\ tail.reader # "capturing" => tail.serving = NoCaller
    /\ tail.reader = "over" => tail.queue = <<>>

TailFits(e) ==
  /\ Fits(tails[e])
  /\ tails[e].reader \in {"reading", "capturing"} => e \in Range(table)

\* A place in a mailbox belongs to a caller that waits for that tail, and it
\* has no other.
Waits(c, e) == c # NoCaller => calls[c].pc = "waits" /\ calls[c].epoch = e

SeatsFit(e) ==
  /\ Waits(tails[e].serving, e)
  /\ \A i \in DOMAIN tails[e].queue :
       /\ Waits(tails[e].queue[i], e)
       /\ tails[e].queue[i] # NoCaller =>
            /\ tails[e].queue[i] # tails[e].serving
            /\ \A j \in DOMAIN tails[e].queue : tails[e].queue[j] = tails[e].queue[i] => j = i

CallTypes ==
  [pc : {"idle", "absent", "attaching", "retains", "waits", "answered"},
   pane : Panes \cup {NoPane}, first : BOOLEAN, epoch : 0 .. MaxEpoch,
   offset : Nat, last : Nat \X Nat]

HeldTypes ==
  [pane : Panes \cup {NoPane}, cursor : [owner : Nat, epoch : Nat, offset : Nat],
   last : Nat \X Nat]

\* A call that retains a tail keeps it from being freed; the one that attaches
\* has the newest epoch, for a pane nobody else has a tail of.
CallFits(c) ==
  /\ calls[c].pc \in {"idle", "absent"} => calls[c].epoch = 0
  /\ calls[c].pc # "idle" => calls[c].pane \in Panes
  /\ calls[c].pc = "attaching" =>
       /\ calls[c].epoch = nextEpoch /\ nextEpoch > 0
       /\ \A e \in Range(table) : tails[e].pane # calls[c].pane
  /\ calls[c].pc \in {"retains", "waits", "answered"} =>
       calls[c].epoch \in 1 .. nextEpoch /\ tails[calls[c].epoch].pane = calls[c].pane
  /\ calls[c].pc = "answered" =>
       IsAt(tails[calls[c].epoch], calls[c].offset, calls[c].last)

\* A cursor of this server names an epoch it has given out, and a place in that
\* tail for as long as the tail is there.
HeldFits(c) ==
  LET cursor == held[c].cursor
  IN  /\ cursor.owner <= owner
      /\ cursor.owner = owner =>
           /\ cursor.epoch \in 1 .. nextEpoch
           /\ tails[cursor.epoch] # NoTail =>
                IsAt(tails[cursor.epoch], cursor.offset, held[c].last)

\* An epoch nobody has attached yet has no tail, and no cursor names it.
Fresh(e) == e > nextEpoch \/ (opener # NoCaller /\ e = nextEpoch)

FreshIsUnused ==
  \A e \in Epochs : Fresh(e) =>
    /\ tails[e] = NoTail
    /\ \A c \in Callers : held[c].cursor.owner = owner => held[c].cursor.epoch # e

WorldFits ==
  /\ era \in 1 .. MaxEra /\ owner \in 1 .. MaxOwner /\ nextEpoch \in 0 .. MaxEpoch
  /\ written \in [Panes -> 0 .. MaxWritten] /\ gone \subseteq Panes

TableFits ==
  /\ table \in Seq(1 .. nextEpoch) /\ Len(table) <= MaxTails
  /\ \A i, j \in 1 .. Len(table) : tails[table[i]].pane = tails[table[j]].pane => i = j
  /\ \A i \in 1 .. Len(table) : tails[table[i]].pane \in Panes

OpenerFits ==
  /\ opener \in Callers \cup {NoCaller}
  /\ \A c \in Callers : calls[c].pc = "attaching" <=> opener = c

IInv ==
  /\ WorldFits /\ TableFits /\ OpenerFits
  /\ tails \in [Epochs -> PaneTail]
  /\ calls \in [Callers -> CallTypes] /\ held \in [Callers -> HeldTypes]
  /\ \A e \in Epochs : TailFits(e) /\ SeatsFit(e)
  /\ \A c \in Callers : CallFits(c) /\ HeldFits(c)
  /\ FreshIsUnused

-----------------------------------------------------------------------------
(* Sequences: the mailbox, the ring and the table.                         *)

LEMMA Bounds ==
  /\ MaxTails \in Nat /\ RingBytes \in Nat /\ SnapshotQueue \in Nat /\ MaxWritten \in Nat
  /\ MaxEpoch \in Nat /\ MaxOwner \in Nat /\ MaxEra \in Nat
  /\ MaxTails > 0 /\ RingBytes > 0 /\ NoPane \notin Panes /\ NoCaller \notin Callers
  BY TailsAssumption

LEMMA BoundedSeqFacts ==
  ASSUME NEW S, NEW n \in Nat, NEW s \in Seq(S), Len(s) <= n
  PROVE  s \in BoundedSeq(S, n)
  <1>1. Len(s) \in 0 .. n /\ s \in [1 .. Len(s) -> S]
    BY LenProperties
  <1> QED
    BY <1>1 DEF BoundedSeq, SeqOf

LEMMA RemoveAtFacts ==
  ASSUME NEW S, NEW s \in Seq(S), NEW k \in 1 .. Len(s)
  PROVE  /\ RemoveAt(s, k) \in Seq(S) /\ Len(RemoveAt(s, k)) = Len(s) - 1
         /\ \A i \in 1 .. Len(s) - 1 : RemoveAt(s, k)[i] = IF i < k THEN s[i] ELSE s[i + 1]
  <1> DEFINE n == Len(s)
             front == SubSeq(s, 1, k - 1)
             back == SubSeq(s, k + 1, n)
  <1>1. n \in Nat /\ k \in 1 .. n
    BY LenProperties
  <1>2. /\ front \in Seq(S) /\ Len(front) = k - 1
        /\ \A i \in 1 .. k - 1 : front[i] = s[i]
    BY <1>1
  <1>3. /\ back \in Seq(S) /\ Len(back) = n - k
        /\ \A i \in 1 .. n - k : back[i] = s[k + i]
    BY <1>1
  <1> HIDE DEF n, front, back
  <1>4. /\ front \o back \in Seq(S) /\ Len(front \o back) = (k - 1) + (n - k)
        /\ \A i \in 1 .. (k - 1) + (n - k) :
             (front \o back)[i] = IF i <= k - 1 THEN front[i] ELSE back[i - (k - 1)]
    <2>1. /\ front \o back \in Seq(S) /\ Len(front \o back) = Len(front) + Len(back)
          /\ \A i \in 1 .. Len(front) + Len(back) :
               (front \o back)[i] = IF i <= Len(front) THEN front[i] ELSE back[i - Len(front)]
      BY ONLY ConcatProperties, <1>2, <1>3
    <2> QED
      BY ONLY <2>1, <1>2, <1>3
  <1>5. (k - 1) + (n - k) = n - 1
    BY <1>1
  <1>6. ASSUME NEW i \in 1 .. n - 1
        PROVE  (front \o back)[i] = IF i < k THEN s[i] ELSE s[i + 1]
    <2>1. CASE i < k
      <3>1. i \in 1 .. k - 1 /\ i <= k - 1
        BY <1>1, <1>6, <2>1
      <3> QED
        BY <1>2, <1>4, <1>5, <2>1, <3>1
    <2>2. CASE ~(i < k)
      <3>1. ~(i <= k - 1) /\ i - (k - 1) \in 1 .. n - k /\ k + (i - (k - 1)) = i + 1
        BY <1>1, <1>6, <2>2
      <3>2. (front \o back)[i] = back[i - (k - 1)]
        BY <1>4, <1>5, <3>1
      <3>3. back[i - (k - 1)] = s[k + (i - (k - 1))]
        BY <1>3, <3>1
      <3> QED
        BY <2>2, <3>1, <3>2, <3>3
    <2> QED
      BY <2>1, <2>2
  <1>7. RemoveAt(s, k) = front \o back
    BY DEF RemoveAt, front, back, n
  <1> QED
    BY <1>4, <1>5, <1>6, <1>7 DEF n

\* A table drawn from another has no tail the other had not, and none twice.
Draws(t, u) ==
  /\ t \in Seq(Range(u)) /\ Len(t) <= Len(u)
  /\ \E f \in [1 .. Len(t) -> 1 .. Len(u)] :
       /\ \A i \in 1 .. Len(t) : t[i] = u[f[i]]
       /\ \A i, j \in 1 .. Len(t) : f[i] = f[j] => i = j

LEMMA RangeFacts ==
  ASSUME NEW S, NEW s \in Seq(S)
  PROVE  /\ \A i \in 1 .. Len(s) : s[i] \in Range(s)
         /\ \A x \in Range(s) : \E i \in 1 .. Len(s) : s[i] = x
         /\ Range(s) \subseteq S /\ s \in Seq(Range(s)) /\ Len(s) \in Nat
  <1>1. DOMAIN s = 1 .. Len(s) /\ Len(s) \in Nat /\ \A i \in 1 .. Len(s) : s[i] \in S
    BY LenProperties, ElementOfSeq
  <1>2. s \in Seq(Range(s))
    BY <1>1, SeqDef DEF Range
  <1> QED
    BY <1>1, <1>2 DEF Range

LEMMA RemovedIsDrawn ==
  ASSUME NEW S, NEW s \in Seq(S), NEW k \in 1 .. Len(s)
  PROVE  /\ Draws(RemoveAt(s, k), s)
         /\ \A x \in Range(s) : x # s[k] => x \in Range(RemoveAt(s, k))
  <1> DEFINE t == RemoveAt(s, k)
             n == Len(s)
  <1>1. /\ t \in Seq(S) /\ Len(t) = n - 1 /\ n \in Nat /\ k \in 1 .. n
        /\ \A i \in 1 .. n - 1 : t[i] = IF i < k THEN s[i] ELSE s[i + 1]
    BY RemoveAtFacts, LenProperties
  <1> HIDE DEF t, n
  <1> DEFINE f == [i \in 1 .. n - 1 |-> IF i < k THEN i ELSE i + 1]
  <1>2. f \in [1 .. n - 1 -> 1 .. n]
    BY <1>1
  <1>3. \A i \in 1 .. n - 1 : t[i] = s[f[i]]
    BY <1>1
  <1>4. \A i, j \in 1 .. n - 1 : f[i] = f[j] => i = j
    BY <1>1
  <1>5. \A i \in 1 .. n : s[i] \in Range(s)
    BY RangeFacts DEF n
  <1>6. \A i \in 1 .. n - 1 : t[i] \in Range(s)
    BY <1>2, <1>3, <1>5
  <1> HIDE DEF f
  <1>7. t \in Seq(Range(s))
    <2>1. t \in [1 .. n - 1 -> S]
      BY <1>1, LenProperties
    <2>2. t \in [1 .. n - 1 -> Range(s)]
      BY <1>6, <2>1
    <2>3. n - 1 \in Nat
      BY <1>1
    <2> QED
      BY <2>2, <2>3, SeqDef
  <1>8. Draws(t, s)
    <2>1. Len(t) <= Len(s)
      BY <1>1 DEF n
    <2>2. /\ f \in [1 .. Len(t) -> 1 .. Len(s)]
          /\ \A i \in 1 .. Len(t) : t[i] = s[f[i]]
          /\ \A i, j \in 1 .. Len(t) : f[i] = f[j] => i = j
      BY <1>1, <1>2, <1>3, <1>4 DEF n
    <2> QED
      BY <1>7, <2>1, <2>2 DEF Draws
  <1>9. ASSUME NEW x \in Range(s), x # s[k] PROVE x \in Range(t)
    <2>1. PICK i \in 1 .. n : s[i] = x
      BY <1>9, RangeFacts DEF n
    <2>2. CASE i < k
      <3>1. i \in 1 .. n - 1 /\ t[i] = x
        BY <1>1, <2>1, <2>2
      <3> QED
        BY <1>1, <3>1, RangeFacts
    <2>3. CASE i > k
      <3>1. i - 1 \in 1 .. n - 1 /\ ~(i - 1 < k) /\ (i - 1) + 1 = i
        BY <1>1, <2>1, <2>3
      <3>2. t[i - 1] = x
        BY <1>1, <2>1, <3>1
      <3> QED
        BY <1>1, <3>1, <3>2, RangeFacts
    <2> QED
      BY <1>1, <1>9, <2>1, <2>2, <2>3
  <1> QED
    BY <1>8, <1>9 DEF t

LEMMA TouchedIsDrawn ==
  ASSUME NEW S, NEW s \in Seq(S), NEW k \in 1 .. Len(s)
  PROVE  /\ Draws(Append(RemoveAt(s, k), s[k]), s)
         /\ \A x \in Range(s) : x \in Range(Append(RemoveAt(s, k), s[k]))
  <1> DEFINE r == RemoveAt(s, k)
             t == Append(r, s[k])
             n == Len(s)
  <1>1. /\ r \in Seq(S) /\ Len(r) = n - 1 /\ n \in Nat /\ k \in 1 .. n
        /\ \A i \in 1 .. n - 1 : r[i] = IF i < k THEN s[i] ELSE s[i + 1]
    BY RemoveAtFacts, LenProperties
  <1>2. /\ \A x \in Range(s) : x # s[k] => x \in Range(r)
        /\ Range(r) \subseteq Range(s) /\ s[k] \in Range(s) /\ s[k] \in S
    <2>1. /\ Draws(r, s)
          /\ \A x \in Range(s) : x # s[k] => x \in Range(r)
      BY RemovedIsDrawn
    <2>2. Range(r) \subseteq Range(s)
      BY <2>1, RangeFacts DEF Draws
    <2>3. s[k] \in Range(s) /\ s[k] \in S
      BY RangeFacts, ElementOfSeq
    <2> QED
      BY <2>1, <2>2, <2>3
  <1> HIDE DEF r, n
  <1>3. /\ t \in Seq(S) /\ Len(t) = n
        /\ \A i \in 1 .. n - 1 : t[i] = r[i]
        /\ t[n] = s[k]
    <2>1. /\ t \in Seq(S) /\ Len(t) = Len(r) + 1
          /\ \A i \in 1 .. Len(r) : t[i] = r[i]
          /\ t[Len(r) + 1] = s[k]
      BY <1>1, <1>2, AppendProperties
    <2> QED
      BY <1>1, <2>1
  <1> HIDE DEF t
  <1> DEFINE f == [i \in 1 .. n |-> IF i = n THEN k ELSE IF i < k THEN i ELSE i + 1]
  <1>4. f \in [1 .. n -> 1 .. n]
    BY <1>1
  <1>5. \A i \in 1 .. n : t[i] = s[f[i]]
    <2> SUFFICES ASSUME NEW i \in 1 .. n PROVE t[i] = s[f[i]]
      OBVIOUS
    <2>1. CASE i = n
      BY <1>3, <2>1
    <2>2. CASE i # n
      <3>1. i \in 1 .. n - 1
        BY <1>1, <2>2
      <3> QED
        BY <1>1, <1>3, <2>2, <3>1
    <2> QED
      BY <2>1, <2>2
  <1>6. \A i, j \in 1 .. n : f[i] = f[j] => i = j
    BY <1>1
  <1>7. \A i \in 1 .. n : t[i] \in Range(s)
    <2>1. \A i \in 1 .. n : s[i] \in Range(s)
      BY RangeFacts DEF n
    <2> HIDE DEF f
    <2> QED
      BY <1>4, <1>5, <2>1
  <1> HIDE DEF f
  <1>8. t \in Seq(Range(s))
    <2>1. t \in [1 .. n -> S]
      BY <1>3, LenProperties
    <2>2. t \in [1 .. n -> Range(s)]
      BY <1>7, <2>1
    <2> QED
      BY <1>1, <2>2, SeqDef
  <1>9. Draws(t, s)
    <2>1. Len(t) <= Len(s)
      BY <1>1, <1>3 DEF n
    <2>2. /\ f \in [1 .. Len(t) -> 1 .. Len(s)]
          /\ \A i \in 1 .. Len(t) : t[i] = s[f[i]]
          /\ \A i, j \in 1 .. Len(t) : f[i] = f[j] => i = j
      BY <1>3, <1>4, <1>5, <1>6 DEF n
    <2> QED
      BY <1>8, <2>1, <2>2 DEF Draws
  <1>10. ASSUME NEW x \in Range(s) PROVE x \in Range(t)
    <2>0. \A i \in 1 .. n : t[i] \in Range(t)
      BY <1>3, RangeFacts
    <2>1. CASE x = s[k]
      <3>1. n \in 1 .. n
        BY <1>1
      <3> QED
        BY <1>3, <2>0, <2>1, <3>1
    <2>2. CASE x # s[k]
      <3>1. x \in Range(r)
        BY <1>2, <1>10, <2>2
      <3>2. PICK i \in 1 .. n - 1 : r[i] = x
        BY <1>1, <3>1, RangeFacts
      <3>3. i \in 1 .. n
        BY <1>1
      <3> QED
        BY <1>3, <2>0, <3>2, <3>3
    <2> QED
      BY <2>1, <2>2
  <1> QED
    BY <1>9, <1>10 DEF t, r

LEMMA TailIsDrawn ==
  ASSUME NEW S, NEW s \in Seq(S), s # <<>>
  PROVE  /\ Draws(Tail(s), s) /\ Len(Tail(s)) = Len(s) - 1
         /\ \A x \in Range(s) : x # Head(s) => x \in Range(Tail(s))
  <1> DEFINE n == Len(s)
             t == Tail(s)
  <1>1. /\ n \in Nat /\ n > 0 /\ t \in Seq(S) /\ Len(t) = n - 1 /\ Head(s) = s[1]
        /\ \A i \in 1 .. n - 1 : t[i] = s[i + 1]
    BY EmptySeq, LenProperties, HeadTailProperties
  <1> HIDE DEF n, t
  <1> DEFINE f == [i \in 1 .. n - 1 |-> i + 1]
  <1>2. /\ f \in [1 .. n - 1 -> 1 .. n]
        /\ \A i \in 1 .. n - 1 : t[i] = s[f[i]]
        /\ \A i, j \in 1 .. n - 1 : f[i] = f[j] => i = j
    BY <1>1
  <1>3. \A i \in 1 .. n - 1 : t[i] \in Range(s)
    <2>1. \A i \in 1 .. n : s[i] \in Range(s)
      BY RangeFacts DEF n
    <2> HIDE DEF f
    <2> QED
      BY <1>2, <2>1
  <1> HIDE DEF f
  <1>4. t \in Seq(Range(s))
    <2>1. t \in [1 .. n - 1 -> S]
      BY <1>1, LenProperties
    <2>2. t \in [1 .. n - 1 -> Range(s)] /\ n - 1 \in Nat
      BY <1>1, <1>3, <2>1
    <2> QED
      BY <2>2, SeqDef
  <1>5. Draws(t, s)
    <2>1. Len(t) <= Len(s)
      BY <1>1 DEF n
    <2>2. /\ f \in [1 .. Len(t) -> 1 .. Len(s)]
          /\ \A i \in 1 .. Len(t) : t[i] = s[f[i]]
          /\ \A i, j \in 1 .. Len(t) : f[i] = f[j] => i = j
      BY <1>1, <1>2 DEF n
    <2> QED
      BY <1>4, <2>1, <2>2 DEF Draws
  <1>6. ASSUME NEW x \in Range(s), x # Head(s) PROVE x \in Range(t)
    <2>1. PICK i \in 1 .. n : s[i] = x
      BY <1>6, RangeFacts DEF n
    <2>2. i - 1 \in 1 .. n - 1 /\ (i - 1) + 1 = i
      BY <1>1, <1>6, <2>1
    <2>3. t[i - 1] = x
      BY <1>1, <2>1, <2>2
    <2> QED
      BY <1>1, <2>2, <2>3, RangeFacts
  <1> QED
    BY <1>1, <1>5, <1>6 DEF t, n

LEMMA SelfIsDrawn ==
  ASSUME NEW S, NEW s \in Seq(S)
  PROVE  Draws(s, s)
  <1> DEFINE f == [i \in 1 .. Len(s) |-> i]
  <1>1. Len(s) \in Nat /\ s \in Seq(Range(s))
    BY RangeFacts
  <1>2. /\ f \in [1 .. Len(s) -> 1 .. Len(s)]
        /\ \A i \in 1 .. Len(s) : s[i] = s[f[i]]
        /\ \A i, j \in 1 .. Len(s) : f[i] = f[j] => i = j
    OBVIOUS
  <1> HIDE DEF f
  <1> QED
    BY <1>1, <1>2 DEF Draws

-----------------------------------------------------------------------------
(* The ring.                                                               *)

LEMMA NoTailIsOne == NoTail \in PaneTail /\ EmptyRing \in Ring
  <1>1. EmptyRing \in Ring
    BY DEF EmptyRing, Ring
  <1>2. 0 \in 0 .. MaxEra /\ <<>> \in Seq(Callers \cup {NoCaller})
    BY Bounds
  <1> QED
    BY <1>1, <1>2 DEF NoTail, PaneTail

\* What a step of a tail may do to its offsets.
Continues(tail, next) ==
  /\ next.pane = tail.pane /\ next.era = tail.era
  /\ RingEnd(tail.ring) <= RingEnd(next.ring)
  /\ next.got + RingEnd(tail.ring) = tail.got + RingEnd(next.ring)

LEMMA RingEndIsNat ==
  ASSUME NEW tail \in PaneTail
  PROVE  /\ RingEnd(tail.ring) \in Nat /\ tail.ring.start \in Nat /\ Len(tail.ring.bytes) \in Nat
         /\ RingEnd(tail.ring) = tail.ring.start + Len(tail.ring.bytes)
         /\ tail.ring \in Ring /\ tail.ring.bytes \in Seq(Byte) /\ tail.got \in Nat
  <1>1. tail.ring \in Ring /\ tail.got \in Nat
    BY DEF PaneTail
  <1>2. tail.ring.bytes \in Seq(Byte) /\ tail.ring.start \in Nat
    BY <1>1 DEF Ring
  <1>3. Len(tail.ring.bytes) \in Nat
    BY <1>2, LenProperties
  <1> QED
    BY <1>1, <1>2, <1>3 DEF RingEnd

LEMMA PlaceContinues ==
  ASSUME NEW tail \in PaneTail, NEW next \in PaneTail, Continues(tail, next),
         NEW offset \in Nat, NEW last \in Nat \X Nat, IsAt(tail, offset, last)
  PROVE  IsAt(next, offset, last)
  <1>1. /\ RingEnd(tail.ring) \in Nat /\ RingEnd(next.ring) \in Nat
        /\ tail.got \in Nat /\ next.got \in Nat /\ last[2] \in Nat
    BY RingEndIsNat
  <1> QED
    BY <1>1 DEF IsAt, Continues

\* The ring takes the next n bytes, and drops as many as it has no room for.
LEMMA PushFacts ==
  ASSUME NEW ring \in Ring, NEW chunk \in Seq(Byte)
  PROVE  LET next == Push(ring, chunk)
             total == Len(ring.bytes) + Len(chunk)
         IN  /\ next \in Ring /\ next.closed = ring.closed
             /\ RingEnd(next) = RingEnd(ring) + Len(chunk)
             /\ Len(next.bytes) <= total /\ Len(next.bytes) <= RingBytes
             /\ \A i \in 1 .. Len(next.bytes) :
                  /\ total - Len(next.bytes) + i \in 1 .. total
                  /\ next.bytes[i] = (ring.bytes \o chunk)[total - Len(next.bytes) + i]
  <1> DEFINE all == ring.bytes \o chunk
             m == Len(ring.bytes)
             n == Len(chunk)
             total == m + n
             x == IF total > RingBytes THEN total - RingBytes ELSE 0
             kept == SubSeq(all, x + 1, total)
  <1>1. ring.bytes \in Seq(Byte) /\ ring.start \in Nat
    BY DEF Ring
  <1>2. m \in Nat /\ n \in Nat /\ total \in Nat /\ RingBytes \in Nat
    BY <1>1, LenProperties, Bounds
  <1>3. all \in Seq(Byte) /\ Len(all) = total
    BY <1>1, ConcatProperties
  <1> HIDE DEF all, m, n
  <1>4. x \in 0 .. total /\ total - x <= RingBytes
    BY <1>2
  <1> HIDE DEF x
  <1>5. /\ kept \in Seq(Byte) /\ Len(kept) = total - x
        /\ \A i \in 1 .. total - x : kept[i] = all[x + i]
    BY <1>2, <1>3, <1>4
  <1> HIDE DEF kept
  <1>6. Push(ring, chunk) = [ring EXCEPT !.bytes = kept, !.start = @ + x]
    <2>1. x = IF Len(all) > RingBytes THEN Len(all) - RingBytes ELSE 0
      BY <1>3 DEF x
    <2>2. kept = SubSeq(all, x + 1, Len(all))
      BY <1>3 DEF kept
    <2> QED
      BY <2>1, <2>2 DEF Push, all
  <1> DEFINE next == Push(ring, chunk)
  <1>7. /\ next.bytes = kept /\ next.start = ring.start + x /\ next.closed = ring.closed
        /\ next \in Ring
    <2>1. ring.start + x \in Nat
      BY <1>1, <1>2, <1>4
    <2> DEFINE y == ring.start + x
    <2>2. next = [ring EXCEPT !.bytes = kept, !.start = y]
      BY <1>6
    <2> HIDE DEF y, next
    <2>3. y \in Nat /\ kept \in Seq(Byte)
      BY <1>5, <2>1 DEF y
    <2>4. next.bytes = kept /\ next.start = y /\ next.closed = ring.closed /\ next \in Ring
      BY <2>2, <2>3 DEF Ring
    <2> QED
      BY <2>4 DEF y
  <1> HIDE DEF next
  <1>8. RingEnd(next) = RingEnd(ring) + n
    <2>1. (ring.start + x) + (total - x) = (ring.start + m) + n
      BY <1>1, <1>2, <1>4
    <2> QED
      BY <1>5, <1>7, <2>1 DEF RingEnd, m
  <1>9. ASSUME NEW i \in 1 .. Len(next.bytes)
        PROVE  /\ total - Len(next.bytes) + i \in 1 .. total
               /\ next.bytes[i] = all[total - Len(next.bytes) + i]
    <2>1. Len(next.bytes) = total - x /\ i \in 1 .. total - x
      BY <1>5, <1>7, <1>9
    <2>2. total - Len(next.bytes) + i = x + i /\ x + i \in 1 .. total
      BY <1>2, <1>4, <2>1
    <2> QED
      BY <1>5, <1>7, <2>1, <2>2
  <1>10. Len(next.bytes) <= total /\ Len(next.bytes) <= RingBytes
    BY <1>2, <1>4, <1>5, <1>7
  <1> QED
    BY <1>7, <1>8, <1>9, <1>10 DEF next, m, n, all

LEMMA ReceiveFits ==
  ASSUME WorldFits, NEW tail \in PaneTail, tail # NoTail, Fits(tail),
         NEW n \in 0 .. Unread(tail)
  PROVE  LET next == Receive(tail, n)
         IN  /\ next \in PaneTail /\ next # NoTail /\ Fits(next) /\ Continues(tail, next)
             /\ next.queue = tail.queue /\ next.serving = tail.serving
             /\ next.reader = tail.reader
  <1> DEFINE chunk == [i \in 1 .. n |-> <<tail.era, tail.got + i>>]
             next == Receive(tail, n)
             b == tail.ring.bytes
             m == Len(b)
             r == Push(tail.ring, chunk)
             len == Len(r.bytes)
  <1>1. /\ tail.pane \in Panes /\ tail.era \in 1 .. era /\ tail.got <= MaxWritten
        /\ tail.era = era => tail.got <= written[tail.pane]
        /\ tail.reader # "none" /\ m <= tail.got
        /\ \A i \in 1 .. m : b[i] = <<tail.era, tail.got - m + i>>
    BY DEF Fits
  <1>2. /\ tail.got \in Nat /\ m \in Nat /\ tail.ring \in Ring /\ b \in Seq(Byte)
        /\ RingEnd(tail.ring) \in Nat
    BY RingEndIsNat
  <1>3. era \in 1 .. MaxEra /\ MaxEra \in Nat /\ MaxWritten \in Nat
        /\ written[tail.pane] \in 0 .. MaxWritten /\ tail.era \in 1 .. MaxEra
    BY <1>1, Bounds DEF WorldFits
  <1>4. /\ n \in Nat /\ tail.got + n <= MaxWritten
        /\ tail.era = era => tail.got + n <= written[tail.pane]
    <2>1. CASE tail.era = era
      <3>1. n \in 0 .. written[tail.pane] - tail.got
        BY <2>1 DEF Unread
      <3> QED
        BY <1>1, <1>2, <1>3, <2>1, <3>1
    <2>2. CASE tail.era # era
      <3>1. n = 0
        BY <2>2 DEF Unread
      <3> QED
        BY <1>1, <1>2, <2>2, <3>1
    <2> QED
      BY <2>1, <2>2
  <1>5. chunk \in Seq(Byte) /\ Len(chunk) = n
    <2>1. \A i \in 1 .. n : <<tail.era, tail.got + i>> \in Byte
      BY <1>2, <1>3, <1>4 DEF Byte
    <2>2. chunk \in [1 .. n -> Byte]
      BY <2>1
    <2>3. chunk \in Seq(Byte)
      BY <1>4, <2>2, SeqDef
    <2>4. Len(chunk) \in Nat /\ DOMAIN chunk = 1 .. Len(chunk) /\ DOMAIN chunk = 1 .. n
      BY <2>3, LenProperties
    <2> QED
      BY <1>4, <2>3, <2>4
  <1>6. \A i \in 1 .. m + n : (b \o chunk)[i] = <<tail.era, tail.got - m + i>>
    <2> SUFFICES ASSUME NEW i \in 1 .. m + n
                 PROVE  (b \o chunk)[i] = <<tail.era, tail.got - m + i>>
      OBVIOUS
    <2>1. (b \o chunk)[i] = IF i <= m THEN b[i] ELSE chunk[i - m]
      BY <1>2, <1>5, ConcatProperties
    <2>2. CASE i <= m
      <3>1. i \in 1 .. m
        BY <1>2, <2>2
      <3> QED
        BY <1>1, <2>1, <2>2, <3>1
    <2>3. CASE ~(i <= m)
      <3>1. i - m \in 1 .. n /\ tail.got + (i - m) = tail.got - m + i
        BY <1>2, <1>4, <2>3
      <3>2. chunk[i - m] = <<tail.era, tail.got + (i - m)>>
        BY <3>1
      <3> QED
        BY <2>1, <2>3, <3>1, <3>2
    <2> QED
      BY <2>2, <2>3
  <1> HIDE DEF chunk
  <1>7. /\ r \in Ring /\ r.closed = tail.ring.closed
        /\ RingEnd(r) = RingEnd(tail.ring) + n
        /\ len <= m + n /\ len <= RingBytes
        /\ \A i \in 1 .. len : /\ (m + n) - len + i \in 1 .. m + n
                               /\ r.bytes[i] = (b \o chunk)[(m + n) - len + i]
    BY <1>2, <1>5, PushFacts
  <1>8. r.bytes \in Seq(Byte) /\ len \in Nat
    BY <1>7, LenProperties DEF Ring
  <1> HIDE DEF r
  <1>9. next = [tail EXCEPT !.ring = r, !.got = @ + n]
    BY DEF Receive, r, chunk
  <1>10. /\ next.ring = r /\ next.got = tail.got + n /\ next.pane = tail.pane
         /\ next.era = tail.era /\ next.queue = tail.queue /\ next.serving = tail.serving
         /\ next.reader = tail.reader /\ next \in PaneTail
    <2> DEFINE got == tail.got + n
    <2>1. next = [tail EXCEPT !.ring = r, !.got = got]
      BY <1>9
    <2>2. got \in Nat
      BY <1>2, <1>4
    <2> HIDE DEF next, got
    <2>3. /\ next.ring = r /\ next.got = got /\ next.pane = tail.pane
          /\ next.era = tail.era /\ next.queue = tail.queue /\ next.serving = tail.serving
          /\ next.reader = tail.reader
      BY <2>1 DEF PaneTail
    <2>4. next \in PaneTail
      BY <1>7, <2>1, <2>2 DEF PaneTail
    <2> QED
      BY <2>3, <2>4 DEF got
  <1> HIDE DEF next, b
  <1>11. next # NoTail
    BY <1>1, <1>10, Bounds DEF NoTail
  <1>12. Continues(tail, next)
    BY <1>2, <1>4, <1>7, <1>10 DEF Continues
  <1>13. Fits(next)
    <2>1. \A i \in 1 .. len : r.bytes[i] = <<next.era, next.got - len + i>>
      <3> SUFFICES ASSUME NEW i \in 1 .. len
                   PROVE  r.bytes[i] = <<next.era, next.got - len + i>>
        OBVIOUS
      <3>1. r.bytes[i] = <<tail.era, tail.got - m + ((m + n) - len + i)>>
        BY <1>6, <1>7
      <3>2. tail.got - m + ((m + n) - len + i) = (tail.got + n) - len + i
        <4> HIDE DEF m, len
        <4>1. tail.got \in Nat /\ m \in Nat /\ n \in Nat /\ len \in Nat /\ i \in Nat
          BY <1>2, <1>4, <1>8 DEF m, len
        <4> QED
          BY ONLY <4>1
      <3> QED
        BY <1>10, <3>1, <3>2
    <2>2. len <= next.got
      BY <1>1, <1>2, <1>4, <1>7, <1>8, <1>10
    <2>3. Len(next.queue) <= SnapshotQueue /\ (next.reader # "capturing" => next.serving = NoCaller)
          /\ (next.reader = "over" => next.queue = <<>>)
      BY <1>10 DEF Fits
    <2> QED
      BY <1>1, <1>4, <1>7, <1>10, <2>1, <2>2, <2>3 DEF Fits
  <1> QED
    BY <1>10, <1>11, <1>12, <1>13 DEF next

-----------------------------------------------------------------------------
(* What stays while others move.                                           *)

LEMMA InvFacts ==
  ASSUME IInv
  PROVE  /\ nextEpoch \in Nat /\ 1 .. nextEpoch \subseteq Epochs
         /\ owner \in Nat /\ era \in Nat /\ era >= 1 /\ owner >= 1
         /\ \A e \in Range(table) : e \in 1 .. nextEpoch /\ e \in Epochs /\ tails[e].pane \in Panes
         /\ \A e \in Epochs : tails[e] \in PaneTail
         /\ \A e \in Epochs : tails[e].pane \in Panes => tails[e] # NoTail
         /\ Len(table) \in Nat
         /\ \A c \in Callers : c # NoCaller
  <1>1. WorldFits /\ TableFits /\ tails \in [Epochs -> PaneTail]
    BY DEF IInv
  <1>2. nextEpoch \in 0 .. MaxEpoch /\ owner \in 1 .. MaxOwner /\ era \in 1 .. MaxEra
    BY <1>1 DEF WorldFits
  <1>3. nextEpoch \in Nat /\ 1 .. nextEpoch \subseteq Epochs
        /\ owner \in Nat /\ era \in Nat /\ era >= 1 /\ owner >= 1
    BY <1>2, Bounds DEF Epochs
  <1>4. table \in Seq(1 .. nextEpoch)
    BY <1>1 DEF TableFits
  <1>5. ASSUME NEW e \in Range(table)
        PROVE  e \in 1 .. nextEpoch /\ e \in Epochs /\ tails[e].pane \in Panes
    <2>1. PICK i \in 1 .. Len(table) : table[i] = e
      BY <1>4, RangeFacts
    <2>2. e \in 1 .. nextEpoch
      BY <1>4, RangeFacts
    <2> QED
      BY <1>1, <1>3, <2>1, <2>2 DEF TableFits
  <1>6. Len(table) \in Nat
    BY <1>4, LenProperties
  <1>7. \A e \in Epochs : tails[e].pane \in Panes => tails[e] # NoTail
    BY Bounds DEF NoTail
  <1>8. \A c \in Callers : c # NoCaller
    BY Bounds
  <1> QED
    BY <1>1, <1>3, <1>5, <1>6, <1>7, <1>8

LEMMA TailStays ==
  ASSUME NEW e \in Epochs, TailFits(e), UNCHANGED world, tails'[e] = tails[e],
         tails[e].reader \in {"reading", "capturing"} /\ e \in Range(table) => e \in Range(table')
  PROVE  TailFits(e)'
  <1>1. era' = era /\ written' = written
    BY DEF world
  <1> QED
    BY <1>1 DEF TailFits, Fits

LEMMA FreedFits ==
  ASSUME NEW e \in Epochs, tails'[e] = NoTail
  PROVE  TailFits(e)' /\ SeatsFit(e)'
  <1>1. NoTail.reader = "none" /\ NoTail.queue = <<>> /\ NoTail.serving = NoCaller
    BY DEF NoTail
  <1> QED
    BY <1>1 DEF TailFits, Fits, SeatsFit, Waits

LEMMA SeatsStay ==
  ASSUME NEW e \in Epochs, SeatsFit(e), NEW d \in Callers,
         tails'[e].queue = tails[e].queue, tails'[e].serving = tails[e].serving,
         \A c \in Callers \ {d} : calls'[c] = calls[c],
         \/ calls[d].pc # "waits" \/ calls[d].epoch # e \/ calls'[d] = calls[d]
         \/ tails[e].queue = <<>> /\ tails[e].serving = NoCaller,
         tails[e] \in PaneTail
  PROVE  SeatsFit(e)'
  <1>1. /\ tails[e].serving \in Callers \cup {NoCaller}
        /\ tails[e].queue \in Seq(Callers \cup {NoCaller})
    BY DEF PaneTail
  <1>2. \A i \in DOMAIN tails[e].queue : tails[e].queue[i] \in Callers \cup {NoCaller}
    BY <1>1, LenProperties, ElementOfSeq
  <1>3. CASE calls[d].pc # "waits" \/ calls[d].epoch # e \/ calls'[d] = calls[d]
    <2>1. ASSUME NEW c \in Callers \cup {NoCaller}, Waits(c, e)
          PROVE  Waits(c, e)'
      BY <1>3, <2>1 DEF Waits
    <2> QED
      BY <1>1, <1>2, <2>1 DEF SeatsFit, Waits
  <1>4. CASE tails[e].queue = <<>> /\ tails[e].serving = NoCaller
    BY <1>4 DEF SeatsFit, Waits
  <1> QED
    BY <1>3, <1>4

LEMMA HeldStays ==
  ASSUME IInv, NEW c \in Callers, held'[c] = held[c], owner' = owner,
         nextEpoch' \in Nat, nextEpoch <= nextEpoch',
         \A e \in Epochs : ~Fresh(e) =>
           /\ tails'[e] \in PaneTail
           /\ tails'[e] = NoTail \/ (tails[e] # NoTail /\ Continues(tails[e], tails'[e]))
  PROVE  HeldFits(c)'
  <1> DEFINE cursor == held[c].cursor
  <1>1. /\ cursor.owner <= owner
        /\ cursor.owner = owner =>
             /\ cursor.epoch \in 1 .. nextEpoch
             /\ tails[cursor.epoch] # NoTail =>
                  IsAt(tails[cursor.epoch], cursor.offset, held[c].last)
    BY DEF IInv, HeldFits
  <1>2. held[c] \in HeldTypes /\ cursor \in [owner : Nat, epoch : Nat, offset : Nat]
        /\ held[c].last \in Nat \X Nat /\ cursor.offset \in Nat
    BY DEF IInv, HeldTypes
  <1> SUFFICES ASSUME cursor.owner = owner
               PROVE  /\ cursor.epoch \in 1 .. nextEpoch'
                      /\ tails'[cursor.epoch] # NoTail =>
                           IsAt(tails'[cursor.epoch], cursor.offset, held[c].last)
    BY <1>1 DEF HeldFits, IsAt
  <1>3. cursor.epoch \in Epochs /\ cursor.epoch \in 1 .. nextEpoch /\ nextEpoch \in Nat
    BY <1>1, InvFacts
  <1>4. ~Fresh(cursor.epoch)
    BY <1>3 DEF IInv, FreshIsUnused
  <1>5. cursor.epoch \in 1 .. nextEpoch'
    BY <1>3
  <1>6. tails[cursor.epoch] \in PaneTail
    BY <1>3, InvFacts
  <1> QED
    BY <1>1, <1>2, <1>3, <1>4, <1>5, <1>6, PlaceContinues

LEMMA CallStays ==
  ASSUME IInv, NEW c \in Callers, calls'[c] = calls[c],
         nextEpoch' \in Nat, nextEpoch <= nextEpoch',
         calls[c].pc = "attaching" =>
           nextEpoch' = nextEpoch /\ \A e \in Range(table') : tails'[e].pane # calls[c].pane,
         calls[c].pc \in {"retains", "waits", "answered"} =>
           /\ tails'[calls[c].epoch] \in PaneTail
           /\ Continues(tails[calls[c].epoch], tails'[calls[c].epoch])
  PROVE  CallFits(c)'
  <1>1. CallFits(c) /\ calls[c] \in CallTypes /\ nextEpoch \in Nat
    BY InvFacts DEF IInv
  <1>2. /\ calls[c].pc \in {"idle", "absent"} => calls[c].epoch = 0
        /\ calls[c].pc # "idle" => calls[c].pane \in Panes
        /\ calls[c].pc = "attaching" => calls[c].epoch = nextEpoch /\ nextEpoch > 0
    BY <1>1 DEF CallFits
  <1>3. ASSUME calls[c].pc \in {"retains", "waits", "answered"}
        PROVE  /\ calls[c].epoch \in 1 .. nextEpoch'
               /\ tails'[calls[c].epoch].pane = calls[c].pane
    <2>1. calls[c].epoch \in 1 .. nextEpoch /\ tails[calls[c].epoch].pane = calls[c].pane
      BY <1>1, <1>3 DEF CallFits
    <2>2. calls[c].epoch \in 1 .. nextEpoch'
      BY <1>1, <2>1
    <2> QED
      BY <1>3, <2>1, <2>2 DEF Continues
  <1>4. ASSUME calls[c].pc = "answered"
        PROVE  IsAt(tails'[calls[c].epoch], calls[c].offset, calls[c].last)
    <2>1. IsAt(tails[calls[c].epoch], calls[c].offset, calls[c].last)
      BY <1>1, <1>4 DEF CallFits
    <2>2. calls[c].offset \in Nat /\ calls[c].last \in Nat \X Nat
      BY <1>1 DEF CallTypes
    <2>3. tails[calls[c].epoch] \in PaneTail
      <3>1. calls[c].epoch \in 1 .. nextEpoch
        BY <1>1, <1>4 DEF CallFits
      <3> QED
        BY <3>1, InvFacts
    <2> QED
      BY <1>4, <2>1, <2>2, <2>3, PlaceContinues
  <1>5. IsAt(tails[calls[c].epoch], calls[c].offset, calls[c].last)'
          <=> IsAt(tails'[calls[c].epoch], calls[c].offset, calls[c].last)
    BY DEF IsAt
  <1> QED
    BY <1>2, <1>3, <1>4, <1>5 DEF CallFits

LEMMA SameContinues ==
  ASSUME NEW tail \in PaneTail
  PROVE  Continues(tail, tail)
  BY RingEndIsNat DEF Continues

LEMMA TableStays ==
  ASSUME IInv, Draws(table', table), nextEpoch' \in Nat, nextEpoch <= nextEpoch',
         \A e \in Range(table) : tails'[e].pane = tails[e].pane
  PROVE  TableFits' /\ Range(table') \subseteq Range(table)
  <1>1. /\ table \in Seq(1 .. nextEpoch) /\ Len(table) <= MaxTails /\ Len(table) \in Nat
        /\ \A i, j \in 1 .. Len(table) : tails[table[i]].pane = tails[table[j]].pane => i = j
        /\ nextEpoch \in Nat
    BY InvFacts DEF IInv, TableFits
  <1>2. table' \in Seq(Range(table)) /\ Len(table') <= Len(table)
    BY DEF Draws
  <1>3. PICK f \in [1 .. Len(table') -> 1 .. Len(table)] :
           /\ \A i \in 1 .. Len(table') : table'[i] = table[f[i]]
           /\ \A i, j \in 1 .. Len(table') : f[i] = f[j] => i = j
    BY DEF Draws
  <1>4. Range(table) \subseteq 1 .. nextEpoch'
    BY <1>1, InvFacts
  <1>5. table' \in Seq(1 .. nextEpoch') /\ Range(table') \subseteq Range(table)
        /\ Len(table') \in Nat
    <2>1. table' \in Seq(1 .. nextEpoch')
      <3>1. Len(table') \in Nat /\ table' \in [1 .. Len(table') -> Range(table)]
        BY <1>2, LenProperties
      <3>2. table' \in [1 .. Len(table') -> 1 .. nextEpoch']
        BY <1>4, <3>1
      <3> QED
        BY <3>1, <3>2, SeqDef
    <2>2. Range(table') \subseteq Range(table) /\ Len(table') \in Nat
      BY <1>2, RangeFacts
    <2> QED
      BY <2>1, <2>2
  <1>6. \A i \in 1 .. Len(table) : table[i] \in Range(table)
    BY <1>1, RangeFacts
  <1>7. \A i \in 1 .. Len(table') : /\ f[i] \in 1 .. Len(table)
                                    /\ tails'[table'[i]].pane = tails[table[f[i]]].pane
                                    /\ tails[table[f[i]]].pane \in Panes
    BY <1>3, <1>6, InvFacts
  <1>8. \A i, j \in 1 .. Len(table') : tails'[table'[i]].pane = tails'[table'[j]].pane => i = j
    <2> SUFFICES ASSUME NEW i \in 1 .. Len(table'), NEW j \in 1 .. Len(table'),
                        tails'[table'[i]].pane = tails'[table'[j]].pane
                 PROVE  i = j
      OBVIOUS
    <2>1. f[i] \in 1 .. Len(table) /\ f[j] \in 1 .. Len(table)
      BY <1>7
    <2>2. tails[table[f[i]]].pane = tails[table[f[j]]].pane
      BY <1>7
    <2>3. f[i] = f[j]
      BY <1>1, <2>1, <2>2
    <2> QED
      BY <1>3, <2>3
  <1>9. Len(table') <= MaxTails
    BY <1>1, <1>2, <1>5, Bounds
  <1>10. \A i \in 1 .. Len(table') : tails'[table'[i]].pane \in Panes
    BY <1>7
  <1> QED
    BY <1>5, <1>8, <1>9, <1>10 DEF TableFits

LEMMA FreshStays ==
  ASSUME IInv, owner' = owner,
         \A e \in Epochs : Fresh(e)' => Fresh(e) /\ tails'[e] = NoTail,
         \A c \in Callers : \/ held'[c] = held[c]
                            \/ \A e \in Epochs : Fresh(e) => held'[c].cursor.epoch # e
  PROVE  FreshIsUnused'
  BY DEF IInv, FreshIsUnused

\* A call moves, and every tail either stays as it is or is freed: what is left
\* to show of the call that moves.
LEMMA CallMoves ==
  ASSUME IInv, NEW c \in Callers, UNCHANGED <<world, owner>>,
         nextEpoch' \in nextEpoch .. MaxEpoch,
         DOMAIN tails' = Epochs, tails' = [e \in Epochs |-> tails'[e]],
         \A e \in Epochs : tails'[e] = tails[e] \/ tails'[e] = NoTail,
         \A e \in Range(table') : tails'[e] = tails[e],
         \A d \in Callers \ {c} :
           calls[d].pc \in {"retains", "waits", "answered"} =>
             tails'[calls[d].epoch] = tails[calls[d].epoch],
         Draws(table', table),
         \A e \in Range(table) : tails[e].reader # "over" => e \in Range(table'),
         calls' \in [Callers -> CallTypes],
         \A d \in Callers \ {c} :
           /\ calls'[d] = calls[d]
           /\ calls[d].pc = "attaching" => nextEpoch' = nextEpoch,
         \/ calls[c].pc # "waits"
         \/ /\ tails[calls[c].epoch].queue = <<>>
            /\ tails[calls[c].epoch].serving = NoCaller,
         held' \in [Callers -> HeldTypes],
         \A d \in Callers \ {c} : held'[d] = held[d],
         \/ held'[c] = held[c]
         \/ /\ HeldFits(c)'
            /\ \A e \in Epochs : Fresh(e) => held'[c].cursor.epoch # e,
         OpenerFits',
         \A e \in Epochs : Fresh(e)' => Fresh(e)
  PROVE  CallFits(c)' => IInv'
  <1>0. \A e \in Epochs : tails'[e] \in PaneTail
    BY InvFacts, NoTailIsOne
  <1>1. nextEpoch' \in Nat /\ nextEpoch <= nextEpoch' /\ nextEpoch' <= MaxEpoch
    BY InvFacts, Bounds
  <1>2. WorldFits'
    <2>1. WorldFits /\ nextEpoch' \in 0 .. MaxEpoch
      BY <1>1 DEF IInv
    <2> QED
      BY <2>1 DEF WorldFits, world
  <1>3. tails' \in [Epochs -> PaneTail]
    BY <1>0
  <1>4. TableFits' /\ Range(table') \subseteq Range(table)
    <2> DEFINE n == Len(table')
    <2>1. /\ table \in Seq(1 .. nextEpoch) /\ nextEpoch \in Nat
          /\ \A i, j \in 1 .. Len(table) : tails[table[i]].pane = tails[table[j]].pane => i = j
          /\ Len(table) <= MaxTails /\ Len(table) \in Nat
      BY InvFacts DEF IInv, TableFits
    <2>2. PICK f \in [1 .. n -> 1 .. Len(table)] :
             /\ \A i \in 1 .. n : table'[i] = table[f[i]]
             /\ \A i, j \in 1 .. n : f[i] = f[j] => i = j
      BY DEF Draws
    <2>3. table' \in Seq(Range(table)) /\ n <= Len(table)
      BY DEF Draws
    <2>4. Range(table') \subseteq Range(table) /\ n \in Nat
          /\ \A i \in 1 .. n : table'[i] \in Range(table')
      BY <2>3, RangeFacts
    <2>5. \A i \in 1 .. n : f[i] \in 1 .. Len(table) /\ tails'[table'[i]] = tails[table[f[i]]]
      BY <2>2, <2>4
    <2>6. \A i \in 1 .. Len(table) : tails[table[i]].pane \in Panes
      BY DEF IInv, TableFits
    <2> HIDE DEF n
    <2>7. \A i, j \in 1 .. n : tails'[table'[i]].pane = tails'[table'[j]].pane => i = j
      <3> SUFFICES ASSUME NEW i \in 1 .. n, NEW j \in 1 .. n,
                          tails'[table'[i]].pane = tails'[table'[j]].pane
                   PROVE  i = j
        OBVIOUS
      <3>1. tails[table[f[i]]].pane = tails[table[f[j]]].pane
        BY <2>5
      <3>2. f[i] = f[j]
        BY <2>1, <2>5, <3>1
      <3> QED
        BY <2>2, <3>2
    <2>8. table' \in Seq(1 .. nextEpoch')
      <3>1. Range(table) \subseteq 1 .. nextEpoch'
        BY <1>1, <2>1, InvFacts
      <3>2. table' \in [1 .. n -> Range(table)]
        BY <2>3, LenProperties DEF n
      <3>3. table' \in [1 .. n -> 1 .. nextEpoch']
        BY <3>1, <3>2
      <3> QED
        BY <2>4, <3>3, SeqDef
    <2>9. n <= MaxTails
      BY <2>1, <2>3, <2>4, Bounds
    <2> QED
      BY <2>4, <2>5, <2>6, <2>7, <2>8, <2>9 DEF TableFits, n
  <1>5. ASSUME NEW e \in Epochs
        PROVE  TailFits(e)' /\ SeatsFit(e)'
    <2>1. CASE tails'[e] = NoTail
      BY <2>1, FreedFits
    <2>2. CASE tails'[e] = tails[e]
      <3>1. TailFits(e) /\ SeatsFit(e) /\ tails[e] \in PaneTail
        BY InvFacts DEF IInv
      <3>2. TailFits(e)'
        BY <2>2, <3>1, TailStays
      <3>3. \/ calls[c].pc # "waits" \/ calls[c].epoch # e
            \/ tails[e].queue = <<>> /\ tails[e].serving = NoCaller
        OBVIOUS
      <3> QED
        BY <2>2, <3>1, <3>2, <3>3, SeatsStay
    <2> QED
      BY <2>1, <2>2
  <1>6. ASSUME NEW d \in Callers, held'[d] = held[d]
        PROVE  HeldFits(d)'
    <2>1. \A e \in Epochs : tails'[e] = NoTail \/ (tails[e] # NoTail /\ Continues(tails[e], tails'[e]))
      BY <1>0, InvFacts, SameContinues
    <2> QED
      BY <1>0, <1>1, <1>6, <2>1, HeldStays
  <1>7. \A d \in Callers : HeldFits(d)'
    BY <1>6
  <1>8. ASSUME NEW d \in Callers \ {c}
        PROVE  CallFits(d)'
    <2>1. \A e \in Range(table') : tails'[e].pane = tails[e].pane /\ e \in Range(table)
      BY <1>4
    <2>2. calls[d].pc = "attaching" =>
            nextEpoch' = nextEpoch /\ \A e \in Range(table') : tails'[e].pane # calls[d].pane
      BY <2>1 DEF IInv, CallFits
    <2>3. ASSUME calls[d].pc \in {"retains", "waits", "answered"}
          PROVE  /\ tails'[calls[d].epoch] \in PaneTail
                 /\ Continues(tails[calls[d].epoch], tails'[calls[d].epoch])
      <3>1. calls[d].epoch \in 1 .. nextEpoch
        BY <2>3 DEF IInv, CallFits
      <3>2. calls[d].epoch \in Epochs
        BY <3>1, InvFacts
      <3> QED
        BY <1>0, <2>3, <3>2, InvFacts, SameContinues
    <2> QED
      BY <1>1, <2>2, <2>3, CallStays
  <1>9. FreshIsUnused'
    <2>1. \A e \in Epochs : Fresh(e)' => Fresh(e) /\ tails'[e] = NoTail
      BY DEF IInv, FreshIsUnused
    <2> QED
      BY <2>1, FreshStays
  <1> QED
    BY <1>2, <1>3, <1>4, <1>5, <1>7, <1>8, <1>9 DEF IInv

-----------------------------------------------------------------------------
(* The steps of a call.                                                    *)

LEMMA IdleIsOne == Idle \in CallTypes
  BY Bounds DEF Idle, CallTypes

LEMMA TailsAreWhole ==
  ASSUME IInv
  PROVE  DOMAIN tails = Epochs /\ tails = [e \in Epochs |-> tails[e]]
  BY DEF IInv

LEMMA KeepFacts ==
  ASSUME NEW ts, Keep(ts)
  PROVE  /\ DOMAIN tails' = Epochs /\ tails' = [e \in Epochs |-> tails'[e]]
         /\ \A e \in Epochs :
              /\ tails'[e] = ts[e] \/ tails'[e] = NoTail
              /\ e \in Range(table') => tails'[e] = ts[e]
              /\ \A d \in Callers : calls'[d].epoch = e => tails'[e] = ts[e]
  BY DEF Keep, Referred

\* The tails the other calls retain are kept.
LEMMA KeptForOthers ==
  ASSUME IInv, Keep(tails), NEW c \in Callers,
         \A d \in Callers \ {c} : calls'[d] = calls[d],
         Range(table') \subseteq Range(table)
  PROVE  /\ DOMAIN tails' = Epochs /\ tails' = [e \in Epochs |-> tails'[e]]
         /\ \A e \in Epochs : tails'[e] = tails[e] \/ tails'[e] = NoTail
         /\ \A e \in Range(table') : tails'[e] = tails[e]
         /\ \A d \in Callers \ {c} :
              calls[d].pc \in {"retains", "waits", "answered"} =>
                tails'[calls[d].epoch] = tails[calls[d].epoch]
  <1>1. \A e \in Range(table') : e \in Epochs
    BY InvFacts
  <1>2. \A d \in Callers : calls[d].pc \in {"retains", "waits", "answered"} =>
          calls[d].epoch \in Epochs
    BY InvFacts DEF IInv, CallFits
  <1> QED
    BY <1>1, <1>2, KeepFacts

\* A tail in the table, by its place.
LEMMA RetainedFacts ==
  ASSUME IInv, NEW p \in Panes, NEW k \in Retained(p)
  PROVE  /\ k \in 1 .. Len(table) /\ table[k] \in 1 .. nextEpoch /\ table[k] \in Epochs
         /\ tails[table[k]].pane = p /\ Draws(Touched(k), table)
         /\ \A e \in Range(table) : e \in Range(Touched(k))
         /\ Draws(RemoveAt(table, k), table)
         /\ \A e \in Range(table) : e # table[k] => e \in Range(RemoveAt(table, k))
  <1>1. table \in Seq(1 .. nextEpoch)
    BY DEF IInv, TableFits
  <1>2. k \in 1 .. Len(table) /\ tails[table[k]].pane = p
    BY <1>1, LenProperties DEF Retained
  <1>3. table[k] \in 1 .. nextEpoch /\ table[k] \in Epochs
    BY <1>1, <1>2, RangeFacts, InvFacts
  <1> QED
    BY <1>1, <1>2, <1>3, TouchedIsDrawn, RemovedIsDrawn DEF Touched

LEMMA SameTable ==
  ASSUME IInv
  PROVE  Draws(table, table)
  BY SelfIsDrawn DEF IInv, TableFits

LEMMA ReturnFacts ==
  ASSUME IInv, NEW c \in Callers, Return(c)
  PROVE  /\ calls' \in [Callers -> CallTypes] /\ calls'[c] = Idle /\ CallFits(c)'
         /\ \A d \in Callers \ {c} : calls'[d] = calls[d]
  <1>1. calls' = [calls EXCEPT ![c] = Idle] /\ calls \in [Callers -> CallTypes]
    BY DEF Return, IInv
  <1>2. calls' \in [Callers -> CallTypes] /\ calls'[c] = Idle
        /\ \A d \in Callers \ {c} : calls'[d] = calls[d]
    BY <1>1, IdleIsOne
  <1>3. Idle.pc = "idle" /\ Idle.epoch = 0
    BY DEF Idle
  <1> QED
    BY <1>2, <1>3 DEF CallFits

LEMMA GoesFacts ==
  ASSUME IInv, NEW c \in Callers, NEW e \in 0 .. MaxEpoch,
         NEW to \in {"idle", "absent", "attaching", "retains", "waits", "answered"},
         Goes(c, to, e)
  PROVE  /\ calls' \in [Callers -> CallTypes]
         /\ calls'[c].pc = to /\ calls'[c].epoch = e /\ calls'[c].pane = calls[c].pane
         /\ calls'[c].first = calls[c].first
         /\ \A d \in Callers \ {c} : calls'[d] = calls[d]
  <1>1. calls \in [Callers -> CallTypes]
    BY DEF IInv
  <1>2. calls' = [calls EXCEPT ![c] = [calls[c] EXCEPT !.pc = to, !.epoch = e]]
    BY <1>1 DEF Goes
  <1>3. calls[c] \in CallTypes
    BY <1>1
  <1>4. [calls[c] EXCEPT !.pc = to, !.epoch = e] \in CallTypes
    BY <1>3 DEF CallTypes
  <1> DEFINE call == [calls[c] EXCEPT !.pc = to, !.epoch = e]
  <1>5. call.pc = to /\ call.epoch = e /\ call.pane = calls[c].pane /\ call.first = calls[c].first
    BY <1>3 DEF CallTypes
  <1> HIDE DEF call
  <1>6. calls' = [calls EXCEPT ![c] = call] /\ call \in CallTypes
    BY <1>2, <1>4 DEF call
  <1> QED
    BY <1>1, <1>5, <1>6

LEMMA ReadKeeps ==
  ASSUME IInv, NEW c \in Callers, NEW p \in Panes, NEW first \in BOOLEAN, Read(c, p, first)
  PROVE  IInv'
  <1>1. /\ calls[c].pc = "idle"
        /\ UNCHANGED <<world, owner, nextEpoch, tails, opener, held>>
    BY DEF Read
  <1>2. /\ calls \in [Callers -> CallTypes] /\ OpenerFits /\ nextEpoch \in Nat
        /\ nextEpoch \in 0 .. MaxEpoch /\ held \in [Callers -> HeldTypes]
    BY InvFacts DEF IInv, WorldFits
  <1>3. \A d \in Callers : calls[d].pc = "attaching" => d # c
    BY <1>1
  <1>4. PICK call \in CallTypes :
           /\ calls' = [calls EXCEPT ![c] = call] /\ Draws(table', table)
           /\ \A e \in Range(table) : e \in Range(table')
           /\ call.pane = p
           /\ \/ call.pc = "absent" /\ call.epoch = 0
              \/ call.pc = "retains" /\ call.epoch \in 1 .. nextEpoch /\ tails[call.epoch].pane = p
    <2>1. CASE \E k \in Retained(p) :
                 /\ table' = Touched(k)
                 /\ calls' = [calls EXCEPT ![c] = [Idle EXCEPT !.pc = "retains",
                                !.pane = p, !.first = first, !.epoch = table[k]]]
      <3>1. PICK k \in Retained(p) :
                 /\ table' = Touched(k)
                 /\ calls' = [calls EXCEPT ![c] = [Idle EXCEPT !.pc = "retains",
                                !.pane = p, !.first = first, !.epoch = table[k]]]
        BY <2>1
      <3>2. /\ table[k] \in 1 .. nextEpoch /\ tails[table[k]].pane = p
            /\ Draws(Touched(k), table)
            /\ \A e \in Range(table) : e \in Range(Touched(k))
        BY RetainedFacts
      <3> DEFINE e == table[k]
                 call == [Idle EXCEPT !.pc = "retains", !.pane = p, !.first = first, !.epoch = e]
      <3>3. e \in 1 .. nextEpoch /\ e \in 0 .. MaxEpoch
        BY <1>2, <3>2, Bounds
      <3> HIDE DEF e
      <3>4. call \in CallTypes /\ call.pane = p /\ call.pc = "retains" /\ call.epoch = e
        BY <3>3 DEF Idle, CallTypes
      <3>5. calls' = [calls EXCEPT ![c] = call]
        BY <3>1 DEF e
      <3> HIDE DEF call
      <3>6. tails[e].pane = p
        BY <3>2 DEF e
      <3> QED
        BY <3>1, <3>2, <3>3, <3>4, <3>5, <3>6
    <2>2. CASE /\ Retained(p) = {} /\ UNCHANGED table
               /\ calls' = [calls EXCEPT ![c] = [Idle EXCEPT !.pc = "absent",
                              !.pane = p, !.first = first]]
      <3> DEFINE call == [Idle EXCEPT !.pc = "absent", !.pane = p, !.first = first]
      <3>1. call \in CallTypes /\ call.pane = p /\ call.pc = "absent" /\ call.epoch = 0
        <4>1. Idle \in CallTypes /\ Idle.epoch = 0
          BY IdleIsOne DEF Idle
        <4> QED
          BY <4>1 DEF CallTypes
      <3>2. calls' = [calls EXCEPT ![c] = call]
        BY <2>2
      <3> HIDE DEF call
      <3> QED
        BY <2>2, <3>1, <3>2, SameTable
    <2> QED
      BY <2>1, <2>2 DEF Read
  <1>5. calls' \in [Callers -> CallTypes] /\ calls'[c] = call
        /\ \A d \in Callers \ {c} : calls'[d] = calls[d]
    BY <1>2, <1>4
  <1>6. OpenerFits'
    BY <1>1, <1>2, <1>4, <1>5 DEF OpenerFits
  <1>7. CallFits(c)'
    BY <1>1, <1>4, <1>5 DEF CallFits
  <1>8. nextEpoch' \in nextEpoch .. MaxEpoch /\ \A e \in Epochs : Fresh(e)' => Fresh(e)
    BY <1>1, <1>2, Bounds DEF Fresh
  <1>9. DOMAIN tails' = Epochs /\ tails' = [e \in Epochs |-> tails'[e]]
    BY <1>1, TailsAreWhole
  <1> QED
    BY <1>1, <1>2, <1>4, <1>5, <1>6, <1>7, <1>8, <1>9, CallMoves

LEMMA OpenKeeps ==
  ASSUME IInv, NEW c \in Callers, Open(c)
  PROVE  IInv'
  <1>1. /\ calls[c].pc = "absent"
        /\ UNCHANGED <<world, owner, tails, held>>
    BY DEF Open
  <1>2. /\ calls \in [Callers -> CallTypes] /\ OpenerFits /\ nextEpoch \in Nat
        /\ nextEpoch \in 0 .. MaxEpoch /\ held \in [Callers -> HeldTypes]
        /\ calls[c].pane \in Panes /\ c # NoCaller
    BY <1>1, InvFacts DEF IInv, WorldFits, CallFits
  <1>3. DOMAIN tails' = Epochs /\ tails' = [e \in Epochs |-> tails'[e]]
    BY <1>1, TailsAreWhole
  <1>4. CASE /\ opener # NoCaller /\ Return(c)
             /\ UNCHANGED <<nextEpoch, table, opener>>
    <2>1. /\ calls' \in [Callers -> CallTypes] /\ calls'[c] = Idle /\ CallFits(c)'
          /\ \A d \in Callers \ {c} : calls'[d] = calls[d]
      BY <1>4, ReturnFacts
    <2>2. OpenerFits'
      BY <1>1, <1>2, <1>4, <2>1 DEF OpenerFits, Idle
    <2>3. nextEpoch' \in nextEpoch .. MaxEpoch /\ \A e \in Epochs : Fresh(e)' => Fresh(e)
      BY <1>2, <1>4, Bounds DEF Fresh
    <2>4. Draws(table', table)
      BY <1>4, SameTable
    <2> QED
      BY <1>1, <1>2, <1>3, <1>4, <2>1, <2>2, <2>3, <2>4, CallMoves
  <1>5. CASE \E k \in Retained(calls[c].pane) :
               /\ opener = NoCaller /\ table' = Touched(k) /\ Goes(c, "retains", table[k])
               /\ UNCHANGED <<nextEpoch, opener>>
    <2>1. PICK k \in Retained(calls[c].pane) :
               /\ opener = NoCaller /\ table' = Touched(k) /\ Goes(c, "retains", table[k])
               /\ UNCHANGED <<nextEpoch, opener>>
      BY <1>5
    <2>2. /\ table[k] \in 1 .. nextEpoch /\ tails[table[k]].pane = calls[c].pane
          /\ Draws(Touched(k), table)
          /\ \A e \in Range(table) : e \in Range(Touched(k))
      BY <1>2, RetainedFacts
    <2>3. table[k] \in 0 .. MaxEpoch
      BY <1>2, <2>2, Bounds
    <2>4. /\ calls' \in [Callers -> CallTypes]
          /\ calls'[c].pc = "retains" /\ calls'[c].epoch = table[k]
          /\ calls'[c].pane = calls[c].pane
          /\ \A d \in Callers \ {c} : calls'[d] = calls[d]
      BY <2>1, <2>3, GoesFacts
    <2>5. OpenerFits'
      BY <1>1, <1>2, <2>1, <2>4 DEF OpenerFits
    <2>6. nextEpoch' \in nextEpoch .. MaxEpoch /\ \A e \in Epochs : Fresh(e)' => Fresh(e)
      BY <1>2, <2>1, Bounds DEF Fresh
    <2>7. CallFits(c)'
      BY <1>1, <1>2, <2>1, <2>2, <2>4 DEF CallFits
    <2> QED
      BY <1>1, <1>2, <1>3, <2>1, <2>2, <2>4, <2>5, <2>6, <2>7, CallMoves
  <1>6. CASE /\ opener = NoCaller /\ Retained(calls[c].pane) = {} /\ nextEpoch < MaxEpoch
             /\ opener' = c /\ nextEpoch' = nextEpoch + 1 /\ Goes(c, "attaching", nextEpoch')
             /\ UNCHANGED table
    <2>1. nextEpoch' \in 0 .. MaxEpoch /\ nextEpoch' \in nextEpoch .. MaxEpoch /\ nextEpoch' > 0
      BY <1>2, <1>6, Bounds
    <2>2. /\ calls' \in [Callers -> CallTypes]
          /\ calls'[c].pc = "attaching" /\ calls'[c].epoch = nextEpoch'
          /\ calls'[c].pane = calls[c].pane
          /\ \A d \in Callers \ {c} : calls'[d] = calls[d]
      BY <1>6, <2>1, GoesFacts
    <2>3. \A d \in Callers : calls[d].pc # "attaching"
      BY <1>2, <1>6, InvFacts DEF OpenerFits
    <2>4. OpenerFits'
      BY <1>2, <1>6, <2>2, <2>3 DEF OpenerFits
    <2>5. \A e \in Epochs : Fresh(e)' => Fresh(e)
      <3>1. \A e \in Epochs : e \in Nat
        BY Bounds DEF Epochs
      <3> QED
        BY <1>2, <1>6, <3>1 DEF Fresh
    <2>6. Draws(table', table)
      BY <1>6, SameTable
    <2>7. CallFits(c)'
      <3>1. \A e \in Range(table) : tails[e].pane # calls[c].pane
        BY <1>6 DEF Retained, Range
      <3> QED
        BY <1>1, <1>2, <1>6, <2>1, <2>2, <3>1 DEF CallFits
    <2> QED
      BY <1>1, <1>2, <1>3, <1>6, <2>1, <2>2, <2>3, <2>4, <2>5, <2>6, <2>7, CallMoves
  <1> QED
    BY <1>4, <1>5, <1>6 DEF Open

LEMMA AttachFailsKeeps ==
  ASSUME IInv, NEW c \in Callers, AttachFails(c)
  PROVE  IInv'
  <1>1. /\ calls[c].pc = "attaching" /\ opener' = NoCaller /\ Return(c)
        /\ UNCHANGED <<world, owner, nextEpoch, tails, table, held>>
    BY DEF AttachFails
  <1>2. /\ calls \in [Callers -> CallTypes] /\ OpenerFits /\ nextEpoch \in Nat
        /\ nextEpoch \in 0 .. MaxEpoch /\ held \in [Callers -> HeldTypes]
        /\ \A d \in Callers : d # NoCaller
    BY <1>1, InvFacts DEF IInv, WorldFits
  <1>3. DOMAIN tails' = Epochs /\ tails' = [e \in Epochs |-> tails'[e]]
    BY <1>1, TailsAreWhole
  <1>4. /\ calls' \in [Callers -> CallTypes] /\ calls'[c] = Idle /\ CallFits(c)'
        /\ \A d \in Callers \ {c} : calls'[d] = calls[d]
    BY <1>1, ReturnFacts
  <1>5. OpenerFits'
    <2>1. opener = c /\ \A d \in Callers \ {c} : calls[d].pc # "attaching"
      BY <1>1, <1>2 DEF OpenerFits
    <2> QED
      BY <1>1, <1>2, <1>4, <2>1 DEF OpenerFits, Idle
  <1>6. nextEpoch' \in nextEpoch .. MaxEpoch /\ \A e \in Epochs : Fresh(e)' => Fresh(e)
    BY <1>1, <1>2, Bounds DEF Fresh
  <1>7. Draws(table', table)
    BY <1>1, SameTable
  <1> QED
    BY <1>1, <1>2, <1>3, <1>4, <1>5, <1>6, <1>7, CallMoves

\* A call returns, and its tail may be dropped from the table if it is over.
LEMMA ReturnKeeps ==
  ASSUME IInv, NEW c \in Callers, Return(c), Keep(tails),
         UNCHANGED <<world, owner, nextEpoch, opener>>, calls[c].pc # "attaching",
         Draws(table', table),
         \A e \in Range(table) : tails[e].reader # "over" => e \in Range(table'),
         calls[c].pc = "waits" => tails[calls[c].epoch].reader = "over",
         held' \in [Callers -> HeldTypes],
         \A d \in Callers \ {c} : held'[d] = held[d],
         \/ held'[c] = held[c]
         \/ /\ HeldFits(c)'
            /\ \A e \in Epochs : Fresh(e) => held'[c].cursor.epoch # e
  PROVE  IInv'
  <1>1. /\ calls \in [Callers -> CallTypes] /\ OpenerFits /\ nextEpoch \in Nat
        /\ nextEpoch \in 0 .. MaxEpoch
    BY InvFacts DEF IInv, WorldFits
  <1>2. /\ calls' \in [Callers -> CallTypes] /\ calls'[c] = Idle /\ CallFits(c)'
        /\ \A d \in Callers \ {c} : calls'[d] = calls[d]
    BY ReturnFacts
  <1>3. Range(table') \subseteq Range(table)
    BY RangeFacts DEF Draws
  <1>4. /\ DOMAIN tails' = Epochs /\ tails' = [e \in Epochs |-> tails'[e]]
        /\ \A e \in Epochs : tails'[e] = tails[e] \/ tails'[e] = NoTail
        /\ \A e \in Range(table') : tails'[e] = tails[e]
        /\ \A d \in Callers \ {c} :
             calls[d].pc \in {"retains", "waits", "answered"} =>
               tails'[calls[d].epoch] = tails[calls[d].epoch]
    BY <1>2, <1>3, KeptForOthers
  <1>5. ASSUME calls[c].pc = "waits"
        PROVE  /\ tails[calls[c].epoch].queue = <<>>
               /\ tails[calls[c].epoch].serving = NoCaller
    <2>1. calls[c].epoch \in Epochs /\ tails[calls[c].epoch].pane \in Panes
      BY <1>5, InvFacts DEF IInv, CallFits
    <2> QED
      BY <1>5, <2>1, InvFacts DEF IInv, TailFits, Fits
  <1>6. OpenerFits'
    BY <1>1, <1>2 DEF OpenerFits, Idle
  <1>7. nextEpoch' \in nextEpoch .. MaxEpoch /\ \A e \in Epochs : Fresh(e)' => Fresh(e)
    BY <1>1, Bounds DEF Fresh
  <1> QED
    BY <1>2, <1>4, <1>5, <1>6, <1>7, CallMoves

LEMMA OverIsRemoved ==
  ASSUME IInv, NEW p \in Panes, NEW e \in Epochs, tails[e].reader = "over", RemoveIfEpoch(p, e)
  PROVE  /\ Draws(table', table)
         /\ \A x \in Range(table) : tails[x].reader # "over" => x \in Range(table')
  <1>1. CASE \E k \in Retained(p) : table[k] = e /\ table' = RemoveAt(table, k)
    <2>1. PICK k \in Retained(p) : table[k] = e /\ table' = RemoveAt(table, k)
      BY <1>1
    <2>2. /\ Draws(RemoveAt(table, k), table)
          /\ \A x \in Range(table) : x # table[k] => x \in Range(RemoveAt(table, k))
      BY RetainedFacts
    <2> QED
      BY <2>1, <2>2
  <1>2. CASE UNCHANGED table
    BY <1>2, SameTable
  <1> QED
    BY <1>1, <1>2 DEF RemoveIfEpoch

LEMMA StoppedKeeps ==
  ASSUME IInv, NEW c \in Callers, Stopped(c)
  PROVE  IInv'
  <1>1. /\ calls[c].pc = "waits" /\ tails[calls[c].epoch].reader = "over"
        /\ Return(c) /\ RemoveIfEpoch(calls[c].pane, calls[c].epoch) /\ Keep(tails)
        /\ UNCHANGED <<world, owner, nextEpoch, opener, held>>
    BY DEF Stopped
  <1>2. calls[c].epoch \in Epochs /\ calls[c].pane \in Panes /\ held \in [Callers -> HeldTypes]
    BY <1>1, InvFacts DEF IInv, CallFits
  <1>3. /\ Draws(table', table)
        /\ \A x \in Range(table) : tails[x].reader # "over" => x \in Range(table')
    BY <1>1, <1>2, OverIsRemoved
  <1> QED
    BY <1>1, <1>2, <1>3, ReturnKeeps

\* An answer holds a cursor of the place it was taken at.
LEMMA AnswerKeeps ==
  ASSUME IInv, NEW c \in Callers, NEW offset \in Nat, NEW last \in Nat \X Nat,
         calls[c].pc \in {"retains", "answered"},
         IsAt(tails[calls[c].epoch], offset, last), Return(c), Keep(tails),
         held' = [held EXCEPT ![c] = Holding(c, offset, last)],
         UNCHANGED <<world, owner, nextEpoch, table, opener>>
  PROVE  IInv'
  <1> DEFINE e == calls[c].epoch
             h == Holding(c, offset, last)
  <1>1. /\ held \in [Callers -> HeldTypes] /\ owner \in Nat /\ nextEpoch \in Nat
        /\ calls[c].pane \in Panes /\ e \in 1 .. nextEpoch /\ e \in Epochs
        /\ tails[e].pane \in Panes
    BY InvFacts DEF IInv, CallFits
  <1>2. /\ h.pane = calls[c].pane /\ h.last = last /\ h.cursor.owner = owner
        /\ h.cursor.epoch = e /\ h.cursor.offset = offset /\ h \in HeldTypes
    <2>1. e \in Nat
      BY <1>1
    <2> QED
      BY <1>1, <2>1 DEF Holding, HeldTypes
  <1> HIDE DEF h
  <1>3. held' \in [Callers -> HeldTypes] /\ held'[c] = h
        /\ \A d \in Callers \ {c} : held'[d] = held[d]
    BY <1>1, <1>2 DEF h
  <1>4. tails'[e] = tails[e] \/ tails'[e] = NoTail
    BY <1>1, KeepFacts
  <1>5. HeldFits(c)'
    BY <1>1, <1>2, <1>3, <1>4 DEF HeldFits, IsAt
  <1>6. \A x \in Epochs : Fresh(x) => held'[c].cursor.epoch # x
    BY <1>1, <1>2, <1>3, InvFacts DEF IInv, FreshIsUnused
  <1>7. Draws(table', table)
    BY SameTable
  <1> QED
    BY <1>3, <1>5, <1>6, <1>7, ReturnKeeps

LEMMA AnswerFirstKeeps ==
  ASSUME IInv, NEW c \in Callers, AnswerFirst(c)
  PROVE  IInv'
  <1>1. /\ calls[c].pc = "answered" /\ Return(c) /\ Keep(tails)
        /\ held' = [held EXCEPT ![c] = Holding(c, calls[c].offset, calls[c].last)]
        /\ UNCHANGED <<world, owner, nextEpoch, table, opener>>
    BY DEF AnswerFirst
  <1>2. /\ IsAt(tails[calls[c].epoch], calls[c].offset, calls[c].last)
        /\ calls[c].offset \in Nat /\ calls[c].last \in Nat \X Nat
    BY <1>1 DEF IInv, CallFits, CallTypes
  <1> QED
    BY <1>1, <1>2, AnswerKeeps

LEMMA AnswerSinceKeeps ==
  ASSUME IInv, NEW c \in Callers, AnswerSince(c)
  PROVE  IInv'
  <1> DEFINE tail == tails[calls[c].epoch]
  <1>1. /\ calls[c].pc = "retains" /\ Return(c) /\ Keep(tails)
        /\ held' = [held EXCEPT ![c] = Holding(c, Since(c).offset, Since(c).last)]
        /\ UNCHANGED <<world, owner, nextEpoch, table, opener>>
    BY DEF AnswerSince
  <1>2. Since(c).offset = RingEnd(tail.ring) /\ Since(c).last = <<tail.era, tail.got>>
    BY DEF Since
  <1>3. calls[c].epoch \in Epochs /\ tail \in PaneTail
    BY <1>1, InvFacts DEF IInv, CallFits
  <1>4. RingEnd(tail.ring) \in Nat /\ tail.got \in Nat /\ tail.era \in Nat
    BY <1>3, RingEndIsNat, Bounds DEF PaneTail
  <1> DEFINE offset == RingEnd(tail.ring)
             last == <<tail.era, tail.got>>
  <1>5. offset \in Nat /\ last \in Nat \X Nat /\ IsAt(tail, offset, last)
    BY <1>4 DEF IsAt
  <1>6. held' = [held EXCEPT ![c] = Holding(c, offset, last)]
    BY <1>1, <1>2
  <1> HIDE DEF offset, last
  <1> QED
    BY <1>1, <1>5, <1>6, AnswerKeeps

-----------------------------------------------------------------------------
(* The steps of one tail.                                                  *)

\* One tail goes on, and the call it serves may move: what is left to show is
\* that this tail, its mailbox and this call still fit.
LEMMA TailMoves ==
  ASSUME IInv, NEW e \in Epochs, NEW next \in PaneTail, NEW c \in Callers \cup {NoCaller},
         tails' = [tails EXCEPT ![e] = next], tails[e] # NoTail, next # NoTail,
         Continues(tails[e], next), Fits(next),
         next.reader \in {"reading", "capturing"} => tails[e].reader \in {"reading", "capturing"},
         UNCHANGED <<world, owner, nextEpoch, table, opener, held>>,
         calls' \in [Callers -> CallTypes],
         \A d \in Callers \ {c} : calls'[d] = calls[d],
         c \in Callers =>
           /\ calls[c].pc # "attaching" /\ calls'[c].pc # "attaching" /\ CallFits(c)'
           /\ calls[c].pc # "waits" \/ calls[c].epoch = e,
         SeatsFit(e)'
  PROVE  IInv'
  <1>1. /\ WorldFits /\ OpenerFits /\ tails \in [Epochs -> PaneTail]
        /\ held \in [Callers -> HeldTypes] /\ nextEpoch \in Nat
    BY InvFacts DEF IInv
  <1>2. /\ tails' \in [Epochs -> PaneTail] /\ tails'[e] = next
        /\ \A x \in Epochs \ {e} : tails'[x] = tails[x]
    BY <1>1
  <1>3. \A x \in Epochs : Continues(tails[x], tails'[x]) /\ tails'[x] \in PaneTail
    BY <1>1, <1>2, SameContinues
  <1>4. TableFits' /\ Range(table') = Range(table)
    <2>1. \A x \in Range(table) : tails'[x].pane = tails[x].pane
      BY <1>3, InvFacts DEF Continues
    <2>2. Draws(table', table) /\ nextEpoch' = nextEpoch /\ nextEpoch <= nextEpoch'
      BY <1>1, SameTable
    <2> QED
      BY <1>1, <2>1, <2>2, TableStays
  <1>5. ASSUME NEW x \in Epochs
        PROVE  TailFits(x)' /\ SeatsFit(x)'
    <2>1. TailFits(x) /\ SeatsFit(x)
      BY DEF IInv
    <2>2. CASE x = e
      <3>1. Fits(tails[e])'
        BY <1>2 DEF Fits, world
      <3> QED
        BY <1>2, <1>4, <2>1, <2>2, <3>1 DEF TailFits
    <2>3. CASE x # e
      <3>1. TailFits(x)'
        BY <1>2, <1>4, <2>1, <2>3, TailStays
      <3>2. SeatsFit(x)'
        <4>1. CASE c \in Callers
          <5>1. calls[c].pc # "waits" \/ calls[c].epoch # x
            BY <2>3, <4>1
          <5> QED
            BY <1>1, <1>2, <2>1, <2>3, <4>1, <5>1, SeatsStay
        <4>2. CASE c = NoCaller
          <5>1. /\ tails[x].serving \in Callers \cup {NoCaller}
                /\ tails[x].queue \in Seq(Callers \cup {NoCaller})
            BY <1>1 DEF PaneTail
          <5>2. \A i \in DOMAIN tails[x].queue : tails[x].queue[i] \in Callers \cup {NoCaller}
            BY <5>1, LenProperties, ElementOfSeq
          <5>3. \A d \in Callers \cup {NoCaller} : Waits(d, x) => Waits(d, x)'
            BY <4>2, InvFacts DEF Waits
          <5> QED
            BY <1>2, <2>1, <2>3, <5>1, <5>2, <5>3 DEF SeatsFit, Waits
        <4> QED
          BY <4>1, <4>2
      <3> QED
        BY <3>1, <3>2
    <2> QED
      BY <2>2, <2>3
  <1>6. ASSUME NEW d \in Callers
        PROVE  HeldFits(d)'
    <2>1. \A x \in Epochs : /\ tails'[x] \in PaneTail
                            /\ tails'[x] = NoTail \/ (tails[x] # NoTail /\ Continues(tails[x], tails'[x]))
      BY <1>2, <1>3
    <2>2. nextEpoch' \in Nat /\ nextEpoch <= nextEpoch'
      BY <1>1
    <2> QED
      BY <2>1, <2>2, HeldStays
  <1>7. ASSUME NEW d \in Callers
        PROVE  CallFits(d)'
    <2>1. CASE d = c
      BY <2>1
    <2>2. CASE d # c
      <3>1. calls[d].pc = "attaching" =>
              nextEpoch' = nextEpoch /\ \A x \in Range(table') : tails'[x].pane # calls[d].pane
        BY <1>3, <1>4, InvFacts DEF IInv, CallFits, Continues
      <3>2. ASSUME calls[d].pc \in {"retains", "waits", "answered"}
            PROVE  /\ tails'[calls[d].epoch] \in PaneTail
                   /\ Continues(tails[calls[d].epoch], tails'[calls[d].epoch])
        <4>1. calls[d].epoch \in Epochs
          BY <3>2, InvFacts DEF IInv, CallFits
        <4> QED
          BY <1>3, <4>1
      <3>3. nextEpoch' \in Nat /\ nextEpoch <= nextEpoch'
        BY <1>1
      <3> QED
        BY <2>2, <3>1, <3>2, <3>3, CallStays
    <2> QED
      BY <2>1, <2>2
  <1>8. FreshIsUnused'
    BY <1>2 DEF IInv, FreshIsUnused, Fresh
  <1>9. OpenerFits'
    BY <1>1, InvFacts DEF OpenerFits
  <1>10. WorldFits'
    BY <1>1 DEF WorldFits, world
  <1> QED
    BY <1>2, <1>4, <1>5, <1>6, <1>7, <1>8, <1>9, <1>10 DEF IInv

LEMMA RequestKeeps ==
  ASSUME IInv, NEW c \in Callers, Request(c)
  PROVE  IInv'
  <1>0. PICK e \in Epochs : e = calls[c].epoch
    BY InvFacts DEF IInv, CallFits, Request
  <1>1. /\ calls[c].pc = "retains" /\ calls[c].epoch = e
        /\ UNCHANGED <<world, owner, nextEpoch, opener, held>>
    BY <1>0 DEF Request
  <1>2. /\ e \in Epochs /\ e \in 1 .. nextEpoch /\ tails[e].pane = calls[c].pane
        /\ calls[c].pane \in Panes /\ held \in [Callers -> HeldTypes]
        /\ tails[e] \in PaneTail /\ tails[e] # NoTail /\ Fits(tails[e]) /\ SeatsFit(e)
    BY <1>1, InvFacts DEF IInv, CallFits, TailFits
  <1>3. CASE /\ tails[e].reader = "over" /\ Return(c) /\ RemoveIfEpoch(calls[c].pane, e)
             /\ Keep(tails)
    <2>1. /\ Draws(table', table)
          /\ \A x \in Range(table) : tails[x].reader # "over" => x \in Range(table')
      BY <1>2, <1>3, OverIsRemoved
    <2> QED
      BY <1>1, <1>2, <1>3, <2>1, ReturnKeeps
  <1>4. CASE Return(c) /\ UNCHANGED table /\ Keep(tails)
    BY <1>1, <1>2, <1>4, SameTable, ReturnKeeps
  <1>5. CASE /\ tails[e].reader # "over" /\ Len(tails[e].queue) < SnapshotQueue
             /\ tails' = [tails EXCEPT ![e].queue = Append(@, c)]
             /\ Goes(c, "waits", e) /\ UNCHANGED table
    <2> DEFINE q == tails[e].queue
               longer == Append(q, c)
               next == [tails[e] EXCEPT !.queue = longer]
    <2>1. q \in Seq(Callers \cup {NoCaller}) /\ SnapshotQueue \in Nat
      BY <1>2, Bounds DEF PaneTail
    <2>2. /\ longer \in Seq(Callers \cup {NoCaller}) /\ Len(longer) = Len(q) + 1
          /\ Len(q) \in Nat /\ DOMAIN q = 1 .. Len(q) /\ DOMAIN longer = 1 .. Len(q) + 1
          /\ \A i \in 1 .. Len(q) : longer[i] = q[i]
          /\ longer[Len(q) + 1] = c
      <3>1. /\ longer \in Seq(Callers \cup {NoCaller}) /\ Len(longer) = Len(q) + 1
            /\ \A i \in 1 .. Len(q) : longer[i] = q[i]
            /\ longer[Len(q) + 1] = c
        BY <2>1, AppendProperties
      <3> QED
        BY <2>1, <3>1, LenProperties
    <2>3. tails' = [tails EXCEPT ![e] = next]
      BY <1>5
    <2> HIDE DEF longer
    <2>4. /\ next \in PaneTail /\ next.queue = longer /\ next.serving = tails[e].serving
          /\ next.reader = tails[e].reader /\ next.pane = tails[e].pane
          /\ next.ring = tails[e].ring /\ next.got = tails[e].got /\ next.era = tails[e].era
      BY <1>2, <2>2 DEF PaneTail
    <2> HIDE DEF next
    <2>5. next # NoTail
      BY <1>2, <2>4, Bounds DEF NoTail
    <2>6. Continues(tails[e], next)
      BY <1>2, <2>4, RingEndIsNat DEF Continues
    <2>7. Fits(next)
      <3>1. Len(longer) <= SnapshotQueue
        BY <1>5, <2>1, <2>2
      <3> QED
        BY <1>2, <1>5, <2>4, <3>1 DEF Fits
    <2>8. /\ calls' \in [Callers -> CallTypes]
          /\ calls'[c].pc = "waits" /\ calls'[c].epoch = e /\ calls'[c].pane = calls[c].pane
          /\ \A d \in Callers \ {c} : calls'[d] = calls[d]
      <3>1. e \in 0 .. MaxEpoch
        BY <1>2, Bounds DEF Epochs
      <3> QED
        BY <1>5, <3>1, GoesFacts
    <2>9. tails'[e] = next
      BY <1>2, <2>3 DEF IInv
    <2>10. CallFits(c)'
      BY <1>1, <1>2, <2>4, <2>8, <2>9 DEF CallFits
    <2>11. SeatsFit(e)'
      <3> DEFINE Holds(x) == x # NoCaller => calls'[x].pc = "waits" /\ calls'[x].epoch = e
      <3>1. \A d \in Callers : Waits(d, e) => d # c /\ Holds(d)
        BY <1>1, <2>8, InvFacts DEF Waits
      <3>2. tails[e].serving \in Callers \cup {NoCaller}
            /\ \A i \in 1 .. Len(q) : q[i] \in Callers \cup {NoCaller}
        BY <1>2, <2>1, ElementOfSeq DEF PaneTail
      <3>3. /\ Waits(tails[e].serving, e)
            /\ \A i \in 1 .. Len(q) :
                 /\ Waits(q[i], e)
                 /\ q[i] # NoCaller =>
                      /\ q[i] # tails[e].serving
                      /\ \A j \in 1 .. Len(q) : q[j] = q[i] => j = i
        BY <1>2, <2>2 DEF SeatsFit
      <3>4. c # NoCaller /\ NoCaller \notin Callers /\ Holds(c)
        BY <2>8, Bounds
      <3>5. \A i \in 1 .. Len(q) : q[i] # c
        BY <3>1, <3>3, <3>4
      <3>6. tails[e].serving # c
        BY <3>1, <3>3, <3>4
      <3>7. Holds(NoCaller)
        OBVIOUS
      <3> HIDE DEF q, Holds
      <3>8. \A i \in 1 .. Len(q) + 1 : i \in 1 .. Len(q) \/ i = Len(q) + 1
        BY <2>2
      <3>9. \A i \in 1 .. Len(q) + 1 :
              /\ Holds(longer[i])
              /\ longer[i] # NoCaller =>
                   /\ longer[i] # tails[e].serving
                   /\ \A j \in 1 .. Len(q) + 1 : longer[j] = longer[i] => j = i
        <4> SUFFICES ASSUME NEW i \in 1 .. Len(q) + 1
                     PROVE  /\ Holds(longer[i])
                            /\ longer[i] # NoCaller =>
                                 /\ longer[i] # tails[e].serving
                                 /\ \A j \in 1 .. Len(q) + 1 : longer[j] = longer[i] => j = i
          OBVIOUS
        <4>1. CASE i = Len(q) + 1
          <5>1. \A j \in 1 .. Len(q) + 1 : longer[j] = longer[i] => j = i
            BY <2>2, <3>5, <3>8, <4>1
          <5> QED
            BY <2>2, <3>4, <3>6, <4>1, <5>1
        <4>2. CASE i \in 1 .. Len(q)
          <5>1. longer[i] = q[i] /\ q[i] # c
            BY <2>2, <3>5, <4>2
          <5>2. Holds(q[i])
            BY <3>1, <3>2, <3>3, <3>7, <4>2
          <5>3. q[i] # NoCaller => \A j \in 1 .. Len(q) + 1 : longer[j] = q[i] => j = i
            BY <2>2, <3>3, <3>8, <4>2, <5>1
          <5> QED
            BY <3>3, <4>2, <5>1, <5>2, <5>3
        <4> QED
          BY <3>8, <4>1, <4>2
      <3>10. Holds(tails[e].serving)
        BY <3>1, <3>2, <3>3, <3>7
      <3>11. tails'[e].queue = longer /\ tails'[e].serving = tails[e].serving
        BY <2>4, <2>9
      <3> QED
        BY <2>2, <3>9, <3>10, <3>11 DEF SeatsFit, Waits, Holds
    <2>12. c \in Callers \cup {NoCaller} /\ UNCHANGED <<world, owner, nextEpoch, table, opener, held>>
      BY <1>1, <1>5
    <2>13. next.reader \in {"reading", "capturing"} => tails[e].reader \in {"reading", "capturing"}
      BY <2>4
    <2> QED
      BY <1>1, <1>2, <2>3, <2>4, <2>5, <2>6, <2>7, <2>8, <2>10, <2>11, <2>12, <2>13, TailMoves
  <1> QED
    BY <1>0, <1>3, <1>4, <1>5 DEF Request

\* A tail with a reader is one.
LEMMA ReaderFacts ==
  ASSUME IInv, NEW e \in Epochs, tails[e].reader # "none"
  PROVE  /\ tails[e] \in PaneTail /\ tails[e] # NoTail /\ Fits(tails[e]) /\ SeatsFit(e)
         /\ tails[e].pane \in Panes
         /\ tails[e].serving \in Callers \cup {NoCaller}
         /\ tails[e].queue \in Seq(Callers \cup {NoCaller})
         /\ DOMAIN tails[e].queue = 1 .. Len(tails[e].queue) /\ Len(tails[e].queue) \in Nat
         /\ \A i \in 1 .. Len(tails[e].queue) : tails[e].queue[i] \in Callers \cup {NoCaller}
  <1>1. tails[e] \in PaneTail /\ tails[e] # NoTail /\ Fits(tails[e]) /\ SeatsFit(e)
    BY InvFacts DEF IInv, TailFits, NoTail
  <1>2. /\ tails[e].pane \in Panes
        /\ tails[e].serving \in Callers \cup {NoCaller}
        /\ tails[e].queue \in Seq(Callers \cup {NoCaller})
    BY <1>1 DEF Fits, PaneTail
  <1>3. /\ DOMAIN tails[e].queue = 1 .. Len(tails[e].queue) /\ Len(tails[e].queue) \in Nat
        /\ \A i \in 1 .. Len(tails[e].queue) : tails[e].queue[i] \in Callers \cup {NoCaller}
    BY <1>2, LenProperties, ElementOfSeq
  <1> QED
    BY <1>1, <1>2, <1>3

LEMMA TakeRequestKeeps ==
  ASSUME IInv, NEW e \in Epochs, TakeRequest(e)
  PROVE  IInv'
  <1> DEFINE q == tails[e].queue
             n == Len(q)
             rest == Tail(q)
             c == Head(q)
             doing == IF c = NoCaller THEN tails[e].reader ELSE "capturing"
             next == [tails[e] EXCEPT !.queue = rest, !.serving = c, !.reader = doing]
  <1>1. /\ tails[e].reader = "reading" /\ q # <<>>
        /\ UNCHANGED <<world, owner, nextEpoch, table, opener, held>> /\ UNCHANGED calls
    BY DEF TakeRequest, reading
  <1>2. tails' = [tails EXCEPT ![e] = next]
    BY DEF TakeRequest
  <1>3. /\ tails[e] \in PaneTail /\ tails[e] # NoTail /\ Fits(tails[e]) /\ SeatsFit(e)
        /\ tails[e].pane \in Panes /\ q \in Seq(Callers \cup {NoCaller})
        /\ DOMAIN q = 1 .. n /\ n \in Nat
        /\ \A i \in 1 .. n : q[i] \in Callers \cup {NoCaller}
    BY <1>1, ReaderFacts
  <1>4. /\ n > 0 /\ rest \in Seq(Callers \cup {NoCaller}) /\ Len(rest) = n - 1
        /\ DOMAIN rest = 1 .. n - 1 /\ c = q[1] /\ c \in Callers \cup {NoCaller}
        /\ \A i \in 1 .. n - 1 : rest[i] = q[i + 1]
    <2>1. /\ n > 0 /\ rest \in Seq(Callers \cup {NoCaller}) /\ Len(rest) = n - 1
          /\ c = q[1] /\ \A i \in 1 .. n - 1 : rest[i] = q[i + 1]
      BY <1>1, <1>3, EmptySeq, HeadTailProperties
    <2> QED
      BY <1>3, <2>1, LenProperties
  <1> HIDE DEF rest, c
  <1>5. doing \in {"reading", "capturing"} /\ (doing # "capturing" => c = NoCaller)
    BY <1>1
  <1> HIDE DEF doing
  <1>6. /\ next \in PaneTail /\ next.queue = rest /\ next.serving = c
        /\ next.reader = doing /\ next.pane = tails[e].pane
        /\ next.ring = tails[e].ring /\ next.got = tails[e].got /\ next.era = tails[e].era
    BY <1>3, <1>4, <1>5 DEF PaneTail
  <1> HIDE DEF next
  <1>7. next # NoTail
    BY <1>3, <1>6, Bounds DEF NoTail
  <1>8. Continues(tails[e], next)
    BY <1>3, <1>6, RingEndIsNat DEF Continues
  <1>9. Fits(next)
    <2>1. Len(rest) <= SnapshotQueue
      BY <1>3, <1>4, TailsAssumption DEF Fits
    <2> QED
      BY <1>3, <1>5, <1>6, <2>1 DEF Fits
  <1>10. tails'[e] = next
    BY <1>2 DEF IInv
  <1>11. SeatsFit(e)'
    <2>1. \A i \in 1 .. n :
            /\ Waits(q[i], e)
            /\ q[i] # NoCaller => \A j \in 1 .. n : q[j] = q[i] => j = i
      BY <1>3 DEF SeatsFit
    <2>2. Waits(c, e) /\ \A i \in 1 .. n - 1 : Waits(rest[i], e)
      <3>1. n \in Nat /\ 1 \in 1 .. n /\ c = q[1]
        BY <1>3, <1>4
      <3>2. ASSUME NEW i \in 1 .. n - 1 PROVE Waits(rest[i], e)
        <4>1. i + 1 \in 1 .. n /\ rest[i] = q[i + 1]
          BY <1>4, <3>1
        <4> QED
          BY <2>1, <4>1
      <3>3. Waits(c, e)
        BY <2>1, <3>1
      <3> QED
        BY <3>2, <3>3
    <2>3. ASSUME NEW i \in 1 .. n - 1, rest[i] # NoCaller
          PROVE  rest[i] # c /\ \A j \in 1 .. n - 1 : rest[j] = rest[i] => j = i
      <3>1. i + 1 \in 1 .. n /\ 1 \in 1 .. n /\ i + 1 # 1 /\ rest[i] = q[i + 1]
        BY <1>3, <1>4
      <3>2. \A j \in 1 .. n : q[j] = q[i + 1] => j = i + 1
        BY <2>1, <2>3, <3>1
      <3>3. \A j \in 1 .. n - 1 : j + 1 \in 1 .. n /\ (j + 1 = i + 1 => j = i)
        BY <1>3
      <3> QED
        BY <1>4, <3>1, <3>2, <3>3
    <2> QED
      BY <1>1, <1>4, <1>6, <1>10, <2>2, <2>3 DEF SeatsFit, Waits
  <1>12. /\ NoCaller \in Callers \cup {NoCaller} /\ NoCaller \notin Callers
         /\ calls' \in [Callers -> CallTypes] /\ \A d \in Callers \ {NoCaller} : calls'[d] = calls[d]
    BY <1>1, Bounds DEF IInv
  <1> QED
    BY <1>1, <1>2, <1>3, <1>6, <1>7, <1>8, <1>9, <1>11, <1>12, TailMoves

\* The mailbox of a tail stays as long as nobody it holds moves.
LEMMA SameSeats ==
  ASSUME NEW e \in Epochs, SeatsFit(e), UNCHANGED calls,
         tails'[e].queue = tails[e].queue, tails'[e].serving = tails[e].serving
  PROVE  SeatsFit(e)'
  BY DEF SeatsFit, Waits

LEMMA DeliverKeeps ==
  ASSUME IInv, NEW e \in Epochs, Deliver(e)
  PROVE  IInv'
  <1>1. /\ tails[e].reader = "reading"
        /\ UNCHANGED <<world, owner, nextEpoch, table, opener, held>> /\ UNCHANGED calls
    BY DEF Deliver, reading
  <1>2. PICK n \in 1 .. Unread(tails[e]) : tails' = [tails EXCEPT ![e] = Receive(@, n)]
    BY DEF Deliver
  <1> DEFINE next == Receive(tails[e], n)
  <1>3. tails' = [tails EXCEPT ![e] = next]
    BY <1>2
  <1>4. /\ tails[e] \in PaneTail /\ tails[e] # NoTail /\ Fits(tails[e]) /\ SeatsFit(e)
    BY <1>1, ReaderFacts
  <1>5. WorldFits /\ n \in 0 .. Unread(tails[e])
    BY <1>2 DEF IInv
  <1>6. /\ next \in PaneTail /\ next # NoTail /\ Fits(next) /\ Continues(tails[e], next)
        /\ next.queue = tails[e].queue /\ next.serving = tails[e].serving
        /\ next.reader = tails[e].reader
    BY <1>4, <1>5, ReceiveFits
  <1> HIDE DEF next
  <1>7. tails'[e] = next
    BY <1>3 DEF IInv
  <1>8. SeatsFit(e)'
    BY <1>1, <1>4, <1>6, <1>7, SameSeats
  <1>9. /\ NoCaller \in Callers \cup {NoCaller} /\ NoCaller \notin Callers
        /\ calls' \in [Callers -> CallTypes] /\ \A d \in Callers \ {NoCaller} : calls'[d] = calls[d]
    BY <1>1, Bounds DEF IInv
  <1> QED
    BY <1>1, <1>3, <1>4, <1>6, <1>8, <1>9, TailMoves

LEMMA StreamEndsKeeps ==
  ASSUME IInv, NEW e \in Epochs, StreamEnds(e)
  PROVE  IInv'
  <1> DEFINE ring == [tails[e].ring EXCEPT !.closed = TRUE]
             next == [tails[e] EXCEPT !.reader = "over", !.ring = ring]
  <1>1. /\ tails[e].reader = "reading" /\ tails[e].queue = <<>>
        /\ UNCHANGED <<world, owner, nextEpoch, table, opener, held>> /\ UNCHANGED calls
    BY DEF StreamEnds, reading
  <1>2. /\ tails[e] \in PaneTail /\ tails[e] # NoTail /\ Fits(tails[e]) /\ SeatsFit(e)
        /\ tails[e].pane \in Panes /\ tails[e].ring \in Ring
    BY <1>1, ReaderFacts, RingEndIsNat
  <1>3. tails' = [tails EXCEPT ![e] = next]
    BY <1>2 DEF StreamEnds, PaneTail
  <1>4. ring \in Ring /\ ring.bytes = tails[e].ring.bytes /\ ring.start = tails[e].ring.start
    BY <1>2 DEF Ring
  <1> HIDE DEF ring
  <1>5. /\ next \in PaneTail /\ next.queue = tails[e].queue /\ next.serving = tails[e].serving
        /\ next.reader = "over" /\ next.pane = tails[e].pane
        /\ next.ring = ring /\ next.got = tails[e].got /\ next.era = tails[e].era
    BY <1>2, <1>4 DEF PaneTail
  <1> HIDE DEF next
  <1>6. next # NoTail
    BY <1>2, <1>5, Bounds DEF NoTail
  <1>7. Continues(tails[e], next)
    BY <1>2, <1>4, <1>5, RingEndIsNat DEF Continues, RingEnd
  <1>8. Fits(next)
    BY <1>1, <1>2, <1>4, <1>5 DEF Fits
  <1>9. tails'[e] = next
    BY <1>3 DEF IInv
  <1>10. SeatsFit(e)'
    BY <1>1, <1>2, <1>5, <1>9, SameSeats
  <1>11. /\ NoCaller \in Callers \cup {NoCaller} /\ NoCaller \notin Callers
         /\ calls' \in [Callers -> CallTypes] /\ \A d \in Callers \ {NoCaller} : calls'[d] = calls[d]
    BY <1>1, Bounds DEF IInv
  <1>12. next.reader \in {"reading", "capturing"} => tails[e].reader \in {"reading", "capturing"}
    BY <1>5
  <1> QED
    BY <1>1, <1>2, <1>3, <1>5, <1>6, <1>7, <1>8, <1>10, <1>11, <1>12, TailMoves

LEMMA CaptureKeeps ==
  ASSUME IInv, NEW e \in Epochs, Capture(e)
  PROVE  IInv'
  <1>0. PICK c : c = tails[e].serving
    OBVIOUS
  <1>1. /\ tails[e].reader = "capturing"
        /\ UNCHANGED <<world, owner, nextEpoch, table, opener, held>>
    BY DEF Capture, reading
  <1>2. PICK n \in 0 .. Unread(tails[e]), answered \in {tails[e].era = era, FALSE} :
          LET tail == Receive(tails[e], n)
          IN  /\ tails' = [tails EXCEPT ![e] = [tail EXCEPT !.reader = "reading",
                                                            !.serving = NoCaller]]
              /\ \/ c = NoCaller /\ UNCHANGED calls
                 \/ /\ c # NoCaller /\ answered
                    /\ calls' = [calls EXCEPT ![c].pc = "answered",
                                   ![c].offset = RingEnd(tail.ring),
                                   ![c].last = <<tail.era, tail.got>>]
                 \/ c # NoCaller /\ ~answered /\ Return(c)
    BY <1>0 DEF Capture
  <1> DEFINE tail == Receive(tails[e], n)
             next == [tail EXCEPT !.reader = "reading", !.serving = NoCaller]
  <1>3. /\ tails[e] \in PaneTail /\ tails[e] # NoTail /\ Fits(tails[e]) /\ SeatsFit(e)
        /\ tails[e].pane \in Panes /\ c \in Callers \cup {NoCaller}
        /\ DOMAIN tails[e].queue = 1 .. Len(tails[e].queue)
        /\ \A i \in 1 .. Len(tails[e].queue) : tails[e].queue[i] \in Callers \cup {NoCaller}
    BY <1>0, <1>1, ReaderFacts
  <1>4. /\ tail \in PaneTail /\ tail # NoTail /\ Fits(tail) /\ Continues(tails[e], tail)
        /\ tail.queue = tails[e].queue
    <2>1. WorldFits
      BY DEF IInv
    <2> QED
      BY <1>3, <2>1, ReceiveFits
  <1>5. tails' = [tails EXCEPT ![e] = next]
    BY <1>2
  <1>6. \/ c = NoCaller /\ UNCHANGED calls
        \/ /\ c # NoCaller
           /\ calls' = [calls EXCEPT ![c].pc = "answered", ![c].offset = RingEnd(tail.ring),
                                     ![c].last = <<tail.era, tail.got>>]
        \/ c # NoCaller /\ Return(c)
    BY <1>2
  <1> HIDE DEF tail
  <1>7. /\ next \in PaneTail /\ next.queue = tail.queue /\ next.serving = NoCaller
        /\ next.reader = "reading" /\ next.pane = tail.pane
        /\ next.ring = tail.ring /\ next.got = tail.got /\ next.era = tail.era
    BY <1>4 DEF PaneTail
  <1> HIDE DEF next
  <1>8. tail.pane = tails[e].pane
    BY <1>4 DEF Continues
  <1>9. next # NoTail
    BY <1>3, <1>7, <1>8, Bounds DEF NoTail
  <1>10. Continues(tails[e], next)
    BY <1>4, <1>7 DEF Continues
  <1>11. Fits(next)
    BY <1>4, <1>7, <1>9 DEF Fits
  <1>12. tails'[e] = next
    BY <1>5 DEF IInv
  <1>13. c # NoCaller => c \in Callers /\ calls[c].pc = "waits" /\ calls[c].epoch = e
    BY <1>0, <1>3 DEF SeatsFit, Waits
  <1>14. calls \in [Callers -> CallTypes]
    BY DEF IInv
  <1>15. /\ calls' \in [Callers -> CallTypes]
         /\ \A d \in Callers \ {c} : calls'[d] = calls[d]
         /\ c \in Callers => calls'[c].pc # "attaching" /\ CallFits(c)'
    <2>1. CASE c = NoCaller /\ UNCHANGED calls
      BY <1>14, <2>1, Bounds
    <2>2. CASE /\ c # NoCaller
               /\ calls' = [calls EXCEPT ![c].pc = "answered", ![c].offset = RingEnd(tail.ring),
                                         ![c].last = <<tail.era, tail.got>>]
      <3> DEFINE offset == RingEnd(tail.ring)
                 last == <<tail.era, tail.got>>
                 call == [calls[c] EXCEPT !.pc = "answered", !.offset = offset, !.last = last]
      <3>1. offset \in Nat /\ last \in Nat \X Nat /\ IsAt(next, offset, last)
        <4>1. RingEnd(tail.ring) \in Nat /\ tail.got \in Nat /\ tail.era \in Nat
          BY <1>4, RingEndIsNat, Bounds DEF PaneTail
        <4> QED
          BY <1>7, <4>1 DEF IsAt
      <3>2. calls' = [calls EXCEPT ![c] = call]
        BY <1>14, <2>2
      <3> HIDE DEF offset, last
      <3>3. /\ call \in CallTypes /\ call.pc = "answered" /\ call.epoch = e
            /\ call.pane = calls[c].pane /\ call.offset = offset /\ call.last = last
        <4>1. c \in Callers /\ calls[c] \in CallTypes /\ calls[c].epoch = e
          BY <1>13, <1>14, <2>2
        <4> QED
          BY <3>1, <4>1 DEF CallTypes
      <3> HIDE DEF call
      <3>4. /\ calls' \in [Callers -> CallTypes] /\ calls'[c] = call
            /\ \A d \in Callers \ {c} : calls'[d] = calls[d]
        <4>1. c \in Callers /\ call \in CallTypes
          BY <1>13, <2>2, <3>3
        <4> QED
          BY ONLY <1>14, <3>2, <4>1
      <3>5. CallFits(c)'
        <4>1. e \in 1 .. nextEpoch /\ tails[e].pane = calls[c].pane /\ calls[c].pane \in Panes
          BY <1>13, <2>2 DEF IInv, CallFits
        <4>2. /\ calls'[c].epoch = e /\ calls'[c].pc = "answered" /\ calls'[c].pane = calls[c].pane
              /\ tails'[e].pane = calls[c].pane /\ nextEpoch' = nextEpoch
          BY <1>1, <1>7, <1>8, <1>12, <3>3, <3>4, <4>1
        <4>3. IsAt(tails[calls[c].epoch], calls[c].offset, calls[c].last)'
          BY <1>12, <3>1, <3>3, <3>4 DEF IsAt
        <4> QED
          BY <4>1, <4>2, <4>3 DEF CallFits
      <3> QED
        BY <3>3, <3>4, <3>5
    <2>3. CASE c # NoCaller /\ Return(c)
      BY <1>13, <2>3, ReturnFacts DEF Idle
    <2> QED
      BY <1>6, <2>1, <2>2, <2>3
  <1>16. SeatsFit(e)'
    <2>1. /\ tails'[e].queue = tails[e].queue /\ tails'[e].serving = NoCaller
      BY <1>4, <1>7, <1>12
    <2>2. \A i \in 1 .. Len(tails[e].queue) :
            /\ tails[e].queue[i] # NoCaller =>
                 /\ tails[e].queue[i] # c /\ tails[e].queue[i] \in Callers
                 /\ \A j \in 1 .. Len(tails[e].queue) : tails[e].queue[j] = tails[e].queue[i] => j = i
            /\ Waits(tails[e].queue[i], e)
      BY <1>0, <1>3 DEF SeatsFit
    <2>3. \A i \in 1 .. Len(tails[e].queue) :
            tails[e].queue[i] # NoCaller => calls'[tails[e].queue[i]] = calls[tails[e].queue[i]]
      BY <1>15, <2>2
    <2> QED
      BY <1>3, <2>1, <2>2, <2>3 DEF SeatsFit, Waits
  <1>17. c \in Callers => /\ calls[c].pc # "attaching" /\ calls'[c].pc # "attaching" /\ CallFits(c)'
                          /\ calls[c].pc # "waits" \/ calls[c].epoch = e
    BY <1>13, <1>15, Bounds
  <1>18. next.reader \in {"reading", "capturing"} => tails[e].reader \in {"reading", "capturing"}
    BY <1>1
  <1> QED
    BY <1>1, <1>3, <1>5, <1>7, <1>9, <1>10, <1>11, <1>15, <1>16, <1>17, <1>18, TailMoves

-----------------------------------------------------------------------------
(* Giving a call up, and attaching a tail.                                 *)

\* A tail without the places one caller had in it.
Vacated(tail, c) ==
  [tail EXCEPT !.serving = IF @ = c THEN NoCaller ELSE @,
               !.queue = ReplaceAll(@, c, NoCaller)]

LEMMA VacatedFacts ==
  ASSUME NEW tail \in PaneTail, NEW c \in Callers
  PROVE  LET next == Vacated(tail, c)
         IN  /\ next \in PaneTail /\ next.pane = tail.pane /\ next.era = tail.era
             /\ next.got = tail.got /\ next.ring = tail.ring /\ next.reader = tail.reader
             /\ next.serving = IF tail.serving = c THEN NoCaller ELSE tail.serving
             /\ Len(next.queue) = Len(tail.queue) /\ Len(tail.queue) \in Nat
             /\ DOMAIN next.queue = 1 .. Len(tail.queue)
             /\ DOMAIN tail.queue = 1 .. Len(tail.queue)
             /\ \A i \in 1 .. Len(tail.queue) :
                  next.queue[i] = IF tail.queue[i] = c THEN NoCaller ELSE tail.queue[i]
             /\ tail.queue = <<>> => next.queue = <<>>
             /\ tail = NoTail => next = NoTail
             /\ Continues(tail, next) /\ (Fits(tail) => Fits(next))
  <1> DEFINE q == tail.queue
             left == ReplaceAll(q, c, NoCaller)
             s == IF tail.serving = c THEN NoCaller ELSE tail.serving
             next == Vacated(tail, c)
  <1>1. q \in Seq(Callers \cup {NoCaller}) /\ tail.serving \in Callers \cup {NoCaller}
    BY DEF PaneTail
  <1>2. /\ Len(q) \in Nat /\ DOMAIN q = 1 .. Len(q)
        /\ \A i \in 1 .. Len(q) : q[i] \in Callers \cup {NoCaller}
    BY <1>1, LenProperties, ElementOfSeq
  <1>3. /\ left \in [1 .. Len(q) -> Callers \cup {NoCaller}]
        /\ \A i \in 1 .. Len(q) : left[i] = IF q[i] = c THEN NoCaller ELSE q[i]
    BY <1>2 DEF ReplaceAll
  <1>4. next = [tail EXCEPT !.serving = s, !.queue = left]
    BY DEF Vacated, PaneTail
  <1> HIDE DEF left, next, q
  <1>5. left \in Seq(Callers \cup {NoCaller}) /\ DOMAIN left = 1 .. Len(q) /\ Len(left) = Len(q)
    <2>1. left \in Seq(Callers \cup {NoCaller})
      BY <1>2, <1>3, SeqDef
    <2>2. DOMAIN left = 1 .. Len(q) /\ DOMAIN left = 1 .. Len(left) /\ Len(left) \in Nat
      BY <1>3, <2>1, LenProperties
    <2> QED
      BY <1>2, <2>1, <2>2
  <1>6. s \in Callers \cup {NoCaller}
    BY <1>1
  <1> HIDE DEF s
  <1>7. /\ next \in PaneTail /\ next.pane = tail.pane /\ next.era = tail.era
        /\ next.got = tail.got /\ next.ring = tail.ring /\ next.reader = tail.reader
        /\ next.serving = s /\ next.queue = left
    BY <1>4, <1>5, <1>6 DEF PaneTail
  <1>8. q = <<>> => left = <<>>
    BY <1>1, <1>2, <1>5, EmptySeq
  <1>9. ASSUME tail = NoTail PROVE next = NoTail
    <2>1. q = <<>> /\ tail.serving = NoCaller
      BY <1>9 DEF NoTail, q
    <2>2. s = tail.serving /\ left = q
      BY <1>8, <2>1, Bounds DEF s
    <2>3. next = [NoTail EXCEPT !.serving = NoTail.serving, !.queue = NoTail.queue]
      BY <1>4, <1>9, <2>2 DEF q
    <2> QED
      BY <2>3 DEF NoTail
  <1>10. Continues(tail, next)
    BY <1>7, RingEndIsNat DEF Continues
  <1>11. Fits(tail) => Fits(next)
    <2>1. tail.serving = NoCaller => s = NoCaller
      BY DEF s
    <2> QED
      BY <1>5, <1>7, <1>8, <1>9, <2>1 DEF Fits, q
  <1> QED
    BY <1>2, <1>3, <1>5, <1>7, <1>8, <1>9, <1>10, <1>11 DEF next, q, s

LEMMA VacatedSeats ==
  ASSUME IInv, NEW e \in Epochs, NEW c \in Callers,
         \A d \in Callers \ {c} : calls'[d] = calls[d],
         tails'[e] = Vacated(tails[e], c)
  PROVE  SeatsFit(e)'
  <1>1. PICK tail : tail = tails[e]
    OBVIOUS
  <1> DEFINE next == Vacated(tail, c)
             Holds(x) == x # NoCaller => calls'[x].pc = "waits" /\ calls'[x].epoch = e
  <1>2. tail \in PaneTail /\ SeatsFit(e)
    BY <1>1, InvFacts DEF IInv
  <1>3. /\ next.serving = IF tail.serving = c THEN NoCaller ELSE tail.serving
        /\ Len(next.queue) = Len(tail.queue) /\ Len(tail.queue) \in Nat
        /\ DOMAIN next.queue = 1 .. Len(tail.queue)
        /\ DOMAIN tail.queue = 1 .. Len(tail.queue)
        /\ \A i \in 1 .. Len(tail.queue) :
             next.queue[i] = IF tail.queue[i] = c THEN NoCaller ELSE tail.queue[i]
    BY <1>2, VacatedFacts
  <1>4. /\ tail.serving \in Callers \cup {NoCaller}
        /\ \A i \in 1 .. Len(tail.queue) : tail.queue[i] \in Callers \cup {NoCaller}
    <2>1. tail.queue \in Seq(Callers \cup {NoCaller}) /\ tail.serving \in Callers \cup {NoCaller}
      BY <1>2 DEF PaneTail
    <2> QED
      BY <2>1, ElementOfSeq
  <1> HIDE DEF next
  <1>5. \A d \in Callers \cup {NoCaller} : Waits(d, e) /\ d # c => Holds(d)
    BY DEF Waits
  <1>6. Holds(NoCaller)
    OBVIOUS
  <1>7. /\ Waits(tail.serving, e)
        /\ \A i \in 1 .. Len(tail.queue) :
             /\ Waits(tail.queue[i], e)
             /\ tail.queue[i] # NoCaller =>
                  /\ tail.queue[i] # tail.serving
                  /\ \A j \in 1 .. Len(tail.queue) : tail.queue[j] = tail.queue[i] => j = i
    BY <1>1, <1>2, <1>3 DEF SeatsFit
  <1> HIDE DEF Holds
  <1>8. Holds(next.serving) /\ \A i \in 1 .. Len(tail.queue) : Holds(next.queue[i])
    BY <1>3, <1>4, <1>5, <1>6, <1>7
  <1>9. ASSUME NEW i \in 1 .. Len(tail.queue), next.queue[i] # NoCaller
        PROVE  /\ next.queue[i] # next.serving
               /\ \A j \in 1 .. Len(tail.queue) : next.queue[j] = next.queue[i] => j = i
    <2>1. tail.queue[i] # c /\ tail.queue[i] # NoCaller /\ next.queue[i] = tail.queue[i]
      BY <1>3, <1>9
    <2> QED
      BY <1>3, <1>7, <2>1
  <1>10. tails'[e] = next
    BY <1>1 DEF next
  <1> QED
    BY <1>3, <1>8, <1>9, <1>10 DEF SeatsFit, Waits, Holds

LEMMA CancelKeeps ==
  ASSUME IInv, NEW c \in Callers, Cancel(c)
  PROVE  IInv'
  <1>1. /\ Return(c) /\ opener' = IF opener = c THEN NoCaller ELSE opener
        /\ UNCHANGED <<world, owner, nextEpoch, table, held>>
        /\ Keep([e \in Epochs |-> Vacated(tails[e], c)])
    BY DEF Cancel, Vacated
  <1>2. PICK ts : ts = [e \in Epochs |-> Vacated(tails[e], c)]
    OBVIOUS
  <1>3. /\ WorldFits /\ OpenerFits /\ nextEpoch \in Nat /\ held \in [Callers -> HeldTypes]
        /\ calls \in [Callers -> CallTypes] /\ \A d \in Callers : d # NoCaller
        /\ \A e \in Epochs : tails[e] \in PaneTail
    BY InvFacts DEF IInv
  <1>4. /\ calls' \in [Callers -> CallTypes] /\ calls'[c] = Idle /\ CallFits(c)'
        /\ \A d \in Callers \ {c} : calls'[d] = calls[d]
    BY <1>1, ReturnFacts
  <1>5. /\ DOMAIN tails' = Epochs /\ tails' = [e \in Epochs |-> tails'[e]]
        /\ \A e \in Epochs :
             /\ tails'[e] = Vacated(tails[e], c) \/ tails'[e] = NoTail
             /\ e \in Range(table) => tails'[e] = Vacated(tails[e], c)
             /\ \A d \in Callers : calls'[d].epoch = e => tails'[e] = Vacated(tails[e], c)
    <2>1. Keep(ts) /\ table' = table
      BY <1>1, <1>2
    <2>2. /\ DOMAIN tails' = Epochs /\ tails' = [e \in Epochs |-> tails'[e]]
          /\ \A e \in Epochs :
               /\ tails'[e] = ts[e] \/ tails'[e] = NoTail
               /\ e \in Range(table) => tails'[e] = ts[e]
               /\ \A d \in Callers : calls'[d].epoch = e => tails'[e] = ts[e]
      BY <2>1, KeepFacts
    <2> QED
      BY <1>2, <2>2
  <1>6. \A e \in Epochs :
          /\ Vacated(tails[e], c) \in PaneTail /\ Continues(tails[e], Vacated(tails[e], c))
          /\ Vacated(tails[e], c).pane = tails[e].pane
          /\ Vacated(tails[e], c).reader = tails[e].reader
          /\ tails[e] = NoTail => Vacated(tails[e], c) = NoTail
          /\ Fits(tails[e]) => Fits(Vacated(tails[e], c))
    BY <1>3, VacatedFacts
  <1>7. tails' \in [Epochs -> PaneTail]
    <2>1. \A e \in Epochs : tails'[e] \in PaneTail
      BY <1>5, <1>6, NoTailIsOne
    <2> QED
      BY <1>5, <2>1
  <1>8. TableFits' /\ table' = table
    <2>1. \A e \in Range(table) : tails'[e].pane = tails[e].pane
      BY <1>5, <1>6, InvFacts
    <2>2. Draws(table', table) /\ nextEpoch' = nextEpoch /\ nextEpoch <= nextEpoch'
      BY <1>1, <1>3, SameTable
    <2> QED
      BY <1>1, <1>3, <2>1, <2>2, TableStays
  <1>9. ASSUME NEW e \in Epochs
        PROVE  TailFits(e)' /\ SeatsFit(e)'
    <2>1. CASE tails'[e] = NoTail
      BY <2>1, FreedFits
    <2>2. CASE tails'[e] = Vacated(tails[e], c)
      <3>1. TailFits(e)
        BY DEF IInv
      <3>2. Fits(tails[e])'
        <4>1. Fits(tails'[e])
          BY <1>6, <2>2, <3>1 DEF TailFits
        <4> QED
          BY <1>1, <4>1 DEF Fits, world
      <3>3. TailFits(e)'
        BY <1>6, <1>8, <2>2, <3>1, <3>2 DEF TailFits
      <3>4. SeatsFit(e)'
        BY <1>4, <2>2, VacatedSeats
      <3> QED
        BY <3>3, <3>4
    <2> QED
      BY <1>5, <2>1, <2>2
  <1>10. nextEpoch' \in Nat /\ nextEpoch <= nextEpoch'
    BY <1>1, <1>3
  <1>11. ASSUME NEW d \in Callers
         PROVE  HeldFits(d)'
    <2>1. \A e \in Epochs : /\ tails'[e] \in PaneTail
                            /\ tails'[e] = NoTail \/ (tails[e] # NoTail /\ Continues(tails[e], tails'[e]))
      BY <1>5, <1>6, <1>7
    <2> QED
      BY <1>1, <1>10, <2>1, HeldStays
  <1>12. ASSUME NEW d \in Callers \ {c}
         PROVE  CallFits(d)'
    <2>1. calls[d].pc = "attaching" =>
            nextEpoch' = nextEpoch /\ \A e \in Range(table') : tails'[e].pane # calls[d].pane
      BY <1>1, <1>5, <1>6, <1>8, InvFacts DEF IInv, CallFits
    <2>2. ASSUME calls[d].pc \in {"retains", "waits", "answered"}
          PROVE  /\ tails'[calls[d].epoch] \in PaneTail
                 /\ Continues(tails[calls[d].epoch], tails'[calls[d].epoch])
      <3>1. calls[d].epoch \in Epochs
        BY <2>2, InvFacts DEF IInv, CallFits
      <3>2. tails'[calls[d].epoch] = Vacated(tails[calls[d].epoch], c)
        BY <1>4, <1>5, <3>1
      <3> QED
        BY <1>6, <3>1, <3>2
    <2> QED
      BY <1>4, <1>10, <2>1, <2>2, CallStays
  <1>13. FreshIsUnused'
    <2>1. \A e \in Epochs : Fresh(e)' => Fresh(e)
      BY <1>1 DEF Fresh
    <2>2. \A e \in Epochs : Fresh(e) => tails'[e] = NoTail
      BY <1>5, <1>6 DEF IInv, FreshIsUnused
    <2> QED
      BY <1>1, <2>1, <2>2, FreshStays
  <1>14. OpenerFits'
    BY <1>1, <1>3, <1>4 DEF OpenerFits, Idle
  <1>15. WorldFits' /\ held' \in [Callers -> HeldTypes]
    BY <1>1, <1>3 DEF WorldFits, world
  <1> QED
    BY <1>4, <1>7, <1>8, <1>9, <1>11, <1>12, <1>13, <1>14, <1>15 DEF IInv

LEMMA TableGrows ==
  ASSUME IInv, NEW base, Draws(base, table), Len(base) < MaxTails, NEW e \in 1 .. nextEpoch,
         nextEpoch' = nextEpoch, table' = Append(base, e),
         \A x \in Range(base) : tails'[x].pane = tails[x].pane,
         tails'[e].pane \in Panes, \A x \in Range(table) : tails[x].pane # tails'[e].pane
  PROVE  /\ TableFits' /\ e \in Range(table')
         /\ \A x \in Range(base) : x \in Range(table')
         /\ \A x \in Range(table') : x = e \/ (x \in Range(base) /\ x \in Range(table))
  <1> DEFINE n == Len(base)
  <1>1. /\ table \in Seq(1 .. nextEpoch) /\ Len(table) \in Nat /\ nextEpoch \in Nat
        /\ \A i, j \in 1 .. Len(table) : tails[table[i]].pane = tails[table[j]].pane => i = j
        /\ \A i \in 1 .. Len(table) : tails[table[i]].pane \in Panes
    BY InvFacts DEF IInv, TableFits
  <1>2. base \in Seq(Range(table)) /\ Range(table) \subseteq 1 .. nextEpoch
    BY <1>1, InvFacts DEF Draws
  <1>3. PICK f \in [1 .. n -> 1 .. Len(table)] :
           /\ \A i \in 1 .. n : base[i] = table[f[i]]
           /\ \A i, j \in 1 .. n : f[i] = f[j] => i = j
    BY DEF Draws
  <1>4. /\ n \in Nat /\ Range(base) \subseteq Range(table)
        /\ \A i \in 1 .. n : base[i] \in Range(base)
        /\ \A x \in Range(base) : \E i \in 1 .. n : base[i] = x
        /\ base \in Seq(1 .. nextEpoch)
    <2>1. /\ n \in Nat /\ Range(base) \subseteq Range(table)
          /\ \A i \in 1 .. n : base[i] \in Range(base)
          /\ \A x \in Range(base) : \E i \in 1 .. n : base[i] = x
      BY <1>2, RangeFacts
    <2>2. base \in [1 .. n -> Range(table)]
      BY <1>2, LenProperties
    <2>3. base \in [1 .. n -> 1 .. nextEpoch]
      BY <1>2, <2>2
    <2>4. base \in Seq(1 .. nextEpoch)
      BY <2>1, <2>3, SeqDef
    <2> QED
      BY <2>1, <2>4
  <1>5. /\ table' \in Seq(1 .. nextEpoch) /\ Len(table') = n + 1
        /\ \A i \in 1 .. n : table'[i] = base[i]
        /\ table'[n + 1] = e
    BY <1>4, AppendProperties
  <1> HIDE DEF n
  <1>6. \A i \in 1 .. n : /\ f[i] \in 1 .. Len(table)
                          /\ tails'[table'[i]].pane = tails[table[f[i]]].pane
                          /\ tails'[table'[i]].pane \in Panes
                          /\ tails'[table'[i]].pane # tails'[e].pane
    <2> SUFFICES ASSUME NEW i \in 1 .. n
                 PROVE  /\ f[i] \in 1 .. Len(table)
                        /\ tails'[table'[i]].pane = tails[table[f[i]]].pane
                        /\ tails'[table'[i]].pane \in Panes
                        /\ tails'[table'[i]].pane # tails'[e].pane
      OBVIOUS
    <2>1. f[i] \in 1 .. Len(table) /\ base[i] = table[f[i]] /\ table'[i] = base[i]
          /\ base[i] \in Range(base) /\ base[i] \in Range(table)
      BY <1>3, <1>4, <1>5
    <2>2. tails'[base[i]].pane = tails[base[i]].pane
      BY <2>1
    <2>3. tails[base[i]].pane # tails'[e].pane /\ tails[table[f[i]]].pane \in Panes
      BY <1>1, <2>1
    <2> QED
      BY <2>1, <2>2, <2>3
  <1>7. \A i \in 1 .. n + 1 : i \in 1 .. n \/ i = n + 1
    BY <1>4
  <1>8. \A i, j \in 1 .. n + 1 : tails'[table'[i]].pane = tails'[table'[j]].pane => i = j
    <2> SUFFICES ASSUME NEW i \in 1 .. n + 1, NEW j \in 1 .. n + 1,
                        tails'[table'[i]].pane = tails'[table'[j]].pane
                 PROVE  i = j
      OBVIOUS
    <2>1. CASE i \in 1 .. n /\ j \in 1 .. n
      <3>1. f[i] \in 1 .. Len(table) /\ f[j] \in 1 .. Len(table)
            /\ tails[table[f[i]]].pane = tails[table[f[j]]].pane
        BY <1>6, <2>1
      <3>2. f[i] = f[j]
        BY <1>1, <3>1
      <3> QED
        BY <1>3, <2>1, <3>2
    <2>2. CASE i = n + 1 \/ j = n + 1
      BY <1>5, <1>6, <1>7, <2>2
    <2> QED
      BY <1>7, <2>1, <2>2
  <1>9. \A i \in 1 .. n + 1 : tails'[table'[i]].pane \in Panes
    BY <1>5, <1>6, <1>7
  <1>10. n + 1 <= MaxTails
    BY <1>4, Bounds DEF n
  <1>11. TableFits'
    <2>1. table' \in Seq(1 .. nextEpoch')
      BY <1>5
    <2>2. /\ Len(table') <= MaxTails
          /\ \A i, j \in 1 .. Len(table') : tails'[table'[i]].pane = tails'[table'[j]].pane => i = j
          /\ \A i \in 1 .. Len(table') : tails'[table'[i]].pane \in Panes
      BY <1>5, <1>8, <1>9, <1>10
    <2> QED
      BY <2>1, <2>2 DEF TableFits
  <1>12. /\ \A i \in 1 .. n + 1 : table'[i] \in Range(table')
         /\ \A x \in Range(table') : \E i \in 1 .. n + 1 : table'[i] = x
    <2>1. PICK t \in Seq(1 .. nextEpoch) : t = table' /\ Len(t) = n + 1
      BY <1>5
    <2>2. /\ \A i \in 1 .. Len(t) : t[i] \in Range(t)
          /\ \A x \in Range(t) : \E i \in 1 .. Len(t) : t[i] = x
      BY ONLY <2>1, RangeFacts
    <2> QED
      BY <2>1, <2>2
  <1>13. n + 1 \in 1 .. n + 1 /\ \A i \in 1 .. n : i \in 1 .. n + 1
    BY <1>4
  <1>14. e \in Range(table')
    BY <1>5, <1>12, <1>13
  <1>15. \A x \in Range(base) : x \in Range(table')
    BY <1>4, <1>5, <1>12, <1>13
  <1>16. \A x \in Range(table') : x = e \/ (x \in Range(base) /\ x \in Range(table))
    BY <1>4, <1>5, <1>7, <1>12
  <1> QED
    BY <1>11, <1>14, <1>15, <1>16

LEMMA NewTailFacts ==
  ASSUME IInv, NEW p \in Panes
  PROVE  /\ NewTail(p) \in PaneTail /\ NewTail(p).pane = p /\ Fits(NewTail(p))
         /\ NewTail(p).queue = <<>> /\ NewTail(p).serving = NoCaller
         /\ NewTail(p).reader = "reading"
  <1>1. era \in 1 .. MaxEra /\ written[p] \in 0 .. MaxWritten
    BY DEF IInv, WorldFits
  <1> DEFINE w == written[p]
             tail == NewTail(p)
  <1>2. era \in 0 .. MaxEra /\ w \in Nat /\ w <= MaxWritten
    BY <1>1, Bounds
  <1>3. tail = [NoTail EXCEPT !.pane = p, !.era = era, !.got = w, !.reader = "reading"]
    BY DEF NewTail
  <1> HIDE DEF w, tail
  <1>4. NoTail \in PaneTail /\ NoTail.queue = <<>> /\ NoTail.serving = NoCaller
        /\ NoTail.ring = EmptyRing
    BY NoTailIsOne DEF NoTail
  <1>5. /\ tail \in PaneTail /\ tail.pane = p /\ tail.era = era /\ tail.got = w
        /\ tail.reader = "reading" /\ tail.queue = <<>> /\ tail.serving = NoCaller
        /\ tail.ring = EmptyRing
    BY <1>2, <1>3, <1>4 DEF PaneTail
  <1>6. EmptyRing.bytes = <<>> /\ Len(<<>>) = 0
    BY DEF EmptyRing
  <1>7. 0 <= w /\ 0 <= RingBytes /\ 0 <= SnapshotQueue /\ era \in 1 .. era
    BY <1>1, <1>2, Bounds
  <1>8. \A i \in 1 .. 0 : FALSE
    OBVIOUS
  <1>9. Fits(tail)
    BY <1>2, <1>5, <1>6, <1>7, <1>8 DEF Fits, w
  <1> QED
    BY <1>5, <1>9 DEF tail

LEMMA AbortedFacts ==
  ASSUME NEW tail \in PaneTail
  PROVE  /\ Aborted(tail) \in PaneTail /\ Aborted(tail).reader = "over"
         /\ Aborted(tail).queue = <<>> /\ Aborted(tail).serving = NoCaller
         /\ Aborted(tail).pane = tail.pane /\ Continues(tail, Aborted(tail))
         /\ tail # NoTail /\ Fits(tail) => Fits(Aborted(tail))
  <1> DEFINE next == Aborted(tail)
  <1>1. <<>> \in Seq(Callers \cup {NoCaller})
    OBVIOUS
  <1>2. next = [tail EXCEPT !.reader = "over", !.queue = <<>>, !.serving = NoCaller]
    BY DEF Aborted
  <1> HIDE DEF next
  <1>3. /\ next \in PaneTail /\ next.reader = "over" /\ next.queue = <<>>
        /\ next.serving = NoCaller /\ next.pane = tail.pane /\ next.ring = tail.ring
        /\ next.got = tail.got /\ next.era = tail.era
    BY <1>1, <1>2 DEF PaneTail
  <1>4. Continues(tail, next)
    BY <1>3, RingEndIsNat DEF Continues
  <1>5. tail # NoTail /\ Fits(tail) => Fits(next)
    <2>1. Len(<<>>) <= SnapshotQueue
      BY Bounds
    <2> QED
      BY <1>3, <2>1 DEF Fits
  <1> QED
    BY <1>3, <1>4, <1>5 DEF next

\* Making room in the table drops its head, if it is full, and no other tail.
LEMMA EvictedFacts ==
  ASSUME IInv
  PROVE  LET base == IF Evicted = {} THEN table ELSE Tail(table)
         IN  /\ Draws(base, table) /\ Len(base) < MaxTails
             /\ \A x \in Range(table) : x \notin Evicted => x \in Range(base)
             /\ Evicted \subseteq Range(table)
  <1> DEFINE base == IF Evicted = {} THEN table ELSE Tail(table)
  <1>1. /\ table \in Seq(1 .. nextEpoch) /\ Len(table) \in Nat /\ Len(table) <= MaxTails
        /\ MaxTails \in Nat /\ MaxTails > 0
    BY InvFacts, Bounds DEF IInv, TableFits
  <1>2. CASE Len(table) >= MaxTails
    <2>1. table # <<>> /\ Len(table) > 0 /\ 1 \in 1 .. Len(table)
      BY <1>1, <1>2, EmptySeq
    <2>2. Evicted = {Head(table)} /\ base = Tail(table)
      BY <1>2 DEF Evicted
    <2>3. /\ Draws(Tail(table), table) /\ Len(Tail(table)) = Len(table) - 1
          /\ \A x \in Range(table) : x # Head(table) => x \in Range(Tail(table))
      BY <1>1, <2>1, TailIsDrawn
    <2>4. Head(table) \in Range(table)
      BY <1>1, <2>1, RangeFacts, HeadTailProperties
    <2>5. Len(table) - 1 < MaxTails
      BY <1>1
    <2> QED
      BY <2>2, <2>3, <2>4, <2>5
  <1>3. CASE ~(Len(table) >= MaxTails)
    <2>1. Evicted = {} /\ base = table /\ Len(table) < MaxTails
      BY <1>1, <1>3 DEF Evicted
    <2> QED
      BY <2>1, SameTable
  <1> QED
    BY <1>2, <1>3

LEMMA AttachKeeps ==
  ASSUME IInv, NEW c \in Callers, Attach(c)
  PROVE  IInv'
  <1>0. PICK e \in Epochs, p \in Panes :
          /\ e = calls[c].epoch /\ p = calls[c].pane /\ e = nextEpoch /\ e \in 1 .. nextEpoch
    <2>1. calls[c].pc = "attaching"
      BY DEF Attach
    <2>2. calls[c].pane \in Panes /\ calls[c].epoch = nextEpoch /\ nextEpoch > 0
      BY <2>1 DEF IInv, CallFits
    <2>3. nextEpoch \in 1 .. nextEpoch /\ nextEpoch \in Epochs
      BY <2>2, InvFacts
    <2> QED
      BY <2>2, <2>3
  <1>1. PICK base, evicted, new :
          /\ e = calls[c].epoch /\ p = calls[c].pane /\ evicted = Evicted
          /\ base = (IF Evicted = {} THEN table ELSE Tail(table)) /\ new = NewTail(p)
          /\ e = nextEpoch /\ e \in 1 .. nextEpoch
    BY <1>0
  <1>2. PICK ts : ts = [x \in Epochs |-> IF x = e THEN new
                                         ELSE IF x \in evicted THEN Aborted(tails[x])
                                         ELSE tails[x]]
    OBVIOUS
  <1>3. /\ calls[c].pc = "attaching" /\ opener' = NoCaller
        /\ table' = Append(base, e) /\ Goes(c, "retains", e) /\ Keep(ts)
        /\ UNCHANGED <<world, owner, nextEpoch, held>>
    BY <1>1, <1>2 DEF Attach
  <1>4. /\ WorldFits /\ OpenerFits /\ nextEpoch \in Nat /\ held \in [Callers -> HeldTypes]
        /\ calls \in [Callers -> CallTypes] /\ \A d \in Callers : d # NoCaller
        /\ \A x \in Epochs : tails[x] \in PaneTail
    BY InvFacts DEF IInv
  <1>5. /\ opener = c /\ c # NoCaller /\ \A d \in Callers \ {c} : calls[d].pc # "attaching"
    BY <1>3, <1>4 DEF OpenerFits
  <1>6. Fresh(e) /\ tails[e] = NoTail
    BY <1>1, <1>5 DEF Fresh, IInv, FreshIsUnused
  <1>7. /\ calls' \in [Callers -> CallTypes] /\ calls'[c].pc = "retains"
        /\ calls'[c].epoch = e /\ calls'[c].pane = p
        /\ \A d \in Callers \ {c} : calls'[d] = calls[d]
    <2>1. e \in 0 .. MaxEpoch
      BY <1>1, Bounds DEF Epochs
    <2> QED
      BY <1>1, <1>3, <2>1, GoesFacts
  <1>8. /\ Draws(base, table) /\ Len(base) < MaxTails
        /\ \A x \in Range(table) : x \notin evicted => x \in Range(base)
        /\ evicted \subseteq Range(table) /\ Range(base) \subseteq Range(table)
    <2>1. /\ Draws(base, table) /\ Len(base) < MaxTails
          /\ \A x \in Range(table) : x \notin evicted => x \in Range(base)
          /\ evicted \subseteq Range(table)
      BY <1>1, EvictedFacts
    <2> QED
      BY <2>1, RangeFacts DEF Draws
  <1>9. /\ \A x \in Range(table) : x \in Epochs /\ tails[x] # NoTail /\ x # e /\ tails[x].pane # p
    BY <1>1, <1>3, <1>6, InvFacts DEF IInv, CallFits
  <1>10. /\ new \in PaneTail /\ new.pane = p /\ Fits(new)
         /\ new.queue = <<>> /\ new.serving = NoCaller /\ new.reader = "reading"
    BY <1>1, NewTailFacts
  <1>11. new # NoTail
    BY <1>10, Bounds DEF NoTail
  <1>12. /\ DOMAIN tails' = Epochs /\ tails' = [x \in Epochs |-> tails'[x]]
         /\ \A x \in Epochs :
              /\ tails'[x] = ts[x] \/ tails'[x] = NoTail
              /\ x \in Range(table') => tails'[x] = ts[x]
              /\ \A d \in Callers : calls'[d].epoch = x => tails'[x] = ts[x]
    BY <1>3, KeepFacts
  <1>13. tails'[e] = new /\ ts[e] = new
    BY <1>1, <1>2, <1>7, <1>12
  <1>14. ASSUME NEW x \in Epochs \ {e}
         PROVE  /\ ts[x] = IF x \in evicted THEN Aborted(tails[x]) ELSE tails[x]
                /\ ts[x] \in PaneTail /\ ts[x].pane = tails[x].pane /\ Continues(tails[x], ts[x])
                /\ tails[x] = NoTail => ts[x] = NoTail
    <2>1. ts[x] = IF x \in evicted THEN Aborted(tails[x]) ELSE tails[x]
      BY <1>2, <1>14
    <2>2. x \in evicted => tails[x] # NoTail
      BY <1>8, <1>9
    <2> QED
      BY <1>4, <2>1, <2>2, AbortedFacts, SameContinues
  <1>15. tails' \in [Epochs -> PaneTail]
    <2>1. \A x \in Epochs : tails'[x] \in PaneTail
      BY <1>10, <1>12, <1>13, <1>14, NoTailIsOne
    <2> QED
      BY <1>12, <2>1
  <1>16. /\ TableFits' /\ e \in Range(table')
         /\ \A x \in Range(base) : x \in Range(table')
         /\ \A x \in Range(table') : x = e \/ (x \in Range(base) /\ x \in Range(table))
    <2>1. \A x \in Range(base) : x \in Range(table')
      <3>1. PICK m \in Nat : m = Len(base) /\ base \in Seq(1 .. nextEpoch)
        <4>1. base \in Seq(Range(table)) /\ Range(table) \subseteq 1 .. nextEpoch
          BY <1>8, InvFacts DEF Draws
        <4>2. Len(base) \in Nat /\ base \in [1 .. Len(base) -> Range(table)]
          BY <4>1, LenProperties
        <4>3. base \in [1 .. Len(base) -> 1 .. nextEpoch]
          BY <4>1, <4>2
        <4>4. base \in Seq(1 .. nextEpoch)
          BY <4>2, <4>3, SeqDef
        <4> QED
          BY <4>2, <4>4
      <3>2. PICK t \in Seq(1 .. nextEpoch) : t = Append(base, e) /\ t = table' /\ Len(t) = m + 1
                     /\ \A i \in 1 .. m : t[i] = base[i]
        <4> DEFINE t == Append(base, e)
        <4>1. e \in 1 .. nextEpoch /\ base \in Seq(1 .. nextEpoch) /\ Len(base) = m
          BY <1>1, <3>1
        <4>2. t \in Seq(1 .. nextEpoch) /\ Len(t) = m + 1 /\ \A i \in 1 .. m : t[i] = base[i]
          BY ONLY <4>1, AppendProperties
        <4>3. t = table' /\ t = Append(base, e)
          BY <1>3
        <4> HIDE DEF t
        <4> QED
          BY <4>2, <4>3
      <3>3. \A i \in 1 .. m + 1 : t[i] \in Range(t)
        BY <3>2, RangeFacts
      <3>4. \A x \in Range(base) : \E i \in 1 .. m : base[i] = x
        BY <3>1, RangeFacts
      <3>5. \A i \in 1 .. m : i \in 1 .. m + 1
        BY <3>1
      <3> QED
        BY <3>2, <3>3, <3>4, <3>5
    <2>2. \A x \in Range(base) : tails'[x].pane = tails[x].pane
      <3> SUFFICES ASSUME NEW x \in Range(base) PROVE tails'[x].pane = tails[x].pane
        OBVIOUS
      <3>1. x \in Epochs \ {e} /\ x \in Range(table')
        BY <1>8, <1>9, <2>1
      <3>2. tails'[x] = ts[x]
        BY <1>12, <3>1
      <3> QED
        BY <1>14, <3>1, <3>2
    <2>3. tails'[e].pane \in Panes /\ \A x \in Range(table) : tails[x].pane # tails'[e].pane
      BY <1>9, <1>10, <1>13
    <2>4. nextEpoch' = nextEpoch /\ e \in 1 .. nextEpoch /\ table' = Append(base, e)
      BY <1>1, <1>3
    <2> QED
      BY <1>8, <2>2, <2>3, <2>4, TableGrows
  <1>17. ASSUME NEW x \in Epochs
         PROVE  TailFits(x)' /\ SeatsFit(x)'
    <2>1. CASE x = e
      <3>1. Fits(tails[e])'
        BY <1>3, <1>10, <1>13 DEF Fits, world
      <3> QED
        BY <1>10, <1>13, <1>16, <2>1, <3>1 DEF TailFits, SeatsFit, Waits
    <2>2. CASE tails'[x] = NoTail
      BY <2>2, FreedFits
    <2>3. CASE x # e /\ x \in evicted /\ tails'[x] = ts[x]
      <3>1. tails'[x] = Aborted(tails[x]) /\ tails[x] # NoTail /\ Fits(tails[x])
        BY <1>8, <1>9, <1>14, <2>3 DEF IInv, TailFits
      <3>2. /\ tails'[x].reader = "over" /\ tails'[x].queue = <<>>
            /\ tails'[x].serving = NoCaller /\ Fits(tails'[x])
        BY <1>4, <3>1, AbortedFacts
      <3>3. Fits(tails[x])'
        BY <1>3, <3>2 DEF Fits, world
      <3> QED
        BY <3>2, <3>3 DEF TailFits, SeatsFit, Waits
    <2>4. CASE x # e /\ x \notin evicted /\ tails'[x] = ts[x]
      <3>1. tails'[x] = tails[x] /\ TailFits(x) /\ SeatsFit(x) /\ tails[x] \in PaneTail
        BY <1>4, <1>14, <2>4 DEF IInv
      <3>2. x \in Range(table) => x \in Range(table')
        BY <1>8, <1>16, <2>4
      <3>3. TailFits(x)'
        BY <1>3, <3>1, <3>2, TailStays
      <3>4. SeatsFit(x)'
        BY <1>3, <1>7, <3>1, SeatsStay
      <3> QED
        BY <3>3, <3>4
    <2> QED
      BY <1>12, <2>1, <2>2, <2>3, <2>4
  <1>18. nextEpoch' \in Nat /\ nextEpoch <= nextEpoch'
    BY <1>3, <1>4
  <1>19. ASSUME NEW d \in Callers
         PROVE  HeldFits(d)'
    <2>1. ASSUME NEW x \in Epochs, ~Fresh(x)
          PROVE  /\ tails'[x] \in PaneTail
                 /\ tails'[x] = NoTail \/ (tails[x] # NoTail /\ Continues(tails[x], tails'[x]))
      <3>1. x # e
        BY <1>6, <2>1
      <3> QED
        BY <1>12, <1>14, <1>15, <3>1
    <2> QED
      BY <1>3, <1>18, <2>1, HeldStays
  <1>20. ASSUME NEW d \in Callers \ {c}
         PROVE  CallFits(d)'
    <2>1. ASSUME calls[d].pc \in {"retains", "waits", "answered"}
          PROVE  /\ tails'[calls[d].epoch] \in PaneTail
                 /\ Continues(tails[calls[d].epoch], tails'[calls[d].epoch])
      <3>1. calls[d].epoch \in Epochs /\ tails[calls[d].epoch].pane \in Panes
        BY <2>1, InvFacts DEF IInv, CallFits
      <3>2. calls[d].epoch # e
        BY <1>6, <3>1, Bounds DEF NoTail
      <3>3. tails'[calls[d].epoch] = ts[calls[d].epoch]
        BY <1>7, <1>12, <3>1
      <3> QED
        BY <1>14, <3>1, <3>2, <3>3
    <2> QED
      BY <1>5, <1>7, <1>18, <2>1, CallStays
  <1>21. CallFits(c)'
    BY <1>1, <1>3, <1>7, <1>10, <1>13 DEF CallFits
  <1>22. FreshIsUnused'
    <2>1. \A x \in Epochs : Fresh(x)' => Fresh(x) /\ x # e
      <3>1. \A x \in Epochs : x > nextEpoch => x # e
        BY <1>1, <1>4
      <3> QED
        BY <1>3, <3>1 DEF Fresh
    <2>2. \A x \in Epochs : Fresh(x) /\ x # e => tails'[x] = NoTail
      BY <1>12, <1>14 DEF IInv, FreshIsUnused
    <2> QED
      BY <1>3, <2>1, <2>2, FreshStays
  <1>23. OpenerFits'
    BY <1>3, <1>4, <1>5, <1>7 DEF OpenerFits
  <1>24. WorldFits' /\ held' \in [Callers -> HeldTypes]
    BY <1>3, <1>4 DEF WorldFits, world
  <1> QED
    BY <1>7, <1>15, <1>16, <1>17, <1>19, <1>20, <1>21, <1>22, <1>23, <1>24 DEF IInv

-----------------------------------------------------------------------------
(* What happens around the tails.                                          *)

LEMMA WorldMoves ==
  ASSUME IInv, UNCHANGED <<owner, nextEpoch, tails, table, opener, calls, held>>,
         WorldFits', \A e \in Epochs : Fits(tails[e]) => Fits(tails[e])'
  PROVE  IInv'
  <1>1. TableFits' /\ OpenerFits' /\ FreshIsUnused'
    BY DEF IInv, TableFits, OpenerFits, FreshIsUnused, Fresh
  <1>2. \A e \in Epochs : TailFits(e)' /\ SeatsFit(e)'
    BY DEF IInv, TailFits, SeatsFit, Waits
  <1>3. \A c \in Callers : CallFits(c)' /\ HeldFits(c)'
    BY DEF IInv, CallFits, HeldFits, IsAt
  <1> QED
    BY <1>1, <1>2, <1>3 DEF IInv

LEMMA WriteKeeps ==
  ASSUME IInv, NEW p \in Panes, Write(p)
  PROVE  IInv'
  <1>1. /\ written[p] < MaxWritten /\ written' = [written EXCEPT ![p] = @ + 1]
        /\ UNCHANGED <<era, gone>>
        /\ UNCHANGED <<owner, nextEpoch, tails, table, opener, calls, held>>
    BY DEF Write
  <1>2. WorldFits /\ MaxWritten \in Nat /\ written \in [Panes -> 0 .. MaxWritten]
    BY Bounds DEF IInv, WorldFits
  <1>3. written[p] + 1 \in 0 .. MaxWritten
    BY <1>1, <1>2
  <1>4. written' \in [Panes -> 0 .. MaxWritten]
    BY <1>1, <1>2, <1>3
  <1>5. WorldFits'
    BY <1>1, <1>2, <1>4 DEF WorldFits
  <1>6. \A q \in Panes : written[q] <= written'[q]
    BY <1>1, <1>2
  <1>7. ASSUME NEW e \in Epochs, Fits(tails[e])
        PROVE  Fits(tails[e])'
    <2> SUFFICES ASSUME tails[e] # NoTail, tails[e].era = era
                 PROVE  tails[e].got <= written'[tails[e].pane]
      BY <1>1, <1>7 DEF Fits
    <2>1. /\ tails[e].pane \in Panes /\ tails[e].got <= written[tails[e].pane]
          /\ tails[e].got \in Nat
      BY <1>7, InvFacts DEF Fits, PaneTail
    <2> QED
      BY <1>2, <1>4, <1>6, <2>1
  <1> QED
    BY <1>1, <1>5, <1>7, WorldMoves

LEMMA CloseKeeps ==
  ASSUME IInv, NEW p \in Panes, Close(p)
  PROVE  IInv'
  <1>1. /\ gone' = gone \cup {p} /\ UNCHANGED <<era, written>>
        /\ UNCHANGED <<owner, nextEpoch, tails, table, opener, calls, held>>
    BY DEF Close
  <1>2. WorldFits'
    BY <1>1 DEF IInv, WorldFits
  <1>3. \A e \in Epochs : Fits(tails[e]) => Fits(tails[e])'
    BY <1>1 DEF Fits
  <1> QED
    BY <1>1, <1>2, <1>3, WorldMoves

LEMMA TmuxRestartsKeeps ==
  ASSUME IInv, TmuxRestarts
  PROVE  IInv'
  <1>1. /\ era < MaxEra /\ era' = era + 1 /\ written' = [p \in Panes |-> 0] /\ gone' = {}
        /\ UNCHANGED <<owner, nextEpoch, tails, table, opener, calls, held>>
    BY DEF TmuxRestarts
  <1>2. WorldFits /\ MaxEra \in Nat /\ MaxWritten \in Nat
    BY Bounds DEF IInv
  <1>3. WorldFits'
    <2>1. era' \in 1 .. MaxEra /\ written' \in [Panes -> 0 .. MaxWritten]
      BY <1>1, <1>2 DEF WorldFits
    <2> QED
      BY <1>1, <1>2, <2>1 DEF WorldFits
  <1>4. ASSUME NEW e \in Epochs, Fits(tails[e])
        PROVE  Fits(tails[e])'
    <2>1. tails[e] # NoTail => tails[e].era \in 1 .. era /\ tails[e].era \in 1 .. era' /\ tails[e].era # era'
      BY <1>1, <1>2, <1>4 DEF Fits, WorldFits
    <2> QED
      BY <1>1, <1>4, <2>1 DEF Fits
  <1> QED
    BY <1>1, <1>3, <1>4, WorldMoves

LEMMA RestartsKeeps ==
  ASSUME IInv, Restarts
  PROVE  IInv'
  <1>1. /\ owner < MaxOwner /\ owner' = owner + 1
        /\ nextEpoch' = 0 /\ opener' = NoCaller /\ table' = <<>>
        /\ tails' = [e \in Epochs |-> NoTail] /\ calls' = [c \in Callers |-> Idle]
        /\ UNCHANGED <<world, held>>
    BY DEF Restarts
  <1>2. /\ WorldFits /\ MaxOwner \in Nat /\ MaxEpoch \in Nat /\ MaxTails \in Nat
        /\ owner \in Nat /\ held \in [Callers -> HeldTypes]
    BY Bounds, InvFacts DEF IInv
  <1>3. WorldFits'
    BY <1>1, <1>2 DEF WorldFits, world
  <1>4. TableFits'
    BY <1>1, <1>2 DEF TableFits
  <1>5. OpenerFits'
    BY <1>1, Bounds DEF OpenerFits, Idle
  <1>6. tails' \in [Epochs -> PaneTail] /\ calls' \in [Callers -> CallTypes]
    BY <1>1, NoTailIsOne, IdleIsOne
  <1>7. \A e \in Epochs : TailFits(e)' /\ SeatsFit(e)'
    BY <1>1, FreedFits
  <1>8. \A c \in Callers : CallFits(c)'
    BY <1>1 DEF CallFits, Idle
  <1>9. ASSUME NEW c \in Callers
        PROVE  HeldFits(c)' /\ held'[c].cursor.owner # owner'
    <2>1. held[c].cursor.owner \in Nat /\ held[c].cursor.owner <= owner
      BY <1>2 DEF IInv, HeldFits, HeldTypes
    <2>2. held'[c].cursor.owner <= owner' /\ held'[c].cursor.owner # owner'
      BY <1>1, <1>2, <2>1
    <2> QED
      BY <2>2 DEF HeldFits
  <1>10. FreshIsUnused'
    BY <1>1, <1>9 DEF FreshIsUnused
  <1> QED
    BY <1>1, <1>2, <1>3, <1>4, <1>5, <1>6, <1>7, <1>8, <1>9, <1>10 DEF IInv

LEMMA InitFits ==
  ASSUME Init
  PROVE  IInv
  <1>1. /\ era = 1 /\ owner = 1 /\ nextEpoch = 0 /\ written = [p \in Panes |-> 0] /\ gone = {}
        /\ tails = [e \in Epochs |-> NoTail] /\ table = <<>> /\ opener = NoCaller
        /\ calls = [c \in Callers |-> Idle] /\ held = [c \in Callers |-> NothingHeld]
    BY DEF Init
  <1>2. WorldFits
    <2>1. 1 \in 1 .. MaxEra /\ 1 \in 1 .. MaxOwner /\ 0 \in 0 .. MaxEpoch /\ 0 \in 0 .. MaxWritten
      BY TailsAssumption
    <2> QED
      BY <1>1, <2>1 DEF WorldFits
  <1>3. TableFits
    BY <1>1, Bounds DEF TableFits
  <1>4. OpenerFits
    BY <1>1, Bounds DEF OpenerFits, Idle
  <1>5. tails \in [Epochs -> PaneTail] /\ calls \in [Callers -> CallTypes]
    BY <1>1, NoTailIsOne, IdleIsOne
  <1>6. NothingHeld \in HeldTypes /\ NothingHeld.cursor.owner = 0
    BY DEF NothingHeld, NoCursor, HeldTypes
  <1>7. \A e \in Epochs : TailFits(e) /\ SeatsFit(e)
    BY <1>1 DEF TailFits, Fits, SeatsFit, Waits, NoTail
  <1>8. \A c \in Callers : CallFits(c) /\ HeldFits(c)
    BY <1>1, <1>6 DEF CallFits, HeldFits, Idle
  <1>9. FreshIsUnused
    BY <1>1, <1>6 DEF FreshIsUnused
  <1> QED
    BY <1>1, <1>2, <1>3, <1>4, <1>5, <1>6, <1>7, <1>8, <1>9 DEF IInv

-----------------------------------------------------------------------------
(* The theorems.                                                           *)

LEMMA StepKeeps == IInv /\ [Next]_vars => IInv'
  <1> SUFFICES ASSUME IInv, [Next]_vars PROVE IInv'
    OBVIOUS
  <1>1. ASSUME NEW c \in Callers, NEW p \in Panes, NEW first \in BOOLEAN, Read(c, p, first)
        PROVE  IInv'
    BY <1>1, ReadKeeps
  <1>2. ASSUME NEW c \in Callers, CallerStep(c) \/ Cancel(c)
        PROVE  IInv'
    BY <1>2, OpenKeeps, AttachFailsKeeps, AttachKeeps, RequestKeeps, StoppedKeeps,
       AnswerFirstKeeps, AnswerSinceKeeps, CancelKeeps DEF CallerStep
  <1>3. ASSUME NEW e \in Epochs, ReaderStep(e)
        PROVE  IInv'
    BY <1>3, TakeRequestKeeps, CaptureKeeps, DeliverKeeps, StreamEndsKeeps DEF ReaderStep
  <1>4. ASSUME NEW p \in Panes, Write(p) \/ Close(p)
        PROVE  IInv'
    BY <1>4, WriteKeeps, CloseKeeps
  <1>5. CASE TmuxRestarts \/ Restarts
    BY <1>5, TmuxRestartsKeeps, RestartsKeeps
  <1>6. CASE UNCHANGED vars
    <2>1. UNCHANGED <<owner, nextEpoch, tails, table, opener, calls, held>>
          /\ UNCHANGED <<era, written, gone>>
      BY <1>6 DEF vars
    <2>2. WorldFits' /\ \A e \in Epochs : Fits(tails[e]) => Fits(tails[e])'
      BY <2>1 DEF IInv, WorldFits, Fits
    <2> QED
      BY <2>1, <2>2, WorldMoves
  <1> QED
    BY <1>1, <1>2, <1>3, <1>4, <1>5, <1>6 DEF Next

\* What the tails, the calls and the cursors callers keep say of one another
\* (tail.rs, tail/ring.rs, tail/registry.rs).
THEOREM Invariance == Spec => []IInv
  <1>1. Init => IInv
    BY InitFits
  <1> QED
    BY <1>1, StepKeeps, PTL DEF Spec

LEMMA InvTypes == IInv => TypeOK
  <1> SUFFICES ASSUME IInv PROVE TypeOK
    OBVIOUS
  <1>1. ASSUME NEW e \in Epochs
        PROVE  /\ tails[e] \in PaneTail /\ Len(tails[e].ring.bytes) <= RingBytes
               /\ Len(tails[e].queue) <= SnapshotQueue
               /\ tails[e].reader \in {"reading", "capturing"} => e \in Range(table)
    <2>1. tails[e] \in PaneTail /\ Fits(tails[e]) /\ TailFits(e)
      BY DEF IInv, TailFits
    <2>2. CASE tails[e] = NoTail
      <3>1. /\ NoTail.ring.bytes = <<>> /\ NoTail.queue = <<>> /\ NoTail.reader = "none"
            /\ Len(<<>>) = 0
        BY DEF NoTail, EmptyRing
      <3>2. 0 <= RingBytes /\ 0 <= SnapshotQueue
        BY Bounds
      <3> QED
        BY <2>1, <2>2, <3>1, <3>2
    <2>3. CASE tails[e] # NoTail
      BY <2>1, <2>3 DEF Fits, TailFits
    <2> QED
      BY <2>2, <2>3
  <1>2. table \in Seq(1 .. nextEpoch) /\ Len(table) <= MaxTails /\ MaxTails \in Nat
    BY Bounds DEF IInv, TableFits
  <1>3. table \in BoundedSeq(1 .. nextEpoch, MaxTails)
    BY <1>2, BoundedSeqFacts
  <1>4. \A i, j \in DOMAIN table : tails[table[i]].pane = tails[table[j]].pane => i = j
    <2>1. DOMAIN table = 1 .. Len(table)
      BY <1>2, LenProperties
    <2> QED
      BY <2>1 DEF IInv, TableFits
  <1> QED
    BY <1>1, <1>3, <1>4 DEF TypeOK, IInv, WorldFits, OpenerFits

\* The table holds at most MAX_TAILS tails and at most one of a pane; a reader
\* runs only for a tail of the table, and its ring and its mailbox stay within
\* RING_BYTES and SNAPSHOT_QUEUE (TailTable, registry.rs; Ring::push, ring.rs).
THEOREM TablesStayBounded == Spec => []TypeOK
  BY Invariance, InvTypes, PTL

\* What a read that is not a miss finds: the bytes after the place, up to the end.
LEMMA ReadFacts ==
  ASSUME NEW tail \in PaneTail, tail # NoTail, Fits(tail),
         NEW offset \in Nat, NEW last \in Nat \X Nat, IsAt(tail, offset, last),
         offset >= tail.ring.start
  PROVE  LET text == ReadFrom(tail.ring, offset).bytes
         IN  /\ text = [i \in DOMAIN text |-> <<last[1], last[2] + i>>]
             /\ <<tail.era, tail.got>> = <<last[1], last[2] + Len(text)>>
  <1> DEFINE b == tail.ring.bytes
             m == Len(b)
             start == tail.ring.start
             k == offset - start
             text == ReadFrom(tail.ring, offset).bytes
  <1>1. /\ RingEnd(tail.ring) = start + m /\ start \in Nat /\ m \in Nat
        /\ b \in Seq(Byte) /\ tail.got \in Nat /\ last[2] \in Nat
    BY RingEndIsNat
  <1>2. /\ last[1] = tail.era /\ offset <= start + m
        /\ last[2] + (start + m) = tail.got + offset
    BY <1>1 DEF IsAt
  <1>3. \A i \in 1 .. m : b[i] = <<tail.era, tail.got - m + i>>
    BY DEF Fits
  <1>4. text = SubSeq(b, k + 1, m)
    <2>1. ~(offset > RingEnd(tail.ring)) /\ ~(offset < start)
      BY <1>1, <1>2
    <2> QED
      BY <2>1 DEF ReadFrom
  <1> HIDE DEF text, b, m, start
  <1>5. k \in 0 .. m /\ start \in Nat
    <2>1. /\ offset <= start + m /\ offset >= start
          /\ start \in Nat /\ m \in Nat /\ offset \in Nat
      BY <1>1, <1>2 DEF start
    <2> QED
      BY ONLY <2>1
  <1>6. /\ text \in Seq(Byte) /\ Len(text) = m - k /\ m - k \in Nat
        /\ \A i \in 1 .. m - k : text[i] = b[k + i]
    <2> HIDE DEF k
    <2>1. b \in Seq(Byte) /\ Len(b) = m /\ m \in Nat /\ k \in 0 .. m /\ text = SubSeq(b, k + 1, m)
      BY <1>1, <1>4, <1>5 DEF m
    <2>2. k + 1 \in Int /\ m \in Int /\ \A i \in k + 1 .. m : b[i] \in Byte
      <3>1. k + 1 \in Int /\ m \in Int /\ \A i \in k + 1 .. m : i \in 1 .. Len(b)
        BY ONLY <2>1
      <3> QED
        BY ONLY <2>1, <3>1, ElementOfSeq
    <2>3. /\ text \in Seq(Byte) /\ Len(text) = IF k + 1 <= m THEN m - (k + 1) + 1 ELSE 0
          /\ \A i \in 1 .. m - (k + 1) + 1 : text[i] = b[(k + 1) + i - 1]
      BY ONLY <2>1, <2>2, SubSeqProperties
    <2>4. m \in Nat /\ k \in 0 .. m
      BY <2>1
    <2>5. m - (k + 1) + 1 = m - k /\ m - k \in Nat
      BY ONLY <2>4
    <2>6. ~(k + 1 <= m) => m - k = 0
      BY ONLY <2>4
    <2>7. \A i \in 1 .. m - k : (k + 1) + i - 1 = k + i
      BY ONLY <2>4
    <2> QED
      BY ONLY <2>3, <2>5, <2>6, <2>7
  <1>7. DOMAIN text = 1 .. m - k /\ text = [i \in DOMAIN text |-> text[i]]
    <2>1. DOMAIN text = 1 .. Len(text) /\ text \in [1 .. Len(text) -> Byte]
      BY <1>6, LenProperties
    <2> QED
      BY <1>6, <2>1
  <1>8. last[2] = tail.got - m + k /\ tail.got = last[2] + (m - k)
    <2> DEFINE g == tail.got
               l == last[2]
    <2>1. /\ l + (start + m) = g + offset
          /\ start \in Nat /\ m \in Nat /\ g \in Nat /\ l \in Nat /\ offset \in Nat
      BY <1>1, <1>2 DEF start
    <2> HIDE DEF g, l
    <2>2. l = g - m + (offset - start) /\ g = l + (m - (offset - start))
      BY ONLY <2>1
    <2> QED
      BY <2>2 DEF g, l
  <1> HIDE DEF k
  <1>9. ASSUME NEW i \in 1 .. m - k
        PROVE  text[i] = <<last[1], last[2] + i>>
    <2>1. k + i \in 1 .. m /\ tail.got - m + (k + i) = last[2] + i
      <3> DEFINE g == tail.got
                 l == last[2]
      <3>1. /\ l = g - m + k /\ k \in 0 .. m /\ m \in Nat /\ g \in Nat /\ l \in Nat
            /\ i \in 1 .. m - k
        BY <1>1, <1>5, <1>8
      <3> HIDE DEF g, l
      <3>2. k + i \in 1 .. m /\ g - m + (k + i) = l + i
        BY ONLY <3>1
      <3> QED
        BY <3>2 DEF g, l
    <2>2. b[k + i] = <<tail.era, tail.got - m + (k + i)>>
      BY <1>3, <2>1
    <2> QED
      BY <1>2, <1>6, <2>1, <2>2
  <1>10. text = [i \in DOMAIN text |-> <<last[1], last[2] + i>>]
    BY <1>7, <1>9
  <1>11. <<tail.era, tail.got>> = <<last[1], last[2] + Len(text)>>
    BY <1>2, <1>6, <1>8
  <1> QED
    BY <1>10, <1>11 DEF text

LEMMA InvHasNoGap == IInv => NoSilentGap
  <1> SUFFICES ASSUME IInv, NEW c \in Callers,
                      calls[c].pc = "retains", ~calls[c].first, ~Since(c).missed
               PROVE  LET from == held[c].last
                          text == Since(c).text
                      IN  /\ text = [i \in DOMAIN text |-> <<from[1], from[2] + i>>]
                          /\ Since(c).last = <<from[1], from[2] + Len(text)>>
    BY DEF NoSilentGap
  <1> DEFINE e == calls[c].epoch
             tail == tails[e]
             cursor == held[c].cursor
  <1>1. e \in Epochs /\ tail \in PaneTail /\ tail.pane \in Panes /\ tail # NoTail /\ Fits(tail)
    BY InvFacts DEF IInv, CallFits, TailFits
  <1>2. cursor.owner = owner /\ cursor.epoch = e
    BY DEF Since, ResumeAt
  <1>3. /\ Since(c).text = ReadFrom(tail.ring, cursor.offset).bytes
        /\ ~(cursor.offset < tail.ring.start)
        /\ Since(c).last = <<tail.era, tail.got>>
    BY <1>2 DEF Since, ResumeAt, ReadFrom
  <1>4. cursor.offset \in Nat /\ held[c].last \in Nat \X Nat
    BY DEF IInv, HeldTypes
  <1>5. IsAt(tail, cursor.offset, held[c].last)
    BY <1>1, <1>2 DEF IInv, HeldFits
  <1>6. cursor.offset >= tail.ring.start
    BY <1>1, <1>3, <1>4, RingEndIsNat
  <1> HIDE DEF tail, cursor
  <1>7. LET text == ReadFrom(tail.ring, cursor.offset).bytes
        IN  /\ text = [i \in DOMAIN text |-> <<held[c].last[1], held[c].last[2] + i>>]
            /\ <<tail.era, tail.got>> = <<held[c].last[1], held[c].last[2] + Len(text)>>
    BY <1>1, <1>4, <1>5, <1>6, ReadFacts
  <1> QED
    BY <1>3, <1>7

\* An answer that does not say missed=true goes on exactly where the caller's
\* answers before it ended, whatever was evicted, restarted or overwritten in
\* between (Tails::since, tail.rs; resume_at and Ring::read_from, ring.rs).
THEOREM AnswersHideNoGap == Spec => []NoSilentGap
  BY Invariance, InvHasNoGap, PTL

=============================================================================
