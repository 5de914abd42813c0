----------------------------- MODULE PaneStream ------------------------------
(***************************************************************************)
(* PaneOutput (crates/libtmux/src/control.rs): what one pane writes, read   *)
(* from a control connection of its own.  Its reader polls the events the   *)
(* connection delivers and, because tmux names neither a pane that appears  *)
(* nor one that goes, has a task of its own mute the new panes and look for *)
(* the watched one after every event that may mean either.                  *)
(*                                                                          *)
(* The connection is what ControlConnection shows it to be: events arrive   *)
(* in tmux's order, and a command is answered after the events before it.   *)
(* A poll is cut where another thread can come between; it ends at a chunk, *)
(* at the end of the stream, or parked on the wakers it registered.         *)
(***************************************************************************)
EXTENDS Naturals, Sequences

CONSTANTS Others,        \* panes that may appear beside the watched one
          \* Bounds: chunks, listing changes without a new pane, snapshots.
          MaxChunks, MaxChanges, MaxSnapshots

ASSUME StreamAssumption == {MaxChunks, MaxChanges, MaxSnapshots} \subseteq Nat

VARIABLES
  where,      \* the watched pane: in the session attached to, moved, or gone
  present,    \* the other panes of that session
  muted,      \* those tmux was told not to send
  up,         \* whether the connection is open
  queue,      \* the deliveries not yet read
  narrowing,  \* PaneOutput::narrowing
  pass,       \* the task of narrow: what it does next
  listed,     \* the panes its pass still has to mute
  handle,     \* PaneOutput::narrow_handle, and what its task answered
  watching,   \* whether the last poll left its waker with that handle
  skipped,     \* history: panes a failed pass left, with no pass asked for since
  pc,         \* the reader: polling, reading events, parked, in a snapshot
  ended,      \* why the stream answered None
  capture,    \* the capture of the snapshot in progress
  late,       \* captures given up whose boundary may still come
  chunks, changes, snapshots   \* bounds

streamVars == <<where, present, muted, up, queue, narrowing, pass, listed, handle,
          watching, skipped, pc, ended, capture, late, chunks, changes, snapshots>>

tmux == <<where, present, muted, up, chunks, changes>>

task == <<narrowing, pass, listed, handle, watching, skipped>>

-----------------------------------------------------------------------------

\* A chunk of the watched pane; an event that may have added a pane; a window
\* that closed; the end of the connection; the place a snapshot was taken at,
\* and that of one given up.
Deliveries == {"chunk", "grown", "closed", "end", "boundary", "stale"}

StreamTypeOK ==
  /\ where \in {"here", "moved", "gone"} /\ muted \subseteq present
  /\ present \subseteq Others /\ listed \subseteq present /\ skipped \subseteq present
  /\ queue \in Seq(Deliveries)
  /\ narrowing = "idle" <=> pass \in {"none", "check"}
  /\ handle = "waiting" <=> pass # "none"
  /\ watching => handle # "none"
  /\ pc \in {"poll", "events", "parked", "snapshot", "over"}
  /\ pc = "over" <=> ended # "no"
  /\ capture # "none" => pc = "snapshot"
  /\ late \in Nat
  /\ \A i \in DOMAIN queue : queue[i] = "end" => ~up /\ i = Len(queue)

StreamInit ==
  /\ where = "here" /\ present = {} /\ muted = {} /\ up = TRUE /\ queue = <<>>
  /\ narrowing = "idle" /\ pass = "none" /\ listed = {}
  /\ handle = "none" /\ watching = FALSE /\ skipped = {}
  /\ pc = "poll" /\ ended = "no" /\ capture = "none" /\ late = 0
  /\ chunks = 0 /\ changes = 0 /\ snapshots = 0

-----------------------------------------------------------------------------
(* tmux                                                                    *)

Delivers(kind) == up /\ queue' = Append(queue, kind)

reader == <<pc, ended, capture, late, snapshots>>

Writes ==
  /\ where = "here" /\ chunks < MaxChunks /\ Delivers("chunk")
  /\ chunks' = chunks + 1
  /\ UNCHANGED <<where, present, muted, up, changes, task, reader>>

Appears(o) ==
  /\ o \notin present /\ present' = present \cup {o} /\ Delivers("grown")
  /\ UNCHANGED <<where, muted, up, chunks, changes, task, reader>>

\* A layout, a window or the session changed and no pane did.
Changes ==
  /\ changes < MaxChanges /\ changes' = changes + 1
  /\ \E kind \in {"grown", "closed"} : Delivers(kind)
  /\ UNCHANGED <<where, present, muted, up, chunks, task, reader>>

\* The watched pane goes: tmux reports the layout of what is left, or only the
\* window that closed with its last pane.
Dies ==
  /\ where = "here" /\ where' = "gone"
  /\ \E kind \in {"grown", "closed"} : Delivers(kind)
  /\ UNCHANGED <<present, muted, up, chunks, changes, task, reader>>

\* It is joined to a window of another session, which this client is not sent.
Moves ==
  /\ where = "here" /\ where' = "moved"
  /\ \E kind \in {"grown", "closed"} : Delivers(kind)
  /\ UNCHANGED <<present, muted, up, chunks, changes, task, reader>>

Disconnects ==
  /\ Delivers("end") /\ up' = FALSE
  /\ UNCHANGED <<where, present, muted, chunks, changes, task, reader>>

\* A capture that was given up is answered all the same.
AnswersLate ==
  /\ late > 0 /\ Delivers("stale") /\ late' = late - 1
  /\ UNCHANGED <<tmux, task, pc, ended, capture, snapshots>>

-----------------------------------------------------------------------------
(* The task narrow spawns                                                  *)

\* A bug the checks must notice: a request made during a pass is forgotten.
NarrowOnce ==
  IF narrowing = "idle"
  THEN /\ narrowing' = "running" /\ pass' = "list" /\ listed' = {} /\ skipped' = {}
       /\ handle' = "waiting" /\ watching' = FALSE
  ELSE UNCHANGED task

\* One task at a time; a request made during a pass asks for another.  A task
\* that only has its answer left is replaced, and its answer with it.
Narrow ==
  /\ skipped' = {}
  /\ IF narrowing = "idle"
     THEN /\ narrowing' = "running" /\ pass' = "list" /\ listed' = {}
          /\ handle' = "waiting" /\ watching' = FALSE
     ELSE /\ narrowing' = "dirty" /\ UNCHANGED <<pass, listed, handle, watching>>

\* A command of the pass fails, for want of an answer in time, because events
\* are too far behind, because tmux refuses it or with the connection.  That is
\* the end of the pass: narrow ignores the error and nothing tries again.
PassFails ==
  /\ pass' = "settle" /\ listed' = {} /\ UNCHANGED muted
  /\ skipped' = IF narrowing = "dirty" THEN skipped ELSE skipped \cup (present \ muted)

\* watch_only: list the session's panes, then mute them one by one.
ListPanes ==
  /\ pass = "list"
  /\ \/ up /\ listed' = present /\ pass' = "mute" /\ UNCHANGED <<muted, skipped>>
     \/ PassFails
  /\ UNCHANGED <<where, present, up, chunks, changes, queue, narrowing, handle,
                 watching, reader>>

MutePane ==
  /\ pass = "mute"
  /\ \/ \E o \in listed :
          /\ up /\ muted' = muted \cup {o} /\ listed' = listed \ {o}
          /\ UNCHANGED <<pass, skipped>>
     \/ listed = {} /\ pass' = "settle" /\ UNCHANGED <<listed, muted, skipped>>
     \/ listed # {} /\ PassFails
  /\ UNCHANGED <<where, present, up, chunks, changes, queue, narrowing, handle,
                 watching, reader>>

\* compare_exchange(RUNNING, IDLE); when it fails, a store and another pass.
Settle ==
  /\ pass = "settle"
  /\ IF narrowing = "running"
     THEN narrowing' = "idle" /\ pass' = "check"
     ELSE pass' = "again" /\ UNCHANGED narrowing
  /\ UNCHANGED <<tmux, queue, listed, handle, watching, skipped, reader>>

PassAgain ==
  /\ pass = "again" /\ narrowing' = "running" /\ pass' = "list"
  /\ UNCHANGED <<tmux, queue, listed, handle, watching, skipped, reader>>

\* A bug the checks must notice: only the session attached to is listed.
ListedHere == where = "here"

\* pane_exists lists the whole server.
Listed == where # "gone"

\* A listing that fails counts as one that has the pane.
CheckPane ==
  /\ pass = "check" /\ pass' = "none"
  /\ \/ up /\ ~Listed /\ handle' = "gone"
     \/ handle' = "there"
  /\ UNCHANGED <<tmux, queue, narrowing, listed, watching, skipped, reader>>

-----------------------------------------------------------------------------
(* The reader: poll_next                                                   *)

Ends(why) == pc' = "over" /\ ended' = why

\* A poll asks the handle first, and leaves its waker with one that is not done.
Poll ==
  /\ pc = "poll"
  /\ \/ handle = "gone" /\ Ends("gone") /\ UNCHANGED <<handle, watching>>
     \/ handle = "there" /\ handle' = "none" /\ watching' = FALSE
        /\ pc' = "events" /\ UNCHANGED ended
     \/ handle \in {"none", "waiting"} /\ watching' = (handle = "waiting")
        /\ pc' = "events" /\ UNCHANGED <<handle, ended>>
  /\ UNCHANGED <<tmux, queue, narrowing, pass, listed, skipped, capture, late, snapshots>>

\* Then it reads events until a chunk, the end, or an empty channel.
ReadEvent ==
  /\ pc = "events" /\ queue # <<>> /\ queue' = Tail(queue)
  /\ CASE Head(queue) = "chunk" -> pc' = "poll" /\ UNCHANGED <<task, ended>>
       [] Head(queue) \in {"grown", "closed"} -> Narrow /\ UNCHANGED <<pc, ended>>
       [] Head(queue) = "end" -> Ends("closed") /\ UNCHANGED task
       [] OTHER -> UNCHANGED <<task, pc, ended>>
  /\ UNCHANGED <<tmux, capture, late, snapshots>>

Park ==
  /\ pc = "events" /\ queue = <<>> /\ pc' = "parked"
  /\ UNCHANGED <<tmux, queue, task, ended, capture, late, snapshots>>

\* What was registered wakes it: the channel always is, a handle only when the
\* poll found it there.
Wake ==
  /\ pc = "parked" /\ pc' = "poll"
  /\ queue # <<>> \/ (watching /\ handle \in {"there", "gone"})
  /\ UNCHANGED <<tmux, queue, task, ended, capture, late, snapshots>>

-----------------------------------------------------------------------------
(* snapshot, instead of a poll that may be parked                          *)

Snapshot ==
  /\ pc \in {"poll", "parked"} /\ snapshots < MaxSnapshots
  /\ snapshots' = snapshots + 1 /\ pc' = "snapshot" /\ capture' = "asked"
  /\ UNCHANGED <<tmux, queue, task, ended, late>>

\* tmux answers, refusing a pane it does not have.
Captures ==
  /\ capture = "asked" /\ Delivers("boundary") /\ capture' = "answered"
  /\ UNCHANGED <<tmux, task, pc, ended, late, snapshots>>

\* The capture fails before its boundary is read, or the snapshot is dropped:
\* a boundary that has another's number is skipped wherever it is read.
GivesUp ==
  /\ pc = "snapshot" /\ pc' = "poll" /\ capture' = "none"
  /\ queue' = [i \in DOMAIN queue |->
                 IF queue[i] = "boundary" THEN "stale" ELSE queue[i]]
  /\ late' = IF capture = "asked" THEN late + 1 ELSE late
  /\ UNCHANGED <<tmux, task, ended, snapshots>>

\* Events up to the boundary.  Only may_have_added_a_pane narrows here.
ReadToBoundary ==
  /\ pc = "snapshot" /\ queue # <<>> /\ queue' = Tail(queue)
  /\ CASE Head(queue) = "grown" -> Narrow /\ UNCHANGED <<pc, ended, capture>>
       [] Head(queue) = "end" -> Ends("closed") /\ capture' = "none" /\ UNCHANGED task
       [] Head(queue) = "boundary" -> pc' = "poll" /\ capture' = "none"
                                      /\ UNCHANGED <<task, ended>>
       [] OTHER -> UNCHANGED <<task, pc, ended, capture>>
  /\ UNCHANGED <<tmux, late, snapshots>>

TaskStep == ListPanes \/ MutePane \/ Settle \/ PassAgain \/ CheckPane

StreamReaderStep == Poll \/ ReadEvent \/ Park \/ Wake \/ Captures \/ ReadToBoundary

StreamNext ==
  \/ Writes \/ Changes \/ Dies \/ Moves \/ Disconnects \/ AnswersLate
  \/ \E o \in Others : Appears(o)
  \/ TaskStep \/ StreamReaderStep \/ Snapshot \/ GivesUp

StreamSpec == StreamInit /\ [][StreamNext]_streamVars

\* The runtime runs a task that can go on and polls a reader it has woken, and
\* tmux answers: "keep reading, or the pane stops" (pane/observe.rs).
FairSpec == StreamSpec /\ WF_streamVars(TaskStep) /\ WF_streamVars(StreamReaderStep)

-----------------------------------------------------------------------------

\* The stream answers that its pane is gone only of one that is: not of one
\* joined to another session, nor on the word of a command that failed.
GoneMeansGone == ended = "gone" => where = "gone"

\* While the stream is being read, every pane that appears beside the watched
\* one is muted, however its event falls among the passes and the snapshots,
\* but for one cause: a pass that failed with no other asked for since, which
\* the code does not make good ("leaves the caller its own pane alongside
\* noise", narrow).  No request for a pass is lost, before or after a failure.
AppearedIsMuted ==
  \A o \in Others : o \in present ~> (o \in muted \cup skipped \/ ~up \/ ended # "no")

\* The comment in poll_next: "a pane confirmed gone ends the stream even when
\* nothing further arrives to wake this on the event channel alone".
GoneEndsTheStream == handle = "gone" ~> ended # "no"

=============================================================================
