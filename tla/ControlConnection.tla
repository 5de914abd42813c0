-------------------------- MODULE ControlConnection --------------------------
(***************************************************************************)
(* One control-mode connection: the actor task of                          *)
(* crates/libtmux/src/control/actor.rs, the callers of                     *)
(* ControlSender::dispatch_line and the watching half, ControlEvents, of   *)
(* crates/libtmux/src/control.rs, and, as the environment, the tmux server *)
(* at the other end of the pipes.                                          *)
(*                                                                         *)
(* Each action is one uninterrupted piece of one task: the code between    *)
(* two awaits, with the arm of the biased select! that woke it.  A guard   *)
(* that negates the readiness of another arm is that arm's priority.       *)
(*                                                                         *)
(* `log` is everything tmux ever wrote to this connection and `rd` how     *)
(* much of it the actor has read, so log[rd+1..] is what the pipe holds.   *)
(* An event is identified with its position in the log, an ordering        *)
(* boundary with the position of the %end it follows.                      *)
(***************************************************************************)
EXTENDS ReplySlots

CONSTANTS
  CommandQueue,       \* COMMAND_QUEUE: requests queued before a sender waits
  EventQueue,         \* EVENT_QUEUE: capacity of the watcher's channel
  HeldWhileAwaiting,  \* HELD_WHILE_AWAITING: events held while a reply is due
  OpeningDeadline,    \* when attaching gives up, or Never
  BlockTimeout,       \* how long a block that answers nothing may stay open
  MaxTime,            \* bound: the clock stops here
  MaxEvents,          \* bound: notifications and unsolicited blocks from tmux
  HookBlocks,         \* whether tmux may send blocks that answer no line
  NoCall              \* no request is being written

ASSUME QueueAssumption ==
  /\ CommandQueue \in Nat \ {0}
  /\ EventQueue \in Nat \ {0}
  /\ HeldWhileAwaiting \in Nat /\ HeldWhileAwaiting >= EventQueue

ASSUME TimeAssumption ==
  /\ OpeningDeadline \in Nat \cup {Never}
  /\ BlockTimeout \in Nat
  /\ MaxTime \in Nat
  /\ MaxEvents \in Nat
  /\ HookBlocks \in BOOLEAN

VARIABLES
  \* the environment of the actor
  now,          \* the clock
  coreStopped,  \* Server::shutdown asked every connection to stop
  attached,     \* open() returned: the two public halves exist
  sender,       \* some ControlSender is alive
  \* the callers
  call,         \* where each dispatch_line is
  answer,       \* what its oneshot carries, then what it returned
  commit,       \* its commitment: open, sent by the actor, or withdrawn
  queue,        \* the commands channel
  \* the actor
  mode,         \* which of its loops the task is in
  current,      \* the request being written, or NoCall
  awaiting,     \* the reply slots
  blockDeadline,\* the deadline of the block being read
  held,         \* `pending`: deliveries the watcher has no room for
  sending, watching, \* the two flags of serve()
  outcome,      \* what the task ends with
  \* the watching half
  events,       \* the events channel
  watcher,      \* whether the handle is read, shutting down, gone or finished
  delivered,    \* what the handle has received
  \* tmux and the pipes
  log, rd,
  written,      \* the lines wholly written to tmux, in order
  tmuxLine,     \* the line tmux is at
  tmuxCmd,      \* and which of its commands
  tmuxOpen,     \* a block is open
  tmux          \* starting, up or gone

envVars     == <<now, coreStopped, attached, sender>>
callVars    == <<call, answer, commit, queue>>
actorVars   == <<mode, current, awaiting, blockDeadline, held, sending,
                 watching, outcome>>
watcherVars == <<events, watcher, delivered>>
tmuxVars    == <<log, rd, written, tmuxLine, tmuxCmd, tmuxOpen, tmux>>
vars == <<envVars, callVars, actorVars, watcherVars, tmuxVars>>

ASSUME NoCallAssumption == NoCall \notin Calls

None == "none"

Line == [kind : {"begin", "end", "event", "exit", "eof", "overlong"},
         line : Nat, cmd : Nat, ok : BOOLEAN]

NoAnswer == [kind |-> None, blocks |-> <<>>]
Err(kind) == [kind |-> kind, blocks |-> <<>>]
Reply(blocks) == [kind |-> "reply", blocks |-> blocks]

Init ==
  /\ now = 0 /\ coreStopped = FALSE /\ attached = FALSE /\ sender = TRUE
  /\ call = [c \in Calls |-> "idle"]
  /\ answer = [c \in Calls |-> NoAnswer]
  /\ commit = [c \in Calls |-> "open"]
  /\ queue = <<>>
  /\ mode = "opening" /\ current = NoCall /\ awaiting = NoReplies
  /\ blockDeadline = Never /\ held = <<>>
  /\ sending = TRUE /\ watching = TRUE /\ outcome = None
  /\ events = <<>> /\ watcher = "open" /\ delivered = <<>>
  /\ log = <<>> /\ rd = 0 /\ written = <<>>
  /\ tmuxLine = 1 /\ tmuxCmd = 1 /\ tmuxOpen = FALSE /\ tmux = "starting"

-----------------------------------------------------------------------------
(* The callers: ControlSender::dispatch_line.                              *)

Active(c) == call[c] \in {"reserving", "permit", "sent", "awaiting"}

\* The caller still holds the receiver of its answer.
Listening(c) == call[c] \in {"sent", "awaiting"}

\* The actor has closed the commands channel.
Closed == mode \in {"drain", "ended"}

Return(c, value) ==
  /\ call' = [call EXCEPT ![c] = "done"]
  /\ answer' = [answer EXCEPT ![c] = value]

\* Permits taken but not used count against the queue's capacity.
QueueHasRoom ==
  Len(queue) + Cardinality({c \in Calls : call[c] = "permit"}) < CommandQueue

Start(c) ==
  /\ attached /\ sender /\ call[c] = "idle"
  /\ IF Passed(Deadline[c], now)
     THEN Return(c, Err("dispatchTimedOut"))
     ELSE call' = [call EXCEPT ![c] = "reserving"] /\ UNCHANGED answer
  /\ UNCHANGED <<commit, queue, envVars, actorVars, watcherVars, tmuxVars>>

\* `reserve` is polled before the deadline, so it wins when both are ready.
Reserve(c) ==
  /\ call[c] = "reserving"
  /\ \/ Closed /\ Return(c, Err("closed"))
     \/ /\ ~Closed /\ QueueHasRoom
        /\ call' = [call EXCEPT ![c] = "permit"] /\ UNCHANGED answer
     \/ /\ ~Closed /\ ~QueueHasRoom /\ Passed(Deadline[c], now)
        /\ Return(c, Err("dispatchTimedOut"))
  /\ UNCHANGED <<commit, queue, envVars, actorVars, watcherVars, tmuxVars>>

\* A permit can outlive the channel: a request sent after the task has
\* returned is taken by nobody, and only its deadline ends the call.
SendRequest(c) ==
  /\ call[c] = "permit"
  /\ call' = [call EXCEPT ![c] = "sent"]
  /\ queue' = Append(queue, c)
  /\ UNCHANGED <<answer, commit, envVars, actorVars, watcherVars, tmuxVars>>

HasAnswer(c) == answer[c] # NoAnswer

TakeAnswer(c) ==
  /\ Listening(c) /\ HasAnswer(c)
  /\ call' = [call EXCEPT ![c] = "done"]
  /\ UNCHANGED <<answer, commit, queue, envVars, actorVars, watcherVars, tmuxVars>>

\* The deadline closes the commitment: the line is withdrawn unless the
\* actor committed it first, and then only its answer ends the call.
CallDeadline(c) ==
  /\ call[c] = "sent" /\ ~HasAnswer(c) /\ Passed(Deadline[c], now)
  /\ IF commit[c] = "sent"
     THEN call' = [call EXCEPT ![c] = "awaiting"] /\ UNCHANGED <<answer, commit>>
     ELSE /\ Return(c, Err("dispatchTimedOut"))
          /\ commit' = [commit EXCEPT ![c] = "withdrawn"]
  /\ UNCHANGED <<queue, envVars, actorVars, watcherVars, tmuxVars>>

SeeCommit(c) ==
  /\ call[c] = "sent" /\ ~HasAnswer(c) /\ ~Passed(Deadline[c], now)
  /\ commit[c] = "sent"
  /\ call' = [call EXCEPT ![c] = "awaiting"]
  /\ UNCHANGED <<answer, commit, queue, envVars, actorVars, watcherVars, tmuxVars>>

\* The future is dropped, and the receiving ends of both oneshots with it.
\* There is no await between taking a permit and sending with it.
DropCall(c) ==
  /\ Active(c) /\ call[c] # "permit"
  /\ Return(c, Err("dropped"))
  /\ commit' = [commit EXCEPT ![c] = IF @ = "sent" THEN @ ELSE "withdrawn"]
  /\ UNCHANGED <<queue, envVars, actorVars, watcherVars, tmuxVars>>

\* The last ControlSender goes; a call in progress borrows one.
DropSender ==
  /\ attached /\ sender /\ \A c \in Calls : ~Active(c)
  /\ sender' = FALSE
  /\ UNCHANGED <<now, coreStopped, attached, callVars, actorVars, watcherVars,
                 tmuxVars>>

-----------------------------------------------------------------------------
(* The watching half: ControlEvents.                                       *)

ReceiverOpen == watcher = "open"

Next_event ==
  /\ attached /\ watcher = "open" /\ events # <<>>
  /\ delivered' = Append(delivered, Head(events))
  /\ events' = Tail(events)
  /\ UNCHANGED <<watcher, envVars, callVars, actorVars, tmuxVars>>

\* The channel is closed and empty: the handle joins the task and takes its
\* outcome, once.
TakeOutcome ==
  /\ attached /\ mode = "ended" /\ events = <<>>
  /\ watcher \in {"open", "stopping"}
  /\ watcher' = IF watcher = "open" THEN "finished" ELSE "closed"
  /\ UNCHANGED <<events, delivered, envVars, callVars, actorVars, tmuxVars>>

\* shutdown(): ask the task to stop, close the channel, discard what it holds.
Shutdown ==
  /\ attached /\ watcher = "open"
  /\ watcher' = "stopping" /\ events' = <<>>
  /\ UNCHANGED <<delivered, envVars, callVars, actorVars, tmuxVars>>

DropWatcher ==
  /\ attached /\ watcher = "open"
  /\ watcher' = "dropped" /\ events' = <<>>
  /\ UNCHANGED <<delivered, envVars, callVars, actorVars, tmuxVars>>

\* The attach future is dropped before open() returns: every handle goes.
CancelAttach ==
  /\ ~attached /\ watcher = "open"
  /\ watcher' = "dropped" /\ events' = <<>> /\ sender' = FALSE
  /\ UNCHANGED <<delivered, now, coreStopped, attached, callVars, actorVars, tmuxVars>>

CoreShutdown ==
  /\ ~coreStopped /\ coreStopped' = TRUE
  /\ UNCHANGED <<now, attached, sender, callVars, actorVars, watcherVars, tmuxVars>>

Tick ==
  /\ now < MaxTime /\ now' = now + 1
  /\ UNCHANGED <<coreStopped, attached, sender, callVars, actorVars, watcherVars, tmuxVars>>

-----------------------------------------------------------------------------
(* What the actor does in more than one place.                             *)

\* Send `value` to the callers in S that still listen.
Tell(S, value) ==
  answer' = [c \in Calls |-> IF c \in S /\ Listening(c) THEN value ELSE answer[c]]

\* Mutant: an event overtakes those already held.
ReportOvertaking(p) ==
  IF ~ReceiverOpen THEN UNCHANGED <<held, events>>
  ELSE IF Len(events) < EventQueue
  THEN events' = Append(events, p) /\ UNCHANGED held
  ELSE held' = Append(held, p) /\ UNCHANGED events

\* Hand the delivery at p to the watcher, behind what is already held.
Report(p) ==
  IF held # <<>> THEN held' = Append(held, p) /\ UNCHANGED events
  ELSE IF ~ReceiverOpen THEN UNCHANGED <<held, events>>
  ELSE IF Len(events) < EventQueue
  THEN events' = Append(events, p) /\ UNCHANGED held
  ELSE held' = <<p>> /\ UNCHANGED events

\* The reason a waiting caller is given when the task ends with o.
Reason(o) == IF o \in {"frame", "timedOut", "shutdown"} THEN o ELSE "closed"

\* The callers whose answer the task still owes: their slot is live, their
\* request is queued, or their line is being written.
Owned == LiveCalls(awaiting.slots) \cup Range(queue) \cup ({current} \ {NoCall})

\* Mutant: the requests still queued are not told.
FinishForgetsQueue(o) ==
  /\ outcome' = o
  /\ Tell(Owned \ Range(queue), Err(Reason(o)))
  /\ queue' = <<>> /\ awaiting' = NoReplies /\ current' = NoCall
  /\ mode' = IF attached THEN "drain" ELSE "ended"

\* The loops are over: close the commands channel and fail what was waiting.
\* An opening that failed has nobody to drain events to.
Finish(o) ==
  /\ outcome' = o
  /\ Tell(Owned, Err(Reason(o)))
  /\ queue' = <<>> /\ awaiting' = NoReplies /\ current' = NoCall
  /\ mode' = IF attached THEN "drain" ELSE "ended"

\* What a finishing step leaves alone.
FinishUnchanged ==
  UNCHANGED <<call, commit, blockDeadline, held, sending, watching,
              envVars, watcherVars>>

\* The next line of the pipe, and the error a line that ends it reads as.
Next_line == log[rd + 1]
Readable == rd < Len(log)
TerminalKinds == {"eof", "overlong"}
ReadError == IF Next_line.kind = "overlong" THEN "frame" ELSE "closed"

\* The stop channel has something: the handle asked, or is gone.
StopReady == watching /\ watcher \in {"stopping", "dropped"}

-----------------------------------------------------------------------------
(* Opening: discard_opening_block and read_opening_block.                  *)

Opening == mode \in {"opening", "openingBlock"} /\ ~attached

OpeningCancelled ==
  /\ Opening /\ watcher = "dropped"
  /\ Finish("ok") /\ FinishUnchanged /\ UNCHANGED tmuxVars

OpeningCoreStopped ==
  /\ Opening /\ watcher # "dropped" /\ coreStopped
  /\ Finish("shutdown") /\ FinishUnchanged /\ UNCHANGED tmuxVars

OpeningTimedOut ==
  /\ Opening /\ watcher # "dropped" /\ ~coreStopped
  /\ Passed(OpeningDeadline, now)
  /\ Finish("timedOut") /\ FinishUnchanged /\ UNCHANGED tmuxVars

\* Reading stops while the channel is full, unless the block is open.
OpeningReads ==
  /\ Opening /\ watcher # "dropped" /\ ~coreStopped
  /\ ~Passed(OpeningDeadline, now) /\ Readable
  /\ mode = "opening" => Len(events) < EventQueue
  /\ rd' = rd + 1
  /\ UNCHANGED <<log, written, tmuxLine, tmuxCmd, tmuxOpen, tmux>>

OpeningEvent ==
  /\ OpeningReads /\ mode = "opening" /\ Next_line.kind = "event"
  /\ events' = Append(events, rd + 1)
  /\ UNCHANGED <<watcher, delivered, envVars, callVars, actorVars>>

OpeningBegin ==
  /\ OpeningReads /\ mode = "opening" /\ Next_line.kind = "begin"
  /\ mode' = "openingBlock"
  /\ UNCHANGED <<current, awaiting, blockDeadline, held, sending, watching,
                 outcome, envVars, callVars, watcherVars>>

\* The block closes: a success makes the connection ready.
OpeningEnd ==
  /\ OpeningReads /\ mode = "openingBlock" /\ Next_line.kind = "end"
  /\ Next_line.ok
  /\ mode' = "serve" /\ attached' = TRUE
  /\ UNCHANGED <<current, awaiting, blockDeadline, held, sending, watching,
                 outcome, now, coreStopped, sender, callVars, watcherVars>>

OpeningFails ==
  /\ OpeningReads
  /\ \/ Next_line.kind \in TerminalKinds
     \/ mode = "opening" /\ Next_line.kind = "exit"
     \/ mode = "openingBlock" /\ Next_line.kind = "end" /\ ~Next_line.ok
  /\ Finish(IF Next_line.kind = "overlong" THEN "frame" ELSE "closed")
  /\ FinishUnchanged

-----------------------------------------------------------------------------
(* serve(): the top of its loop and the arms of its select, in priority.   *)

\* Mutant: the limit is off by one.
AtHeldLimitLate == HasLive(awaiting) /\ Len(held) > HeldWhileAwaiting

AtHeldLimit == HasLive(awaiting) /\ Len(held) >= HeldWhileAwaiting

\* Past the limit every live reply is refused before anything is awaited.
RefuseUnread ==
  /\ mode = "serve" /\ (sending \/ watching) /\ AtHeldLimit
  /\ Tell(LiveCalls(awaiting.slots), Err("unread"))
  /\ awaiting' = RefuseLive(awaiting)
  /\ UNCHANGED <<call, commit, queue, mode, current, blockDeadline, held, sending,
                 watching, outcome, envVars, watcherVars, tmuxVars>>

Selecting == mode = "serve" /\ (sending \/ watching) /\ ~AtHeldLimit

HeldBack == ~HasLive(awaiting) /\ Len(held) >= EventQueue
ReadReady == ~HeldBack /\ Readable
DeliverReady == held # <<>> /\ (~ReceiverOpen \/ Len(events) < EventQueue)
SendReady == sending /\ (queue # <<>> \/ ~sender)

ServeEnds ==
  /\ mode = "serve" /\ ~sending /\ ~watching
  /\ Finish("ok") /\ FinishUnchanged /\ UNCHANGED tmuxVars

StopAsked ==
  /\ Selecting /\ StopReady /\ watcher = "stopping"
  /\ Finish("ok") /\ FinishUnchanged /\ UNCHANGED tmuxVars

Unwatched ==
  /\ StopReady /\ watcher = "dropped"
  /\ \/ Selecting
     \/ mode \in {"write", "block"} /\ ~coreStopped
  /\ watching' = FALSE
  /\ UNCHANGED <<mode, current, awaiting, blockDeadline, held, sending, outcome,
                 envVars, callVars, watcherVars, tmuxVars>>

CoreStopped ==
  /\ Selecting /\ ~StopReady /\ coreStopped
  /\ Finish("shutdown") /\ FinishUnchanged /\ UNCHANGED tmuxVars

Reads ==
  /\ Selecting /\ ~StopReady /\ ~coreStopped /\ ReadReady
  /\ rd' = rd + 1
  /\ UNCHANGED <<log, written, tmuxLine, tmuxCmd, tmuxOpen, tmux>>

ReadEvent ==
  /\ Reads /\ Next_line.kind = "event"
  /\ Report(rd + 1)
  /\ UNCHANGED <<mode, current, awaiting, blockDeadline, sending, watching, outcome,
                 watcher, delivered, envVars, callVars>>

ReadExit ==
  /\ Reads /\ Next_line.kind = "exit"
  /\ Report(rd + 1)
  /\ Finish("ok")
  /\ UNCHANGED <<call, commit, blockDeadline, sending, watching, watcher, delivered,
                 envVars>>

ReadFails ==
  /\ Reads /\ Next_line.kind \in TerminalKinds
  /\ Finish(ReadError) /\ FinishUnchanged

ReadBegin ==
  /\ Reads /\ Next_line.kind = "begin"
  /\ mode' = "block"
  /\ blockDeadline' = IF HasSlots(awaiting) THEN awaiting.earliest
                      ELSE now + BlockTimeout
  /\ UNCHANGED <<current, awaiting, held, sending, watching, outcome, envVars,
                 callVars, watcherVars>>

Deliver ==
  /\ Selecting /\ ~StopReady /\ ~coreStopped /\ ~ReadReady /\ DeliverReady
  /\ IF ReceiverOpen
     THEN events' = Append(events, Head(held)) /\ held' = Tail(held)
     ELSE held' = <<>> /\ UNCHANGED events
  /\ UNCHANGED <<mode, current, awaiting, blockDeadline, sending, watching, outcome,
                 watcher, delivered, envVars, callVars, tmuxVars>>

\* The arm that takes a request: reached when nothing above it is ready.
Taking == Selecting /\ ~StopReady /\ ~coreStopped /\ ~ReadReady /\ ~DeliverReady
          /\ sending

SendersGone ==
  /\ Taking /\ queue = <<>> /\ ~sender
  /\ sending' = FALSE
  /\ UNCHANGED <<mode, current, awaiting, blockDeadline, held, watching, outcome,
                 envVars, callVars, watcherVars, tmuxVars>>

\* A request that expired in the queue, or that finds the events unread, is
\* answered without being written.
RefuseRequest ==
  /\ Taking /\ queue # <<>>
  /\ LET c == Head(queue)
     IN  \/ Passed(Deadline[c], now) /\ Tell({c}, Err("dispatchTimedOut"))
         \/ /\ ~Passed(Deadline[c], now) /\ Len(held) >= HeldWhileAwaiting
            /\ Tell({c}, Err("unread"))
  /\ queue' = Tail(queue)
  /\ UNCHANGED <<call, commit, envVars, actorVars, watcherVars, tmuxVars>>

\* Mutant: the write does not depend on the caller still being there.
CommitRequestUnasked ==
  /\ Taking /\ queue # <<>>
  /\ ~Passed(Deadline[Head(queue)], now) /\ Len(held) < HeldWhileAwaiting
  /\ commit' = [commit EXCEPT ![Head(queue)] = IF @ = "withdrawn" THEN @ ELSE "sent"]
  /\ mode' = "write" /\ current' = Head(queue)
  /\ queue' = Tail(queue)
  /\ UNCHANGED <<call, answer, awaiting, blockDeadline, held, sending, watching,
                 outcome, envVars, watcherVars, tmuxVars>>

\* A request whose caller left is skipped; any other is committed, after
\* which its caller can no longer prevent the write.
CommitRequest ==
  /\ Taking /\ queue # <<>>
  /\ ~Passed(Deadline[Head(queue)], now) /\ Len(held) < HeldWhileAwaiting
  /\ IF commit[Head(queue)] = "withdrawn"
     THEN UNCHANGED <<commit, mode, current>>
     ELSE /\ commit' = [commit EXCEPT ![Head(queue)] = "sent"]
          /\ mode' = "write" /\ current' = Head(queue)
  /\ queue' = Tail(queue)
  /\ UNCHANGED <<call, answer, awaiting, blockDeadline, held, sending, watching,
                 outcome, envVars, watcherVars, tmuxVars>>

TimedOut ==
  /\ Selecting /\ ~StopReady /\ ~coreStopped /\ ~ReadReady /\ ~DeliverReady
  /\ ~SendReady /\ HasSlots(awaiting) /\ Passed(awaiting.earliest, now)
  /\ Finish("timedOut") /\ FinishUnchanged /\ UNCHANGED tmuxVars

-----------------------------------------------------------------------------
(* Writing the committed line.                                             *)

Written(c) == \E i \in DOMAIN written : written[i] = c

WriteDeadline == EarliestDeadline(awaiting.earliest, Deadline[current])

WriteCoreStopped ==
  /\ mode = "write" /\ coreStopped
  /\ Finish("shutdown") /\ FinishUnchanged /\ UNCHANGED tmuxVars

WriteStopped ==
  /\ mode = "write" /\ ~coreStopped /\ StopReady /\ watcher = "stopping"
  /\ Finish("ok") /\ FinishUnchanged /\ UNCHANGED tmuxVars

WriteTimedOut ==
  /\ mode = "write" /\ ~coreStopped /\ ~StopReady /\ Passed(WriteDeadline, now)
  /\ Finish("timedOut") /\ FinishUnchanged /\ UNCHANGED tmuxVars

\* The last byte enters the pipe: from here tmux can answer.
WriteReachesTmux ==
  /\ mode = "write" /\ ~Written(current) /\ tmux # "gone"
  /\ written' = Append(written, current)
  /\ UNCHANGED <<log, rd, tmuxLine, tmuxCmd, tmuxOpen, tmux, envVars, callVars,
                 actorVars, watcherVars>>

Writing == mode = "write" /\ ~coreStopped /\ ~StopReady
           /\ ~Passed(WriteDeadline, now)

\* The write fails: the reader is gone.
WriteFails ==
  /\ Writing /\ ~Written(current) /\ tmux = "gone"
  /\ Finish("closed") /\ FinishUnchanged /\ UNCHANGED tmuxVars

WriteDone ==
  /\ Writing /\ Written(current)
  /\ awaiting' = PushOrdered(awaiting, current, ~Listening(current))
  /\ mode' = "serve" /\ current' = NoCall
  /\ UNCHANGED <<blockDeadline, held, sending, watching, outcome, envVars,
                 callVars, watcherVars, tmuxVars>>

-----------------------------------------------------------------------------
(* Reading a block: read_block, and what dispatch does with it.            *)

BlockCoreStopped ==
  /\ mode = "block" /\ coreStopped
  /\ Finish("shutdown") /\ FinishUnchanged /\ UNCHANGED tmuxVars

BlockStopped ==
  /\ mode = "block" /\ ~coreStopped /\ StopReady /\ watcher = "stopping"
  /\ Finish("ok") /\ FinishUnchanged /\ UNCHANGED tmuxVars

BlockTimedOut ==
  /\ mode = "block" /\ ~coreStopped /\ ~StopReady /\ Passed(blockDeadline, now)
  /\ Finish("timedOut") /\ FinishUnchanged /\ UNCHANGED tmuxVars

BlockReads ==
  /\ mode = "block" /\ ~coreStopped /\ ~StopReady /\ ~Passed(blockDeadline, now)
  /\ Readable
  /\ rd' = rd + 1
  /\ UNCHANGED <<log, written, tmuxLine, tmuxCmd, tmuxOpen, tmux>>

BlockFails ==
  /\ BlockReads /\ Next_line.kind \in TerminalKinds
  /\ Finish(ReadError) /\ FinishUnchanged

BlockAt(p) == [line |-> log[p].line, cmd |-> log[p].cmd, ok |-> log[p].ok]

\* The block is complete: its boundary goes into the event order before the
\* reply goes to the caller.
BlockCompletes ==
  /\ BlockReads /\ Next_line.kind = "end"
  /\ LET block == BlockAt(rd + 1)
         front == Head(awaiting.slots)
     IN  /\ IF Completes(awaiting, block) /\ Ordered[front.call]
            THEN Report(rd + 1)
            ELSE UNCHANGED <<held, events>>
         /\ IF Completes(awaiting, block) /\ front.live
            THEN Tell({front.call}, Reply(WholeReply(awaiting, block)))
            ELSE UNCHANGED answer
         /\ awaiting' = Complete(awaiting, block)
  /\ mode' = "serve"
  /\ UNCHANGED <<call, commit, queue, current, blockDeadline, sending, watching,
                 outcome, watcher, delivered, envVars>>

-----------------------------------------------------------------------------
(* The end of run(): drain what is held, then reap the client.             *)

\* The task returns o; terminating the client may fail, which is reported
\* unless there is an earlier error.  The commands channel goes with the task,
\* and the answers of the requests a permit brought in since it was closed.
Exit(o) ==
  /\ mode' = "ended" /\ held' = <<>>
  /\ outcome' \in {o} \cup (IF o = "ok" THEN {"cleanup"} ELSE {})
  /\ Tell(Range(queue), Err("closed")) /\ queue' = <<>>
  /\ UNCHANGED <<call, commit, current, awaiting, blockDeadline, sending, watching,
                 envVars, tmuxVars>>

\* Mutant: only a task that was stopped by the server heeds it while draining.
DrainCoreStoppedLate ==
  /\ mode = "drain" /\ held # <<>> /\ coreStopped /\ outcome = "shutdown"
  /\ Exit(outcome)
  /\ UNCHANGED watcherVars

DrainCoreStopped ==
  /\ mode = "drain" /\ held # <<>> /\ coreStopped
  /\ Exit(IF outcome = "ok" THEN "shutdown" ELSE outcome)
  /\ UNCHANGED watcherVars

\* Nobody is left to read: either the stop channel says so or the receiver.
DrainUnwatched ==
  /\ mode = "drain" /\ held # <<>> /\ ~coreStopped /\ ~ReceiverOpen
  /\ Exit(outcome) /\ UNCHANGED watcherVars

DrainDelivers ==
  /\ mode = "drain" /\ held # <<>> /\ ~coreStopped /\ ReceiverOpen
  /\ Len(events) < EventQueue
  /\ events' = Append(events, Head(held)) /\ held' = Tail(held)
  /\ UNCHANGED <<mode, current, awaiting, blockDeadline, sending, watching, outcome,
                 watcher, delivered, envVars, callVars, tmuxVars>>

DrainDone ==
  /\ mode = "drain" /\ held = <<>>
  /\ Exit(outcome) /\ UNCHANGED watcherVars

-----------------------------------------------------------------------------
(* tmux, the environment.  It answers the lines it read in order, one      *)
(* block per command, and stops a line at its first failure.               *)

Emit(kind, line, cmd, ok) == [kind |-> kind, line |-> line, cmd |-> cmd, ok |-> ok]

TmuxUnchanged == UNCHANGED <<rd, written, envVars, callVars, actorVars, watcherVars>>

\* What the bound MaxEvents counts: notifications and unsolicited blocks.
Unsolicited == {i \in DOMAIN log : \/ log[i].kind = "event"
                                   \/ log[i].kind = "begin" /\ log[i].line = 0
                                      /\ log[i].cmd = 0}

\* The attach is answered with a block of its own.
TmuxAttaches ==
  /\ tmux = "starting" /\ tmux' = "up"
  /\ \E ok \in BOOLEAN :
       log' = log \o <<Emit("begin", 0, 1, TRUE), Emit("end", 0, 1, ok)>>
  /\ UNCHANGED <<tmuxLine, tmuxCmd, tmuxOpen>> /\ TmuxUnchanged

TmuxNotifies ==
  /\ tmux # "gone" /\ ~tmuxOpen /\ Cardinality(Unsolicited) < MaxEvents
  /\ log' = Append(log, Emit("event", tmuxLine, tmuxCmd, TRUE))
  /\ UNCHANGED <<tmuxLine, tmuxCmd, tmuxOpen, tmux>> /\ TmuxUnchanged

TmuxBegins ==
  /\ tmux = "up" /\ ~tmuxOpen /\ tmuxLine <= Len(written)
  /\ log' = Append(log, Emit("begin", tmuxLine, tmuxCmd, TRUE))
  /\ tmuxOpen' = TRUE
  /\ UNCHANGED <<tmuxLine, tmuxCmd, tmux>> /\ TmuxUnchanged

TmuxEnds ==
  /\ tmux = "up" /\ tmuxOpen
  /\ \E ok \in BOOLEAN :
       /\ log' = Append(log, Emit("end", tmuxLine, tmuxCmd, ok))
       /\ IF ok /\ tmuxCmd < Owed(written[tmuxLine])
          THEN tmuxCmd' = tmuxCmd + 1 /\ UNCHANGED tmuxLine
          ELSE tmuxCmd' = 1 /\ tmuxLine' = tmuxLine + 1
  /\ tmuxOpen' = FALSE
  /\ UNCHANGED tmux /\ TmuxUnchanged

\* A block for a command this end did not write, such as a hook's.
TmuxHookBlock ==
  /\ HookBlocks /\ tmux = "up" /\ ~tmuxOpen /\ Cardinality(Unsolicited) < MaxEvents
  /\ log' = log \o <<Emit("begin", 0, 0, TRUE), Emit("end", 0, 0, TRUE)>>
  /\ UNCHANGED <<tmuxLine, tmuxCmd, tmuxOpen, tmux>> /\ TmuxUnchanged

\* The client is detached with %exit, or dies, or sends a line over budget.
TmuxGoes ==
  /\ tmux # "gone" /\ tmux' = "gone"
  /\ \/ ~tmuxOpen /\ log' = log \o <<Emit("exit", 0, 0, TRUE), Emit("eof", 0, 0, TRUE)>>
     \/ \E kind \in TerminalKinds : log' = Append(log, Emit(kind, 0, 0, TRUE))
  /\ UNCHANGED <<tmuxLine, tmuxCmd, tmuxOpen>> /\ TmuxUnchanged

-----------------------------------------------------------------------------
Caller(c) == Start(c) \/ Reserve(c) \/ SendRequest(c) \/ TakeAnswer(c)
             \/ CallDeadline(c) \/ SeeCommit(c) \/ DropCall(c)

Handles == DropSender \/ Next_event \/ TakeOutcome \/ Shutdown \/ DropWatcher
           \/ CancelAttach \/ CoreShutdown

OpeningStep == OpeningCancelled \/ OpeningCoreStopped \/ OpeningTimedOut
               \/ OpeningEvent \/ OpeningBegin \/ OpeningEnd \/ OpeningFails

ServeStep == RefuseUnread \/ ServeEnds \/ StopAsked \/ Unwatched \/ CoreStopped
             \/ ReadEvent \/ ReadExit \/ ReadFails \/ ReadBegin \/ Deliver
             \/ SendersGone \/ RefuseRequest \/ CommitRequest \/ TimedOut

WriteStep == WriteCoreStopped \/ WriteStopped \/ WriteTimedOut \/ WriteFails
             \/ WriteDone

BlockStep == BlockCoreStopped \/ BlockStopped \/ BlockTimedOut \/ BlockFails
             \/ BlockCompletes

DrainStep == DrainCoreStopped \/ DrainUnwatched \/ DrainDelivers \/ DrainDone

\* Everything the actor task does.
Actor == OpeningStep \/ ServeStep \/ WriteStep \/ BlockStep \/ DrainStep

Tmux == WriteReachesTmux \/ TmuxAttaches \/ TmuxNotifies \/ TmuxBegins \/ TmuxEnds
        \/ TmuxHookBlock \/ TmuxGoes

Next == Actor \/ Tmux \/ Handles \/ Tick \/ \E c \in Calls : Caller(c)

Spec == Init /\ [][Next]_vars

\* The runtime polls a woken task, and time passes.  Nothing obliges tmux to
\* answer, the watcher to read or a caller to start.
Fairness ==
  /\ WF_vars(Actor)
  /\ WF_vars(Tick)
  /\ \A c \in Calls : WF_vars(Reserve(c) \/ SendRequest(c) \/ TakeAnswer(c)
                               \/ CallDeadline(c) \/ SeeCommit(c))

FairSpec == Spec /\ Fairness

-----------------------------------------------------------------------------
(* Properties.                                                             *)

AnswerKinds == {None, "reply", "closed", "frame", "timedOut", "shutdown", "unread",
                "dispatchTimedOut", "dropped"}

Outcomes == {None, "ok", "closed", "frame", "timedOut", "shutdown", "cleanup"}

EnvTypeOK ==
  /\ now \in 0..MaxTime
  /\ coreStopped \in BOOLEAN /\ attached \in BOOLEAN /\ sender \in BOOLEAN

CallTypeOK ==
  /\ call \in [Calls -> {"idle", "reserving", "permit", "sent", "awaiting", "done"}]
  /\ answer \in [Calls -> [kind : AnswerKinds, blocks : Seq(Block)]]
  /\ commit \in [Calls -> {"open", "sent", "withdrawn"}]
  /\ queue \in Seq(Calls)

TaskTypeOK ==
  /\ mode \in {"opening", "openingBlock", "serve", "write", "block", "drain", "ended"}
  /\ current \in Calls \cup {NoCall}
  /\ (mode = "write") <=> (current # NoCall)
  /\ awaiting \in Replies
  /\ blockDeadline \in Nat \cup {Never}
  /\ sending \in BOOLEAN /\ watching \in BOOLEAN
  /\ outcome \in Outcomes

DeliveryTypeOK ==
  /\ held \in Seq(Nat) /\ events \in Seq(Nat) /\ delivered \in Seq(Nat)
  /\ watcher \in {"open", "stopping", "dropped", "finished", "closed"}

TmuxTypeOK ==
  /\ log \in Seq(Line) /\ rd \in 0..Len(log)
  /\ written \in Seq(Calls)
  /\ tmuxLine \in Nat \ {0} /\ tmuxCmd \in Nat \ {0}
  /\ tmuxOpen \in BOOLEAN /\ tmux \in {"starting", "up", "gone"}

\* Every variable has its type; the clock stays within its bound, the task
\* writes exactly while it has a current request, and it has read no more of
\* the log than tmux wrote.
TypeOK == EnvTypeOK /\ CallTypeOK /\ TaskTypeOK /\ DeliveryTypeOK /\ TmuxTypeOK

\* A caller is only ever given the blocks tmux answered its own line with:
\* all of them, in order, ending at the last command or the first failure.
RepliesAreOwn ==
  \A c \in Calls : answer[c].kind = "reply" =>
    LET blocks == answer[c].blocks
        n == Len(blocks)
    IN  /\ n \in 1..Owed(c)
        /\ \A i \in 1..n :
             /\ blocks[i].line \in DOMAIN written
             /\ written[blocks[i].line] = c
             /\ blocks[i].cmd = i
             /\ i < n => blocks[i].ok
        /\ n = Owed(c) \/ ~blocks[n].ok

\* A caller still waiting is owed its answer by somebody: the queue until its
\* request is committed, then the task, through a live slot or the write in
\* progress.  When the task has stopped no committed caller is left waiting.
WaitingCallIsOwned ==
  \A c \in Calls : Listening(c) /\ ~HasAnswer(c) =>
    IF commit[c] = "sent" THEN c \in LiveCalls(awaiting.slots) \cup {current}
    ELSE c \in Range(queue)

\* A line whose caller gave up before the commit, or was told it was never
\* dispatched, has not been written and is not being written.
WithdrawnIsNeverWritten ==
  \A c \in Calls : commit[c] = "withdrawn" \/ answer[c].kind = "dispatchTimedOut" =>
    ~Written(c) /\ current # c

\* The cached count of live slots and the cached earliest deadline are what
\* a scan of the slots would give.
CachesAreExact == Exact(awaiting)

\* What a watcher is owed of the log: notifications, and the boundary after
\* the last block of an ordered line.
Reportable(p) ==
  \/ log[p].kind \in {"event", "exit"}
  \/ /\ log[p].kind = "end" /\ log[p].line \in DOMAIN written
     /\ Ordered[written[log[p].line]]
     /\ log[p].cmd = Owed(written[log[p].line]) \/ ~log[p].ok

\* What the watcher received, has in its channel or is held for it.
Stream == delivered \o events \o held

\* A watcher that keeps its handle receives everything read from tmux, in
\* tmux's order and each thing once, whatever backpressure did; the outcome
\* of the connection comes after all of it.  Only Server::shutdown discards
\* what is held.
NothingIsDropped ==
  attached /\ watcher \in {"open", "finished"} /\ ~(coreStopped /\ mode = "ended") =>
    /\ \A i, j \in DOMAIN Stream : i < j => Stream[i] < Stream[j]
    /\ Range(Stream) = {p \in 1..rd : Reportable(p)}

\* However far behind the watcher is, the task holds no more than its limit
\* and the channel no more than its capacity.
HeldIsBounded == Len(held) <= HeldWhileAwaiting /\ Len(events) <= EventQueue

\* A call with a deadline returns, even if tmux and the watcher do nothing.
EveryCallReturns ==
  \A c \in Calls : Deadline[c] # Never => (call[c] = "reserving" ~> call[c] = "done")

\* A watcher that shuts down, or a server that does, ends the task whatever
\* is unread, unanswered or half written.
StopEndsTheTask == (coreStopped \/ watcher = "stopping") ~> mode = "ended"

=============================================================================
