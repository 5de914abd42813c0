# A verification project for libtmux-rs

libtmux-rs drives tmux from Rust. Its core, the crate `libtmux`, runs every
command as a short-lived `tmux` client process or over a persistent
control-mode connection, and shares one server handle among any number of
asynchronous callers. On it stand an MCP server (`tmux-mcp`), a workspace
loader (`tmux-workspace`) and a tool that edits client configurations
(`mcp-swap`).

The modules here model the parts in which tasks, processes, other programs and
the clock race each other, and those in which a long sequence of legal calls
could end in a wrong answer. TLC checks them on small instances; TLAPS proves
the invariants of the core for every value of the constants. Paths below are
relative to `src/crates/libtmux/src` unless they say otherwise; `tmux-mcp`
stands for `src/crates/tmux-mcp/src` and `mcp-swap` for
`src/tools/mcp-swap/src`.

## Inventory

| Component | State it keeps | Operations | What is hard |
|---|---|---|---|
| Control connection (`control.rs`, `control/actor.rs`) | reply slots with two cached summaries, command queue, held events, two flags, stop channel | dispatch a line, take an event, shut down, drop either half; the task opens, serves, writes, reads a block, drains | biased `select!`, cancellation at each await, backpressure, correlation by order, deadlines of callers, writes, blocks and attach |
| Pane streams (`control.rs`, `PaneOutput`) | narrowing state, the pass and its handle, the last verdict | narrow, poll, snapshot | a pass runs beside the reader; a request during one must not be lost; who wakes whom |
| Channel waits (`internal/wait_for.rs`) | per channel: count of callers, resident client, kept signal, last failure, release count | wait, time out, drop, finish; lock, unlock, signal | tmux cannot withdraw a waiting client, so one client serves many callers; a signal may meet a dropped caller |
| Subprocess executor (`internal/subprocess.rs`) | semaphore, lifecycle registry, one supervisor per child, group guard | run, cancel, shut down | the supervisor outlives its caller; reap before answer; shutdown racing admission |
| Persistent clients (`internal/process.rs`) | semaphore, count of clients, stopped channel | reserve, terminate, unregister, shut down | reservation held over two probes and a spawn; every early end gives back exactly what it took |
| Core (`internal/core.rs`, `server.rs`) | the two registries, version cache | execute, attach, shutdown | one shutdown over both registries |
| Scoped objects (`internal/scoped.rs`) | a cleanup guard | create, run, clean up | cancellation while creating; no runtime left |
| Plans (`plan.rs`, `plan/`) | operations, grouping, results | plan, run | partial failure within one command line |
| Pane observation (`pane/observe.rs`) | polling loops | wait for text, quiet, exit | timing only |
| Object model, query, snapshot, options, formats, layout | immutable values | typed commands and parsers | data, no concurrency |
| `tmux-mcp` tails | ring with absolute cursors, epochs, a table with eviction | read, resume, evict | stale cursors, reader task racing a resume, restarts on both sides |
| `tmux-mcp` runs | lease per pane, proof of completion | preflight, reserve, dispatch, collect, prove | a request ends before its command; panes respawn between two looks |
| `tmux-workspace` | effects so far | build, roll back | partial failure |
| `mcp-swap` transactions | files, ledger, lock | use, revert, roll back, clean up | crash between renames, edits by others between a check and its rename |

They interact as follows. `Core` gives every command to an `Executor`: the
subprocess executor or, for a routed handle, the control connection.
`wait_for.rs` dispatches its parked client through `Core` without a deadline;
such a request takes no permit of the executor. `ControlMode::attach` reserves
a persistent client, probes the daemon twice with clients of a private
executor, spawns the control client and starts the connection task, which owns
the reservation until it ends. `Core::shutdown` joins the two shutdowns; the
stopped channel of the persistent clients is what the connection task polls
first. `PaneOutput` is a caller and a watcher of one control connection.
`Plan::run` sends its command lines through `Core` one after the other. The
tails of `tmux-mcp` each own a `PaneOutput`; its runs type into a pane with
`send-keys` and look at it through `Core`. `mcp-swap` shares nothing with the
others but the configuration files of the clients it edits.

What makes each correct: a reply reaches the caller of its line and no other;
nobody waits for an answer that nobody owes; a line reported as not dispatched
never ran; events reach a watcher in order, all of them, within a bound; a
signal is not lost between callers; limits on processes hold whatever is
cancelled; a returned shutdown leaves no client; everything with a deadline
returns; a plan's report is true; a follow-up read has no silent gap; a pane in
which a command may run is not typed into; and a file that somebody else wrote
survives a transaction.

`PROJECT.json` lists all components with their status, and the hazards at
their lines with the properties that cover them.

## Modules

    ReplySlots  <-  ControlConnection  <-  MCControlConnection
                           ^
                 ControlConnectionProofs

    PaneStream, PaneTails  <-  PaneOutputProofs

    ChannelLock  <-  LockScopes
                         ^
       ChannelWaits  <-  WaitForProofs

    Lifecycle  <-  SubprocessExecutor, PersistentClients  <-  ServerShutdown  <-  ServerShutdownProofs
                                                               |
                                              refines  ClientRegistry

    PlanRun  <-  PlanRunProofs

    PaneTails  <-  MCPaneTails

    RunLeases  <-  RunLeasesProofs

    SwapLedger  <-  SwapTransaction  <-  MCSwapTransaction
                           ^
                  SwapTransactionProofs  <-  SwapHistoryProofs

**ReplySlots** is the queue of replies the task owes (`ReplySlots` and
`ReplySlot` in `actor.rs`) as operators on a record: `PushOrdered`, `Complete`
and `RefuseLive` are the methods of those names, and the cached fields `live`
and `earliest` are updated the way the code does, so that `Exact` (they equal
what a scan would find) is worth checking. A tombstone is a slot that is not
live.

**ControlConnection** is the connection. `mode` says which loop the task is in:
`opening` and `openingBlock` (`discard_opening_block`, `read_opening_block`),
`serve`, `write` (the inner loop around one request's write), `block`
(`read_block`), `drain` and `ended`. One action is the code between two awaits
together with the arm of the `select!` that woke it; because the selects are
`biased`, an arm's guard negates the readiness of those before it. The callers
(`dispatch_line`) go `idle`, `reserving` (waiting for room), `permit`, `sent`,
`awaiting`, `done`; dropping the future is possible wherever there is an await.
The watcher (`ControlEvents`) reads, shuts down or is dropped. tmux is the
environment: `log` is all it ever wrote, `rd` how far the task has read,
`written` the lines it was sent. It answers a line with one block per command
and stops at the first failure, notifies between blocks, and may go away at any
moment, in the middle of a block too. An event is its position in the log. A
block's payload is which command of which line it answers.

**ChannelWaits** is one channel. Each action is one critical section of the
map's lock, or a step of the parked client in tmux, whose `latch` is the signal
that tmux keeps when nobody waits. `released`, `total` and `handed` are history
variables for the properties.

**PaneStream** is `PaneOutput` over a connection whose commands may fail: the reader's
`poll_next` as the code between two awaits (`Poll`, `ReadEvent`, `Park`), the
narrowing pass as a task of its own (`ListPanes`, `MutePane` one pane at a time,
`Settle`, `PassAgain`, `CheckPane`) and `snapshot`, which may fail or be dropped
(`GivesUp`) with its boundary still to come (`AnswersLate`). A command of a pass
may fail with the connection up: `watch_only` returns, `narrow` ignores the error,
and the panes that are left unmuted stay so until an event asks for the next pass
(`PassFails`; `skipped` is a history variable that holds those panes). A failed look
for the pane counts as having found it. `narrowing` is the atomic of
that name (idle, running, dirty), `handle` is what `poll_next` can poll, and the
verdict of a pass waits in it. What wakes a parked reader is exact: an event, or
the end of a pass it has polled since that pass was spawned. tmux opens panes
beside the watched one, moves or kills it, changes layouts and disconnects.

**ChannelLock** is `lock`, its `Grant` and `unlock` for one channel, with tmux's
lock and its queue of lockers (`holder`, `lockers`) as the environment. `lock[c]`
is the caller's future, `grant[c]` the oneshot to it, `client[c]` the client
process its task awaits and `freeing[c]` the one unlock owed for it, whoever
sends it. The select of `lock` is not biased, so `TimesOut` may win over a grant
that is there and reads it back. `stranded` records the grants that nothing is
left to give back: a client killed while queued or granted, an unlock that
failed, or a `Grant` dropped where no runtime is entered.

**LockScopes** adds the two users: `lock_channel` with an unlock of the caller's
own, and `with_channel_lock`, which is `scoped::run` with its creation
supervisor, its handoff and its cleanup supervisor. `scope[c]` says which await
of the scope a drop would meet.

**SubprocessExecutor** has the caller (`req`), the supervisor (`task`) and the
shutdown (`stop`) as three kinds of process around the semaphore (`holders`),
the registry (`entries`) and the child. A request without a deadline `parks`
and takes no permit. **PersistentClients** is the same for control-mode clients,
with the private probes of an attach. **Lifecycle** holds what both share: the
semaphore test and `notify_waiters`. **ServerShutdown** joins them as
`Core::shutdown` does: `join!` polls the executor's shutdown first and starts
the other once the first has to wait. **ClientRegistry** is the abstract
specification: whose client is live, whose was cut off, and a flag that a shutdown
returned. A client is cut off when the call that started it has cancelled it and
no shutdown knows its supervisor: `ServerShutdown` maps to `live` the clients of
dispatches and connections and the probes an attach waits for, and to `cutOff`
the probes it has cancelled. A shutdown returns when nothing is live, whatever
is cut off, and nothing is started after it.

**PlanRun** starts from every valid plan of `Length` operations and every
planner. `Steps` is the planner (`Decorated` is the fold that marks a pane,
`Through` how far neighbours that may share a line reach), `Lower` renders one step as the
commands of one tmux invocation, with the mark set and cleared around a marked
fold. tmux executes them one by one (`Accepts`, `Refuses`, `Marks`) and stops at
the first refusal; `Report` reads the exit status as `Plan::run` does, with
`Attribute`, `Binds` and `EffectThrough`. An operation is one of seven kinds,
which are what the planner, the validation and the report tell apart: a split,
a new window, an input, a rename, a kill, a read and a pause. `Interferes` is
another client that sets the mark or kills a pane, between two invocations and
during a pause.

**PaneTails** is the tails of one MCP server. A byte is a generation of the pane
and its position in the pane's output, so that a gap, a repetition and output of
another pane are all visible in an answer. `tails` are the reader tasks by epoch
(those aborted but still referred to included), `table` the retained ones in
order of use, and `calls[c]` where a call of `capture_since` is among its awaits:
opening (one at a time, under the mutex), asking the reader for a snapshot,
answering. A cursor names its owner, its epoch and an offset; `ResumeAt` is the
function that decides whether it can be followed. Panes write, close and come
back under the same id when tmux restarts; the MCP server restarts too, which
empties the table and gives it a new owner token.

**RunLeases** is `run_command` (`Runs`) and `send_keys` (`Sends`) over a set of
panes: `Preflight` looks at tmux and makes the plan, `Reserve` takes the lease
under the process-wide lock, `FinalCheck` looks again, `Dispatch` types. From
there the request and its command go separate ways: `GiveUp` is the deadline
or the client's cancellation, `CollectMarker` and `StreamEnds` the collector, and
`Prove` the watcher that keeps the lease until `Settled`. The shell reads the line
when it likes (`Arrives`), or never does when the pane was respawned meanwhile.
Leases are keyed by pane and by tmux generation; with `synchronize-panes` a
`send_keys` leases every pane it reaches, and a run is refused.

**SwapLedger** is the pure part of `mcp-swap`: the ledger of recovery entries,
what `use` and `revert` plan from it, and the file operations they stage, as
operators over a disk that maps names to inodes and bytes. The code's loops over
clients are stated by what they return: a layer's sequence is the ledger's next one
plus the new layers before it, a sorted list is the one in the order of its keys,
and the inodes of the staged files are the free ones in the order of the operations.
**SwapTransaction**
runs those operations one rename at a time: `Take` (check), `Move` (the prior
version aside), `Publish` (the staged file in its place, never over another),
then `VerifyCommitted` and `Finish`; on failure `Undo`, `Displace`, `Restore`,
`Discard` and `Clean` in reverse order. Another program edits, deletes or replaces
any file or the lock between any two of them, and the process dies anywhere
(`Die`); the next command starts from what is left. Any call of the file system may
fail, before or after it renamed: in the commit (`CommitFails`), in the rollback,
which collects the error and goes on to the operations before (`RollbackFails`), and
where a file is removed at the end (`CleanupFails`); or the rename is made and only
its directory sync fails (`SyncFails`). A configuration is the bytes outside the tool's entry and the entry per
scope, and a backup is the exact inode. Four more variables are history for the properties: `version` is the
last version of a configuration that others wrote, `spoilt` what others destroyed,
`adopted` the clients whose edit `use` made the backup of a second layer, and
`abandoned` the names whose operation a rollback gave up on, on an error (see below). A process that dies between moving the ledger and publishing its successor
leaves no ledger for the next command, so the old one counts as destroyed
(`Orphaned`).

### Abstractions

* Lines, commands and output are not spelled out. Rendering and parsing are
  pure functions of one line; over-long lines are the error they read as.
* The clock is a small counter; a deadline is a point on it, or `Never`. In the
  server modules a deadline is a flag that becomes true at any moment.
* Waiting for a semaphore permit ends where the permit is assigned: a waiter
  that was given one and is dropped before its next poll gives it straight back,
  which no other task can tell from being dropped before.
* The output readers of a child are reduced to their result: both ended, or one
  failed or ran over its budget.
* The output of a pane is counted, not spelled; markers, echoes and prompts are
  facts of the pane.
* A file's identity (inode, size, digest) is its inode and bytes. A name with a
  time stamp in it is never used again.
* A child whose wait fails for good, or whose task the runtime drops, is `gone`:
  the guard signals the group, and `kill_on_drop` leaves the reaping to the
  runtime. `armed` is the guard that would send the signal.
* Left out: the synchronous reap of the `test-support` feature, tracing, request
  ids, and the wording of errors.

## Runs

| Run | Bounds | Shows |
|---|---|---|
| `control_replies` | two calls, a chain of two with the later deadline and a single command; queues of 1; clock to 2; no notifications | `TypeOK`, `RepliesAreOwn`, `WaitingCallIsOwned`, `WithdrawnIsNeverWritten` (3.3 million states) |
| `control_events` | one ordered call, four events, channel of 1, two held | `NothingIsDropped`, `HeldIsBounded` (6.7 million states) |
| `control_liveness` | one ordered call, one notification or unsolicited block | `EveryCallReturns`, `StopEndsTheTask` under fairness |
| `channel_waits` | three callers, two signals | `EntryMatchesItsUsers`, `KeptMeansNobodyWaits`, `ReleasedCallerIsSignalled`, and `EveryWaitReturns` under fairness (122 thousand states) |
| `lock_scopes` | three callers, each a bare lock or a scope | `MutualExclusion`, `GrantIsHeld`, and `UnusedLockIsReleased`, `EveryLockReturns` under fairness (316 thousand states) |
| `server_shutdown` | two of two dispatches and one attach, one shutdown, limits of 1 | `TypeOK`, `ClientsWithinLimits`, `AnswerMeansReleased`, `GuardFollowsChild`, `KeepsRegistry` (the refinement of `ClientRegistry`), and `EveryDispatchReturns`, `EveryShutdownReturns` under fairness (364 thousand states) |
| `pane_stream` | two panes that appear, one layout change, one move, one snapshot | `GoneMeansGone`, and `AppearedIsMuted` under fairness: a newcomer is muted unless a pass fails and none is asked for after it (1.05 million states) |
| `plan_runs` | every valid plan of four operations, three planners | `RunsAsRecorded`, `OutcomesAreTrue`, `ErrorsAreTrue` (8.7 million states) |
| `pane_tails` | two panes, two callers, a table of one tail, a ring of one byte, two bytes written, three epochs, one restart of each server, three calls | `TypeOK`, `NoSilentGap` (5.7 million states) |
| `run_leases` | two `run_command` and one `send_keys` over two panes, bounded respawns, restarts, clears and changes of synchronization | `RunningIsReserved`, `AloneUnlessRespawned`, and `FinishedIsReleased` under fairness (900 thousand states) |
| `swap_transactions` | one client with two scopes and one with one, two server commands; five commands in a row, or three and a fault, or one and two faults | `TypeOK`, `NothingIsLost`, `LedgerIsBacked`, `AllOrNothing`, `RevertRestores`, `UndisturbedCommandsSucceed` (1.8 million states) |

A twelfth run, `stream_gone`, is expected to violate its one property, which
states what a comment of the code says; see below.

Why the bounds are enough. Correlation goes wrong between two neighbours in the
queue, so two calls, one of which expects two blocks, reach every order of
write, block, deadline and drop; with queues of one slot both the full and the
empty queue are met at once. Backpressure has three stages (the channel, what is
held, reading held back) and four events go one beyond the last. Three callers
of a channel are one released, one that waits on and one newcomer; two signals
let a signal meet a latch. Three lockers are one that holds, one that gave up in
tmux's queue and one behind it. With limits of one, two of a kind compete and the
third party is the shutdown. Two panes that appear meet a pass in two different
stages. Four operations are a creation, two that decorate it and one behind the
fold, which is the shortest plan in which a fold is neither first nor last. With
one retained tail every other read evicts; a ring of one byte overflows with the
second; and a second epoch for the same pane, a second owner and a second
generation are each reached while an old cursor is held. Two runs compete for
a pane and a third request types beside them. In `mcp-swap` five commands are
enough to stack two layers of one client, change the lower one and revert both in
either order; a fault costs as much as two commands because it can fall between
any two renames. The safety properties of the core are also proved without
bounds, except for those named below.

Symmetry is used where values are interchangeable and the run checks no liveness:
the panes and the callers of `pane_tails` and the server commands of
`swap_transactions`.

Deadlock checking is off everywhere, because every system here may rightly
stop: all calls done, the connection ended, the server shut down. What must not
stop is stated as liveness.

### Fairness

* `ControlConnection`: weak fairness of the task as a whole, of each caller's
  own steps and of the clock. Tokio polls a task that was woken; which arm of a
  biased select is taken follows from the arms' readiness, so no arm has a
  fairness of its own. tmux and the watcher owe nothing.
* `ChannelWaits`: a caller that was woken or whose time is up is polled.
  Signals, tmux and the parked client owe nothing.
* `LockScopes`: a caller whose grant or deadline is there is polled, the lock's
  task sees its client's end, an unlock is answered or fails, and a scope's
  tasks go on. The holder is not obliged to unlock, and tmux not to grant.
* `PaneStream`: a pass that can go on does, or fails, and a reader that was woken is
  polled. tmux owes no event, and no command of a pass need succeed.
* `RunLeases`: the watcher of a dispatched command looks again, the collector is
  polled, and a request's deadline passes. The shell and the command owe nothing.
* `ServerShutdown`: callers, supervisors and shutdowns are polled, deadlines
  pass, and a client whose group was sent SIGKILL exits. A client that was not
  signalled may run forever and the pipes need never close. A stopped server's
  attaches and connections come to their end, which for the connection is
  `StopEndsTheTask`, checked on `ControlConnection`.

### What the mutants are

Every property of a passing run has a mutant: a definition with the change a
plausible bug would make (a tombstone not left behind, a queue not failed, a
deadline raced in one loop only, a notification that reaches polled waiters
only). The mutant stands right before the definition it replaces.

## Where code and documents disagree

`stream_gone` (`PaneStream`, `GoneEndsTheStream`): the comment at
`control.rs:1580` says that a pass in flight is polled "so a pane confirmed gone
ends the stream even when nothing further arrives". `poll_next` polls the handle
only before it reads events. A pass spawned by an event that the same poll reads
is never polled, so its verdict wakes nobody, and a reader of a pane that died
with that event waits for the next one. In the run's trace the pass has found the
pane gone; the cause is not a command that failed.

The following were read in the code while modelling and have no run of their own.

Control connection and core:

* `error.rs:144` says of a connection whose watcher fell behind that "the
  connection carries on once they are taken". The refused replies leave
  tombstones with their deadlines, and the earliest one ends the connection.
* `control.rs:369` says that correlation uses the block's number "rather than
  counting commands". The task counts: a block that answers nothing goes to the
  next caller. (The comment at `actor.rs:602` says so.) For that reason
  `control_replies` has no unsolicited blocks.
* `server/channels.rs:184` says that a drop loses nothing and that the signal is
  kept for the next wait. It is not, if another caller has joined meanwhile.
* `server/channels.rs:171` keeps `TimedOut` apart from a command that did not get
  through. A caller whose client failed is told `TimedOut`, its time not out, when
  a newcomer opened the next client first.
* `server.rs:961` says that shutdown waits for every active client process. The
  probe client of an attach that the shutdown cut off is reaped later, by an
  executor the shutdown does not know.
* `server/channels.rs:106` says of a dropped lock that nothing is left held,
  shutting down excepted, and `wait_for.rs:323` that without a runtime the client
  holding the lock goes with the process. tmux keeps a lock whose client has ended,
  so a granted lock dropped where no runtime is entered stays held (the third
  outcome of `DropLock`, counted as stranded).
* tmux clears a latched signal when a second one comes before any wait, and
  `wait_for.rs:190` keeps one kept signal for two releases; both follow from the
  latch being a flag.

Plans:

* `plan/planner.rs:5` says that changing the planner changes "the number of
  processes, never the result". A marked fold clears a mark the user had set, and
  one that fails leaves the new pane marked, because the command that clears the
  mark was dropped with the rest of the line.

`tmux-mcp`:

* `tail.rs:115` says of `closed` that the pane "has stopped writing for good". A
  tail whose connection ended is closed while its pane lives, and a caller that
  follows it with a cursor is not given another until it is evicted.
* `exec/run.rs:127` says of a respawned pane that "the shell that ran the frame
  went with the old one". The proof compares the pane with its process at the
  preflight; a pane respawned between the preflight and the dispatch is settled at
  once while its command runs, and the next request types beside it.
  `RunningIsReserved` is therefore about commands typed into the shell the
  preflight saw, and `AloneUnlessRespawned` exempts a command that was typed into
  a later one and has lost its lease.
* `tools/pane_input.rs:162` says that waiting or C-c releases an active run. A
  lease whose dispatch was not answered and whose line never arrived is kept until
  the pane ends.

`mcp-swap`:

* `README.md:171` of the tool says that where rollback cannot be proven the
  command fails closed. A rename that succeeds and whose directory sync fails
  (`fs.rs:715`) is taken for one that did not happen: the command answers a plain
  failure with the configuration missing, or with a ledger that names a removed
  backup. `LedgerIsBacked`, `AllOrNothing` and `RevertRestores` are about
  behaviours in which every sync succeeded. And a rollback that cannot look at or
  rename a published file (`transaction.rs:235`, `:246`) says "rollback incomplete"
  but still undoes the operations before it (`transaction.rs:1198`). A ledger left
  so names backups that are gone: `LedgerIsBacked` excepts it. A configuration left
  so holds the tool's own bytes without a ledger: the next `use` backs those up, and
  its revert gives them back, so `RevertRestores` excepts both. The run reaches the
  first within its bounds (without the exception TLC violates `LedgerIsBacked`); the
  second takes one client and a budget of seven, which was checked apart.
* `recovery.rs:48` calls `expected_config` the "exact configuration identity
  expected after the latest use". Reverting the newest layer makes the restored
  file the expectation of the layer below (`transaction.rs:1110`), and `use` of a
  new layer does not compare the file with the layers there are: an edit made by
  hand in between becomes the backup of the newer layer, and reverting the two one
  by one discards it where reverting both at once refuses. `adopted` counts
  those, and `NothingIsLost` and `RevertRestores` except them.

Workspace loader (not modelled): `cli/execution.rs` remembers a session it created
by its name, and its rollback kills whatever session has that name by then; the
comment near line 935 says that "only one this load created is ours to remove".

## Proofs

`tlapm` checks every theorem from nothing. Assumptions are only those of the
constants: finite sets of callers, requests and attaches; queue capacities that
are positive; `HeldWhileAwaiting >= EventQueue`; deadlines that are numbers or
`Never`; limits that are natural numbers; of mcp-swap, finitely many clients
(`Claude` is none of the others), a word for "no command" that is no command, and a
fault that costs something.

* **ControlConnectionProofs**, first part (the queue of replies):
  `PushOrderedExact`, `CompleteExact`, `RefuseLiveExact`.
  Each method keeps the cached live count and earliest deadline equal to the scan.
  The only interesting case is `Complete`: the earliest deadline is recomputed
  only when the slot that leaves had it.
* **ControlConnectionProofs**, second part (the calls): `Spec => []IInv`, with
  `IInv == TypeOK /\ CachesAreExact /\ CallInv`. `WaitingCallIsOwned` alone is
  not inductive: that a refused or withdrawn line is never written needs that a
  queued request is uncommitted and queued once (`QueuedIsUncommitted`), that
  what is written is committed (`WrittenIsCommitted`), and that an unsent call
  is nowhere (`UnsentIsUnknown`). Theorems: `TypeCorrect`, `CachesStayExact`,
  `NobodyIsForgotten`, `NotDispatchedIsTrue`. One lemma handles a step that
  answers callers (`AnsweredInv`), and the steps of the task that leave the
  calls alone go through a view.
* **ControlConnectionProofs**, third part (the answers), builds on that invariant
  in three stages.
  `HeldStaysBounded` needs that a block is begun only with room for the boundary
  it may end in. `RepliesStayOwn` and `NothingGetsLost` need that whoever is
  owed an answer has none (`OwedIsUnanswered`), hence that no call has two slots,
  hence that the slots are the last lines written, in order (`WriteOrder`), and
  that the blocks still in the pipe are those the slots
  expect, one after the other: `Expected` is the block the task counts to next,
  `After` the one tmux runs after a block, and `PipeOrder` says that the next end
  in the pipe is `Expected` and each further one `After` the one before it, up to
  the block tmux is at. `SlotProgress` keeps each slot's account of what it
  received, and the last entry of a live slot's account makes its whole reply.
  For the watcher, `StreamStep` says that a step keeps what was delivered, queued
  and held, taken together, or adds the line it reads, and `BoundaryIsDue` that a
  block completes an ordered slot exactly if it ends an ordered line. Both
  theorems assume `~HookBlocks`: tmux answers nothing this end did not write.
  With such blocks they are false, as noted above.
* **WaitForProofs**, first part (waits): the entry's count is a cardinality, so joining and
  leaving are lemmas about finite sets; the rest of `WaitIInv` says that a
  caller's `seen` is never ahead of the releases, and that results are final.
  Theorems: `WaitTypeCorrect`, `EntryIsAccounted`, `KeptIsSafe`, `ReleaseIsHeard`,
  `OneShot`.
* **WaitForProofs**, second part (locks): `MutualExclusion` follows from `GrantIsHeld`: two callers
  inside would both be the one `holder`. `GrantIsHeld` is inductive only with the
  queue: who is queued is in `lockers` once and is not the holder, a free lock
  has an empty queue, and a grant that was sent means its client has ended. Theorems:
  `ScopeTypeCorrect`, `GrantsAreAccounted`, `LockExcludes`.
* **ServerShutdownProofs**: ownership. A child, an armed guard, a permit and an
  entry each belong to one stretch of a dispatch's way, and the child's stretch
  lies within those of the permit and the entry. A registry that was closed and
  found empty stays empty. Theorems: `TypeCorrect`, `LimitsHold`,
  `AnswersComeLast`, `GuardsAreExact`, and `RegistryIsKept`, which shows that
  each step is a step of `ClientRegistry` or a stutter; it needs that a probe runs
  only while its attach is registered (`TwoProbes`).

* **PaneOutputProofs**, first part (the stream of one pane): `GoneMeansGone` is
  inductive with `VerdictIsTrue` (a pass that answers "gone" looked after its pane
  went, and no pane comes back), and `UnmutedIsListed` with the type of the queue,
  whose last element alone may be the end of the connection. Theorems:
  `TypeCorrect`, `GoneIsGone`, and `NoPaneIsForgotten`: a pane that is not muted is
  on the list of the pass under way, or another pass is owed, or the pass that was
  to mute it failed and none was asked for since. That is the safety half of
  `AppearedIsMuted`.
* **RunLeasesProofs**: a lease is a token in the table under one or two keys.
  `HolderOwns` says that each key of a holder holds its token and `TokensDiffer` that
  no two holders share one; `PhasesFit` ties the phase of a request to its command,
  `PlansAreOld` and `GivenUpHasMoved` say that a plan never names a shell of the
  future. Theorems: `TypeCorrect`, `RunningStaysReserved`, `CheckedIsAlone`.

* **PlanRunProofs**, for plans of every length and all three planners. The planner
  is a function of the position: a step reaches to the last neighbour that may
  share its line (`Through`), so what a step may hold is a fact about sets and needs
  no induction. `IInv` says that the commands left of the line under way are those
  of its step, that what tmux executed is the plan up to where it is, with at most
  one operation refused, that the mark stands for the pane the fold created, and
  that each outcome already reported fits. `RunsAsRecorded` alone is not
  inductive: that the next command follows what ran needs the place of the line in
  its step. Theorems: `Invariance`, `PlannersKeepTheOrder`, `ReportsAreTrue`,
  `ErrorsTellOfEffects`.
* **PaneOutputProofs**, second part (the tails), for every number of panes, callers, tails and restarts.
  `IsAt` relates an offset of a ring and a byte of the pane: their distance is that
  of the ring's end and the last byte received, whatever the ring has dropped. Every
  step of a tail keeps it (`PlaceContinues`, `ReceiveFits`). A cursor of this server
  names such a place of its tail as long as the tail is there (`HeldFits`). That is
  inductive because an epoch is given out once and nobody has a cursor of one that
  is being attached (`FreshIsUnused`), a tail is not freed while a call retains it
  (`CallFits`), and who waits has one place in one mailbox (`SeatsFit`), which is
  what keeps an answer of a reader from reaching a caller that moved on. Two lemmas
  carry the steps: `CallMoves` for those that move one call and leave or free tails,
  `TailMoves` for those of one tail. `ReadFacts` then reads off the bytes. Theorems:
  `Invariance`, `TablesStayBounded`, `AnswersHideNoGap`. The bounds of the model
  (`MaxOwner`, `MaxEra`) are assumed to admit the first server of each kind.

* **SwapTransactionProofs**, for every number of clients, layers, commands and
  faults. Its first half is about operators: `SortedBy` enumerates every finite set
  (`SortedByFacts`), `FreshInode` is injective and fresh (`FreshInodeFacts`), and a
  plan of `use` or `revert` has the shape `IsPlan` whatever ledger it is made from:
  destinations with their priors as the disk has them or as an earlier operation
  leaves them, the ledger once, backups before it or after it. An induction over
  data (a sorted list, a name with several operations) is made on the least
  counterexample. Then comes the invariant of one running command, in four parts.
  `TypeInv` types files, ledgers and plans. `StaticInv` says that the plan of a
  running command stays as it was made, over files that are older than its inodes.
  `ExactInv` says that the flags of the operations tell which renames were done:
  forward, all before the place it is at and none after it (`Progress`); which
  artifacts there can be (`Leftovers`); and that an untouched name holds what the last
  active operation on it put there, or the file of before (`Exactly`).
  `AllOrNothing` is not inductive without it: only the flags of every operation
  say what a rollback still has to do. `BackedInv` carries on where others meddle:
  a file of before is at its name, aside or displaced, or others destroyed it
  (`Conserved`); a stage holds what was staged (`Stages`); what was published last at
  a name and is not yet taken back is there (`Placed`); and the ledger on disk is the
  one of before, not yet moved, or the staged one, published (`OldOrNew`). When the
  command is over, each backup the ledger names is one of the files these four speak
  of, because backups come before the ledger in `use` and after it in `revert`.
  `OldOrNew` fails after a rollback that left the ledger published on an error, and is
  claimed until then (`LedgerSound`); `ErrsSteps` shows that a failing call takes the
  command along a step it also takes where a file is not the one it expects, except
  where it leaves its own file in place (`Abandons`).
  Theorems: `SwapTypeOK`, `SwapInvariant`, `SwapAllOrNothing`, `SwapLedgerIsBacked`.
* **SwapHistoryProofs** carries one client's bytes from command to command.
  `TurnsInv` says what a plan makes of that client's layers: its configuration and
  ledger entries are left alone, a layer is added on top or renewed, one above is
  taken off and what it backed up is relayed to the file, or the last one is cleared.
  `DatedInv` says that the tool never writes bytes that others have yet to write, so a
  new edit is never mistaken for an old one. `LedgerIsOf` says that the ledger a dying
  command leaves is the one before, the one staged, none, or someone else's. Over
  these, `LostInv` places the last version that another program wrote. Between
  commands each layer backs up what the one below left (`Chained`), and the version is
  lost to others (`Gone`) or is `Safe`: it is at the configuration's name with no
  layer, or with none that left it so, or it is what the bottom layer backed up, or it
  is at a backup's name that no layer goes by. Under a command it was so before, or is
  so in the state the command is to leave, or was written since and is at its name or
  at an artifact of it (`Recent`). `LostStep` takes `LostInv` over a step, and
  `NothingIsLostNow` finds the file.
  Its second part is about commands that nobody disturbs, for `faults = 0`. `Orderly`
  is the state of a client's records between them: the configuration is the very file
  the topmost layer left, each layer has its backup at its name and there is no other
  backup, a layer backs up no entry of its scope and expects the one it installed, and
  a scope without a layer has no entry. Each of the six ways in which a plan can turn
  a client's layers keeps it (`OrderlyTurns`), and it makes every `use` possible and
  every `revert` that skips no layer (`UseIsPossible`, `RevertIsPossible`). `Calm`
  says of a running command that it goes forward, that its stages and what it moved
  aside are where it put them and no name was touched, so that every check it makes
  on the way succeeds (`CalmForward`); what it leaves is then the outcome of its plan
  (`CalmReturns`), which is orderly again.
  Its third part is about taking the layers off, after any faults. A disk is
  `Restorable` for a version when a client without layers has it as configuration, and
  when a client whose configuration is one its layers expect has it as the backup of
  the oldest layer (`Rooted`); the six ways of a plan keep that (`RestorableTurns`).
  Under a running command `LedgerTracked` says where the old and the new ledger are,
  `Undisturbed` where the operations left a configuration nobody else wrote, and
  `Disturbed` that one which others wrote is one no layer expects, and that no restored
  file will be published over it. `Ordered` says that `use` writes configurations
  after the ledger and `revert` before it: whichever rename was the last, the disk a
  dying command leaves leads back to the version. `RestoreNext` takes `RestoreInv` over
  a step, for behaviours in which every directory was synchronized, others spoilt
  neither a readable ledger (`Spared`) nor a file with the version (`Fresh`), and no
  rollback gave up on the ledger or that configuration on an error (`ErrsAct`).
  Theorems: `SwapNothingIsLost`, `SwapUndisturbedCommandsSucceed`,
  `SwapRevertRestores`.

Before a proof was begun, TLC checked the inductive invariant on the instance of
the run; for `PlanRun` and `PaneTails` the state counts were the same as those of
the run itself. `LostInv` and the other invariants of the first part of
`SwapHistoryProofs` are the exception: they speak of the sets of all files and layers,
which TLC cannot enumerate, and rest on their proofs. `Orderly` was checked with the
sequences of backups bounded by the work, over six commands without a fault.
`RestoreInv` was checked with the bounds of the run before the failing calls were
added, and with one client, one server command and six commands or faults in any
order, of which the first 30 million states were searched.

Only model-checked: the liveness properties, since fairness and ENABLED are beyond
the prover. Every invariant that a passing run checks is also a theorem.

## Not modelled

* The workspace loader (`tmux-workspace`): its builds are sequences of plans, which
  `PlanRun` models one at a time. Its rollback is the next component to model.
* Inside modelled components. `PaneStream`: a caller that mutes the pane itself, and
  other panes that go. `PlanRun`: runs stepped over a
  boundary, option scopes, serialization. `RunLeases`: `paste_text`, whose lease has
  the same shape, interrupts, the scanner of markers and echoes, what a person types.
  `SwapTransaction`: preflight and the comparison of the plan made under the lock with
  the one made before, dry runs, symlink routes, aliases and modes, the directory that
  `remove_exact` retains a file in, a second command that starts while the first still
  holds a replaced lock, and writes through a descriptor opened before a rename.
* Pane observation: polling loops around single captures.
* Code generation, parsers and builders of single commands, rendering, and the
  blocking facade, which are sequential and are better served by the repository's
  tests and fuzz targets.

## Plan

Done: (1) `ReplySlots` and `ControlConnection`, (2) `ChannelWaits`,
(3) `SubprocessExecutor`, `PersistentClients` and `ServerShutdown` over
`ClientRegistry`, (4) `ChannelLock` and `LockScopes`, (5) `SwapLedger` and
`SwapTransaction`, (6) `PaneTails` and `RunLeases`, (7) `PaneStream` and `PlanRun`.

Proved: every invariant of the passing runs.

Next: a model of the workspace loader's build and rollback.
