---------------------------- MODULE ChannelLock ----------------------------
(***************************************************************************)
(* Locking one `wait-for` channel: `lock`, its Grant and `unlock` in       *)
(* crates/libtmux/src/internal/wait_for.rs.                                *)
(*                                                                         *)
(* tmux cannot withdraw a queued locker either.  The client that locks     *)
(* belongs to a task of its own, which outlives the caller and hands it    *)
(* the grant over a oneshot; a grant nobody takes is given back with an    *)
(* unlock.  tmux does not know who unlocks, so one unlock too many         *)
(* releases somebody else's lock and one too few wedges the channel.       *)
(*                                                                         *)
(* tmux and the fate of its clients are the environment.                   *)
(***************************************************************************)
EXTENDS Sequences, FiniteSets

CONSTANTS
  Lockers,   \* the calls of lock()
  Nobody     \* holds a lock that is free

ASSUME LockersAssumption == IsFiniteSet(Lockers) /\ Nobody \notin Lockers

VARIABLES
  lock,      \* where each call of lock() is
  grant,     \* its oneshot: what the task sent, or that the caller closed it
  client,    \* its tmux client; "killed" while tmux still queues it
  freeing,   \* the unlock on behalf of its grant
  holder,    \* whose client tmux gave the lock to
  lockers,   \* the clients tmux queues behind it
  stranded   \* the grants nothing is left to give back

callVars == <<lock, grant>>
taskVars == <<client, freeing>>
queueVars == <<holder, lockers>>
lockVars == <<callVars, taskVars, queueVars, stranded>>

LockInit ==
  /\ lock = [c \in Lockers |-> "idle"]
  /\ grant = [c \in Lockers |-> "open"]
  /\ client = [c \in Lockers |-> "none"]
  /\ freeing = [c \in Lockers |-> "no"]
  /\ holder = Nobody /\ lockers = <<>> /\ stranded = {}

-----------------------------------------------------------------------------
(* lock() and the caller's end, Grant.                                     *)

\* The task is spawned with the dispatch; it has no deadline and no permit.
Lock(c) ==
  /\ lock[c] = "idle"
  /\ lock' = [lock EXCEPT ![c] = "racing"]
  /\ client' = [client EXCEPT ![c] = "starting"]
  /\ UNCHANGED <<grant, freeing, queueVars, stranded>>

LockBecomes(c, to) == lock' = [lock EXCEPT ![c] = to]

\* The select finds an answer.
TakeGrant(c) ==
  /\ lock[c] = "racing" /\ grant[c] \in {"ok", "err"}
  /\ LockBecomes(c, IF grant[c] = "ok" THEN "held" ELSE "failed")
  /\ UNCHANGED <<grant, taskVars, queueVars, stranded>>

\* Mutant: a grant that crossed the deadline is taken and given back too.
TimesOutUnsettled(c) ==
  /\ lock[c] = "racing"
  /\ grant' = [grant EXCEPT ![c] = IF @ = "open" THEN "closed" ELSE @]
  /\ LockBecomes(c, IF grant[c] = "ok" THEN "held" ELSE "failed")
  /\ freeing' = [freeing EXCEPT ![c] = IF grant[c] = "ok" THEN "sent" ELSE @]
  /\ UNCHANGED <<client, queueVars, stranded>>

\* Mutant: the budget bounds the dispatch and not the wait in tmux's queue.
TimesOutUnqueued(c) ==
  /\ lock[c] = "racing" /\ client[c] # "queued"
  /\ grant' = [grant EXCEPT ![c] = IF @ = "open" THEN "closed" ELSE @]
  /\ LockBecomes(c, IF grant[c] = "ok" THEN "held" ELSE "failed")
  /\ UNCHANGED <<taskVars, queueVars, stranded>>

\* The select finds the time out, whatever else is ready: the receiver is
\* closed, and what crossed it is read back.
TimesOut(c) ==
  /\ lock[c] = "racing"
  /\ grant' = [grant EXCEPT ![c] = IF @ = "open" THEN "closed" ELSE @]
  /\ LockBecomes(c, IF grant[c] = "ok" THEN "held" ELSE "failed")
  /\ UNCHANGED <<taskVars, queueVars, stranded>>

\* Mutant: the receiver goes without a look at what crossed it.
DropLockUnread(c) ==
  /\ lock[c] = "racing"
  /\ grant' = [grant EXCEPT ![c] = IF @ = "open" THEN "closed" ELSE @]
  /\ LockBecomes(c, "failed")
  /\ UNCHANGED <<taskVars, queueVars, stranded>>

\* The future is dropped: a grant read back is given up in the background,
\* or not at all where no runtime is entered.
DropLock(c) ==
  /\ lock[c] = "racing"
  /\ grant' = [grant EXCEPT ![c] = IF @ = "open" THEN "closed" ELSE @]
  /\ LockBecomes(c, "failed")
  /\ \/ grant[c] # "ok" /\ UNCHANGED <<freeing, stranded>>
     \/ grant[c] = "ok" /\ freeing' = [freeing EXCEPT ![c] = "sent"] /\ UNCHANGED stranded
     \/ grant[c] = "ok" /\ stranded' = stranded \cup {c} /\ UNCHANGED freeing
  /\ UNCHANGED <<client, queueVars>>

\* Whoever locked unlocks.
Unlock(c) ==
  /\ lock[c] = "held" /\ freeing[c] = "no"
  /\ freeing' = [freeing EXCEPT ![c] = "sent"]
  /\ UNCHANGED <<callVars, client, queueVars, stranded>>

-----------------------------------------------------------------------------
(* The task: it awaits the client and sends what it got.                   *)

Send(c, value) == grant' = [grant EXCEPT ![c] = IF @ = "open" THEN value ELSE @]

\* The client of a granted lock ends with success; if the caller is gone, the
\* task gives the lock back.
Answers(c) ==
  /\ client[c] = "granted"
  /\ client' = [client EXCEPT ![c] = "ended"]
  /\ Send(c, "ok")
  /\ freeing' = [freeing EXCEPT ![c] = IF grant[c] = "closed" THEN "sent" ELSE @]
  /\ UNCHANGED <<lock, queueVars, stranded>>

\* tmux refuses the channel, or the command never reaches it.
LockRefused(c) ==
  /\ client[c] = "starting"
  /\ client' = [client EXCEPT ![c] = "ended"]
  /\ Send(c, "err")
  /\ UNCHANGED <<lock, freeing, queueVars, stranded>>

\* The client is lost while it waits in tmux or with the answer on its way: the
\* server handle shuts down, its supervisor fails, the runtime goes.
ClientLost(c) ==
  /\ client[c] \in {"queued", "granted"}
  /\ client' = [client EXCEPT ![c] = IF @ = "queued" THEN "killed" ELSE "ended"]
  /\ stranded' = IF client[c] = "granted" THEN stranded \cup {c} ELSE stranded
  /\ Send(c, "err")
  /\ UNCHANGED <<lock, freeing, queueVars>>

-----------------------------------------------------------------------------
(* tmux.                                                                   *)

\* wait-for -L reaches the server.
Arrives(c) ==
  /\ client[c] = "starting"
  /\ \/ /\ holder = Nobody /\ holder' = c /\ UNCHANGED lockers
        /\ client' = [client EXCEPT ![c] = "granted"]
     \/ /\ holder # Nobody /\ lockers' = Append(lockers, c) /\ UNCHANGED holder
        /\ client' = [client EXCEPT ![c] = "queued"]
  /\ UNCHANGED <<callVars, freeing, stranded>>

\* wait-for -U reaches the server and frees the lock, or hands it to the first
\* client it queued, which it does not notice to be gone.
UnlockLands(c) ==
  /\ freeing[c] = "sent"
  /\ freeing' = [freeing EXCEPT ![c] = "done"]
  /\ \/ lockers = <<>> /\ holder' = Nobody /\ UNCHANGED <<lockers, client, stranded>>
     \/ /\ lockers # <<>> /\ holder' = Head(lockers) /\ lockers' = Tail(lockers)
        /\ client' = [client EXCEPT ![Head(lockers)] =
                        IF @ = "killed" THEN "ended" ELSE "granted"]
        /\ stranded' = IF client[Head(lockers)] = "killed"
                       THEN stranded \cup {Head(lockers)} ELSE stranded
  /\ UNCHANGED callVars

\* The executor has no permit for it, it times out, or the handle has shut down.
UnlockFails(c) ==
  /\ freeing[c] = "sent"
  /\ freeing' = [freeing EXCEPT ![c] = "done"]
  /\ stranded' = stranded \cup {c}
  /\ UNCHANGED <<callVars, client, queueVars>>

-----------------------------------------------------------------------------
TaskSteps(c) == Answers(c) \/ LockRefused(c) \/ ClientLost(c)

TmuxSteps(c) == Arrives(c) \/ UnlockLands(c) \/ UnlockFails(c)

LockFairness ==
  \A c \in Lockers :
    /\ WF_lockVars(TakeGrant(c) \/ TimesOut(c))
    /\ WF_lockVars(Answers(c))
    /\ WF_lockVars(UnlockLands(c) \/ UnlockFails(c))

=============================================================================
