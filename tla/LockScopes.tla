----------------------------- MODULE LockScopes -----------------------------
(***************************************************************************)
(* Two ways to use a channel's lock: Server::lock_channel with an unlock   *)
(* of the caller's own, and Server::with_channel_lock, which runs the lock *)
(* and the unlock through crates/libtmux/src/internal/scoped.rs.  A scope  *)
(* locks in a supervisor task, so that dropping the scope drops neither    *)
(* the lock() in progress nor the cleanup that is owed for it.             *)
(***************************************************************************)
EXTENDS ChannelLock

VARIABLE
  scope   \* where each scope is, or "bare"

scopeVars == <<lockVars, scope>>

ScopeInit == LockInit /\ scope = [c \in Lockers |-> "none"]

Enter(c, to) == scope' = [scope EXCEPT ![c] = to]

-----------------------------------------------------------------------------
(* The caller's own lock.                                                  *)

BareLock(c) == scope[c] = "none" /\ Enter(c, "bare") /\ Lock(c)

BareDrop(c) == scope[c] = "bare" /\ DropLock(c) /\ UNCHANGED scope

BareUnlock(c) == scope[c] = "bare" /\ Enter(c, "done") /\ Unlock(c)

-----------------------------------------------------------------------------
(* run(): acquire() awaits the handoff of the creation supervisor.         *)

ScopeStarts(c) == scope[c] = "none" /\ Enter(c, "creating") /\ Lock(c)

\* The created lock and its cleanup are handed over.
ScopeRuns(c) ==
  /\ scope[c] = "creating" /\ lock[c] = "held"
  /\ Enter(c, "operating") /\ UNCHANGED lockVars

ScopeFails(c) ==
  /\ scope[c] = "creating" /\ lock[c] = "failed"
  /\ Enter(c, "done") /\ UNCHANGED lockVars

\* The operation returns: finish() releases the cleanup supervisor.
ScopeFinishes(c) == scope[c] = "operating" /\ Enter(c, "finishing") /\ Unlock(c)

\* ... and waits for its outcome.
ScopeReturns(c) ==
  /\ scope[c] = "finishing" /\ freeing[c] = "done"
  /\ Enter(c, "done") /\ UNCHANGED lockVars

\* The future of the scope is dropped before it has the lock.
ScopeDropped(c) ==
  /\ scope[c] = "creating" /\ Enter(c, "abandoned") /\ UNCHANGED lockVars

\* Mutant: the cleanup runs only when it is asked for an outcome.
CleanupDroppedIdle(c) ==
  /\ scope[c] = "operating" /\ Enter(c, "dropped") /\ UNCHANGED lockVars

\* ... or with it, dropped or unwinding: the release goes with ScopeCleanup, and
\* its end is all that the cleanup supervisor waits for.
CleanupDropped(c) == scope[c] = "operating" /\ Enter(c, "dropped") /\ Unlock(c)

\* ... or while it waits for a cleanup that goes on without it.
FinishDropped(c) ==
  /\ scope[c] = "finishing" /\ Enter(c, "dropped") /\ UNCHANGED lockVars

\* The handoff finds the scope gone and drops the lock with its cleanup.
HandoffFails(c) == scope[c] = "abandoned" /\ Enter(c, "dropped") /\ Unlock(c)

-----------------------------------------------------------------------------
ScopeSteps(c) ==
  \/ ScopeRuns(c) \/ ScopeFails(c) \/ ScopeReturns(c) \/ HandoffFails(c)

UserSteps(c) ==
  \/ BareLock(c) \/ BareDrop(c) \/ BareUnlock(c)
  \/ ScopeStarts(c) \/ ScopeFinishes(c) \/ ScopeDropped(c) \/ CleanupDropped(c)
  \/ FinishDropped(c)

LockSteps(c) ==
  (TakeGrant(c) \/ TimesOut(c) \/ TaskSteps(c) \/ TmuxSteps(c)) /\ UNCHANGED scope

ScopeNext == \E c \in Lockers : UserSteps(c) \/ ScopeSteps(c) \/ LockSteps(c)

ScopeSpec == ScopeInit /\ [][ScopeNext]_scopeVars

\* The tasks are polled, a budget runs out, an unlock is answered or given up.
\* Nobody is obliged to unlock.
ScopeFairness == LockFairness /\ \A c \in Lockers : WF_scopeVars(ScopeSteps(c))

FairScopeSpec == ScopeSpec /\ ScopeFairness

-----------------------------------------------------------------------------
(* Properties.                                                             *)

Uses == {"none", "bare", "creating", "operating", "finishing", "abandoned", "dropped",
         "done"}

\* Every variable has its type; an unlock is sent for a grant whose client has
\* ended, and for no other.
ScopeTypeOK ==
  /\ lock \in [Lockers -> {"idle", "racing", "held", "failed"}]
  /\ grant \in [Lockers -> {"open", "ok", "err", "closed"}]
  /\ client \in [Lockers -> {"none", "starting", "queued", "granted", "killed", "ended"}]
  /\ freeing \in [Lockers -> {"no", "sent", "done"}]
  /\ \A c \in Lockers : freeing[c] # "no" => client[c] = "ended"
  /\ holder \in Lockers \cup {Nobody}
  /\ lockers \in Seq(Lockers)
  /\ stranded \subseteq Lockers
  /\ scope \in [Lockers -> Uses]

\* The caller may act on its lock.
Inside(c) == scope[c] = "operating" \/ (scope[c] = "bare" /\ lock[c] = "held")

\* One caller at a time acts on the lock: no grant given back, and no cleanup,
\* releases the lock of another.
MutualExclusion == \A c, d \in Lockers : Inside(c) /\ Inside(d) => c = d

\* The grant is on its way to the caller, with it, or on its way back.
HasGrant(c) ==
  \/ client[c] = "granted"
  \/ lock[c] = "racing" /\ grant[c] = "ok"
  \/ lock[c] = "held" /\ freeing[c] = "no"
  \/ freeing[c] = "sent"
  \/ c \in stranded

\* tmux holds the lock for exactly the one who still has the grant: a lock
\* nobody uses has an unlock on its way, except where its client was killed,
\* its unlock failed or no runtime was there to send one.
GrantIsHeld == \A c \in Lockers : holder = c <=> HasGrant(c)

\* The lock is nobody's to use: its caller gave up, or its scope is over.
Unused(c) ==
  holder = c /\ (lock[c] = "failed" \/ scope[c] \in {"finishing", "abandoned", "dropped"})

\* A lock that is nobody's to use is released, or was stranded.
UnusedLockIsReleased ==
  \A c \in Lockers : Unused(c) ~> holder # c \/ c \in stranded

\* A call that waits for its turn returns within its budget, whoever holds
\* the lock and however long.
EveryLockReturns == \A c \in Lockers : lock[c] = "racing" ~> lock[c] \in {"held", "failed"}

=============================================================================
