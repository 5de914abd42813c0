-------------------------- MODULE SwapTransaction --------------------------
(***************************************************************************)
(* The commands `use` and `revert` of mcp-swap, one rename at a time, on a *)
(* disk that others write between any two renames, with the process dying  *)
(* anywhere (src/tools/mcp-swap/src/transaction.rs, fs.rs and lock.rs).    *)
(*                                                                         *)
(* The record lock admits one command at a time, so there is one running   *)
(* command; one that dies frees the lock and leaves its files behind.  A   *)
(* check and the rename it guards are separate steps.                      *)
(***************************************************************************)
EXTENDS SwapLedger

CONSTANTS
  MaxWork,     \* bounds a behaviour: a command costs 1, a fault FaultCost
  FaultCost

ASSUME SwapBoundsAssumption == MaxWork \in Nat /\ FaultCost \in Nat \ {0}

VARIABLES
  disk,       \* the files under the names the commands use
  left,       \* files of commands that are gone, under names never used again
  tx,         \* the running command, or Idle
  work,       \* what was spent of MaxWork
  (* History. *)
  version,    \* for each client, the bytes last written by another program
  adopted,    \* clients whose foreign edit became the backup of a newer layer
  spoilt,     \* files that others replaced or deleted, and orphaned ledgers
  faults,     \* how many faults there were
  synced,     \* no directory failed to synchronize after a rename
  abandoned   \* names whose operation a rollback left undone, on an error
              \* of the file system

vars == <<disk, left, tx, work, version, adopted, spoilt, faults,
          synced, abandoned>>
history == <<version, adopted, spoilt, faults, synced, abandoned>>

Selections == {SetToSeq(S) : S \in (SUBSET Clients) \ {{}}}

Requests ==
  [kind : {"use"}, scope : Scopes, command : Commands, clients : Selections]
    \cup [kind : {"revert"}, scope : Scopes \cup {"any"}, clients : Selections]

Idle    == [phase |-> "idle"]
Answers == {"ok", "refused", "failed", "incomplete", "unfinished"}
Running == tx.phase \notin Answers \cup {"idle"}

Files(d) == {d[p] : p \in DOMAIN d}
Inodes   == {f.id : f \in Files(disk) \cup left}

IsArtifact(p)  == p[1] \in {"stage", "aside", "displaced"}
Artifacts(d)   == {p \in DOMAIN d : IsArtifact(p)}

Original == [rest |-> 0, entry |-> [s \in Scopes |-> NoEntry]]

Init ==
  /\ disk = [p \in {Config(c) : c \in Clients} |->
               [id |-> CHOOSE i \in 1..Cardinality(Clients) : SetToSeq(Clients)[i] = p[2],
                bytes |-> Original]]
  /\ left = {}
  /\ tx = Idle
  /\ work = 0
  /\ version = [c \in Clients |-> Original]
  /\ adopted = {}
  /\ spoilt = {}
  /\ faults = 0
  /\ synced = TRUE
  /\ abandoned = {}

-----------------------------------------------------------------------------
(* Under the lock: load the ledger, plan, and stage every output. *)

Started(req, phase, ops) ==
  [phase |-> phase, req |-> req, ops |-> ops, at |-> 1, lock |-> TRUE,
   errors |-> FALSE, before |-> disk, touched |-> {}]

Plannable(req) == IF req.kind = "use" THEN CanUse(disk, LedgerOn(disk), req)
                                      ELSE CanRevert(disk, LedgerOn(disk), req)

Planned(req) == IF req.kind = "use" THEN UseOperations(disk, Inodes, req)
                                    ELSE RevertOperations(disk, Inodes, req)

Refuse(req) ==
  /\ tx = Idle /\ work < MaxWork /\ ~Plannable(req)
  /\ tx' = Started(req, "refused", <<>>)
  /\ work' = work + 1
  /\ UNCHANGED <<disk, left, history>>

Begin(req) ==
  /\ tx = Idle /\ work < MaxWork /\ Plannable(req)
  /\ LET ops    == Planned(req)
         staged == {i \in 1..Len(ops) : ops[i].staged # None}
     IN /\ tx' = Started(req, IF ops = <<>> THEN "ok" ELSE "take", ops)
        /\ disk' = [p \in DOMAIN disk \cup {Stage(i) : i \in staged} |->
                      IF p \in DOMAIN disk THEN disk[p] ELSE ops[p[2]].staged]
  /\ work' = work + 1
  /\ UNCHANGED <<left, history>>

(* A stage cannot be written: dropping those that were removes them. *)
StagingFails(req) ==
  /\ tx = Idle /\ work + 1 + FaultCost <= MaxWork
  /\ Plannable(req) /\ Planned(req) # <<>>
  /\ tx' = Started(req, "failed", <<>>)
  /\ work' = work + 1 + FaultCost
  /\ faults' = faults + 1
  /\ UNCHANGED <<disk, left, version, adopted, spoilt, synced, abandoned>>

-----------------------------------------------------------------------------
(* FileOperation::commit. *)

Op == tx.ops[tx.at]

Goto(phase)  == [tx EXCEPT !.phase = phase]
FailNow(t)   == [t EXCEPT !.phase = "undo", !.at = Len(t.ops)]
Advance(t)   == IF t.at < Len(t.ops)
                THEN [t EXCEPT !.phase = "take", !.at = @ + 1]
                ELSE [t EXCEPT !.phase = "verify", !.at = 1]
Flagged(flag, value) == [tx EXCEPT !.ops[tx.at][flag] = value]

Take ==
  /\ tx.phase = "take"
  /\ tx' = IF tx.lock /\ (Op.prior = None \/ Holds(disk, Op.dest, Op.prior))
           THEN Goto(IF Op.prior = None THEN "publish" ELSE "move")
           ELSE FailNow(tx)
  /\ UNCHANGED <<disk, left, work, history>>

Move ==
  /\ tx.phase = "move"
  /\ IF Op.dest \in DOMAIN disk
     THEN /\ disk' = Renamed(disk, Op.dest, Aside(tx.at))
          /\ LET moved == Flagged("moved", TRUE) IN
             tx' = IF disk[Op.dest] # Op.prior THEN FailNow(moved)
                   ELSE IF Op.staged = None THEN Advance(moved)
                   ELSE [moved EXCEPT !.phase = "publish"]
     ELSE tx' = FailNow(tx) /\ UNCHANGED disk
  /\ UNCHANGED <<left, work, history>>

(* Mutant: a plain rename, which replaces what appeared at the name. *)
CanPublishOver == tx.lock /\ Stage(tx.at) \in DOMAIN disk

CanPublish == tx.lock /\ Op.dest \notin DOMAIN disk /\ Stage(tx.at) \in DOMAIN disk

Publish ==
  /\ tx.phase = "publish"
  /\ IF CanPublish
     THEN /\ disk' = Renamed(disk, Stage(tx.at), Op.dest)
          /\ LET published == Flagged("published", TRUE) IN
             tx' = IF disk[Stage(tx.at)] = Op.staged THEN Advance(published)
                                                     ELSE FailNow(published)
     ELSE tx' = FailNow(tx) /\ UNCHANGED disk
  /\ UNCHANGED <<left, work, history>>

-----------------------------------------------------------------------------
(* settle_operations where every commit succeeded. *)

IsLastFor(i) == \A j \in (i + 1)..Len(tx.ops) : tx.ops[j].dest # tx.ops[i].dest

Committed(i) ==
  LET op == tx.ops[i] IN
  /\ tx.lock
  /\ op.published /\ IsLastFor(i) => Holds(disk, op.dest, op.staged)
  /\ op.moved /\ ~op.published => op.dest \notin DOMAIN disk
  /\ op.moved => Holds(disk, Aside(i), op.prior)

(* Layers put on a configuration that is not what the layer below left. *)
NewlyAdopted ==
  LET ledger == LedgerOn(tx.before) IN
  {c \in ToSet(tx.req.clients) :
     /\ tx.req.kind = "use" /\ Layers(ledger, c) # {}
     /\ <<c, EffectiveScope(c, tx.req.scope)>> \notin DOMAIN ledger.entries
     /\ Config(c) \in {tx.ops[i].dest : i \in 1..Len(tx.ops)}
     /\ tx.before[Config(c)] # ledger.entries[Newest(ledger, Layers(ledger, c))].expected}

VerifyCommitted ==
  /\ tx.phase = "verify"
  /\ tx' = IF ~Committed(tx.at) THEN FailNow(tx)
           ELSE IF tx.at < Len(tx.ops) THEN [tx EXCEPT !.at = @ + 1]
           ELSE [tx EXCEPT !.phase = "finish", !.at = 1]
  /\ adopted' = IF tx'.phase = "finish" THEN adopted \cup NewlyAdopted ELSE adopted
  /\ UNCHANGED <<disk, left, work, version, spoilt, faults, synced, abandoned>>

Finish ==
  /\ tx.phase = "finish"
  /\ LET intact == Op.moved => Holds(disk, Aside(tx.at), Op.prior)
     IN /\ disk' = IF Op.moved /\ intact THEN Without(disk, {Aside(tx.at)}) ELSE disk
        /\ tx' = IF ~intact THEN Goto("unfinished")
                 ELSE IF tx.at = Len(tx.ops) THEN Goto("ok")
                 ELSE [tx EXCEPT !.at = @ + 1]
  /\ UNCHANGED <<left, work, history>>

-----------------------------------------------------------------------------
(* rollback_operations: the operations in reverse; one that cannot be      *)
(* proved exact is left as it is, and the answer says so.  So is one for   *)
(* which a call of the file system fails (RollbackFails).                  *)

Below(t)     == [t EXCEPT !.phase = "undo", !.at = @ - 1]
GiveUpOn(t)  == [Below(t) EXCEPT !.errors = TRUE]

(* Mutant: an operation that published nothing is taken for one that did   *)
(* nothing, and what it moved aside stays there.                           *)
UndoPublishedOnly ==
  /\ tx.phase = "undo" /\ tx.at > 0
  /\ tx' = IF Op.published
           THEN IF Holds(disk, Op.dest, Op.staged) THEN Goto("displace") ELSE GiveUpOn(tx)
           ELSE Below(tx)
  /\ UNCHANGED <<disk, left, work, history>>

Undo ==
  /\ tx.phase = "undo" /\ tx.at > 0
  /\ tx' = IF Op.published
           THEN IF Holds(disk, Op.dest, Op.staged) THEN Goto("displace") ELSE GiveUpOn(tx)
           ELSE IF Op.moved THEN Goto("restore") ELSE Below(tx)
  /\ UNCHANGED <<disk, left, work, history>>

Displace ==
  /\ tx.phase = "displace"
  /\ IF Op.dest \in DOMAIN disk
     THEN /\ disk' = Renamed(disk, Op.dest, Displaced(tx.at))
          /\ tx' = IF disk[Op.dest] = Op.staged
                   THEN [Flagged("published", FALSE) EXCEPT
                           !.phase = IF Op.moved THEN "restore" ELSE "discard"]
                   ELSE GiveUpOn(tx)
     ELSE tx' = GiveUpOn(tx) /\ UNCHANGED disk
  /\ UNCHANGED <<left, work, history>>

CanRestore == Holds(disk, Aside(tx.at), Op.prior) /\ Op.dest \notin DOMAIN disk

Restore ==
  /\ tx.phase = "restore"
  /\ IF CanRestore
     THEN /\ disk' = Renamed(disk, Aside(tx.at), Op.dest)
          /\ LET restored == Flagged("moved", FALSE) IN
             tx' = IF Displaced(tx.at) \in DOMAIN disk
                   THEN [restored EXCEPT !.phase = "discard"]
                   ELSE Below(restored)
     ELSE tx' = GiveUpOn(tx) /\ UNCHANGED disk
  /\ UNCHANGED <<left, work, history>>

Discard ==
  /\ tx.phase = "discard"
  /\ IF Holds(disk, Displaced(tx.at), Op.staged)
     THEN disk' = Without(disk, {Displaced(tx.at)}) /\ tx' = Below(tx)
     ELSE tx' = GiveUpOn(tx) /\ UNCHANGED disk
  /\ UNCHANGED <<left, work, history>>

StagesLeft  == {Stage(i) : i \in 1..Len(tx.ops)} \cap DOMAIN disk
OwnedStages == {p \in StagesLeft : disk[p] = tx.ops[p[2]].staged}

Clean ==
  /\ tx.phase = "undo" /\ tx.at = 0
  /\ disk' = Without(disk, OwnedStages)
  /\ tx' = Goto(IF tx.errors \/ OwnedStages # StagesLeft THEN "incomplete" ELSE "failed")
  /\ UNCHANGED <<left, work, history>>

(* The ledger on disk is the one this command staged. *)
Recorded ==
  \E i \in 1..Len(tx.ops) :
    /\ tx.ops[i].dest = State /\ tx.ops[i].staged # None
    /\ Holds(disk, State, tx.ops[i].staged)

(* The command is over: its files keep names nobody will use again. *)
Depart ==
  /\ tx' = Idle
  /\ left' = left \cup {disk[p] : p \in Artifacts(disk)}
  /\ disk' = Without(disk, Artifacts(disk))
  /\ adopted' = IF Recorded THEN adopted \cup NewlyAdopted ELSE adopted

Return ==
  /\ tx.phase \in Answers
  /\ Depart
  /\ UNCHANGED <<work, version, spoilt, faults, synced, abandoned>>

-----------------------------------------------------------------------------
(* Faults. *)

Fault ==
  /\ work + FaultCost <= MaxWork
  /\ work' = work + FaultCost
  /\ faults' = faults + 1

Touched(p) == IF tx = Idle THEN tx ELSE [tx EXCEPT !.touched = @ \cup {p}]

(* Another program saves a configuration, perhaps changing an entry's      *)
(* environment, or creates it anew where there is none.                    *)
Edit(c) ==
  /\ Fault
  /\ LET there == Config(c) \in DOMAIN disk
         old   == IF there /\ Parses(disk[Config(c)].bytes) THEN disk[Config(c)].bytes ELSE Original
         tag   == faults + 1
     IN \E changed \in {{}} \cup {{s} : s \in {s \in Scopes : old.entry[s] # NoEntry}} :
          LET new == [rest |-> tag,
                      entry |-> [s \in Scopes |-> IF s \in changed
                                                  THEN [old.entry[s] EXCEPT !.env = tag]
                                                  ELSE old.entry[s]]]
          IN /\ disk' = With(disk, Config(c), [id |-> FreshInode(Inodes, 1), bytes |-> new])
             /\ version' = [version EXCEPT ![c] = new]
             /\ spoilt' = IF there THEN spoilt \cup {disk[Config(c)]} ELSE spoilt
  /\ tx' = Touched(Config(c))
  /\ UNCHANGED <<left, adopted, synced, abandoned>>

Delete(p) ==
  /\ Fault
  /\ disk' = Without(disk, {p})
  /\ spoilt' = spoilt \cup {disk[p]}
  /\ tx' = Touched(p)
  /\ UNCHANGED <<left, version, adopted, synced, abandoned>>

(* A ledger, a backup or a file of the running command is replaced. *)
Replace(p) ==
  /\ p[1] # "config"
  /\ Fault
  /\ disk' = With(disk, p, [id |-> FreshInode(Inodes, 1), bytes |-> [other |-> faults + 1]])
  /\ spoilt' = spoilt \cup {disk[p]}
  /\ tx' = Touched(p)
  /\ UNCHANGED <<left, version, adopted, synced, abandoned>>

(* The lock file is replaced: the running command finds out when it looks. *)
ReplaceLock ==
  /\ Running /\ tx.lock
  /\ Fault
  /\ tx' = [tx EXCEPT !.lock = FALSE]
  /\ UNCHANGED <<disk, left, version, adopted, spoilt, synced, abandoned>>

(* The ledger is aside and its successor not published: no command will    *)
(* find a ledger.                                                          *)
Orphaned ==
  {disk[Aside(i)] :
     i \in {i \in 1..Len(tx.ops) :
              /\ tx.ops[i].dest = State /\ tx.ops[i].staged # None
              /\ Aside(i) \in DOMAIN disk /\ State \notin DOMAIN disk}}

Die ==
  /\ Running
  /\ Fault
  /\ Depart
  /\ spoilt' = spoilt \cup Orphaned
  /\ UNCHANGED <<version, synced, abandoned>>

(* rename_no_replace renames, then fails to synchronize the directory: the *)
(* caller sees an error before it notes that the file has moved.           *)
SyncFails ==
  /\ Fault
  /\ \/ /\ tx.phase = "move" /\ Op.dest \in DOMAIN disk
        /\ disk' = Renamed(disk, Op.dest, Aside(tx.at))
        /\ tx' = FailNow(tx)
     \/ /\ tx.phase = "publish" /\ CanPublish
        /\ disk' = Renamed(disk, Stage(tx.at), Op.dest)
        /\ tx' = FailNow(tx)
     \/ /\ tx.phase = "displace" /\ Op.dest \in DOMAIN disk
        /\ disk' = Renamed(disk, Op.dest, Displaced(tx.at))
        /\ tx' = GiveUpOn(tx)
     \/ /\ tx.phase = "restore" /\ CanRestore
        /\ disk' = Renamed(disk, Aside(tx.at), Op.dest)
        /\ tx' = GiveUpOn(tx)
  /\ synced' = FALSE
  /\ UNCHANGED <<left, version, adopted, spoilt, abandoned>>

(* A call of commit or verify_committed fails for a reason of its own: with *)
(* the files in place, or in the look at what was just renamed.            *)
CommitFails ==
  /\ Fault
  /\ \/ /\ tx.phase \in {"take", "move", "publish", "verify"}
        /\ tx' = FailNow(tx)
        /\ UNCHANGED disk
     \/ /\ tx.phase = "move" /\ Op.dest \in DOMAIN disk
        /\ disk' = Renamed(disk, Op.dest, Aside(tx.at))
        /\ tx' = FailNow(Flagged("moved", TRUE))
     \/ /\ tx.phase = "publish" /\ CanPublish
        /\ disk' = Renamed(disk, Stage(tx.at), Op.dest)
        /\ tx' = FailNow(Flagged("published", TRUE))
  /\ UNCHANGED <<left, version, adopted, spoilt, synced, abandoned>>

(* A call of rollback fails so: the error is collected, and the operations *)
(* before this one are undone all the same.                                *)
RollbackFails ==
  /\ Fault
  /\ \/ /\ \/ tx.phase = "undo" /\ tx.at > 0 /\ Op.published
           \/ tx.phase \in {"displace", "restore"}
        /\ UNCHANGED disk
     \/ /\ tx.phase = "displace" /\ Op.dest \in DOMAIN disk
        /\ disk' = Renamed(disk, Op.dest, Displaced(tx.at))
     \/ /\ tx.phase = "restore" /\ CanRestore
        /\ disk' = Renamed(disk, Aside(tx.at), Op.dest)
  /\ tx' = GiveUpOn(tx)
  /\ abandoned' = abandoned \cup {Op.dest}
  /\ UNCHANGED <<left, version, adopted, spoilt, synced>>

(* A file the command has no more use for cannot be removed.               *)
CleanupFails ==
  /\ Fault
  /\ \/ tx.phase = "discard" /\ tx' = GiveUpOn(tx) /\ UNCHANGED disk
     \/ /\ tx.phase = "undo" /\ tx.at = 0
        /\ \E p \in OwnedStages : disk' = Without(disk, OwnedStages \ {p})
        /\ tx' = Goto("incomplete")
     \/ tx.phase = "finish" /\ Op.moved /\ tx' = Goto("unfinished") /\ UNCHANGED disk
  /\ UNCHANGED <<left, version, adopted, spoilt, synced, abandoned>>

Next ==
  \/ \E req \in Requests : Begin(req) \/ Refuse(req) \/ StagingFails(req)
  \/ Take \/ Move \/ Publish \/ VerifyCommitted \/ Finish
  \/ Undo \/ Displace \/ Restore \/ Discard \/ Clean
  \/ Return
  \/ \E c \in Clients : Edit(c)
  \/ \E p \in DOMAIN disk : Delete(p) \/ Replace(p)
  \/ ReplaceLock \/ Die \/ SyncFails
  \/ CommitFails \/ RollbackFails \/ CleanupFails

Spec == Init /\ [][Next]_vars

-----------------------------------------------------------------------------
(* A file is an inode and bytes; every name holds one; a running command   *)
(* has its operations and its place among them.                            *)
TypeOK ==
  /\ \A p \in DOMAIN disk : DOMAIN disk[p] = {"id", "bytes"} /\ disk[p].id \in Nat \ {0}
  /\ \A p, q \in DOMAIN disk : disk[p].id = disk[q].id => p = q
  /\ work \in 0..MaxWork /\ faults \in 0..MaxWork /\ synced \in BOOLEAN
  /\ adopted \subseteq Clients /\ \A p \in abandoned : ~IsArtifact(p)
  /\ tx # Idle => /\ tx.at \in 0..(Len(tx.ops) + 1)
                  /\ tx.lock \in BOOLEAN /\ tx.errors \in BOOLEAN
                  /\ Running => Len(tx.ops) > 0

OnDisk == Files(disk) \cup left
Kept   == {disk[p] : p \in {p \in DOMAIN disk : p[1] # "stage"}} \cup left

(* Whatever fails, and wherever a command dies, the last version of a      *)
(* configuration that was not written by mcp-swap is still a file: the     *)
(* configuration, a backup, or an artifact that was retained.  Files that  *)
(* others destroyed are not held against the tool, nor, here, an edit that *)
(* `use` made the backup of a second layer: reverting that one discards it. *)
NothingIsLost ==
  \A c \in Clients \ adopted :
    version[c] \in {f.bytes : f \in OnDisk \cup spoilt}

(* The ledger on disk never names a backup that is not there: whichever    *)
(* rename was the last, the exact file is at the backup's name or aside,   *)
(* and never only staged.                                                  *)
(* A rename whose directory could not be synchronized is taken for one     *)
(* that did not happen, and its rollback may break this.  So may a rollback *)
(* that gives up on the ledger, published, on an error of the file system: *)
(* it goes on to remove the backups the ledger names.                      *)
LedgerIsBacked ==
  synced /\ State \notin abandoned /\ Readable(LedgerOn(disk)) =>
    \A l \in DOMAIN LedgerOn(disk).entries :
      LedgerOn(disk).entries[l].backup \in Kept \cup spoilt

Dests == {tx.ops[i].dest : i \in 1..Len(tx.ops)} \ tx.touched

NewIsThere ==
  /\ \A i \in 1..Len(tx.ops) :
       tx.ops[i].dest \in Dests /\ IsLastFor(i) =>
         At(disk, tx.ops[i].dest) = tx.ops[i].staged
  /\ Artifacts(disk) = {}

OldIsThere ==
  /\ \A p \in Dests : At(disk, p) = At(tx.before, p)
  /\ Artifacts(disk) = {}

(* Where a command answers success, every destination holds what it        *)
(* staged and nothing of its own is left; where it answers failure without *)
(* saying that the rollback is incomplete, every destination is the very   *)
(* file it was.  Destinations that others wrote meanwhile are theirs, and  *)
(* every directory could be synchronized.                                  *)
AllOrNothing ==
  /\ tx.phase = "ok" => NewIsThere
  /\ tx.phase \in {"failed", "refused"} /\ synced => OldIsThere

(* Reverting every layer of a client gives back the configuration as it    *)
(* was before the first swap, byte for byte, unless others destroyed it or *)
(* a ledger, or a rollback could not tell what had been renamed, or gave   *)
(* up on the ledger or on this configuration on an error of the file       *)
(* system: what it leaves there the next `use` may take for the user's.    *)
RevertRestores ==
  /\ tx.phase = "ok" /\ tx.req.kind = "revert"
  /\ synced /\ State \notin tx.touched \cup abandoned
  =>
    \A c \in Clients \ adopted :
      LET reverted == Config(c) \in {tx.ops[i].dest : i \in 1..Len(tx.ops)} IN
      /\ reverted /\ Config(c) \notin tx.touched \cup abandoned
      /\ Layers(LedgerOn(disk), c) = {}
      /\ \A f \in spoilt : f.bytes # version[c] /\ ~Readable(f.bytes)
      => disk[Config(c)].bytes = version[c]

(* Without faults no sequence of commands wedges the tool: its own records *)
(* always authenticate.  A command is refused only for what it asks: a     *)
(* revert with nothing recorded, or one that would skip a newer layer.     *)
UndisturbedCommandsSucceed ==
  LET ledger == LedgerOn(tx.before)
      Skips  == \E l \in Selection(ledger, tx.req) :
                  ~(Newer(ledger, l) \subseteq Selection(ledger, tx.req))
  IN faults = 0 =>
       /\ tx.phase \notin {"failed", "incomplete", "unfinished"}
       /\ tx.phase = "refused" => tx.req.kind = "revert" /\ (ledger = EmptyLedger \/ Skips)

=============================================================================
