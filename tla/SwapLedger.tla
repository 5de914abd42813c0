----------------------------- MODULE SwapLedger -----------------------------
(***************************************************************************)
(* What one command of mcp-swap plans: which files it will write, in which *)
(* order, and the recovery ledger it will leave behind.  These are the     *)
(* pure parts of src/tools/mcp-swap/src/transaction.rs and recovery.rs;    *)
(* SwapTransaction performs the plans on a disk that others write too.     *)
(*                                                                         *)
(* A file is an inode with its bytes, and its identity (device, inode,     *)
(* mode, size, digest) is the file itself.  The bytes of a configuration   *)
(* are what the tool does not touch ("rest") and the server entry of each  *)
(* scope.  Modes, symbolic links, parents and aliases are left out.        *)
(***************************************************************************)
EXTENDS Integers, FiniteSets, Sequences, SequencesExt

CONSTANTS
  Claude,     \* the client whose configuration has two scopes
  Others,     \* the other clients, with one scope each
  Commands,   \* the server commands a swap may install
  NoCommand   \* a scope without the server entry

ASSUME SwapClientsAssumption ==
  /\ IsFiniteSet(Others)
  /\ Claude \notin Others
  /\ NoCommand \notin Commands

Clients == {Claude} \cup Others
Scopes  == {"user", "project"}

(* Only Claude keeps the scope it is asked for. *)
EffectiveScope(c, scope) == IF c = Claude THEN scope ELSE "user"

-----------------------------------------------------------------------------
(* Files and their names. *)

Config(c)    == <<"config", c>>
State        == <<"state">>
Backup(c, n) == <<"backup", c, n>>
Stage(i)     == <<"stage", i>>
Aside(i)     == <<"aside", i>>
Displaced(i) == <<"displaced", i>>

None == [id |-> 0]

(* The file at a name, or None. *)
At(disk, path) == IF path \in DOMAIN disk THEN disk[path] ELSE None

Holds(disk, path, file) == path \in DOMAIN disk /\ disk[path] = file

Without(f, keys) == [x \in DOMAIN f \ keys |-> f[x]]

With(f, key, value) ==
  [x \in DOMAIN f \cup {key} |-> IF x = key THEN value ELSE f[x]]

(* Mutant: a hard link, and the old name not removed. *)
Linked(disk, from, to) == With(disk, to, disk[from])

(* renameat2(RENAME_NOREPLACE) where the destination is absent. *)
Renamed(disk, from, to) == With(Without(disk, {from}), to, disk[from])

(* The n-th inode number no file has, from the lowest. *)
FreshInode(used, n) ==
  CHOOSE i \in 1..(Cardinality(used) + n) :
    i \notin used /\ Cardinality((1..i) \ used) = n

Parses(bytes) == DOMAIN bytes = {"rest", "entry"}

NoEntry == [command |-> NoCommand, env |-> 0]

SetServer(bytes, scope, spec) == [bytes EXCEPT !.entry[scope] = spec]

-----------------------------------------------------------------------------
(* The ledger: for each swapped layer the order of its swap, its first     *)
(* backup, and the configuration the next command must find.               *)

EmptyLedger == [next |-> 0, entries |-> <<>>]

LedgerOn(disk) ==
  IF State \in DOMAIN disk THEN disk[State].bytes ELSE EmptyLedger

(* validate_ledger: layers of clients that have them, each with a sequence *)
(* of its own below the next one.                                          *)
Readable(ledger) ==
  /\ DOMAIN ledger = {"next", "entries"} /\ ledger.next \in Nat
  /\ \A l \in DOMAIN ledger.entries :
       /\ l \in Clients \X Scopes /\ l[2] = EffectiveScope(l[1], l[2])
       /\ ledger.entries[l].sequence \in 0..(ledger.next - 1)
       /\ \A k \in DOMAIN ledger.entries :
            ledger.entries[k].sequence = ledger.entries[l].sequence => k = l

(* The layers of a client; those swapped after l, none if l is not there. *)
Layers(ledger, c) == {l \in DOMAIN ledger.entries : l[1] = c}

Newer(ledger, l) ==
  {k \in Layers(ledger, l[1]) :
     /\ l \in DOMAIN ledger.entries
     /\ ledger.entries[k].sequence > ledger.entries[l].sequence}

(* The first and the last of a set of layers to be swapped. *)
Oldest(ledger, S) ==
  CHOOSE l \in S : \A k \in S : ledger.entries[l].sequence <= ledger.entries[k].sequence

Newest(ledger, S) ==
  CHOOSE l \in S : \A k \in S : ledger.entries[k].sequence <= ledger.entries[l].sequence

BackupIntact(disk, ledger, l) ==
  Holds(disk, Backup(l[1], ledger.entries[l].sequence), ledger.entries[l].backup)

-----------------------------------------------------------------------------
(* One step of a transaction: a destination, the file staged for it, or    *)
(* none to delete it, and the file it must hold before, or none.           *)

Operation(dest, staged, prior) ==
  [dest |-> dest, staged |-> staged, prior |-> prior,
   moved |-> FALSE, published |-> FALSE]

(* The elements of S in the order of their keys. *)
SortedBy(S, key) ==
  CHOOSE s \in [1..Cardinality(S) -> S] :
    \A i, j \in 1..Cardinality(S) : i < j => s[i] # s[j] /\ key[s[i]] <= key[s[j]]

PlaceIn(s, x) == CHOOSE i \in 1..Len(s) : s[i] = x

(* What use_clients plans for the k-th selected client. *)
LayerOf(req, k) == <<req.clients[k], EffectiveScope(req.clients[k], req.scope)>>

AskedFor(req, c) == LayerOf(req, PlaceIn(req.clients, c))

(* A layer keeps its sequence; the new ones are numbered as they come. *)
SequenceOf(ledger, req, l) ==
  IF l \in DOMAIN ledger.entries
  THEN ledger.entries[l].sequence
  ELSE ledger.next + Cardinality({j \in 1..(PlaceIn(req.clients, l[1]) - 1) :
                                    LayerOf(req, j) \notin DOMAIN ledger.entries})

(* The requested command keeps the environment of the entry it replaces. *)
SpecFor(disk, req, l) ==
  [command |-> req.command, env |-> disk[Config(l[1])].bytes.entry[l[2]].env]

EditedBytes(disk, req, l) ==
  SetServer(disk[Config(l[1])].bytes, l[2], SpecFor(disk, req, l))

Changes(disk, req, l) == EditedBytes(disk, req, l) # disk[Config(l[1])].bytes

(* Mutant: the configuration is not compared with the ledger. *)
CanRewriteAnyway(disk, ledger, l) ==
  /\ BackupIntact(disk, ledger, l)
  /\ \A k \in Newer(ledger, l) : BackupIntact(disk, ledger, k)

CanRewriteChain(disk, ledger, l) ==
  /\ BackupIntact(disk, ledger, l)
  /\ disk[Config(l[1])] = ledger.entries[Newest(ledger, Layers(ledger, l[1]))].expected
  /\ \A k \in Newer(ledger, l) : BackupIntact(disk, ledger, k)

CanUse(disk, ledger, req) ==
  /\ Readable(ledger)
  /\ \A k \in 1..Len(req.clients) :
       LET l == LayerOf(req, k) IN
       /\ Config(l[1]) \in DOMAIN disk
       /\ Parses(disk[Config(l[1])].bytes)
       /\ IF l \in DOMAIN ledger.entries
          THEN CanRewriteChain(disk, ledger, l)
          ELSE Backup(l[1], SequenceOf(ledger, req, l)) \notin DOMAIN disk

-----------------------------------------------------------------------------
(* Staging a use.  The staged files take the free inodes in the order of   *)
(* the operations.                                                         *)

Changed(disk, req) ==
  {k \in 1..Len(req.clients) : Changes(disk, req, LayerOf(req, k))}

(* The layers that get a backup: a new one its first, and those above a    *)
(* known one theirs again, with the requested entry below them.            *)
Rewritten(disk, req) ==
  LET ledger == LedgerOn(disk) IN
  UNION {LET l == LayerOf(req, k) IN
         IF l \in DOMAIN ledger.entries THEN Newer(ledger, l) ELSE {l} :
           k \in Changed(disk, req)}

(* In the order of their clients, who have one each at most. *)
BackupOrder(disk, req) ==
  SortedBy(Rewritten(disk, req),
           [l \in Rewritten(disk, req) |-> PlaceIn(req.clients, l[1])])

ConfigOrder(disk, req) == SortedBy(Changed(disk, req), [k \in Changed(disk, req) |-> k])

NewBackup(disk, inodes, req, l) ==
  LET asked == AskedFor(req, l[1])
      entry == LedgerOn(disk).entries[l]
  IN [id |-> FreshInode(inodes, PlaceIn(BackupOrder(disk, req), l)),
      bytes |-> IF l \in DOMAIN LedgerOn(disk).entries
                THEN SetServer(entry.backup.bytes, asked[2], SpecFor(disk, req, asked))
                ELSE disk[Config(l[1])].bytes]

NewConfig(disk, inodes, req, k) ==
  [id |-> FreshInode(inodes, Cardinality(Rewritten(disk, req)) + 1
                               + PlaceIn(ConfigOrder(disk, req), k)),
   bytes |-> EditedBytes(disk, req, LayerOf(req, k))]

(* A layer expects what the next newer one backs up, the newest the        *)
(* configuration about to be published.                                    *)
NewExpected(disk, inodes, req, l) ==
  LET ledger == LedgerOn(disk) IN
  IF Newer(ledger, l) # {}
  THEN NewBackup(disk, inodes, req, Oldest(ledger, Newer(ledger, l)))
  ELSE NewConfig(disk, inodes, req, PlaceIn(req.clients, l[1]))

LedgerAfterUse(disk, inodes, req) ==
  LET ledger == LedgerOn(disk)
      asked  == {LayerOf(req, k) : k \in Changed(disk, req)}
      known  == DOMAIN ledger.entries
  IN [next |-> ledger.next
                 + Cardinality({k \in 1..Len(req.clients) : LayerOf(req, k) \notin known}),
      entries |-> [l \in known \cup asked |->
        [sequence |-> SequenceOf(ledger, req, l),
         backup   |-> IF l \in Rewritten(disk, req) THEN NewBackup(disk, inodes, req, l)
                      ELSE ledger.entries[l].backup,
         expected |-> IF l \in asked \cup Rewritten(disk, req)
                      THEN NewExpected(disk, inodes, req, l)
                      ELSE ledger.entries[l].expected]]]

BackupOperation(disk, inodes, req, l) ==
  LET ledger == LedgerOn(disk) IN
  Operation(Backup(l[1], SequenceOf(ledger, req, l)), NewBackup(disk, inodes, req, l),
            IF l \in DOMAIN ledger.entries THEN ledger.entries[l].backup ELSE None)

ConfigOperation(disk, inodes, req, k) ==
  LET c == req.clients[k] IN
  Operation(Config(c), NewConfig(disk, inodes, req, k), disk[Config(c)])

(* Mutant: the ledger before the backups. *)
InLedgerFirstOrder(backups, state, configs) == <<state>> \o backups \o configs

InUseOrder(backups, state, configs) == backups \o <<state>> \o configs

(* Backups first, then the ledger that names them, then configurations. *)
UseOperations(disk, inodes, req) ==
  LET backups == BackupOrder(disk, req)
      configs == ConfigOrder(disk, req)
      state   == [id |-> FreshInode(inodes, Len(backups) + 1),
                  bytes |-> LedgerAfterUse(disk, inodes, req)]
  IN IF Changed(disk, req) = {} THEN <<>>
     ELSE InUseOrder(
            [i \in 1..Len(backups) |-> BackupOperation(disk, inodes, req, backups[i])],
            Operation(State, state, At(disk, State)),
            [i \in 1..Len(configs) |-> ConfigOperation(disk, inodes, req, configs[i])])

-----------------------------------------------------------------------------
(* Reverting: the selected layers, newest first. *)

Selection(ledger, req) ==
  {l \in DOMAIN ledger.entries :
     /\ l[1] \in ToSet(req.clients)
     /\ l[1] # Claude \/ req.scope \in {"any", l[2]}}

Selected(ledger, req) ==
  SortedBy(Selection(ledger, req),
           [l \in Selection(ledger, req) |-> -ledger.entries[l].sequence])

(* The layer of the same client reverted right before the i-th, if any. *)
Above(layers, i) == {j \in 1..(i - 1) : layers[j][1] = layers[i][1]}

LastOf(places) == CHOOSE j \in places : \A m \in places : m <= j

(* A layer must find the configuration it left, or, where a newer layer is *)
(* reverted before it, the bytes that layer restores.                      *)
CanRevert(disk, ledger, req) ==
  LET layers == Selected(ledger, req) IN
  /\ State \in DOMAIN disk
  /\ Readable(ledger)
  /\ \A i \in 1..Len(layers) :
       LET entry == ledger.entries[layers[i]]
           above == Above(layers, i)
       IN
       /\ Config(layers[i][1]) \in DOMAIN disk
       /\ IF above = {}
          THEN disk[Config(layers[i][1])] = entry.expected
          ELSE ledger.entries[layers[LastOf(above)]].backup.bytes = entry.expected.bytes
       /\ BackupIntact(disk, ledger, layers[i])

Restored(disk, inodes, req, i) ==
  LET ledger == LedgerOn(disk) IN
  [id |-> FreshInode(inodes, i),
   bytes |-> ledger.entries[Selected(ledger, req)[i]].backup.bytes]

(* Mutant: the layer below keeps expecting what it left itself. *)
LedgerWithoutHeirs(disk, inodes, req) ==
  LET ledger == LedgerOn(disk) IN
  [ledger EXCEPT !.entries = Without(@, ToSet(Selected(ledger, req)))]

(* The newest layer left below a reverted one expects what was restored. *)
LedgerAfterRevert(disk, inodes, req) ==
  LET ledger   == LedgerOn(disk)
      layers   == Selected(ledger, req)
      left     == DOMAIN ledger.entries \ ToSet(layers)
      Below(l) == {k \in left : l \in Newer(ledger, k)}
      Heirs(k) == {i \in 1..Len(layers) :
                     k \in Below(layers[i]) /\ Newest(ledger, Below(layers[i])) = k}
  IN [next |-> ledger.next,
      entries |-> [k \in left |->
        IF Heirs(k) = {} THEN ledger.entries[k]
        ELSE [ledger.entries[k] EXCEPT !.expected =
                Restored(disk, inodes, req, LastOf(Heirs(k)))]]]

RestoreOperation(disk, inodes, req, i) ==
  LET layers == Selected(LedgerOn(disk), req)
      above  == Above(layers, i)
  IN Operation(Config(layers[i][1]), Restored(disk, inodes, req, i),
               IF above = {} THEN disk[Config(layers[i][1])]
               ELSE Restored(disk, inodes, req, LastOf(above)))

RemoveOperation(disk, l) ==
  LET entry == LedgerOn(disk).entries[l] IN
  Operation(Backup(l[1], entry.sequence), None, entry.backup)

(* Configurations first, then the ledger without them, then the backups. *)
RevertOperations(disk, inodes, req) ==
  LET layers == Selected(LedgerOn(disk), req)
      after  == LedgerAfterRevert(disk, inodes, req)
      state  == IF DOMAIN after.entries = {} THEN None
                ELSE [id |-> FreshInode(inodes, Len(layers) + 1), bytes |-> after]
  IN IF layers = <<>> THEN <<>>
     ELSE [i \in 1..Len(layers) |-> RestoreOperation(disk, inodes, req, i)]
          \o <<Operation(State, state, disk[State])>>
          \o [i \in 1..Len(layers) |-> RemoveOperation(disk, layers[i])]

=============================================================================
