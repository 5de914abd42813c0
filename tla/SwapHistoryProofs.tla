------------------------- MODULE SwapHistoryProofs -------------------------
(***************************************************************************)
(* Proofs about SwapTransaction that go from command to command: what a    *)
(* plan makes of one client's layers, when the bytes that others write are *)
(* new, what a command that ends or dies leaves of the ledger, and over    *)
(* these LostInv, the invariant behind NothingIsLost; then the order that  *)
(* the records keep where nobody disturbs them, with CalmInv, the          *)
(* invariant behind UndisturbedCommandsSucceed; and what taking the layers *)
(* off leads to after faults, with RestoreInv, the invariant behind        *)
(* RevertRestores.                                                         *)
(***************************************************************************)
EXTENDS SwapTransactionProofs

-----------------------------------------------------------------------------
(* Where a plan leads: the disk with every destination written.            *)

LastOn(ops, p) == LastOf({i \in 1..Len(ops) : ops[i].dest = p})

Aim(d, ops, p) ==
  IF \E i \in 1..Len(ops) : ops[i].dest = p THEN ops[LastOn(ops, p)].staged ELSE At(d, p)

Target(d, ops) ==
  [p \in {p \in DOMAIN d \cup {ops[i].dest : i \in 1..Len(ops)} : Aim(d, ops, p) # None} |->
     Aim(d, ops, p)]

\* What a disk and the target of a plan have in common.
Proper(d) == \A p : (p \in DOMAIN d <=> At(d, p) # None) /\ At(d, p) \in AllFiles \cup {None}

LEMMA DiskIsProper ==
  ASSUME NEW d, IsDisk(d)
  PROVE  Proper(d)
  BY AtFacts DEF Proper

LEMMA TargetFacts ==
  ASSUME NEW d, IsDisk(d), NEW ops \in Seq(Operations)
  PROVE  /\ \A p : At(Target(d, ops), p) = Aim(d, ops, p)
         /\ \A p : (\A i \in 1..Len(ops) : ops[i].dest # p) => At(Target(d, ops), p) = At(d, p)
         /\ \A i \in 1..Len(ops) : (\A j \in 1..Len(ops) : j > i => ops[j].dest # ops[i].dest)
              => At(Target(d, ops), ops[i].dest) = ops[i].staged
         /\ \A p : (\E i \in 1..Len(ops) : ops[i].dest = p) =>
              \E i \in 1..Len(ops) : /\ ops[i].dest = p
                                     /\ \A j \in 1..Len(ops) : j > i => ops[j].dest # p
         /\ Proper(Target(d, ops))
  <1> DEFINE n == Len(ops)
             Of(p) == {i \in 1..n : ops[i].dest = p}
  <1>1. n \in Nat /\ \A i \in 1..n : ops[i] \in Operations
    OBVIOUS
  <1>2. ASSUME NEW p, \E i \in 1..n : ops[i].dest = p
        PROVE  LastOn(ops, p) \in Of(p) /\ \A j \in Of(p) : j <= LastOn(ops, p)
    <2>1. Of(p) \in SUBSET Nat /\ Of(p) # {} /\ \A j \in Of(p) : j <= n
      BY <1>1, <1>2
    <2> QED
      BY <1>1, <2>1, FiniteSetHasMaximum DEF LastOn
  <1>3. ASSUME NEW p PROVE At(Target(d, ops), p) = Aim(d, ops, p)
    <2>1. CASE \E i \in 1..n : ops[i].dest = p
      <3>1. p \in {ops[i].dest : i \in 1..n}
        BY <2>1
      <3> QED
        BY <3>1 DEF Target, At
    <2>2. CASE ~\E i \in 1..n : ops[i].dest = p
      <3>1. Aim(d, ops, p) = At(d, p) /\ (p \in DOMAIN d <=> At(d, p) # None)
        BY <2>2, AtFacts DEF Aim
      <3>2. p \notin {ops[i].dest : i \in 1..n}
        BY <2>2
      <3>3. p \in DOMAIN Target(d, ops) <=> p \in DOMAIN d /\ Aim(d, ops, p) # None
        BY <3>2 DEF Target
      <3>4. p \in DOMAIN Target(d, ops) => Target(d, ops)[p] = Aim(d, ops, p)
        BY DEF Target
      <3> QED
        BY <3>1, <3>3, <3>4 DEF At
    <2> QED
      BY <2>1, <2>2
  <1>4. ASSUME NEW p, \A i \in 1..n : ops[i].dest # p
        PROVE  At(Target(d, ops), p) = At(d, p)
    BY <1>3, <1>4 DEF Aim
  <1>5. ASSUME NEW i \in 1..n, \A j \in 1..n : j > i => ops[j].dest # ops[i].dest
        PROVE  At(Target(d, ops), ops[i].dest) = ops[i].staged
    <2>1. LastOn(ops, ops[i].dest) = i
      BY <1>1, <1>2, <1>5
    <2> QED
      BY <1>3, <2>1 DEF Aim
  <1>6. ASSUME NEW p, \E i \in 1..n : ops[i].dest = p
        PROVE  \E i \in 1..n : ops[i].dest = p /\ \A j \in 1..n : j > i => ops[j].dest # p
    <2>1. LastOn(ops, p) \in 1..n /\ ops[LastOn(ops, p)].dest = p
      BY <1>2, <1>6
    <2>2. \A j \in 1..n : j > LastOn(ops, p) => ops[j].dest # p
      BY <1>1, <1>2, <1>6
    <2> QED
      BY <2>1, <2>2
  <1>7. ASSUME NEW p PROVE At(Target(d, ops), p) \in AllFiles \cup {None}
    <2>1. CASE \E i \in 1..n : ops[i].dest = p
      <3>1. LastOn(ops, p) \in 1..n
        BY <1>2, <2>1
      <3> QED
        BY <1>1, <1>3, <2>1, <3>1 DEF Aim, Operations
    <2>2. CASE ~\E i \in 1..n : ops[i].dest = p
      BY <1>4, <2>2, AtFacts
    <2> QED
      BY <2>1, <2>2
  <1>8. ASSUME NEW p PROVE p \in DOMAIN Target(d, ops) <=> At(Target(d, ops), p) # None
    <2>1. p \in DOMAIN Target(d, ops) => Aim(d, ops, p) # None
      BY DEF Target
    <2>2. p \notin DOMAIN Target(d, ops) => At(Target(d, ops), p) = None
      BY DEF At
    <2> QED
      BY <1>3, <2>1, <2>2
  <1> QED
    BY <1>3, <1>4, <1>5, <1>6, <1>7, <1>8 DEF Proper

-----------------------------------------------------------------------------
(* The layers of a client on a disk, none if the ledger cannot be read.    *)

LayersOn(d, c) == IF Readable(LedgerOn(d)) THEN Layers(LedgerOn(d), c) ELSE {}

Entry(d, l) == LedgerOn(d).entries[l]

LEMMA LedgerAtFacts ==
  ASSUME NEW d
  PROVE  LedgerOn(d) = IF State \in DOMAIN d THEN At(d, State).bytes ELSE EmptyLedger
  BY DEF LedgerOn, At

\* Two disks with the same ledger.
LEMMA SameLedger ==
  ASSUME NEW d, NEW e, Proper(d), Proper(e), At(d, State) = At(e, State)
  PROVE  LedgerOn(e) = LedgerOn(d)
  BY LedgerAtFacts DEF Proper

\* A ledger of a proper disk that can be read is a ledger.
LEMMA ReadableLedger ==
  ASSUME NEW d, Proper(d), Readable(LedgerOn(d))
  PROVE  LedgerOn(d) \in LedgerBytes
  <1>1. CASE State \in DOMAIN d
    <2>1. At(d, State) \in AllFiles
      BY <1>1 DEF Proper
    <2> QED
      BY <1>1, <2>1, LedgerAtFacts, FileFacts, LedgerTypes
  <1>2. CASE State \notin DOMAIN d
    BY <1>2, LedgerAtFacts, LedgerTypes
  <1> QED
    BY <1>1, <1>2

\* What the layers of a client are, and how many there can be.
LEMMA LayersFacts ==
  ASSUME NEW d, Proper(d), NEW c, NEW l \in LayersOn(d, c)
  PROVE  /\ Readable(LedgerOn(d)) /\ LayersOn(d, c) = Layers(LedgerOn(d), c)
         /\ l \in DOMAIN LedgerOn(d).entries /\ l \in Keys /\ l[1] = c /\ l[2] \in Scopes
         /\ Entry(d, l).sequence \in Nat /\ Entry(d, l).sequence < LedgerOn(d).next
         /\ Entry(d, l).backup \in ConfigFiles /\ Entry(d, l).expected \in ConfigFiles
         /\ \A k \in LayersOn(d, c) : /\ Entry(d, k).sequence = Entry(d, l).sequence => k = l
                                      /\ k[2] = l[2] => k = l
         /\ \A k \in LayersOn(d, c) : k # l => LayersOn(d, c) = {k, l}
  <1> DEFINE L == LedgerOn(d)
  <1>1. Readable(L) /\ LayersOn(d, c) = Layers(L, c) /\ L \in LedgerBytes
    BY ReadableLedger DEF LayersOn
  <1>2. \A k \in LayersOn(d, c) : k \in DOMAIN L.entries /\ k[1] = c /\ k \in Keys /\ k[2] \in Scopes
    <2>1. DOMAIN L.entries \subseteq Keys
      BY <1>1, LedgerFacts
    <2> QED
      BY <1>1, <2>1, KeyFacts DEF Layers
  <1>3. \A k \in DOMAIN L.entries :
          /\ L.entries[k].sequence \in Nat /\ L.entries[k].sequence < L.next
          /\ L.entries[k].backup \in ConfigFiles /\ L.entries[k].expected \in ConfigFiles
          /\ \A m \in DOMAIN L.entries : L.entries[m].sequence = L.entries[k].sequence => m = k
    BY <1>1, LedgerFacts
  <1>4. \A k, m \in LayersOn(d, c) : k[2] = m[2] => k = m
    <2> SUFFICES ASSUME NEW k \in LayersOn(d, c), NEW m \in LayersOn(d, c), k[2] = m[2] PROVE k = m
      OBVIOUS
    <2>1. k \in Keys /\ m \in Keys /\ k[1] = m[1]
      BY <1>2
    <2>2. k = <<k[1], k[2]>> /\ m = <<m[1], m[2]>>
      BY <2>1, KeyFacts
    <2> QED
      BY <2>1, <2>2, Zenon
  <1>5. ASSUME NEW k \in LayersOn(d, c), k # l PROVE LayersOn(d, c) = {k, l}
    <2>1. \A m \in LayersOn(d, c) : m[2] = k[2] \/ m[2] = l[2]
      BY <1>2, <1>4, <1>5 DEF Scopes
    <2> QED
      BY <1>4, <1>5, <2>1
  <1> QED
    BY <1>1, <1>2, <1>3, <1>4, <1>5 DEF Entry

-----------------------------------------------------------------------------
(* What a plan makes of one client: of its layers, its configuration and   *)
(* its backups.                                                            *)

\* Two configurations that agree but for one scope's entry.
SameBut(a, b, s) == a.rest = b.rest /\ \A t \in Scopes : t # s => a.entry[t] = b.entry[t]

OwnBackup(d, l) == At(d, Backup(l[1], Entry(d, l).sequence))

KeepsBackup(d, e, c, n) == At(e, Backup(c, n)) = At(d, Backup(c, n))

\* A layer keeps its place and its backup.
KeepsLayer(d, e, l) ==
  Entry(e, l).sequence = Entry(d, l).sequence /\ Entry(e, l).backup = Entry(d, l).backup

Leaves(d, e, c) ==
  /\ LayersOn(e, c) = LayersOn(d, c)
  /\ \A l \in LayersOn(d, c) : Entry(e, l) = Entry(d, l)
  /\ At(e, Config(c)) = At(d, Config(c))
  /\ \A n \in Nat : KeepsBackup(d, e, c, n)

\* A use of a scope that had no layer.
Adds(d, e, c, l) ==
  /\ l \notin LayersOn(d, c) /\ LayersOn(e, c) = LayersOn(d, c) \cup {l}
  /\ \A k \in LayersOn(d, c) : /\ Entry(e, k) = Entry(d, k)
                               /\ Entry(d, k).sequence < Entry(e, l).sequence
  /\ At(d, Config(c)) \in ConfigFiles /\ At(e, Config(c)) = Entry(e, l).expected
  /\ At(d, Backup(c, Entry(e, l).sequence)) = None
  /\ At(e, Backup(c, Entry(e, l).sequence)) = Entry(e, l).backup
  /\ Entry(e, l).backup.bytes = At(d, Config(c)).bytes
  /\ SameBut(At(d, Config(c)).bytes, At(e, Config(c)).bytes, l[2])
  /\ \A n \in Nat : n # Entry(e, l).sequence => KeepsBackup(d, e, c, n)

\* A use of the scope of the newest layer.
Renews(d, e, c, l) ==
  /\ l \in LayersOn(d, c) /\ LayersOn(e, c) = LayersOn(d, c)
  /\ \A k \in LayersOn(d, c) \ {l} : /\ Entry(e, k) = Entry(d, k)
                                     /\ Entry(d, k).sequence < Entry(d, l).sequence
  /\ At(d, Config(c)) = Entry(d, l).expected /\ OwnBackup(d, l) = Entry(d, l).backup
  /\ KeepsLayer(d, e, l) /\ At(e, Config(c)) = Entry(e, l).expected
  /\ SameBut(At(d, Config(c)).bytes, At(e, Config(c)).bytes, l[2])
  /\ \A n \in Nat : KeepsBackup(d, e, c, n)

\* A use of the scope of a layer l that has a newer one, k, above it.
Relays(d, e, c, l, k) ==
  /\ l \in LayersOn(d, c) /\ k \in LayersOn(d, c) /\ LayersOn(e, c) = LayersOn(d, c)
  /\ Entry(d, l).sequence < Entry(d, k).sequence
  /\ At(d, Config(c)) = Entry(d, k).expected
  /\ OwnBackup(d, l) = Entry(d, l).backup /\ OwnBackup(d, k) = Entry(d, k).backup
  /\ KeepsLayer(d, e, l) /\ Entry(e, k).sequence = Entry(d, k).sequence
  /\ Entry(e, l).expected = Entry(e, k).backup /\ Entry(e, k).expected = At(e, Config(c))
  /\ OwnBackup(e, k) = Entry(e, k).backup
  /\ \E s \in ServerEntries :
       /\ Entry(e, k).backup.bytes = SetServer(Entry(d, k).backup.bytes, l[2], s)
       /\ At(e, Config(c)).bytes = SetServer(At(d, Config(c)).bytes, l[2], s)
  /\ \A n \in Nat : n # Entry(d, k).sequence => KeepsBackup(d, e, c, n)

\* A revert of every layer, l being the oldest and k the newest.
Clears(d, e, c, l, k) ==
  /\ l \in LayersOn(d, c) /\ k \in LayersOn(d, c) /\ LayersOn(e, c) = {}
  /\ \A m \in LayersOn(d, c) : m = l \/ m = k
  /\ At(d, Config(c)) = Entry(d, k).expected
  /\ OwnBackup(d, l) = Entry(d, l).backup /\ OwnBackup(d, k) = Entry(d, k).backup
  /\ k # l => /\ Entry(d, l).sequence < Entry(d, k).sequence
              /\ Entry(d, k).backup.bytes = Entry(d, l).expected.bytes
  /\ At(e, Config(c)) \in ConfigFiles /\ At(e, Config(c)).bytes = Entry(d, l).backup.bytes
  /\ \A n \in Nat : IF n \in {Entry(d, l).sequence, Entry(d, k).sequence}
                    THEN At(e, Backup(c, n)) = None ELSE KeepsBackup(d, e, c, n)

\* A revert of one layer, l, of two.
Drops(d, e, c, l, m) ==
  /\ l # m /\ LayersOn(d, c) = {l, m} /\ LayersOn(e, c) = {m}
  /\ At(d, Config(c)) = Entry(d, l).expected /\ OwnBackup(d, l) = Entry(d, l).backup
  /\ KeepsLayer(d, e, m)
  /\ Entry(e, m).expected = IF Entry(d, l).sequence < Entry(d, m).sequence
                            THEN Entry(d, m).expected ELSE At(e, Config(c))
  /\ At(e, Config(c)) \in ConfigFiles /\ At(e, Config(c)).bytes = Entry(d, l).backup.bytes
  /\ \A n \in Nat : IF n = Entry(d, l).sequence
                    THEN At(e, Backup(c, n)) = None ELSE KeepsBackup(d, e, c, n)

Turns(d, e, c) ==
  \/ Leaves(d, e, c)
  \/ \E l \in Keys : Adds(d, e, c, l) \/ Renews(d, e, c, l)
  \/ \E l, k \in Keys : Relays(d, e, c, l, k) \/ Clears(d, e, c, l, k) \/ Drops(d, e, c, l, k)

-----------------------------------------------------------------------------
(* The ledger that a use leaves can be read.                               *)

CountNew(L, req, p) == Cardinality({j \in 1..p : LayerOf(req, j) \notin DOMAIN L.entries})

LEMMA CountNewGrows ==
  ASSUME NEW L, NEW req, NEW p \in Nat, NEW q \in Nat, p <= q
  PROVE  /\ CountNew(L, req, p) \in Nat /\ CountNew(L, req, q) \in Nat
         /\ CountNew(L, req, p) <= CountNew(L, req, q)
         /\ p < q /\ LayerOf(req, q) \notin DOMAIN L.entries
              => CountNew(L, req, p) < CountNew(L, req, q)
  <1> DEFINE P == {j \in 1..p : LayerOf(req, j) \notin DOMAIN L.entries}
             Q == {j \in 1..q : LayerOf(req, j) \notin DOMAIN L.entries}
  <1>1. IsFiniteSet(1..q) /\ Q \in SUBSET (1..q)
    BY FS_Interval
  <1>2. IsFiniteSet(Q)
    BY <1>1, FS_Subset
  <1>3. P \in SUBSET Q /\ (p < q /\ LayerOf(req, q) \notin DOMAIN L.entries => q \in Q /\ q \notin P)
    OBVIOUS
  <1> HIDE DEF P, Q
  <1>4. IsFiniteSet(P) /\ Cardinality(P) <= Cardinality(Q) /\ (Cardinality(P) = Cardinality(Q) => P = Q)
    BY <1>2, <1>3, FS_Subset
  <1>5. Cardinality(P) \in Nat /\ Cardinality(Q) \in Nat
    BY <1>2, <1>4, FS_CardinalityType
  <1>6. p < q /\ LayerOf(req, q) \notin DOMAIN L.entries => Cardinality(P) < Cardinality(Q)
    BY <1>3, <1>4, <1>5
  <1> QED
    BY <1>4, <1>5, <1>6 DEF CountNew, P, Q

LEMMA UseReadable ==
  ASSUME NEW d, NEW U, NEW req, UsePremise(d, U, req)
  PROVE  Readable(LedgerAfterUse(d, U, req))
  <1> DEFINE L == LedgerOn(d)
             A == LedgerAfterUse(d, U, req)
             n == Len(req.clients)
             New(p) == CountNew(L, req, p)
  <1>1. /\ A \in LedgerBytes /\ A.next >= L.next
        /\ DOMAIN A.entries = DOMAIN L.entries \cup {LayerOf(req, k) : k \in Changed(d, req)}
        /\ \A l \in DOMAIN A.entries : A.entries[l].sequence = SequenceOf(L, req, l)
    BY UseLedger
  <1>2. L \in LedgerBytes /\ Readable(L)
    BY UseReads
  <1>3. req \in Requests /\ req.kind = "use" /\ n \in Nat /\ L.next \in Nat
        /\ Changed(d, req) \subseteq 1..n
    BY <1>2, RequestFacts, LedgerFacts, RewrittenFacts DEF UsePremise, IsSelection
  <1>4. A.next = L.next + New(n)
    BY DEF LedgerAfterUse, CountNew
  <1>5. \A l \in DOMAIN A.entries : l \in DOMAIN L.entries \/
          \E k \in 1..n : l = LayerOf(req, k) /\ l \notin DOMAIN L.entries
    BY <1>1, <1>3
  <1>6. ASSUME NEW k \in 1..n, LayerOf(req, k) \notin DOMAIN L.entries
        PROVE  /\ SequenceOf(L, req, LayerOf(req, k)) = L.next + New(k - 1)
               /\ New(k - 1) \in Nat /\ New(k - 1) < New(n)
               /\ LayerOf(req, k) \in Clients \X Scopes
               /\ LayerOf(req, k)[2] = EffectiveScope(LayerOf(req, k)[1], LayerOf(req, k)[2])
    <2>1. PlaceIn(req.clients, LayerOf(req, k)[1]) = k
      BY <1>3, AskedFacts
    <2>2. SequenceOf(L, req, LayerOf(req, k)) = L.next + New(k - 1)
      BY <1>6, <2>1 DEF SequenceOf, CountNew
    <2>3. New(k - 1) \in Nat /\ New(k - 1) < New(k) /\ New(k) \in Nat
      BY <1>3, <1>6, CountNewGrows
    <2>4. New(k) <= New(n) /\ New(n) \in Nat
      BY <1>3, CountNewGrows
    <2>6. LayerOf(req, k) \in Keys /\ LayerOf(req, k)[1] = req.clients[k]
          /\ LayerOf(req, k)[2] = EffectiveScope(req.clients[k], req.scope)
      BY <1>3, AskedFacts
    <2>7. EffectiveScope(req.clients[k], req.scope)
            = EffectiveScope(req.clients[k], EffectiveScope(req.clients[k], req.scope))
      BY DEF EffectiveScope
    <2> QED
      BY <2>2, <2>3, <2>4, <2>6, <2>7 DEF Keys
  <1>7. \A l \in DOMAIN L.entries :
          /\ l \in Clients \X Scopes /\ l[2] = EffectiveScope(l[1], l[2])
          /\ L.entries[l].sequence \in 0..(L.next - 1)
          /\ SequenceOf(L, req, l) = L.entries[l].sequence
          /\ \A k \in DOMAIN L.entries : L.entries[k].sequence = L.entries[l].sequence => k = l
    BY <1>2, <1>3 DEF Readable, SequenceOf
  <1>8. A.next \in Nat /\ DOMAIN A = {"next", "entries"}
    BY <1>1 DEF LedgerBytes
  <1>9. ASSUME NEW l \in DOMAIN A.entries
        PROVE  /\ l \in Clients \X Scopes /\ l[2] = EffectiveScope(l[1], l[2])
               /\ SequenceOf(L, req, l) \in 0..(A.next - 1)
    <2>1. CASE l \in DOMAIN L.entries
      BY <1>1, <1>3, <1>7, <1>8, <2>1
    <2>2. CASE l \notin DOMAIN L.entries
      <3>1. PICK k \in 1..n : l = LayerOf(req, k) /\ l \notin DOMAIN L.entries
        BY <1>5, <2>2
      <3>2. New(n) \in Nat
        BY <1>3, CountNewGrows
      <3> HIDE DEF New
      <3>3. /\ SequenceOf(L, req, l) = L.next + New(k - 1)
            /\ New(k - 1) \in Nat /\ New(k - 1) < New(n)
            /\ l \in Clients \X Scopes /\ l[2] = EffectiveScope(l[1], l[2])
        BY <1>6, <3>1
      <3> QED
        BY <1>3, <1>4, <3>2, <3>3
    <2> QED
      BY <2>1, <2>2
  <1>10. ASSUME NEW l \in DOMAIN A.entries, NEW m \in DOMAIN A.entries,
                SequenceOf(L, req, m) = SequenceOf(L, req, l)
         PROVE  m = l
    <2>1. CASE l \in DOMAIN L.entries /\ m \in DOMAIN L.entries
      BY <1>7, <1>10, <2>1
    <2>2. ASSUME NEW x \in DOMAIN A.entries, NEW y \in DOMAIN A.entries,
                 x \in DOMAIN L.entries, y \notin DOMAIN L.entries
          PROVE  SequenceOf(L, req, x) # SequenceOf(L, req, y)
      <3>1. PICK k \in 1..n : y = LayerOf(req, k) /\ y \notin DOMAIN L.entries
        BY <1>5, <2>2
      <3> HIDE DEF New
      <3>2. SequenceOf(L, req, y) = L.next + New(k - 1) /\ New(k - 1) \in Nat
        BY <1>6, <3>1
      <3>3. SequenceOf(L, req, x) \in 0..(L.next - 1)
        BY <1>7, <2>2
      <3> QED
        BY <1>3, <3>2, <3>3
    <2>3. CASE l \notin DOMAIN L.entries /\ m \notin DOMAIN L.entries
      <3>1. PICK i \in 1..n : l = LayerOf(req, i) /\ l \notin DOMAIN L.entries
        BY <1>5, <2>3
      <3>2. PICK j \in 1..n : m = LayerOf(req, j) /\ m \notin DOMAIN L.entries
        BY <1>5, <2>3
      <3>3. ASSUME NEW x \in 1..n, NEW y \in 1..n, x < y, LayerOf(req, x) \notin DOMAIN L.entries,
                   LayerOf(req, y) \notin DOMAIN L.entries
            PROVE  SequenceOf(L, req, LayerOf(req, x)) # SequenceOf(L, req, LayerOf(req, y))
        <4>1. CASE x = y - 1
          <5>1. New(x - 1) \in Nat /\ New(x) \in Nat /\ New(x - 1) < New(x)
            BY <1>3, <3>3, CountNewGrows
          <5> HIDE DEF New
          <5>2. SequenceOf(L, req, LayerOf(req, x)) = L.next + New(x - 1)
                /\ SequenceOf(L, req, LayerOf(req, y)) = L.next + New(x)
            BY <1>6, <3>3, <4>1
          <5> QED
            BY <1>3, <5>1, <5>2
        <4>2. CASE x < y - 1
          <5>1. New(x - 1) \in Nat /\ New(x) \in Nat /\ New(x - 1) < New(x)
            BY <1>3, <3>3, CountNewGrows
          <5>2. New(x) <= New(y - 1) /\ New(y - 1) \in Nat
            BY <1>3, <4>2, CountNewGrows
          <5> HIDE DEF New
          <5>3. SequenceOf(L, req, LayerOf(req, x)) = L.next + New(x - 1)
                /\ SequenceOf(L, req, LayerOf(req, y)) = L.next + New(y - 1)
            BY <1>6, <3>3
          <5> QED
            BY <1>3, <5>1, <5>2, <5>3
        <4> QED
          BY <1>3, <3>3, <4>1, <4>2
      <3>4. ~(i < j) /\ ~(j < i)
        BY <1>10, <3>1, <3>2, <3>3
      <3>5. i = j
        BY <1>3, <3>4
      <3> QED
        BY <3>1, <3>2, <3>5
    <2> QED
      BY <1>10, <2>1, <2>2, <2>3
  <1> HIDE DEF A
  <1>11. Readable(A)
    BY <1>1, <1>8, <1>9, <1>10 DEF Readable
  <1> QED
    BY <1>11 DEF A

\* Where a use leads.
LEMMA UseTarget ==
  ASSUME NEW d, NEW U, NEW req, UsePremise(d, U, req), Changed(d, req) # {}
  PROVE  LET T == Target(d, UseOperations(d, U, req))
             L == LedgerOn(d)
         IN /\ Proper(d) /\ Proper(T) /\ LedgerOn(T) = LedgerAfterUse(d, U, req)
            /\ \A k \in Changed(d, req) : At(T, Config(req.clients[k])) = NewConfig(d, U, req, k)
            /\ \A l \in Rewritten(d, req) :
                 At(T, Backup(l[1], SequenceOf(L, req, l))) = NewBackup(d, U, req, l)
            /\ \A c \in Clients : (\A k \in Changed(d, req) : req.clients[k] # c) =>
                 At(T, Config(c)) = At(d, Config(c))
            /\ \A c \in Clients, n \in Nat :
                 (\A l \in Rewritten(d, req) : l[1] = c => SequenceOf(L, req, l) # n) =>
                   At(T, Backup(c, n)) = At(d, Backup(c, n))
  <1> DEFINE ops == UseOperations(d, U, req)
             T == Target(d, ops)
             L == LedgerOn(d)
             b == BackupOrder(d, req)
             q == ConfigOrder(d, req)
  <1>1. /\ ops \in Seq(Operations) /\ Len(ops) = Len(b) + 1 + Len(q)
        /\ \A i \in 1..Len(ops) : \/ UseBackupAt(d, U, req, ops, i)
                                  \/ UseLedgerAt(d, U, req, ops, i)
                                  \/ UseConfigAt(d, U, req, ops, i)
        /\ \A i \in 1..Len(b) : UseBackupAt(d, U, req, ops, i)
        /\ UseLedgerAt(d, U, req, ops, Len(b) + 1)
        /\ \A j \in 1..Len(q) : UseConfigAt(d, U, req, ops, Len(b) + 1 + j)
    BY UseOperationsFacts
  <1>2. IsDisk(d) /\ Proper(d)
    BY DiskIsProper DEF UsePremise
  <1>3. /\ Len(b) \in Nat /\ Len(q) \in Nat
        /\ \A l \in Rewritten(d, req) : PlaceIn(b, l) \in 1..Len(b) /\ b[PlaceIn(b, l)] = l
        /\ \A k \in Changed(d, req) : PlaceIn(q, k) \in 1..Len(q) /\ q[PlaceIn(q, k)] = k
    BY UseOrders
  <1>4. \A i, j \in 1..Len(ops) : ops[i].dest = ops[j].dest => i = j
    BY UseWritesOnce
  <1> HIDE DEF ops
  <1>5. \A i \in 1..Len(ops) : At(T, ops[i].dest) = ops[i].staged
    <2> SUFFICES ASSUME NEW i \in 1..Len(ops) PROVE At(T, ops[i].dest) = ops[i].staged
      OBVIOUS
    <2>1. \A j \in 1..Len(ops) : j > i => ops[j].dest # ops[i].dest
      BY <1>1, <1>4
    <2> QED
      BY <1>1, <1>2, <2>1, TargetFacts
  <1>6. Proper(T)
    BY <1>1, <1>2, TargetFacts
  <1>7. LedgerOn(T) = LedgerAfterUse(d, U, req)
    <2>1. Len(b) + 1 \in 1..Len(ops)
      BY <1>1, <1>3
    <2>2. At(T, State) \in AllFiles /\ At(T, State).bytes = LedgerAfterUse(d, U, req)
      BY <1>1, <1>5, <2>1 DEF UseLedgerAt
    <2>3. State \in DOMAIN T
      BY <1>6, <2>2, FileFacts DEF Proper
    <2> QED
      BY <2>2, <2>3, LedgerAtFacts
  <1>8. ASSUME NEW k \in Changed(d, req)
        PROVE  At(T, Config(req.clients[k])) = NewConfig(d, U, req, k)
    <2> DEFINE i == Len(b) + 1 + PlaceIn(q, k)
    <2>1. i \in 1..Len(ops) /\ i - Len(b) - 1 = PlaceIn(q, k) /\ PlaceIn(q, k) \in 1..Len(q)
      BY <1>1, <1>3
    <2>2. UseConfigAt(d, U, req, ops, i)
      BY <1>1, <2>1
    <2>3. q[i - Len(b) - 1] = k
      BY <1>3, <2>1
    <2> HIDE DEF i
    <2>4. ops[i].dest = Config(req.clients[k]) /\ ops[i].staged = NewConfig(d, U, req, k)
      BY <2>2, <2>3 DEF UseConfigAt
    <2> QED
      BY <1>5, <2>1, <2>4
  <1>9. ASSUME NEW l \in Rewritten(d, req)
        PROVE  At(T, Backup(l[1], SequenceOf(L, req, l))) = NewBackup(d, U, req, l)
    <2> DEFINE i == PlaceIn(b, l)
    <2>1. i \in 1..Len(ops) /\ i \in 1..Len(b) /\ b[i] = l
      BY <1>1, <1>3
    <2>2. UseBackupAt(d, U, req, ops, i)
      BY <1>1, <2>1
    <2> HIDE DEF i
    <2>3. ops[i].dest = Backup(l[1], SequenceOf(L, req, l)) /\ ops[i].staged = NewBackup(d, U, req, l)
      BY <2>1, <2>2 DEF UseBackupAt
    <2> QED
      BY <1>5, <2>1, <2>3
  <1>10. ASSUME NEW c \in Clients, \A k \in Changed(d, req) : req.clients[k] # c
         PROVE  At(T, Config(c)) = At(d, Config(c))
    <2>1. ASSUME NEW i \in 1..Len(ops) PROVE ops[i].dest # Config(c)
      <3>1. CASE UseConfigAt(d, U, req, ops, i)
        <4>1. PICK k \in Changed(d, req) : ops[i].dest = Config(req.clients[k])
          BY <3>1 DEF UseConfigAt
        <4> QED
          BY <1>10, <4>1, NameFacts
      <3>2. CASE ~UseConfigAt(d, U, req, ops, i)
        BY <1>1, <3>2, HomesDiffer DEF UseBackupAt, UseLedgerAt
      <3> QED
        BY <3>1, <3>2
    <2> QED
      BY <1>1, <1>2, <2>1, TargetFacts
  <1>11. ASSUME NEW c \in Clients, NEW n \in Nat,
                \A l \in Rewritten(d, req) : l[1] = c => SequenceOf(L, req, l) # n
         PROVE  At(T, Backup(c, n)) = At(d, Backup(c, n))
    <2>1. ASSUME NEW i \in 1..Len(ops) PROVE ops[i].dest # Backup(c, n)
      <3>1. CASE UseBackupAt(d, U, req, ops, i)
        <4>1. PICK l \in Rewritten(d, req) : ops[i].dest = Backup(l[1], SequenceOf(L, req, l))
          BY <3>1 DEF UseBackupAt
        <4> QED
          BY <1>11, <4>1, BackupsDiffer
      <3>2. CASE ~UseBackupAt(d, U, req, ops, i)
        BY <1>1, <3>2, HomesDiffer DEF UseConfigAt, UseLedgerAt
      <3> QED
        BY <3>1, <3>2
    <2> QED
      BY <1>1, <1>2, <2>1, TargetFacts
  <1> QED
    BY <1>2, <1>6, <1>7, <1>8, <1>9, <1>10, <1>11 DEF ops

\* The layer of c that a use asks for, if it changes the client's configuration.
AskedLayers(d, req, c) == {l \in {LayerOf(req, k) : k \in Changed(d, req)} : l[1] = c}

\* The layers of a client in the ledger e that a use leaves.
UseOf(d, U, req, e, c, asked) ==
  /\ LayersOn(d, c) = Layers(LedgerOn(d), c) /\ LayersOn(e, c) = LayersOn(d, c) \cup asked
  /\ \A l \in asked :
       /\ asked = {l} /\ l \in Keys /\ l[1] = c /\ l[2] \in Scopes
       /\ AskedFor(req, c) = l /\ LayerOf(req, PlaceIn(req.clients, c)) = l
       /\ PlaceIn(req.clients, c) \in Changed(d, req)
       /\ PlaceIn(req.clients, c) \in 1..Len(req.clients)
       /\ req.clients[PlaceIn(req.clients, c)] = c
       /\ IF l \in LayersOn(d, c) THEN Newer(LedgerOn(d), l) \subseteq Rewritten(d, req)
                                  ELSE l \in Rewritten(d, req)
  /\ \A m \in LayersOn(e, c) :
       /\ Entry(e, m).sequence = SequenceOf(LedgerOn(d), req, m)
       /\ Entry(e, m).backup = IF m \in Rewritten(d, req) THEN NewBackup(d, U, req, m)
                               ELSE Entry(d, m).backup
       /\ Entry(e, m).expected = IF m \in asked \cup Rewritten(d, req)
                                 THEN NewExpected(d, U, req, m)
                                 ELSE Entry(d, m).expected
  /\ \A m \in LayersOn(d, c) :
       /\ Entry(e, m).sequence = Entry(d, m).sequence
       /\ m \notin asked /\ m \notin Rewritten(d, req) => Entry(e, m) = Entry(d, m)
  /\ \A m \in Rewritten(d, req) : m[1] = c =>
       \E l \in asked : IF l \in LayersOn(d, c) THEN m \in Newer(LedgerOn(d), l) ELSE m = l

LEMMA UseEntries ==
  ASSUME NEW d, NEW U, NEW req, UsePremise(d, U, req), Changed(d, req) # {},
         NEW c \in Clients
  PROVE  UseOf(d, U, req, Target(d, UseOperations(d, U, req)), c, AskedLayers(d, req, c))
  <1> DEFINE T == Target(d, UseOperations(d, U, req))
             L == LedgerOn(d)
             A == LedgerAfterUse(d, U, req)
             k == PlaceIn(req.clients, c)
             every == {LayerOf(req, j) : j \in Changed(d, req)}
             asked == AskedLayers(d, req, c)
  <1>1. L \in LedgerBytes /\ Readable(L) /\ Readable(A) /\ LedgerOn(T) = A
    BY UseReads, UseReadable, UseTarget
  <1>2. LayersOn(d, c) = Layers(L, c) /\ LayersOn(T, c) = Layers(A, c)
    BY <1>1 DEF LayersOn
  <1>3. /\ A \in LedgerBytes /\ DOMAIN A.entries = DOMAIN L.entries \cup every
        /\ \A m \in DOMAIN A.entries :
             /\ A.entries[m].sequence = SequenceOf(L, req, m)
             /\ A.entries[m].backup = IF m \in Rewritten(d, req) THEN NewBackup(d, U, req, m)
                                      ELSE L.entries[m].backup
             /\ A.entries[m].expected = IF m \in every \cup Rewritten(d, req)
                                        THEN NewExpected(d, U, req, m)
                                        ELSE L.entries[m].expected
    BY UseLedger
  <1>4. req \in Requests /\ req.kind = "use" /\ Changed(d, req) \subseteq 1..Len(req.clients)
    BY RewrittenFacts DEF UsePremise
  <1>5. ASSUME NEW l \in asked
        PROVE  /\ l \in Keys /\ l[1] = c /\ l[2] \in Scopes
               /\ AskedFor(req, c) = l /\ LayerOf(req, k) = l
               /\ k \in Changed(d, req) /\ k \in 1..Len(req.clients) /\ req.clients[k] = c
    <2>1. PICK j \in Changed(d, req) : l = LayerOf(req, j)
      BY DEF AskedLayers
    <2>2. l[1] = c /\ j \in 1..Len(req.clients)
      BY <1>4 DEF AskedLayers
    <2>3. l[1] = req.clients[j] /\ l \in Keys
      BY <1>4, <2>1, <2>2, AskedFacts
    <2>4. PlaceIn(req.clients, c) = j /\ AskedFor(req, c) = l
      BY <1>4, <2>1, <2>2, <2>3, AskedFacts
    <2> QED
      BY <2>1, <2>2, <2>3, <2>4, KeyFacts
  <1>6. \A l, m \in asked : l = m
    BY <1>5
  <1>7. Layers(A, c) = Layers(L, c) \cup asked
    BY <1>3 DEF Layers, AskedLayers
  <1>8. \A m \in Layers(A, c) : m \in DOMAIN A.entries /\ (m \in every <=> m \in asked)
    BY DEF Layers, AskedLayers
  <1>9. \A m \in Layers(L, c) : m \in DOMAIN L.entries /\ m \in DOMAIN A.entries /\ m \in Layers(A, c)
    BY <1>3 DEF Layers
  <1>10. ASSUME NEW m \in Rewritten(d, req), m[1] = c
         PROVE  \E l \in asked : IF l \in Layers(L, c) THEN m \in Newer(L, l) ELSE m = l
    <2>1. /\ k \in Changed(d, req) /\ req.clients[k] = c
          /\ \/ m \notin DOMAIN L.entries /\ m = LayerOf(req, k)
             \/ m \in DOMAIN L.entries /\ m \in Newer(L, LayerOf(req, k))
      BY <1>10, RewrittenFacts
    <2>2. LayerOf(req, k)[1] = c
      BY <1>4, <2>1, AskedFacts
    <2>3. LayerOf(req, k) \in asked
      BY <2>1, <2>2 DEF AskedLayers
    <2>4. m \in Newer(L, LayerOf(req, k)) => LayerOf(req, k) \in DOMAIN L.entries
      BY NewerFacts
    <2>5. LayerOf(req, k) \in DOMAIN L.entries => LayerOf(req, k) \in Layers(L, c)
      BY <2>2 DEF Layers
    <2> QED
      BY <1>9, <2>1, <2>3, <2>4, <2>5
  <1>11. ASSUME NEW l \in asked
         PROVE  IF l \in Layers(L, c) THEN Newer(L, l) \subseteq Rewritten(d, req)
                                      ELSE l \in Rewritten(d, req)
    <2>1. l \in Layers(L, c) <=> l \in DOMAIN L.entries
      BY <1>5 DEF Layers
    <2> QED
      BY <1>5, <2>1, RewrittenFacts
  <1>12. ASSUME NEW m \in Layers(L, c) PROVE A.entries[m].sequence = L.entries[m].sequence
    BY <1>1, <1>3, <1>4, <1>9, SequenceFacts
  <1>13. ASSUME NEW m \in Layers(L, c), m \notin asked, m \notin Rewritten(d, req)
         PROVE  A.entries[m] = L.entries[m]
    <2>1. m \in DOMAIN A.entries /\ m \in DOMAIN L.entries /\ m \notin every
      BY <1>8, <1>9, <1>13
    <2>2. A.entries[m].sequence = L.entries[m].sequence /\ A.entries[m].backup = L.entries[m].backup
          /\ A.entries[m].expected = L.entries[m].expected
      BY <1>3, <1>12, <1>13, <2>1
    <2>3. A.entries[m] \in LayerEntries /\ L.entries[m] \in LayerEntries
      BY <1>1, <1>3, <2>1, LedgerFacts
    <2> HIDE DEF A, L
    <2> QED
      BY <2>2, <2>3 DEF LayerEntries
  <1>14. \A m \in Layers(A, c) :
           /\ A.entries[m].sequence = SequenceOf(L, req, m)
           /\ A.entries[m].backup = IF m \in Rewritten(d, req) THEN NewBackup(d, U, req, m)
                                    ELSE L.entries[m].backup
           /\ A.entries[m].expected = IF m \in asked \cup Rewritten(d, req)
                                      THEN NewExpected(d, U, req, m)
                                      ELSE L.entries[m].expected
    BY <1>3, <1>8
  <1> HIDE DEF T, A, k, every, asked
  <1>15. \A m \in LayersOn(T, c) :
           /\ Entry(T, m).sequence = SequenceOf(L, req, m)
           /\ Entry(T, m).backup = IF m \in Rewritten(d, req) THEN NewBackup(d, U, req, m)
                                   ELSE Entry(d, m).backup
           /\ Entry(T, m).expected = IF m \in asked \cup Rewritten(d, req)
                                     THEN NewExpected(d, U, req, m)
                                     ELSE Entry(d, m).expected
    BY <1>1, <1>2, <1>14 DEF Entry
  <1>16. \A m \in LayersOn(d, c) :
           /\ Entry(T, m).sequence = Entry(d, m).sequence
           /\ m \notin asked /\ m \notin Rewritten(d, req) => Entry(T, m) = Entry(d, m)
    BY <1>1, <1>2, <1>12, <1>13 DEF Entry
  <1>17. LayersOn(d, c) = Layers(L, c) /\ LayersOn(T, c) = LayersOn(d, c) \cup asked
    BY <1>2, <1>7
  <1>18. \A l \in asked :
           /\ asked = {l} /\ l \in Keys /\ l[1] = c /\ l[2] \in Scopes
           /\ AskedFor(req, c) = l /\ LayerOf(req, k) = l
           /\ k \in Changed(d, req) /\ k \in 1..Len(req.clients) /\ req.clients[k] = c
           /\ IF l \in LayersOn(d, c) THEN Newer(L, l) \subseteq Rewritten(d, req)
                                      ELSE l \in Rewritten(d, req)
    BY <1>2, <1>5, <1>6, <1>11
  <1>19. \A m \in Rewritten(d, req) : m[1] = c =>
           \E l \in asked : IF l \in LayersOn(d, c) THEN m \in Newer(L, l) ELSE m = l
    BY <1>2, <1>10
  <1>20. UseOf(d, U, req, T, c, asked)
    BY <1>15, <1>16, <1>17, <1>18, <1>19 DEF UseOf, k
  <1> QED
    BY <1>20 DEF T, asked

LEMMA ConfigFileFacts ==
  /\ \A f \in ConfigFiles : /\ f.bytes \in ConfigBytes /\ f # None /\ f \in AllFiles
                            /\ f.id \in Nat \ {0}
  /\ \A f, g \in ConfigFiles : f.id = g.id /\ f.bytes = g.bytes => f = g
  /\ \A f \in AllFiles : f.bytes \in ConfigBytes => f \in ConfigFiles
  <1>1. \A f \in ConfigFiles : f.bytes \in ConfigBytes
    BY DEF ConfigFiles
  <1>2. \A f, g \in ConfigFiles : f.id = g.id /\ f.bytes = g.bytes => f = g
    BY DEF ConfigFiles
  <1>3. \A f \in AllFiles : f.bytes \in ConfigBytes => f \in ConfigFiles
    BY DEF ConfigFiles, AllFiles
  <1> QED
    BY <1>1, <1>2, <1>3, FileFacts

\* A configuration that a use changes, and what becomes of it.
LEMMA UseOfConfig ==
  ASSUME NEW d, NEW U, NEW req, UsePremise(d, U, req), NEW k \in Changed(d, req)
  PROVE  LET c == req.clients[k]
             l == LayerOf(req, k)
         IN /\ c \in Clients /\ l[1] = c /\ l[2] \in Scopes
            /\ At(d, Config(c)) = d[Config(c)] /\ At(d, Config(c)) \in ConfigFiles
            /\ NewConfig(d, U, req, k) \in ConfigFiles
            /\ SpecFor(d, req, l) \in ServerEntries
            /\ NewConfig(d, U, req, k).bytes
                 = SetServer(At(d, Config(c)).bytes, l[2], SpecFor(d, req, l))
            /\ SameBut(At(d, Config(c)).bytes, NewConfig(d, U, req, k).bytes, l[2])
  <1> DEFINE c == req.clients[k]
             l == LayerOf(req, k)
  <1>1. k \in 1..Len(req.clients) /\ IsDisk(d) /\ req \in Requests /\ req.kind = "use"
    BY RewrittenFacts DEF UsePremise
  <1>2. l \in Keys /\ l[1] = c /\ c \in Clients /\ l[2] \in Scopes
    BY <1>1, AskedFacts, KeyFacts
  <1>3. Config(c) \in DOMAIN d /\ d[Config(c)].bytes \in ConfigBytes
    BY <1>1, UseReads
  <1>4. At(d, Config(c)) = d[Config(c)] /\ d[Config(c)] \in AllFiles
    BY <1>1, <1>3, AtFacts
  <1>5. At(d, Config(c)) \in ConfigFiles
    BY <1>3, <1>4, ConfigFileFacts
  <1>6. NewConfig(d, U, req, k) \in ConfigFiles
        /\ NewConfig(d, U, req, k).bytes = EditedBytes(d, req, l)
    BY UseFiles
  <1>7. SpecFor(d, req, l) \in ServerEntries
    BY <1>1, SpecFacts
  <1>8. EditedBytes(d, req, l) = SetServer(At(d, Config(c)).bytes, l[2], SpecFor(d, req, l))
    BY <1>2, <1>4 DEF EditedBytes
  <1> HIDE DEF c, l
  <1>9. SameBut(At(d, Config(c)).bytes, SetServer(At(d, Config(c)).bytes, l[2], SpecFor(d, req, l)), l[2])
    <2> DEFINE b == At(d, Config(c)).bytes
               s == l[2]
               e == SpecFor(d, req, l)
    <2>1. b \in ConfigBytes /\ s \in Scopes /\ e \in ServerEntries
      BY <1>2, <1>5, <1>7, ConfigFileFacts
    <2> HIDE DEF b, s, e
    <2>2. SetServer(b, s, e).rest = b.rest /\ \A t \in Scopes \ {s} : SetServer(b, s, e).entry[t] = b.entry[t]
      BY <2>1, EditedFacts
    <2>3. SameBut(b, SetServer(b, s, e), s)
      BY <2>2 DEF SameBut
    <2> QED
      BY <2>3 DEF b, s, e
  <1> QED
    BY <1>2, <1>4, <1>5, <1>6, <1>7, <1>8, <1>9 DEF c, l

LEMMA UseTurns ==
  ASSUME NEW d, NEW U, NEW req, UsePremise(d, U, req), Changed(d, req) # {},
         NEW c \in Clients
  PROVE  Turns(d, Target(d, UseOperations(d, U, req)), c)
  <1> DEFINE T == Target(d, UseOperations(d, U, req))
             L == LedgerOn(d)
             asked == AskedLayers(d, req, c)
             k == PlaceIn(req.clients, c)
             Seq0(l) == SequenceOf(L, req, l)
  <1>1. UseOf(d, U, req, T, c, asked)
    BY UseEntries
  <1>2. /\ Proper(d) /\ Proper(T)
        /\ \A j \in Changed(d, req) : At(T, Config(req.clients[j])) = NewConfig(d, U, req, j)
        /\ \A l \in Rewritten(d, req) : At(T, Backup(l[1], Seq0(l))) = NewBackup(d, U, req, l)
        /\ (\A j \in Changed(d, req) : req.clients[j] # c) => At(T, Config(c)) = At(d, Config(c))
        /\ \A n \in Nat : (\A l \in Rewritten(d, req) : l[1] = c => Seq0(l) # n) =>
                            KeepsBackup(d, T, c, n)
    BY UseTarget DEF KeepsBackup
  <1>3. L \in LedgerBytes /\ Readable(L) /\ req \in Requests /\ req.kind = "use"
    BY UseReads DEF UsePremise
  <1>4. \A l \in LayersOn(d, c) :
          /\ l \in DOMAIN L.entries /\ l \in Keys /\ l[1] = c /\ Entry(d, l) = L.entries[l]
          /\ Entry(d, l).sequence \in Nat /\ Entry(d, l).sequence < L.next
          /\ Entry(d, l).backup \in ConfigFiles /\ Entry(d, l).expected \in ConfigFiles
    BY <1>2, LayersFacts DEF Entry
  <1> HIDE DEF T
  <1>5. CASE asked = {}
    <2>1. \A j \in Changed(d, req) : req.clients[j] # c
      <3> SUFFICES ASSUME NEW j \in Changed(d, req), req.clients[j] = c PROVE FALSE
        OBVIOUS
      <3>1. LayerOf(req, j)[1] = c
        BY UseOfConfig
      <3>2. LayerOf(req, j) \in asked
        BY <3>1 DEF AskedLayers
      <3> QED
        BY <1>5, <3>2
    <2>2. \A m \in Rewritten(d, req) : m[1] # c
      BY <1>1, <1>5 DEF UseOf
    <2>3. LayersOn(T, c) = LayersOn(d, c) /\ \A m \in LayersOn(d, c) : Entry(T, m) = Entry(d, m)
      BY <1>1, <1>5, <2>2, <1>4 DEF UseOf
    <2>4. \A n \in Nat : KeepsBackup(d, T, c, n)
      BY <1>2, <2>2
    <2> QED
      BY <1>2, <2>1, <2>3, <2>4 DEF Turns, Leaves, T
  <1>6. ASSUME NEW l \in asked PROVE Turns(d, T, c)
    <2>1. /\ asked = {l} /\ l \in Keys /\ l[1] = c /\ l[2] \in Scopes
          /\ AskedFor(req, c) = l /\ LayerOf(req, k) = l
          /\ k \in Changed(d, req) /\ k \in 1..Len(req.clients) /\ req.clients[k] = c
          /\ LayersOn(T, c) = LayersOn(d, c) \cup {l} /\ LayersOn(d, c) = Layers(L, c)
      BY <1>1 DEF UseOf
    <2>2. \A m \in LayersOn(T, c) :
            /\ Entry(T, m).sequence = Seq0(m)
            /\ Entry(T, m).backup = IF m \in Rewritten(d, req) THEN NewBackup(d, U, req, m)
                                    ELSE Entry(d, m).backup
            /\ m \in {l} \cup Rewritten(d, req) => Entry(T, m).expected = NewExpected(d, U, req, m)
      BY <1>1, <2>1 DEF UseOf
    <2>3. \A m \in LayersOn(d, c) :
            /\ Entry(T, m).sequence = Entry(d, m).sequence
            /\ m # l /\ m \notin Rewritten(d, req) => Entry(T, m) = Entry(d, m)
      BY <1>1, <2>1 DEF UseOf
    <2>4. \A m \in Rewritten(d, req) : m[1] = c =>
            IF l \in LayersOn(d, c) THEN m \in Newer(L, l) ELSE m = l
      BY <1>1, <2>1 DEF UseOf
    <2>5. IF l \in LayersOn(d, c) THEN Newer(L, l) \subseteq Rewritten(d, req)
                                  ELSE l \in Rewritten(d, req)
      BY <1>1, <2>1 DEF UseOf
    <2>6. /\ At(d, Config(c)) = d[Config(c)] /\ At(d, Config(c)) \in ConfigFiles
          /\ NewConfig(d, U, req, k) \in ConfigFiles
          /\ SpecFor(d, req, l) \in ServerEntries
          /\ NewConfig(d, U, req, k).bytes = SetServer(At(d, Config(c)).bytes, l[2], SpecFor(d, req, l))
          /\ SameBut(At(d, Config(c)).bytes, NewConfig(d, U, req, k).bytes, l[2])
      BY <2>1, UseOfConfig
    <2>7. At(T, Config(c)) = NewConfig(d, U, req, k)
      BY <1>2, <2>1
    <2>8. Newer(L, l) = {} => NewExpected(d, U, req, l) = NewConfig(d, U, req, k)
      BY <2>1 DEF NewExpected
    <2>9. \A m \in Newer(L, l) : m \in LayersOn(d, c) /\ m # l /\ Entry(d, l).sequence < Entry(d, m).sequence
                                 /\ l \in LayersOn(d, c)
      <3> SUFFICES ASSUME NEW m \in Newer(L, l)
                   PROVE  m \in LayersOn(d, c) /\ m # l /\ Entry(d, l).sequence < Entry(d, m).sequence
                          /\ l \in LayersOn(d, c)
        OBVIOUS
      <3>1. m \in DOMAIN L.entries /\ m[1] = l[1] /\ l \in DOMAIN L.entries
            /\ L.entries[m].sequence > L.entries[l].sequence
        BY NewerFacts
      <3>2. l \in LayersOn(d, c) /\ m \in LayersOn(d, c)
        BY <2>1, <3>1 DEF Layers
      <3> QED
        BY <1>4, <3>1, <3>2
    <2> HIDE DEF asked, k
    <2>10. CASE l \notin LayersOn(d, c)
      <3>1. l \notin DOMAIN L.entries /\ Newer(L, l) = {}
        <4>1. l \notin DOMAIN L.entries
          BY <2>1, <2>10 DEF Layers
        <4> QED
          BY <4>1, <2>9, <2>10
      <3>2. l \in Rewritten(d, req) /\ \A m \in Rewritten(d, req) : m[1] = c => m = l
        BY <2>4, <2>5, <2>10
      <3>3. l \in LayersOn(T, c) /\ Entry(T, l).sequence = Seq0(l)
            /\ Entry(T, l).backup = NewBackup(d, U, req, l)
            /\ Entry(T, l).expected = NewConfig(d, U, req, k)
        BY <2>1, <2>2, <2>8, <3>1, <3>2
      <3>4. NewBackup(d, U, req, l).bytes = At(d, Config(c)).bytes
        BY <2>1, <2>6, <3>1, <3>2, UseFiles
      <3>5. Seq0(l) \in Nat /\ Seq0(l) >= L.next /\ L.next \in Nat
        <4>1. PlaceIn(req.clients, l[1]) \in 1..Len(req.clients)
          BY <2>1 DEF k
        <4> QED
          BY <1>3, <3>1, <4>1, SequenceFacts
      <3>6. At(d, Backup(c, Seq0(l))) = None
        <4>1. Backup(l[1], SequenceOf(L, req, LayerOf(req, k))) \notin DOMAIN d
          BY <2>1, <3>1, UseReads
        <4> QED
          BY <1>2, <2>1, <4>1 DEF Proper
      <3>7. At(T, Backup(c, Seq0(l))) = NewBackup(d, U, req, l)
        BY <1>2, <2>1, <3>2
      <3>8. ASSUME NEW m \in LayersOn(d, c)
            PROVE  Entry(T, m) = Entry(d, m) /\ Entry(d, m).sequence < Seq0(l)
        <4>1. m # l /\ m[1] = c
          BY <1>4, <2>10
        <4>2. m \notin Rewritten(d, req)
          BY <3>2, <4>1
        <4>3. Entry(T, m) = Entry(d, m)
          BY <2>3, <4>1, <4>2
        <4> HIDE DEF Seq0
        <4> QED
          BY <1>4, <3>5, <4>3
      <3>9. ASSUME NEW n \in Nat, n # Seq0(l) PROVE KeepsBackup(d, T, c, n)
        BY <1>2, <3>2, <3>9
      <3> HIDE DEF L, Seq0
      <3>10. Adds(d, T, c, l)
        BY <2>1, <2>6, <2>7, <2>10, <3>3, <3>4, <3>6, <3>7, <3>8, <3>9 DEF Adds
      <3> QED
        BY <2>1, <3>10 DEF Turns
    <2>11. ASSUME l \in LayersOn(d, c) PROVE CanRewriteChain(d, L, l) /\ l \in DOMAIN L.entries
      <3>1. l \in DOMAIN L.entries
        BY <1>4, <2>11
      <3> QED
        BY <2>1, <3>1, UseReads
    <2>12. ASSUME l \in LayersOn(d, c)
           PROVE  \E t \in LayersOn(d, c) : /\ At(d, Config(c)) = Entry(d, t).expected
                                            /\ \A m \in LayersOn(d, c) : Entry(d, m).sequence <= Entry(d, t).sequence
      <3> DEFINE t == Newest(L, Layers(L, c))
      <3>1. Layers(L, c) \in SUBSET DOMAIN L.entries /\ Layers(L, c) # {}
        BY <2>1, <2>12 DEF Layers
      <3>2. t \in Layers(L, c) /\ \A m \in Layers(L, c) : L.entries[m].sequence <= L.entries[t].sequence
        BY <1>3, <3>1, OldestFacts
      <3>3. d[Config(c)] = L.entries[t].expected
        BY <2>1, <2>11, <2>12 DEF CanRewriteChain
      <3> HIDE DEF t
      <3> QED
        BY <1>4, <2>1, <2>6, <3>2, <3>3
    <2>13. ASSUME NEW m \in LayersOn(d, c), m = l \/ m \in Newer(L, l), l \in LayersOn(d, c)
           PROVE  OwnBackup(d, m) = Entry(d, m).backup
      <3>1. BackupIntact(d, L, m)
        BY <2>11, <2>13 DEF CanRewriteChain
      <3>2. Holds(d, Backup(c, Entry(d, m).sequence), Entry(d, m).backup)
        BY <1>4, <3>1 DEF BackupIntact
      <3> QED
        BY <1>4, <3>2 DEF Holds, At, OwnBackup
    <2>14. CASE l \in LayersOn(d, c) /\ Newer(L, l) = {}
      <3>1. ASSUME NEW m \in Rewritten(d, req) PROVE m[1] # c
        BY <2>4, <2>14
      <3>2. l \notin Rewritten(d, req)
        BY <2>1, <3>1
      <3>3. ASSUME NEW m \in LayersOn(d, c) \ {l}
            PROVE  Entry(T, m) = Entry(d, m) /\ Entry(d, m).sequence < Entry(d, l).sequence
        <4>1. m[1] = c /\ m \in DOMAIN L.entries /\ l \in DOMAIN L.entries
          BY <1>4, <2>14
        <4>2. ~(L.entries[m].sequence > L.entries[l].sequence)
          BY <2>1, <2>14, <4>1, NewerFacts
        <4>3. L.entries[m].sequence # L.entries[l].sequence
          BY <1>3, <4>1, <3>3, LedgerFacts
        <4>4. Entry(T, m) = Entry(d, m)
          BY <2>3, <3>1, <3>3, <4>1
        <4> QED
          BY <1>4, <2>14, <3>3, <4>2, <4>3, <4>4
      <3>4. At(d, Config(c)) = Entry(d, l).expected
        <4>1. PICK t \in LayersOn(d, c) : /\ At(d, Config(c)) = Entry(d, t).expected
                                          /\ \A m \in LayersOn(d, c) : Entry(d, m).sequence <= Entry(d, t).sequence
          BY <2>12, <2>14
        <4>2. t = l
          <5>1. Entry(d, l).sequence <= Entry(d, t).sequence
            BY <2>14, <4>1
          <5>2. t # l => Entry(d, t).sequence < Entry(d, l).sequence
            BY <3>3
          <5> QED
            BY <1>4, <2>14, <5>1, <5>2
        <4> QED
          BY <4>1, <4>2
      <3>5. OwnBackup(d, l) = Entry(d, l).backup
        BY <2>13, <2>14
      <3>6. LayersOn(T, c) = LayersOn(d, c) /\ l \in LayersOn(T, c)
        BY <2>1, <2>14
      <3>7. Entry(T, l).backup = Entry(d, l).backup /\ Entry(T, l).sequence = Entry(d, l).sequence
            /\ Entry(T, l).expected = NewConfig(d, U, req, k)
        BY <2>2, <2>3, <2>8, <2>14, <3>2, <3>6
      <3>8. \A n \in Nat : KeepsBackup(d, T, c, n)
        BY <1>2, <3>1
      <3> HIDE DEF L, Seq0
      <3>9. Renews(d, T, c, l)
        BY <2>6, <2>7, <2>14, <3>3, <3>4, <3>5, <3>6, <3>7, <3>8 DEF Renews, KeepsLayer
      <3> QED
        BY <2>1, <3>9 DEF Turns
    <2>15. ASSUME l \in LayersOn(d, c), NEW m \in Newer(L, l) PROVE Turns(d, T, c)
      <3>1. m \in LayersOn(d, c) /\ m # l /\ Entry(d, l).sequence < Entry(d, m).sequence
        BY <2>9, <2>15
      <3>2. LayersOn(d, c) = {l, m}
        BY <1>2, <2>15, <3>1, LayersFacts
      <3>3. Newer(L, l) = {m}
        BY <2>9, <2>15, <3>2
      <3>4. m \in Rewritten(d, req) /\ m[1] = c /\ l \notin Rewritten(d, req)
        <4>1. l \notin Newer(L, l)
          BY <2>9
        <4> QED
          BY <1>4, <2>1, <2>4, <2>5, <2>15, <3>1, <4>1
      <3>5. Newer(L, m) = {}
        <4> SUFFICES ASSUME NEW x \in Newer(L, m) PROVE FALSE
          OBVIOUS
        <4>1. x \in DOMAIN L.entries /\ x[1] = c /\ L.entries[x].sequence > L.entries[m].sequence
          BY <3>4, NewerFacts
        <4>2. x \in LayersOn(d, c)
          BY <2>1, <4>1 DEF Layers
        <4>3. Entry(d, x).sequence > Entry(d, m).sequence
          BY <1>4, <3>1, <4>1, <4>2
        <4> QED
          BY <1>4, <2>15, <3>1, <3>2, <4>2, <4>3
      <3>6. NewExpected(d, U, req, m) = NewConfig(d, U, req, k)
        BY <3>4, <3>5 DEF NewExpected, k
      <3>7. NewExpected(d, U, req, l) = NewBackup(d, U, req, m)
        <4>1. Oldest(L, {m}) = m
          <5>1. {m} \in SUBSET DOMAIN L.entries
            BY <1>4, <3>1
          <5> QED
            BY <1>3, <5>1, OldestFacts
        <4> QED
          BY <3>3, <4>1 DEF NewExpected
      <3>8. l \in LayersOn(T, c) /\ m \in LayersOn(T, c) /\ LayersOn(T, c) = LayersOn(d, c)
        BY <2>1, <2>15, <3>1
      <3>9. /\ Entry(T, l).sequence = Entry(d, l).sequence /\ Entry(T, l).backup = Entry(d, l).backup
            /\ Entry(T, l).expected = NewBackup(d, U, req, m)
            /\ Entry(T, m).sequence = Entry(d, m).sequence
            /\ Entry(T, m).sequence = Seq0(m)
            /\ Entry(T, m).backup = NewBackup(d, U, req, m)
            /\ Entry(T, m).expected = NewConfig(d, U, req, k)
        BY <2>2, <2>3, <2>15, <3>1, <3>4, <3>6, <3>7, <3>8
      <3>10. At(d, Config(c)) = Entry(d, m).expected
        <4>1. PICK t \in LayersOn(d, c) : /\ At(d, Config(c)) = Entry(d, t).expected
                                          /\ \A x \in LayersOn(d, c) : Entry(d, x).sequence <= Entry(d, t).sequence
          BY <2>12, <2>15
        <4>2. t = m
          BY <1>4, <2>15, <3>1, <3>2, <4>1
        <4> QED
          BY <4>1, <4>2
      <3>11. OwnBackup(d, l) = Entry(d, l).backup /\ OwnBackup(d, m) = Entry(d, m).backup
        BY <2>13, <2>15, <3>1
      <3>12. OwnBackup(T, m) = NewBackup(d, U, req, m)
        BY <1>2, <3>4, <3>9 DEF OwnBackup
      <3>13. NewBackup(d, U, req, m).bytes = SetServer(Entry(d, m).backup.bytes, l[2], SpecFor(d, req, l))
        BY <1>4, <2>1, <3>1, <3>4, UseFiles
      <3>14. ASSUME NEW n \in Nat, n # Entry(d, m).sequence PROVE KeepsBackup(d, T, c, n)
        <4>1. \A x \in Rewritten(d, req) : x[1] = c => x = m
          BY <2>4, <2>15, <3>3
        <4>2. Seq0(m) # n
          BY <3>9, <3>14
        <4> QED
          BY <1>2, <4>1, <4>2
      <3> HIDE DEF L, Seq0
      <3>15. Relays(d, T, c, l, m)
        BY <2>6, <2>7, <2>15, <3>1, <3>8, <3>9, <3>10, <3>11, <3>12, <3>13, <3>14 DEF Relays, KeepsLayer
      <3>16. m \in Keys
        BY <1>4, <3>1
      <3> QED
        BY <2>1, <3>15, <3>16 DEF Turns
    <2> QED
      BY <2>10, <2>14, <2>15
  <1> QED
    BY <1>5, <1>6 DEF T

\* What a revert leaves of a ledger is a ledger.
LEMMA RevertReadable ==
  ASSUME NEW d, NEW U, NEW req, RevertPremise(d, U, req)
  PROVE  Readable(LedgerAfterRevert(d, U, req))
  <1> DEFINE L == LedgerOn(d)
             A == LedgerAfterRevert(d, U, req)
  <1>1. /\ A \in LedgerBytes /\ A.next = L.next /\ DOMAIN A.entries \subseteq DOMAIN L.entries
        /\ \A k \in DOMAIN A.entries : A.entries[k].sequence = L.entries[k].sequence
    BY RevertLedger
  <1>2. Readable(L)
    BY SelectedFacts
  <1>3. DOMAIN A = {"next", "entries"} /\ A.next \in Nat
    BY <1>1 DEF LedgerBytes
  <1> HIDE DEF A
  <1>4. Readable(A)
    BY <1>1, <1>2, <1>3 DEF Readable
  <1> QED
    BY <1>4 DEF A

\* What a layer that stays expects: what was restored above it last, if anything.
LEMMA HeirsFacts ==
  ASSUME NEW d, NEW U, NEW req, RevertPremise(d, U, req),
         NEW k \in DOMAIN LedgerOn(d).entries \ Selection(LedgerOn(d), req)
  PROVE  LET L == LedgerOn(d)
             s == Selected(L, req)
             A == LedgerAfterRevert(d, U, req)
         IN /\ k \in DOMAIN A.entries
            /\ A.entries[k].sequence = L.entries[k].sequence
            /\ A.entries[k].backup = L.entries[k].backup
            /\ (\A i \in 1..Len(s) : s[i] \notin Newer(L, k)) => A.entries[k] = L.entries[k]
            /\ \A i \in 1..Len(s) :
                 /\ s[i] \in Newer(L, k)
                 /\ \A j \in 1..Len(s) : s[j] \in Newer(L, k) => j = i
                 /\ \A m \in DOMAIN L.entries \ Selection(L, req) : s[i] \in Newer(L, m) => m = k
                 => A.entries[k].expected = Restored(d, U, req, i)
  <1> DEFINE L == LedgerOn(d)
             s == Selected(L, req)
             A == LedgerAfterRevert(d, U, req)
             kept == DOMAIN L.entries \ ToSet(s)
             Under(l) == {m \in kept : l \in Newer(L, m)}
             Heirs == {i \in 1..Len(s) : k \in Under(s[i]) /\ Newest(L, Under(s[i])) = k}
  <1>1. L \in LedgerBytes /\ Readable(L) /\ Enumerates(s, Selection(L, req))
    BY SelectedFacts
  <1>2. ToSet(s) = Selection(L, req)
    <2>1. ToSet(s) = {s[i] : i \in 1..Len(s)}
      BY <1>1 DEF ToSet, Enumerates
    <2> QED
      BY <1>1, <2>1 DEF Enumerates
  <1>3. kept = DOMAIN L.entries \ Selection(L, req) /\ k \in kept
    BY <1>2
  <1>4. /\ k \in DOMAIN A.entries
        /\ A.entries[k] = IF Heirs = {} THEN L.entries[k]
                          ELSE [L.entries[k] EXCEPT !.expected = Restored(d, U, req, LastOf(Heirs))]
    BY <1>3 DEF LedgerAfterRevert
  <1>5. L.entries[k] \in LayerEntries
    BY <1>1, LedgerFacts
  <1>6. A.entries[k].sequence = L.entries[k].sequence /\ A.entries[k].backup = L.entries[k].backup
        /\ (Heirs # {} => A.entries[k].expected = Restored(d, U, req, LastOf(Heirs)))
    <2> HIDE DEF Heirs, L
    <2> QED
      BY <1>4, <1>5 DEF LayerEntries
  <1>7. ASSUME \A i \in 1..Len(s) : s[i] \notin Newer(L, k)
        PROVE  A.entries[k] = L.entries[k]
    BY <1>4, <1>7
  <1>8. ASSUME NEW i \in 1..Len(s), s[i] \in Newer(L, k),
               \A j \in 1..Len(s) : s[j] \in Newer(L, k) => j = i,
               \A m \in DOMAIN L.entries \ Selection(L, req) : s[i] \in Newer(L, m) => m = k
        PROVE  A.entries[k].expected = Restored(d, U, req, i)
    <2>1. Under(s[i]) = {k}
      BY <1>3, <1>8
    <2>2. Newest(L, {k}) = k
      <3>1. {k} \in SUBSET DOMAIN L.entries
        OBVIOUS
      <3>2. Newest(L, {k}) \in {k}
        BY <1>1, <3>1, OldestFacts
      <3> QED
        BY <3>2
    <2>3. Heirs = {i}
      BY <1>8, <2>1, <2>2
    <2>4. LastOf({i}) = i
      <3>1. {i} \in SUBSET Nat /\ i \in Nat /\ {i} # {} /\ \A x \in {i} : x <= i
        OBVIOUS
      <3>2. LastOf({i}) \in {i}
        BY <3>1, FiniteSetHasMaximum
      <3> QED
        BY <3>2
    <2> HIDE DEF Heirs
    <2> QED
      BY <1>6, <2>3, <2>4
  <1> HIDE DEF A, L, s
  <1> QED
    BY <1>4, <1>6, <1>7, <1>8 DEF A, L, s

\* Where a revert leads.
LEMMA RevertTarget ==
  ASSUME NEW d, NEW U, NEW req, RevertPremise(d, U, req), Selected(LedgerOn(d), req) # <<>>
  PROVE  LET T == Target(d, RevertOperations(d, U, req))
             L == LedgerOn(d)
             A == LedgerAfterRevert(d, U, req)
             s == Selected(L, req)
         IN /\ Proper(d) /\ Proper(T) /\ Readable(LedgerOn(T))
            /\ LedgerOn(T) = IF DOMAIN A.entries = {} THEN EmptyLedger ELSE A
            /\ \A i \in 1..Len(s) : (\A j \in 1..Len(s) : j > i => s[j][1] # s[i][1]) =>
                 At(T, Config(s[i][1])) = Restored(d, U, req, i)
            /\ \A i \in 1..Len(s) : At(T, OwnName(L, s[i])) = None
            /\ \A c \in Clients : (\A i \in 1..Len(s) : s[i][1] # c) =>
                 At(T, Config(c)) = At(d, Config(c))
            /\ \A c \in Clients, n \in Nat :
                 (\A i \in 1..Len(s) : s[i][1] = c => L.entries[s[i]].sequence # n) =>
                   KeepsBackup(d, T, c, n)
  <1> DEFINE ops == RevertOperations(d, U, req)
             T == Target(d, ops)
             L == LedgerOn(d)
             A == LedgerAfterRevert(d, U, req)
             s == Selected(L, req)
             n0 == Len(s)
  <1>1. /\ ops \in Seq(Operations) /\ Len(ops) = n0 + 1 + n0
        /\ \A i \in 1..Len(ops) : \/ RevertConfigAt(d, U, req, ops, i)
                                  \/ RevertLedgerAt(d, U, req, ops, i)
                                  \/ RevertBackupAt(d, U, req, ops, i)
        /\ \A i \in 1..n0 : RevertConfigAt(d, U, req, ops, i)
        /\ RevertLedgerAt(d, U, req, ops, n0 + 1)
        /\ \A j \in 1..n0 : RevertBackupAt(d, U, req, ops, n0 + 1 + j)
    BY RevertOperationsFacts
  <1>2. IsDisk(d) /\ Proper(d)
    BY DiskIsProper DEF RevertPremise
  <1>3. n0 \in Nat
    BY SelectedFacts DEF Enumerates
  <1>4. \A i, j \in 1..Len(ops) : ops[i].dest = ops[j].dest => i = j \/ ops[i].dest \in ConfigNames
    BY RevertIsPlan DEF IsPlan, PlanPlaces
  <1>5. \A c, e, m : Config(c) # State /\ Config(c) # Backup(e, m) /\ Backup(e, m) # State
    BY HomesDiffer
  <1> HIDE DEF ops
  <1>6. /\ Proper(T)
        /\ \A i \in 1..Len(ops) : (\A j \in 1..Len(ops) : j > i => ops[j].dest # ops[i].dest)
             => At(T, ops[i].dest) = ops[i].staged
    <2>1. ops \in Seq(Operations)
      BY <1>1
    <2> QED
      BY <1>2, <2>1, TargetFacts
  <1>7. At(T, State) = ops[n0 + 1].staged
    <2>1. n0 + 1 \in 1..Len(ops) /\ ops[n0 + 1].dest = State
      BY <1>1, <1>3 DEF RevertLedgerAt
    <2>2. \A j \in 1..Len(ops) : j > n0 + 1 => ops[j].dest # ops[n0 + 1].dest
      BY <1>1, <1>4, <1>5, <2>1 DEF ConfigNames
    <2> QED
      BY <1>1, <1>2, <2>1, <2>2, TargetFacts
  <1>8. LedgerOn(T) = IF DOMAIN A.entries = {} THEN EmptyLedger ELSE A
    <2>1. CASE DOMAIN A.entries = {}
      <3>1. At(T, State) = None
        BY <1>1, <1>7, <2>1 DEF RevertLedgerAt
      <3> QED
        BY <1>6, <2>1, <3>1, LedgerAtFacts DEF Proper
    <2>2. CASE DOMAIN A.entries # {}
      <3>1. At(T, State).bytes = A /\ At(T, State).id = FreshInode(U, n0 + 1)
        BY <1>1, <1>7, <2>2 DEF RevertLedgerAt
      <3>2. FreshInode(U, n0 + 1) # 0
        BY <1>3, FreshInodeFacts DEF RevertPremise
      <3>3. State \in DOMAIN T
        BY <1>6, <3>1, <3>2 DEF Proper, None
      <3> QED
        BY <2>2, <3>1, <3>3, LedgerAtFacts
    <2> QED
      BY <2>1, <2>2
  <1>9. Readable(LedgerOn(T))
    BY <1>8, RevertReadable, LedgerTypes
  <1>10. ASSUME NEW i \in 1..n0, \A j \in 1..n0 : j > i => s[j][1] # s[i][1]
         PROVE  At(T, Config(s[i][1])) = Restored(d, U, req, i)
    <2>1. i \in 1..Len(ops) /\ ops[i].dest = Config(s[i][1]) /\ ops[i].staged = Restored(d, U, req, i)
          /\ ops[i].dest \in ConfigNames
      BY <1>1, <1>3 DEF RevertConfigAt
    <2>2. ASSUME NEW j \in 1..Len(ops), j > i PROVE ops[j].dest # ops[i].dest
      <3>1. CASE RevertConfigAt(d, U, req, ops, j)
        <4>1. j \in 1..n0 /\ ops[j].dest = Config(s[j][1])
          BY <3>1 DEF RevertConfigAt
        <4> QED
          BY <1>10, <2>1, <2>2, <4>1, NamesDiffer
      <3>2. CASE ~RevertConfigAt(d, U, req, ops, j)
        BY <1>1, <1>5, <2>1, <3>2 DEF RevertLedgerAt, RevertBackupAt, OwnName, ConfigNames
      <3> QED
        BY <3>1, <3>2
    <2>3. At(T, ops[i].dest) = ops[i].staged
      BY <1>6, <2>1, <2>2
    <2> QED
      BY <2>1, <2>3
  <1>11. ASSUME NEW i \in 1..n0 PROVE At(T, OwnName(L, s[i])) = None
    <2> DEFINE a == n0 + 1 + i
    <2>1. a \in 1..Len(ops) /\ a - n0 - 1 = i
      BY <1>1, <1>3
    <2>2. RevertBackupAt(d, U, req, ops, a)
      BY <1>1
    <2> HIDE DEF a
    <2>3. ops[a].dest = OwnName(L, s[i]) /\ ops[a].staged = None
      BY <2>1, <2>2 DEF RevertBackupAt
    <2>4. \A j \in 1..Len(ops) : j > a => ops[j].dest # ops[a].dest
      BY <1>1, <1>4, <1>5, <2>1, <2>3 DEF OwnName, ConfigNames
    <2>5. At(T, ops[a].dest) = ops[a].staged
      BY <1>6, <2>1, <2>4
    <2> QED
      BY <2>3, <2>5
  <1>12. ASSUME NEW c \in Clients, \A i \in 1..n0 : s[i][1] # c
         PROVE  At(T, Config(c)) = At(d, Config(c))
    <2>1. ASSUME NEW j \in 1..Len(ops) PROVE ops[j].dest # Config(c)
      <3>1. CASE RevertConfigAt(d, U, req, ops, j)
        <4>1. j \in 1..n0 /\ ops[j].dest = Config(s[j][1])
          BY <3>1 DEF RevertConfigAt
        <4> QED
          BY <1>12, <4>1, NamesDiffer
      <3>2. CASE ~RevertConfigAt(d, U, req, ops, j)
        BY <1>1, <1>5, <3>2 DEF RevertLedgerAt, RevertBackupAt, OwnName
      <3> QED
        BY <3>1, <3>2
    <2> QED
      BY <1>1, <1>2, <2>1, TargetFacts
  <1>13. ASSUME NEW c \in Clients, NEW n \in Nat,
                \A i \in 1..n0 : s[i][1] = c => L.entries[s[i]].sequence # n
         PROVE  KeepsBackup(d, T, c, n)
    <2>1. ASSUME NEW j \in 1..Len(ops) PROVE ops[j].dest # Backup(c, n)
      <3>1. CASE RevertBackupAt(d, U, req, ops, j)
        <4> DEFINE i == j - n0 - 1
        <4>1. i \in 1..n0 /\ ops[j].dest = Backup(s[i][1], L.entries[s[i]].sequence)
          BY <3>1 DEF RevertBackupAt, OwnName
        <4> HIDE DEF i
        <4> QED
          BY <1>13, <4>1, BackupsDiffer
      <3>2. CASE ~RevertBackupAt(d, U, req, ops, j)
        BY <1>1, <3>2, HomesDiffer DEF RevertLedgerAt, RevertConfigAt
      <3> QED
        BY <3>1, <3>2
    <2> QED
      BY <1>1, <1>2, <2>1, TargetFacts DEF KeepsBackup
  <1> HIDE DEF T, A, L, s
  <1> QED
    BY <1>2, <1>6, <1>8, <1>9, <1>10, <1>11, <1>12, <1>13 DEF T, ops, A, L, s

\* The layers of a client before and after a revert, s being those reverted, newest first.
RevertOf(d, U, req, e, c, s) ==
  /\ LayersOn(d, c) = Layers(LedgerOn(d), c)
  /\ LayersOn(e, c) = {l \in LayersOn(d, c) : \A i \in 1..Len(s) : s[i] # l}
  /\ Len(s) \in Nat /\ \A i, j \in 1..Len(s) : s[i] = s[j] => i = j
  /\ \A i, j \in 1..Len(s) : i < j /\ s[i] \in LayersOn(d, c) /\ s[j] \in LayersOn(d, c) =>
       Entry(d, s[j]).sequence < Entry(d, s[i]).sequence
  /\ \A i \in 1..Len(s) : s[i] \in LayersOn(d, c) <=> s[i][1] = c
  /\ \A i \in 1..Len(s) : s[i] \in LayersOn(d, c) =>
       /\ OwnBackup(d, s[i]) = Entry(d, s[i]).backup
       /\ At(e, Backup(c, Entry(d, s[i]).sequence)) = None
       /\ Restored(d, U, req, i) \in ConfigFiles
       /\ Restored(d, U, req, i).bytes = Entry(d, s[i]).backup.bytes
       /\ (\A j \in 1..Len(s) : j > i => s[j] \notin LayersOn(d, c)) =>
            At(e, Config(c)) = Restored(d, U, req, i)
       /\ IF Above(s, i) = {} THEN At(d, Config(c)) = Entry(d, s[i]).expected
          ELSE Entry(d, s[LastOf(Above(s, i))]).backup.bytes = Entry(d, s[i]).expected.bytes
  /\ \A k \in LayersOn(e, c) :
       /\ KeepsLayer(d, e, k)
       /\ (\A i \in 1..Len(s) : s[i] \notin Newer(LedgerOn(d), k)) => Entry(e, k) = Entry(d, k)
       /\ \A i \in 1..Len(s) :
            /\ s[i] \in Newer(LedgerOn(d), k)
            /\ \A j \in 1..Len(s) : s[j] \in Newer(LedgerOn(d), k) => j = i
            /\ \A m \in LayersOn(e, c) : s[i] \in Newer(LedgerOn(d), m) => m = k
            => Entry(e, k).expected = Restored(d, U, req, i)

LEMMA RevertEntries ==
  ASSUME NEW d, NEW U, NEW req, RevertPremise(d, U, req), Selected(LedgerOn(d), req) # <<>>,
         NEW c \in Clients
  PROVE  RevertOf(d, U, req, Target(d, RevertOperations(d, U, req)), c, Selected(LedgerOn(d), req))
  <1> DEFINE T == Target(d, RevertOperations(d, U, req))
             L == LedgerOn(d)
             A == LedgerAfterRevert(d, U, req)
             s == Selected(L, req)
             n0 == Len(s)
             kept == DOMAIN L.entries \ Selection(L, req)
  <1>1. /\ L \in LedgerBytes /\ Readable(L) /\ Enumerates(s, Selection(L, req))
        /\ \A i \in 1..n0 :
             /\ s[i] \in DOMAIN L.entries /\ s[i] \in Keys
             /\ Config(s[i][1]) \in DOMAIN d
             /\ BackupIntact(d, L, s[i])
             /\ IF Above(s, i) = {}
                THEN d[Config(s[i][1])] = L.entries[s[i]].expected
                ELSE L.entries[s[LastOf(Above(s, i))]].backup.bytes = L.entries[s[i]].expected.bytes
        /\ \A i, j \in 1..n0 : i < j => L.entries[s[j]].sequence < L.entries[s[i]].sequence
    BY SelectedFacts
  <1>2. /\ Proper(d) /\ Proper(T) /\ Readable(LedgerOn(T))
        /\ LedgerOn(T) = IF DOMAIN A.entries = {} THEN EmptyLedger ELSE A
        /\ \A i \in 1..n0 : (\A j \in 1..n0 : j > i => s[j][1] # s[i][1]) =>
             At(T, Config(s[i][1])) = Restored(d, U, req, i)
        /\ \A i \in 1..n0 : At(T, OwnName(L, s[i])) = None
    BY RevertTarget
  <1>3. DOMAIN A.entries = kept
    BY RevertLedger
  <1>4. n0 \in Nat /\ (\A i, j \in 1..n0 : s[i] = s[j] => i = j)
        /\ \A l \in DOMAIN L.entries : l \in Selection(L, req) <=> \E i \in 1..n0 : s[i] = l
    BY <1>1 DEF Enumerates
  <1>5. LayersOn(d, c) = Layers(L, c) /\ LayersOn(T, c) = Layers(LedgerOn(T), c)
    BY <1>1, <1>2 DEF LayersOn
  <1>6. DOMAIN LedgerOn(T).entries = kept /\ \A l \in kept : LedgerOn(T).entries[l] = A.entries[l]
    BY <1>2, <1>3, LedgerTypes
  <1> HIDE DEF T, A, L, s
  <1>7. LayersOn(T, c) = {l \in LayersOn(d, c) : \A i \in 1..n0 : s[i] # l}
    BY <1>4, <1>5, <1>6 DEF Layers
  <1>8. \A i \in 1..n0 : s[i] \in LayersOn(d, c) <=> s[i][1] = c
    BY <1>1, <1>5 DEF Layers
  <1>9. \A i, j \in 1..n0 : i < j => Entry(d, s[j]).sequence < Entry(d, s[i]).sequence
    BY <1>1 DEF Entry, L
  <1>10. ASSUME NEW i \in 1..n0, s[i] \in LayersOn(d, c)
         PROVE  /\ OwnBackup(d, s[i]) = Entry(d, s[i]).backup
                /\ At(T, Backup(c, Entry(d, s[i]).sequence)) = None
                /\ Restored(d, U, req, i) \in ConfigFiles
                /\ Restored(d, U, req, i).bytes = Entry(d, s[i]).backup.bytes
                /\ (\A j \in 1..n0 : j > i => s[j] \notin LayersOn(d, c)) =>
                     At(T, Config(c)) = Restored(d, U, req, i)
                /\ IF Above(s, i) = {} THEN At(d, Config(c)) = Entry(d, s[i]).expected
                   ELSE Entry(d, s[LastOf(Above(s, i))]).backup.bytes = Entry(d, s[i]).expected.bytes
    <2>1. s[i][1] = c
      BY <1>8, <1>10
    <2>2. OwnBackup(d, s[i]) = Entry(d, s[i]).backup
      <3>1. Holds(d, Backup(s[i][1], Entry(d, s[i]).sequence), Entry(d, s[i]).backup)
        BY <1>1 DEF BackupIntact, Entry, L
      <3> QED
        BY <3>1 DEF Holds, At, OwnBackup
    <2>3. At(T, Backup(c, Entry(d, s[i]).sequence)) = None
      BY <1>2, <2>1 DEF OwnName, Entry, L
    <2>4. Restored(d, U, req, i) \in ConfigFiles
          /\ Restored(d, U, req, i).bytes = Entry(d, s[i]).backup.bytes
      BY RestoredFacts DEF Entry, L, s
    <2>5. (\A j \in 1..n0 : j > i => s[j] \notin LayersOn(d, c)) =>
            At(T, Config(c)) = Restored(d, U, req, i)
      BY <1>2, <1>8, <2>1
    <2>6. At(d, Config(c)) = d[Config(c)]
      BY <1>1, <2>1 DEF At
    <2>7. IF Above(s, i) = {} THEN At(d, Config(c)) = Entry(d, s[i]).expected
          ELSE Entry(d, s[LastOf(Above(s, i))]).backup.bytes = Entry(d, s[i]).expected.bytes
      BY <1>1, <2>1, <2>6 DEF Entry, L
    <2> QED
      BY <2>2, <2>3, <2>4, <2>5, <2>7
  <1>11. ASSUME NEW k \in LayersOn(T, c)
         PROVE  /\ KeepsLayer(d, T, k)
                /\ (\A i \in 1..n0 : s[i] \notin Newer(L, k)) => Entry(T, k) = Entry(d, k)
                /\ \A i \in 1..n0 :
                     /\ s[i] \in Newer(L, k)
                     /\ \A j \in 1..n0 : s[j] \in Newer(L, k) => j = i
                     /\ \A m \in LayersOn(T, c) : s[i] \in Newer(L, m) => m = k
                     => Entry(T, k).expected = Restored(d, U, req, i)
    <2>1. k \in kept /\ k[1] = c
      BY <1>5, <1>6, <1>11 DEF Layers
    <2>2. Entry(T, k) = A.entries[k] /\ Entry(d, k) = L.entries[k]
      BY <1>6, <2>1 DEF Entry, L
    <2>3. /\ A.entries[k].sequence = L.entries[k].sequence
          /\ A.entries[k].backup = L.entries[k].backup
          /\ (\A i \in 1..n0 : s[i] \notin Newer(L, k)) => A.entries[k] = L.entries[k]
          /\ \A i \in 1..n0 :
               /\ s[i] \in Newer(L, k)
               /\ \A j \in 1..n0 : s[j] \in Newer(L, k) => j = i
               /\ \A m \in kept : s[i] \in Newer(L, m) => m = k
               => A.entries[k].expected = Restored(d, U, req, i)
      BY <2>1, HeirsFacts DEF A, L, s
    <2>4. ASSUME NEW i \in 1..n0, s[i] \in Newer(L, k),
                 \A j \in 1..n0 : s[j] \in Newer(L, k) => j = i,
                 \A m \in LayersOn(T, c) : s[i] \in Newer(L, m) => m = k
          PROVE  Entry(T, k).expected = Restored(d, U, req, i)
      <3>1. ASSUME NEW m \in kept, s[i] \in Newer(L, m) PROVE m = k
        <4>1. s[i][1] = k[1] /\ s[i][1] = m[1]
          BY <2>4, <3>1, NewerFacts
        <4>2. m \in LayersOn(T, c)
          BY <1>5, <1>6, <2>1, <4>1 DEF Layers
        <4> QED
          BY <2>4, <3>1, <4>2
      <3> QED
        BY <2>2, <2>3, <2>4, <3>1
    <2> QED
      BY <2>2, <2>3, <2>4 DEF KeepsLayer
  <1>12. RevertOf(d, U, req, T, c, s)
    BY <1>4, <1>5, <1>7, <1>8, <1>9, <1>10, <1>11 DEF RevertOf, L
  <1> QED
    BY <1>12 DEF T, L, s

LEMMA RevertTurns ==
  ASSUME NEW d, NEW U, NEW req, RevertPremise(d, U, req), Selected(LedgerOn(d), req) # <<>>,
         NEW c \in Clients
  PROVE  Turns(d, Target(d, RevertOperations(d, U, req)), c)
  <1> DEFINE T == Target(d, RevertOperations(d, U, req))
             L == LedgerOn(d)
             s == Selected(L, req)
             n0 == Len(s)
             Y == LayersOn(d, c)
  <1>1. RevertOf(d, U, req, T, c, s)
    BY RevertEntries
  <1>2. Proper(d) /\ Proper(T)
        /\ ((\A i \in 1..n0 : s[i][1] # c) => At(T, Config(c)) = At(d, Config(c)))
        /\ \A n \in Nat : (\A i \in 1..n0 : s[i][1] = c => Entry(d, s[i]).sequence # n) =>
             KeepsBackup(d, T, c, n)
    BY RevertTarget DEF Entry
  <1>3. \A l \in Y :
          /\ l \in DOMAIN L.entries /\ l \in Keys /\ l[1] = c /\ Entry(d, l) = L.entries[l]
          /\ Entry(d, l).sequence \in Nat
          /\ \A k \in Y : /\ k # l => Y = {k, l}
                          /\ Entry(d, k).sequence = Entry(d, l).sequence => k = l
    BY <1>2, LayersFacts DEF Entry
  <1>4. /\ LayersOn(T, c) = {l \in Y : \A i \in 1..n0 : s[i] # l}
        /\ n0 \in Nat /\ \A i, j \in 1..n0 : s[i] = s[j] => i = j
        /\ \A i, j \in 1..n0 : i < j /\ s[i] \in Y /\ s[j] \in Y =>
             Entry(d, s[j]).sequence < Entry(d, s[i]).sequence
        /\ \A i \in 1..n0 : s[i] \in Y <=> s[i][1] = c
    BY <1>1 DEF RevertOf
  <1>5. \A i \in 1..n0 : s[i] \in Y =>
          /\ OwnBackup(d, s[i]) = Entry(d, s[i]).backup
          /\ At(T, Backup(c, Entry(d, s[i]).sequence)) = None
          /\ Restored(d, U, req, i) \in ConfigFiles
          /\ Restored(d, U, req, i).bytes = Entry(d, s[i]).backup.bytes
          /\ (\A j \in 1..n0 : j > i => s[j] \notin Y) => At(T, Config(c)) = Restored(d, U, req, i)
          /\ IF Above(s, i) = {} THEN At(d, Config(c)) = Entry(d, s[i]).expected
             ELSE Entry(d, s[LastOf(Above(s, i))]).backup.bytes = Entry(d, s[i]).expected.bytes
    BY <1>1 DEF RevertOf
  <1>6. \A k \in LayersOn(T, c) :
          /\ KeepsLayer(d, T, k)
          /\ (\A i \in 1..n0 : s[i] \notin Newer(L, k)) => Entry(T, k) = Entry(d, k)
          /\ \A i \in 1..n0 :
               /\ s[i] \in Newer(L, k)
               /\ \A j \in 1..n0 : s[j] \in Newer(L, k) => j = i
               /\ \A m \in LayersOn(T, c) : s[i] \in Newer(L, m) => m = k
               => Entry(T, k).expected = Restored(d, U, req, i)
    BY <1>1 DEF RevertOf
  <1>7. \A k \in Y, i \in 1..n0 :
          s[i] \in Newer(L, k) <=> s[i] \in Y /\ Entry(d, k).sequence < Entry(d, s[i]).sequence
    <2> SUFFICES ASSUME NEW k \in Y, NEW i \in 1..n0
                 PROVE  s[i] \in Newer(L, k) <=> s[i] \in Y /\ Entry(d, k).sequence < Entry(d, s[i]).sequence
      OBVIOUS
    <2>1. s[i] \in Newer(L, k) => s[i][1] = c
      BY <1>3, NewerFacts
    <2>2. s[i] \in Newer(L, k) => s[i] \in Y
      BY <1>4, <2>1
    <2>3. ASSUME s[i] \in Y
          PROVE  s[i] \in Newer(L, k) <=> Entry(d, k).sequence < Entry(d, s[i]).sequence
      <3>1. k \in DOMAIN L.entries /\ s[i] \in DOMAIN L.entries /\ s[i][1] = k[1]
            /\ Entry(d, k) = L.entries[k] /\ Entry(d, s[i]) = L.entries[s[i]]
        BY <1>3, <2>3
      <3>2. s[i] \in Newer(L, k) <=> L.entries[s[i]].sequence > L.entries[k].sequence
        BY <3>1, NewerFacts
      <3> QED
        BY <1>3, <2>3, <3>1, <3>2
    <2> QED
      BY <2>2, <2>3
  <1> HIDE DEF T, L, s, Y
  <1>8. ASSUME \A i \in 1..n0 : s[i] \notin Y PROVE Turns(d, T, c)
    <2>1. LayersOn(T, c) = Y
      BY <1>4, <1>8
    <2>2. \A k \in Y : Entry(T, k) = Entry(d, k)
      BY <1>6, <1>7, <1>8, <2>1
    <2>3. At(T, Config(c)) = At(d, Config(c)) /\ \A n \in Nat : KeepsBackup(d, T, c, n)
      BY <1>2, <1>4, <1>8
    <2>4. Leaves(d, T, c)
      BY <2>1, <2>2, <2>3 DEF Leaves, Y
    <2> QED
      BY <2>4 DEF Turns
  <1>9. ASSUME NEW i \in 1..n0, s[i] \in Y, \A j \in 1..n0 : s[j] \in Y => j = i
        PROVE  Turns(d, T, c)
    <2> DEFINE l == s[i]
    <2>1. Above(s, i) = {}
      <3> SUFFICES ASSUME NEW j \in 1..(i - 1), s[j][1] = s[i][1] PROVE FALSE
        BY DEF Above
      <3>1. j \in 1..n0 /\ j # i
        BY <1>4
      <3>2. s[j] \in Y
        BY <1>4, <1>9, <3>1
      <3> QED
        BY <1>9, <3>1, <3>2
    <2>2. /\ At(d, Config(c)) = Entry(d, l).expected /\ OwnBackup(d, l) = Entry(d, l).backup
          /\ At(T, Backup(c, Entry(d, l).sequence)) = None
          /\ At(T, Config(c)) \in ConfigFiles /\ At(T, Config(c)) = Restored(d, U, req, i)
          /\ At(T, Config(c)).bytes = Entry(d, l).backup.bytes
      <3>1. At(T, Config(c)) = Restored(d, U, req, i)
        <4>1. \A j \in 1..n0 : j > i => s[j] \notin Y
          BY <1>4, <1>9
        <4> QED
          BY <1>5, <1>9, <4>1
      <3> QED
        BY <1>5, <1>9, <2>1, <3>1
    <2>3. \A n \in Nat : n # Entry(d, l).sequence => KeepsBackup(d, T, c, n)
      BY <1>2, <1>4, <1>9
    <2>4. l \in Keys
      BY <1>3, <1>9
    <2>5. LayersOn(T, c) = Y \ {l}
      BY <1>4, <1>9
    <2> HIDE DEF l
    <2>6. CASE Y = {l}
      <3>1. LayersOn(T, c) = {}
        BY <2>5, <2>6
      <3>2. Clears(d, T, c, l, l)
        BY <2>2, <2>3, <2>6, <3>1 DEF Clears, Y
      <3> QED
        BY <2>4, <3>2 DEF Turns
    <2>7. ASSUME NEW m \in Y, m # l PROVE Turns(d, T, c)
      <3>1. l \in Y /\ Y = {l, m} /\ LayersOn(T, c) = {m} /\ m \in Keys
        BY <1>3, <1>9, <2>5, <2>7 DEF l
      <3>2. KeepsLayer(d, T, m)
        BY <1>6, <3>1
      <3>3. Entry(d, l).sequence < Entry(d, m).sequence => Entry(T, m).expected = Entry(d, m).expected
        <4> SUFFICES ASSUME Entry(d, l).sequence < Entry(d, m).sequence
                     PROVE  Entry(T, m).expected = Entry(d, m).expected
          OBVIOUS
        <4>1. ASSUME NEW j \in 1..n0 PROVE s[j] \notin Newer(L, m)
          BY <1>3, <1>7, <1>9, <2>7, <3>1 DEF l
        <4> QED
          BY <1>6, <3>1, <4>1
      <3>4. ~(Entry(d, l).sequence < Entry(d, m).sequence) => Entry(T, m).expected = At(T, Config(c))
        <4> SUFFICES ASSUME ~(Entry(d, l).sequence < Entry(d, m).sequence)
                     PROVE  Entry(T, m).expected = At(T, Config(c))
          OBVIOUS
        <4>1. Entry(d, m).sequence < Entry(d, l).sequence
          BY <1>3, <2>7, <3>1
        <4>2. s[i] \in Newer(L, m)
          BY <1>7, <1>9, <2>7, <4>1 DEF l
        <4>3. \A j \in 1..n0 : s[j] \in Newer(L, m) => j = i
          BY <1>7, <1>9, <2>7
        <4>4. \A x \in LayersOn(T, c) : s[i] \in Newer(L, x) => x = m
          BY <3>1
        <4> QED
          BY <1>6, <2>2, <3>1, <4>2, <4>3, <4>4
      <3>5. Drops(d, T, c, l, m)
        BY <2>2, <2>3, <2>7, <3>1, <3>2, <3>3, <3>4 DEF Drops, Y
      <3> QED
        BY <2>4, <3>1, <3>5 DEF Turns
    <2> QED
      <3>1. l \in Y
        BY <1>9 DEF l
      <3> QED
        BY <2>6, <2>7, <3>1
  <1>10. ASSUME NEW i \in 1..n0, NEW j \in 1..n0, i < j, s[i] \in Y, s[j] \in Y
         PROVE  Turns(d, T, c)
    <2> DEFINE k == s[i]
               l == s[j]
    <2>1. k # l /\ Y = {k, l} /\ k \in Keys /\ l \in Keys
          /\ Entry(d, l).sequence < Entry(d, k).sequence
      BY <1>3, <1>4, <1>10
    <2>2. \A x \in 1..n0 : s[x] \in Y => x = i \/ x = j
      BY <1>4, <2>1
    <2>3. Above(s, i) = {} /\ Above(s, j) = {i}
      <3>1. \A x \in 1..n0 : s[x][1] = c => x = i \/ x = j
        BY <1>4, <2>2
      <3>2. s[i][1] = c /\ s[j][1] = c
        BY <1>4, <1>10
      <3>3. i \in Nat /\ j \in Nat /\ 1 <= i /\ j <= n0 /\ n0 \in Nat
        BY <1>4
      <3>4. ASSUME NEW x \in 1..(i - 1), s[x][1] = s[i][1] PROVE FALSE
        <4>1. x \in 1..n0 /\ x # i /\ x # j
          BY <1>10, <3>3
        <4> QED
          BY <3>1, <3>2, <3>4, <4>1
      <3>5. ASSUME NEW x \in 1..(j - 1), s[x][1] = s[j][1] PROVE x = i
        <4>1. x \in 1..n0 /\ x # j
          BY <3>3
        <4> QED
          BY <3>1, <3>2, <3>5, <4>1
      <3>6. i \in 1..(j - 1)
        BY <1>10, <3>3
      <3> QED
        BY <3>2, <3>4, <3>5, <3>6 DEF Above
    <2>4. LastOf({i}) = i
      <3>1. {i} \in SUBSET Nat /\ {i} # {} /\ i \in Nat /\ \A x \in {i} : x <= i
        OBVIOUS
      <3>2. LastOf({i}) \in {i}
        BY <3>1, FiniteSetHasMaximum
      <3> QED
        BY <3>2
    <2>5. /\ OwnBackup(d, k) = Entry(d, k).backup /\ OwnBackup(d, l) = Entry(d, l).backup
          /\ At(T, Backup(c, Entry(d, k).sequence)) = None
          /\ At(T, Backup(c, Entry(d, l).sequence)) = None
          /\ At(d, Config(c)) = Entry(d, k).expected
          /\ Entry(d, k).backup.bytes = Entry(d, l).expected.bytes
      BY <1>5, <1>10, <2>3, <2>4
    <2>6. At(T, Config(c)) \in ConfigFiles /\ At(T, Config(c)).bytes = Entry(d, l).backup.bytes
      <3>1. \A x \in 1..n0 : x > j => s[x] \notin Y
        BY <1>4, <1>10, <2>2
      <3> QED
        BY <1>5, <1>10, <3>1
    <2>7. LayersOn(T, c) = {}
      BY <1>4, <2>1
    <2>8. \A n \in Nat : n \notin {Entry(d, l).sequence, Entry(d, k).sequence} => KeepsBackup(d, T, c, n)
      BY <1>2, <1>4, <2>2
    <2> HIDE DEF k, l
    <2>9. Clears(d, T, c, l, k)
      BY <2>1, <2>5, <2>6, <2>7, <2>8 DEF Clears, Y
    <2> QED
      BY <2>1, <2>9 DEF Turns
  <1>11. Turns(d, T, c)
    <2>1. CASE \E i \in 1..n0 : s[i] \in Y
      <3>1. PICK i \in 1..n0 : s[i] \in Y
        BY <2>1
      <3>2. CASE \A j \in 1..n0 : s[j] \in Y => j = i
        BY <1>9, <3>1, <3>2
      <3>3. CASE ~\A j \in 1..n0 : s[j] \in Y => j = i
        <4>1. PICK j \in 1..n0 : s[j] \in Y /\ j # i
          BY <3>3
        <4>2. i < j \/ j < i
          BY <1>4, <4>1
        <4> QED
          BY <1>10, <3>1, <4>1, <4>2
      <3> QED
        BY <3>2, <3>3
    <2>2. CASE ~\E i \in 1..n0 : s[i] \in Y
      BY <1>8, <2>2
    <2> QED
      BY <2>1, <2>2
  <1> QED
    BY <1>11 DEF T

-----------------------------------------------------------------------------
(* Where the last version of a client's configuration is, on a disk where  *)
(* no command runs.                                                        *)

Has(d, p, b) == At(d, p) # None /\ At(d, p).bytes = b

\* In a backup that no layer names.
Unnamed(d, c, b) ==
  \E n \in Nat : Has(d, Backup(c, n), b) /\ \A l \in LayersOn(d, c) : Entry(d, l).sequence # n

\* In the configuration, which has no layers.
Unswapped(d, c, b) == LayersOn(d, c) = {} /\ Has(d, Config(c), b)

\* What the first layer backs up, and in some file.
BackedUp(d, c, b) ==
  /\ \E l \in LayersOn(d, c) : /\ Entry(d, l).backup.bytes = b
                               /\ \A k \in LayersOn(d, c) : Entry(d, l).sequence <= Entry(d, k).sequence
  /\ Has(d, Config(c), b) \/ \E n \in Nat : Has(d, Backup(c, n), b)

\* In the configuration, which no layer expects.
Overwritten(d, c, b) ==
  /\ LayersOn(d, c) # {} /\ Has(d, Config(c), b)
  /\ \A l \in LayersOn(d, c) : At(d, Config(c)) # Entry(d, l).expected

Safe(d, c, b) ==
  Unnamed(d, c, b) \/ Unswapped(d, c, b) \/ BackedUp(d, c, b) \/ Overwritten(d, c, b)

\* Each layer changed the entry of its scope, and the next one backed up what it left.
Chained(d, c) ==
  /\ \A l \in LayersOn(d, c) : SameBut(Entry(d, l).backup.bytes, Entry(d, l).expected.bytes, l[2])
  /\ \A k, l \in LayersOn(d, c) : Entry(d, k).sequence < Entry(d, l).sequence =>
       Entry(d, l).backup.bytes = Entry(d, k).expected.bytes

\* A layer is put only on what the one below it left.
Follows(d, e, c) ==
  \A l \in Keys : Adds(d, e, c, l) => \A k \in LayersOn(d, c) : At(d, Config(c)) = Entry(d, k).expected

\* Changing the entries of two scopes in turn comes back only if nothing was changed.
LEMMA RoundTrip ==
  ASSUME NEW x \in ConfigBytes, NEW y \in ConfigBytes, NEW s \in Scopes, NEW t \in Scopes,
         s # t, SameBut(x, y, s), SameBut(y, x, t)
  PROVE  y = x
  <1>1. y.rest = x.rest
    BY DEF SameBut
  <1>2. \A u \in Scopes : y.entry[u] = x.entry[u]
    BY DEF SameBut
  <1>3. x.entry \in [Scopes -> ServerEntries] /\ y.entry \in [Scopes -> ServerEntries]
    BY DEF ConfigBytes
  <1>4. y.entry = x.entry
    BY <1>2, <1>3
  <1> QED
    BY <1>1, <1>4 DEF ConfigBytes

\* If two layers bring back what the first found, each found the same.
LEMMA NothingChanged ==
  ASSUME NEW d, Proper(d), NEW c, Chained(d, c), NEW k \in LayersOn(d, c), NEW l \in LayersOn(d, c),
         Entry(d, k).sequence < Entry(d, l).sequence,
         Entry(d, l).expected.bytes = Entry(d, k).backup.bytes
  PROVE  Entry(d, l).backup.bytes = Entry(d, k).backup.bytes
  <1> DEFINE x == Entry(d, k).backup.bytes
             y == Entry(d, l).backup.bytes
  <1>1. k[2] \in Scopes /\ l[2] \in Scopes /\ x \in ConfigBytes /\ y \in ConfigBytes
    BY LayersFacts, ConfigFileFacts
  <1>2. k[2] # l[2]
    <2>1. Entry(d, k).sequence \in Nat
      BY LayersFacts
    <2> QED
      BY <2>1, LayersFacts
  <1>3. SameBut(x, y, k[2]) /\ SameBut(y, x, l[2])
    BY DEF Chained
  <1> HIDE DEF x, y
  <1>4. y = x
    BY <1>1, <1>2, <1>3, RoundTrip
  <1> QED
    BY <1>4 DEF x, y

LEMMA ChainedTurns ==
  ASSUME NEW d, NEW e, Proper(d), Proper(e), NEW c, Chained(d, c), Turns(d, e, c), Follows(d, e, c)
  PROVE  Chained(e, c)
  <1>1. \A l \in LayersOn(d, c) : /\ l[2] \in Scopes /\ Entry(d, l).sequence \in Nat
                                  /\ Entry(d, l).backup.bytes \in ConfigBytes
                                  /\ Entry(d, l).expected.bytes \in ConfigBytes
                                  /\ \A k \in LayersOn(d, c) : k[2] = l[2] => k = l
    BY LayersFacts, ConfigFileFacts
  <1>2. \A l \in LayersOn(e, c) : l[2] \in Scopes /\ Entry(e, l).sequence \in Nat
    BY LayersFacts
  <1>3. \A k \in LayersOn(d, c), l \in LayersOn(d, c) : k # l => LayersOn(d, c) = {k, l}
    BY LayersFacts
  <1>4. \A l \in LayersOn(d, c) : SameBut(Entry(d, l).backup.bytes, Entry(d, l).expected.bytes, l[2])
    BY DEF Chained
  <1>5. \A k, l \in LayersOn(d, c) : Entry(d, k).sequence < Entry(d, l).sequence =>
          Entry(d, l).backup.bytes = Entry(d, k).expected.bytes
    BY DEF Chained
  <1>6. CASE Leaves(d, e, c)
    BY <1>4, <1>5, <1>6 DEF Leaves, Chained
  <1>7. ASSUME NEW l \in Keys, Adds(d, e, c, l) PROVE Chained(e, c)
    <2>1. /\ l \notin LayersOn(d, c) /\ LayersOn(e, c) = LayersOn(d, c) \cup {l}
          /\ \A k \in LayersOn(d, c) : /\ Entry(e, k) = Entry(d, k)
                                       /\ Entry(d, k).sequence < Entry(e, l).sequence
          /\ At(e, Config(c)) = Entry(e, l).expected
          /\ Entry(e, l).backup.bytes = At(d, Config(c)).bytes
          /\ SameBut(At(d, Config(c)).bytes, At(e, Config(c)).bytes, l[2])
      BY <1>7 DEF Adds
    <2>2. \A k \in LayersOn(d, c) : At(d, Config(c)) = Entry(d, k).expected
      BY <1>7 DEF Follows
    <2>3. \A m \in LayersOn(e, c) : SameBut(Entry(e, m).backup.bytes, Entry(e, m).expected.bytes, m[2])
      BY <1>4, <2>1
    <2>4. ASSUME NEW k \in LayersOn(e, c), NEW m \in LayersOn(e, c),
                 Entry(e, k).sequence < Entry(e, m).sequence
          PROVE  Entry(e, m).backup.bytes = Entry(e, k).expected.bytes
      <3>1. Entry(e, k).sequence \in Nat /\ Entry(e, m).sequence \in Nat
        BY <1>2
      <3>2. k # l
        <4> SUFFICES ASSUME k = l PROVE FALSE
          OBVIOUS
        <4>1. m # l /\ m \in LayersOn(d, c)
          BY <2>1, <2>4, <3>1
        <4>2. Entry(e, m).sequence < Entry(e, l).sequence
          BY <2>1, <4>1
        <4> QED
          BY <2>4, <3>1, <4>2
      <3>3. k \in LayersOn(d, c)
        BY <2>1, <3>2
      <3>4. CASE m = l
        BY <2>1, <2>2, <3>3, <3>4
      <3>5. CASE m # l
        BY <1>5, <2>1, <2>4, <3>3, <3>5
      <3> QED
        BY <3>4, <3>5
    <2> QED
      BY <2>3, <2>4 DEF Chained
  <1>8. ASSUME NEW l \in Keys, Renews(d, e, c, l) PROVE Chained(e, c)
    <2>1. /\ l \in LayersOn(d, c) /\ LayersOn(e, c) = LayersOn(d, c)
          /\ \A k \in LayersOn(d, c) : k # l => /\ Entry(e, k) = Entry(d, k)
                                                /\ Entry(d, k).sequence < Entry(d, l).sequence
          /\ At(d, Config(c)) = Entry(d, l).expected
          /\ Entry(e, l).sequence = Entry(d, l).sequence /\ Entry(e, l).backup = Entry(d, l).backup
          /\ At(e, Config(c)) = Entry(e, l).expected
          /\ SameBut(At(d, Config(c)).bytes, At(e, Config(c)).bytes, l[2])
      BY <1>8 DEF Renews, KeepsLayer
    <2>2. SameBut(Entry(e, l).backup.bytes, Entry(e, l).expected.bytes, l[2])
      BY <1>4, <2>1 DEF SameBut
    <2>3. \A m \in LayersOn(e, c) : SameBut(Entry(e, m).backup.bytes, Entry(e, m).expected.bytes, m[2])
      BY <1>4, <2>1, <2>2
    <2>4. ASSUME NEW k \in LayersOn(e, c), NEW m \in LayersOn(e, c),
                 Entry(e, k).sequence < Entry(e, m).sequence
          PROVE  Entry(e, m).backup.bytes = Entry(e, k).expected.bytes
      <3>1. k # l
        <4> SUFFICES ASSUME k = l PROVE FALSE
          OBVIOUS
        <4>1. Entry(d, l).sequence < Entry(d, m).sequence /\ m # l
          BY <1>1, <2>1, <2>4
        <4> QED
          BY <1>1, <2>1, <4>1
      <3>2. Entry(e, k) = Entry(d, k) /\ Entry(e, m).backup = Entry(d, m).backup
            /\ Entry(e, m).sequence = Entry(d, m).sequence
        BY <2>1, <3>1
      <3> QED
        BY <1>5, <2>1, <2>4, <3>2
    <2> QED
      BY <2>3, <2>4 DEF Chained
  <1>9. ASSUME NEW l \in Keys, NEW k \in Keys, Relays(d, e, c, l, k) PROVE Chained(e, c)
    <2>1. /\ l \in LayersOn(d, c) /\ k \in LayersOn(d, c) /\ LayersOn(e, c) = LayersOn(d, c)
          /\ Entry(d, l).sequence < Entry(d, k).sequence
          /\ At(d, Config(c)) = Entry(d, k).expected
          /\ Entry(e, l).sequence = Entry(d, l).sequence /\ Entry(e, l).backup = Entry(d, l).backup
          /\ Entry(e, k).sequence = Entry(d, k).sequence
          /\ Entry(e, l).expected = Entry(e, k).backup /\ Entry(e, k).expected = At(e, Config(c))
      BY <1>9 DEF Relays, KeepsLayer
    <2>2. PICK x \in ServerEntries :
            /\ Entry(e, k).backup.bytes = SetServer(Entry(d, k).backup.bytes, l[2], x)
            /\ At(e, Config(c)).bytes = SetServer(At(d, Config(c)).bytes, l[2], x)
      BY <1>9 DEF Relays
    <2>3. l # k /\ LayersOn(d, c) = {l, k} /\ l[2] # k[2]
      BY <1>1, <1>3, <2>1
    <2> DEFINE y == Entry(d, k).backup.bytes
               z == Entry(d, k).expected.bytes
               f == SetServer(y, l[2], x)
               g == SetServer(z, l[2], x)
    <2>4. /\ f.rest = y.rest /\ f.entry[l[2]] = x /\ \A t \in Scopes \ {l[2]} : f.entry[t] = y.entry[t]
          /\ g.rest = z.rest /\ g.entry[l[2]] = x /\ \A t \in Scopes \ {l[2]} : g.entry[t] = z.entry[t]
      <3>1. y \in ConfigBytes /\ z \in ConfigBytes /\ l[2] \in Scopes
        BY <1>1, <2>1
      <3> HIDE DEF y, z
      <3> QED
        BY <3>1, EditedFacts DEF f, g
    <2>5. Entry(e, k).backup.bytes = f /\ Entry(e, k).expected.bytes = g /\ Entry(e, l).expected.bytes = f
      BY <2>1, <2>2
    <2>6. SameBut(y, z, k[2]) /\ SameBut(Entry(d, l).backup.bytes, y, l[2])
      BY <1>4, <1>5, <2>1
    <2> HIDE DEF y, z, f, g
    <2>7. SameBut(f, g, k[2])
      BY <2>4, <2>6 DEF SameBut
    <2>8. SameBut(Entry(d, l).backup.bytes, f, l[2])
      BY <2>4, <2>6 DEF SameBut
    <2>9. \A m \in LayersOn(e, c) : SameBut(Entry(e, m).backup.bytes, Entry(e, m).expected.bytes, m[2])
      BY <2>1, <2>3, <2>5, <2>7, <2>8
    <2>10. ASSUME NEW i \in LayersOn(e, c), NEW m \in LayersOn(e, c),
                  Entry(e, i).sequence < Entry(e, m).sequence
           PROVE  Entry(e, m).backup.bytes = Entry(e, i).expected.bytes
      <3>1. i = l /\ m = k
        BY <1>1, <2>1, <2>3, <2>10
      <3> QED
        BY <2>5, <3>1
    <2> QED
      BY <2>9, <2>10 DEF Chained
  <1>10. ASSUME NEW l \in Keys, NEW k \in Keys, Clears(d, e, c, l, k) PROVE Chained(e, c)
    BY <1>10 DEF Clears, Chained
  <1>11. ASSUME NEW l \in Keys, NEW m \in Keys, Drops(d, e, c, l, m) PROVE Chained(e, c)
    <2>1. /\ l # m /\ LayersOn(d, c) = {l, m} /\ LayersOn(e, c) = {m}
          /\ Entry(e, m).backup = Entry(d, m).backup
          /\ Entry(e, m).expected = IF Entry(d, l).sequence < Entry(d, m).sequence
                                    THEN Entry(d, m).expected ELSE At(e, Config(c))
          /\ At(e, Config(c)).bytes = Entry(d, l).backup.bytes
      BY <1>11 DEF Drops, KeepsLayer
    <2>2. Entry(e, m).expected.bytes = Entry(d, m).expected.bytes
      <3>1. CASE Entry(d, l).sequence < Entry(d, m).sequence
        BY <2>1, <3>1
      <3>2. CASE ~(Entry(d, l).sequence < Entry(d, m).sequence)
        <4>1. Entry(d, l).sequence # Entry(d, m).sequence
          BY <2>1, LayersFacts
        <4>2. Entry(d, m).sequence < Entry(d, l).sequence
          BY <1>1, <2>1, <3>2, <4>1
        <4> QED
          BY <1>5, <2>1, <3>2, <4>2
      <3> QED
        BY <3>1, <3>2
    <2>3. SameBut(Entry(e, m).backup.bytes, Entry(e, m).expected.bytes, m[2])
      BY <1>4, <2>1, <2>2
    <2>4. \A i, j \in LayersOn(e, c) : ~(Entry(e, i).sequence < Entry(e, j).sequence)
      BY <1>2, <2>1
    <2> QED
      BY <2>1, <2>3, <2>4 DEF Chained
  <1> QED
    BY <1>6, <1>7, <1>8, <1>9, <1>10, <1>11 DEF Turns

\* A plan carried out keeps the last version safe.
LEMMA SafeTurns ==
  ASSUME NEW d, NEW e, Proper(d), Proper(e), NEW c, NEW b, Chained(d, c), Turns(d, e, c),
         Follows(d, e, c), Safe(d, c, b)
  PROVE  Safe(e, c, b)
  <1>1. \A l \in LayersOn(d, c) : /\ Entry(d, l).sequence \in Nat
                                  /\ Entry(d, l).backup \in ConfigFiles /\ Entry(d, l).backup # None
                                  /\ Entry(d, l).expected \in ConfigFiles
    BY LayersFacts, ConfigFileFacts
  <1>2. \A l \in LayersOn(e, c) : /\ Entry(e, l).sequence \in Nat
                                  /\ Entry(e, l).backup # None
    BY LayersFacts, ConfigFileFacts
  <1>3. \A k, l \in LayersOn(d, c) : k # l => LayersOn(d, c) = {k, l}
    BY LayersFacts
  <1>4. \A f \in ConfigFiles : f # None
    BY ConfigFileFacts
  <1>5. CASE Leaves(d, e, c)
    <2>1. \A p \in {Config(c)} \cup {Backup(c, n) : n \in Nat} : At(e, p) = At(d, p)
      BY <1>5 DEF Leaves, KeepsBackup
    <2>2. LayersOn(e, c) = LayersOn(d, c) /\ \A l \in LayersOn(d, c) : Entry(e, l) = Entry(d, l)
      BY <1>5 DEF Leaves
    <2>3. CASE Unnamed(d, c, b)
      BY <2>1, <2>2, <2>3 DEF Unnamed, Has, Safe
    <2>4. CASE Unswapped(d, c, b)
      BY <2>1, <2>2, <2>4 DEF Unswapped, Has, Safe
    <2>5. CASE BackedUp(d, c, b)
      BY <2>1, <2>2, <2>5 DEF BackedUp, Has, Safe
    <2>6. CASE Overwritten(d, c, b)
      BY <2>1, <2>2, <2>6 DEF Overwritten, Has, Safe
    <2> QED
      BY <2>3, <2>4, <2>5, <2>6 DEF Safe
  <1>6. ASSUME NEW l \in Keys, Adds(d, e, c, l) PROVE Safe(e, c, b)
    <2> DEFINE n0 == Entry(e, l).sequence
    <2>1. /\ l \notin LayersOn(d, c) /\ LayersOn(e, c) = LayersOn(d, c) \cup {l}
          /\ \A k \in LayersOn(d, c) : Entry(e, k) = Entry(d, k) /\ Entry(d, k).sequence < n0
          /\ At(d, Backup(c, n0)) = None /\ At(e, Backup(c, n0)) = Entry(e, l).backup
          /\ Entry(e, l).backup.bytes = At(d, Config(c)).bytes
          /\ \A n \in Nat : n # n0 => At(e, Backup(c, n)) = At(d, Backup(c, n))
          /\ n0 \in Nat /\ Entry(e, l).backup # None
      BY <1>2, <1>6 DEF Adds, KeepsBackup
    <2>2. \A k \in LayersOn(d, c) : At(d, Config(c)) = Entry(d, k).expected
      BY <1>6 DEF Follows
    <2> HIDE DEF n0
    <2>3. CASE Unnamed(d, c, b)
      <3>1. PICK n \in Nat : Has(d, Backup(c, n), b) /\ \A k \in LayersOn(d, c) : Entry(d, k).sequence # n
        BY <2>3 DEF Unnamed
      <3>2. n # n0
        BY <2>1, <3>1 DEF Has
      <3>3. Has(e, Backup(c, n), b)
        BY <2>1, <3>1, <3>2 DEF Has
      <3>4. \A k \in LayersOn(e, c) : Entry(e, k).sequence # n
        BY <2>1, <3>1, <3>2 DEF n0
      <3> QED
        BY <3>3, <3>4 DEF Unnamed, Safe
    <2>4. CASE Has(d, Config(c), b) /\ LayersOn(d, c) = {}
      <3>1. Entry(e, l).backup.bytes = b /\ Has(e, Backup(c, n0), b)
        BY <2>1, <2>4 DEF Has
      <3>2. \A k \in LayersOn(e, c) : Entry(e, l).sequence <= Entry(e, k).sequence
        BY <1>2, <2>1, <2>4
      <3> QED
        BY <2>1, <3>1, <3>2 DEF BackedUp, Safe
    <2>5. CASE BackedUp(d, c, b)
      <3>1. PICK k \in LayersOn(d, c) : /\ Entry(d, k).backup.bytes = b
                                        /\ \A m \in LayersOn(d, c) : Entry(d, k).sequence <= Entry(d, m).sequence
        BY <2>5 DEF BackedUp
      <3>2. k \in LayersOn(e, c) /\ Entry(e, k).backup.bytes = b
            /\ \A m \in LayersOn(e, c) : Entry(e, k).sequence <= Entry(e, m).sequence
        <4>1. Entry(d, k).sequence \in Nat /\ Entry(d, k).sequence < n0
          BY <1>1, <2>1
        <4>2. Entry(d, k).sequence <= n0
          BY <2>1, <4>1
        <4> QED
          BY <2>1, <3>1, <4>2 DEF n0
      <3>3. \E n \in Nat : Has(e, Backup(c, n), b)
        <4>1. CASE Has(d, Config(c), b)
          BY <2>1, <4>1 DEF Has
        <4>2. CASE \E n \in Nat : Has(d, Backup(c, n), b)
          <5>1. PICK n \in Nat : Has(d, Backup(c, n), b)
            BY <4>2
          <5>2. n # n0
            BY <2>1, <5>1 DEF Has
          <5> QED
            BY <2>1, <5>1, <5>2 DEF Has
        <4> QED
          BY <2>5, <4>1, <4>2 DEF BackedUp
      <3> QED
        BY <3>2, <3>3 DEF BackedUp, Safe
    <2>6. CASE Overwritten(d, c, b)
      BY <2>2, <2>6 DEF Overwritten
    <2> QED
      BY <2>3, <2>4, <2>5, <2>6 DEF Safe, Unswapped
  <1>7. ASSUME NEW l \in Keys, Renews(d, e, c, l) PROVE Safe(e, c, b)
    <2>1. /\ l \in LayersOn(d, c) /\ LayersOn(e, c) = LayersOn(d, c)
          /\ \A k \in LayersOn(d, c) : /\ Entry(e, k).sequence = Entry(d, k).sequence
                                       /\ Entry(e, k).backup = Entry(d, k).backup
                                       /\ k # l => Entry(d, k).sequence < Entry(d, l).sequence
          /\ At(d, Config(c)) = Entry(d, l).expected
          /\ l[1] = c
      BY <1>7, LayersFacts DEF Renews, KeepsLayer
    <2>2. /\ \A n \in Nat : At(e, Backup(c, n)) = At(d, Backup(c, n))
          /\ At(d, Backup(c, Entry(d, l).sequence)) = Entry(d, l).backup
      BY <1>7, <2>1 DEF Renews, KeepsBackup, OwnBackup
    <2>3. CASE Unnamed(d, c, b)
      BY <2>1, <2>2, <2>3 DEF Unnamed, Has, Safe
    <2>4. CASE BackedUp(d, c, b)
      <3>1. PICK k \in LayersOn(d, c) : /\ Entry(d, k).backup.bytes = b
                                        /\ \A m \in LayersOn(d, c) : Entry(d, k).sequence <= Entry(d, m).sequence
        BY <2>4 DEF BackedUp
      <3>2. \E n \in Nat : Has(e, Backup(c, n), b)
        <4>1. CASE \E n \in Nat : Has(d, Backup(c, n), b)
          BY <2>2, <4>1 DEF Has
        <4>2. CASE Has(d, Config(c), b)
          <5>1. Entry(d, l).backup.bytes = b
            <6>1. CASE k = l
              BY <3>1, <6>1
            <6>2. CASE k # l
              <7>1. Entry(d, l).expected.bytes = Entry(d, k).backup.bytes
                BY <2>1, <3>1, <4>2 DEF Has
              <7> QED
                BY <2>1, <3>1, <6>2, <7>1, NothingChanged
            <6> QED
              BY <6>1, <6>2
          <5> QED
            BY <1>1, <2>1, <2>2, <5>1 DEF Has
        <4> QED
          BY <2>4, <4>1, <4>2 DEF BackedUp
      <3>3. k \in LayersOn(e, c) /\ Entry(e, k).backup.bytes = b
            /\ \A m \in LayersOn(e, c) : Entry(e, k).sequence <= Entry(e, m).sequence
        BY <2>1, <3>1
      <3> QED
        BY <3>2, <3>3 DEF BackedUp, Safe
    <2>5. ~Overwritten(d, c, b) /\ ~Unswapped(d, c, b)
      BY <2>1 DEF Overwritten, Unswapped
    <2> QED
      BY <2>3, <2>4, <2>5 DEF Safe
  <1>8. ASSUME NEW l \in Keys, NEW k \in Keys, Relays(d, e, c, l, k) PROVE Safe(e, c, b)
    <2>1. /\ l \in LayersOn(d, c) /\ k \in LayersOn(d, c) /\ LayersOn(e, c) = LayersOn(d, c)
          /\ Entry(d, l).sequence < Entry(d, k).sequence
          /\ At(d, Config(c)) = Entry(d, k).expected
          /\ Entry(e, l).sequence = Entry(d, l).sequence /\ Entry(e, l).backup = Entry(d, l).backup
          /\ Entry(e, k).sequence = Entry(d, k).sequence
          /\ l[1] = c
      BY <1>8, LayersFacts DEF Relays, KeepsLayer
    <2>2. /\ \A n \in Nat : n # Entry(d, k).sequence => At(e, Backup(c, n)) = At(d, Backup(c, n))
          /\ At(d, Backup(c, Entry(d, l).sequence)) = Entry(d, l).backup
      BY <1>8, <2>1 DEF Relays, KeepsBackup, OwnBackup
    <2>3. l # k /\ LayersOn(d, c) = {l, k}
      BY <1>1, <1>3, <2>1
    <2>4. CASE Unnamed(d, c, b)
      BY <2>1, <2>2, <2>3, <2>4 DEF Unnamed, Has, Safe
    <2>5. CASE BackedUp(d, c, b)
      <3>1. Entry(d, l).backup.bytes = b
        <4>1. PICK i \in LayersOn(d, c) : /\ Entry(d, i).backup.bytes = b
                                          /\ \A m \in LayersOn(d, c) : Entry(d, i).sequence <= Entry(d, m).sequence
          BY <2>5 DEF BackedUp
        <4>2. i = l
          <5>1. Entry(d, i).sequence <= Entry(d, l).sequence
            BY <2>1, <4>1
          <5> QED
            BY <1>1, <2>1, <2>3, <4>1, <5>1
        <4> QED
          BY <4>1, <4>2
      <3>2. Has(e, Backup(c, Entry(d, l).sequence), b)
        BY <1>1, <2>1, <2>2, <3>1 DEF Has
      <3>3. l \in LayersOn(e, c) /\ Entry(e, l).backup.bytes = b
            /\ \A m \in LayersOn(e, c) : Entry(e, l).sequence <= Entry(e, m).sequence
        <4>1. Entry(d, l).sequence <= Entry(d, l).sequence /\ Entry(d, l).sequence <= Entry(d, k).sequence
          BY <1>1, <2>1
        <4> QED
          BY <2>1, <2>3, <3>1, <4>1
      <3>4. Entry(d, l).sequence \in Nat
        BY <1>1, <2>1
      <3> QED
        BY <3>2, <3>3, <3>4 DEF BackedUp, Safe
    <2>6. ~Overwritten(d, c, b) /\ ~Unswapped(d, c, b)
      BY <2>1 DEF Overwritten, Unswapped
    <2> QED
      BY <2>4, <2>5, <2>6 DEF Safe
  <1>9. ASSUME NEW l \in Keys, NEW k \in Keys, Clears(d, e, c, l, k) PROVE Safe(e, c, b)
    <2>1. /\ l \in LayersOn(d, c) /\ k \in LayersOn(d, c) /\ LayersOn(e, c) = {}
          /\ \A m \in LayersOn(d, c) : m = l \/ m = k
          /\ At(d, Config(c)) = Entry(d, k).expected
          /\ k # l => Entry(d, l).sequence < Entry(d, k).sequence
          /\ At(e, Config(c)) \in ConfigFiles /\ At(e, Config(c)).bytes = Entry(d, l).backup.bytes
          /\ \A n \in Nat : n \notin {Entry(d, l).sequence, Entry(d, k).sequence} =>
               At(e, Backup(c, n)) = At(d, Backup(c, n))
      BY <1>9 DEF Clears, KeepsBackup
    <2>2. CASE Unnamed(d, c, b)
      BY <2>1, <2>2 DEF Unnamed, Has, Safe
    <2>3. CASE BackedUp(d, c, b)
      <3>1. PICK i \in LayersOn(d, c) : /\ Entry(d, i).backup.bytes = b
                                        /\ \A m \in LayersOn(d, c) : Entry(d, i).sequence <= Entry(d, m).sequence
        BY <2>3 DEF BackedUp
      <3>2. i = l
        <4>1. Entry(d, i).sequence <= Entry(d, l).sequence
          BY <2>1, <3>1
        <4> QED
          BY <1>1, <2>1, <3>1, <4>1
      <3>3. Has(e, Config(c), b)
        BY <1>4, <2>1, <3>1, <3>2 DEF Has
      <3> QED
        BY <2>1, <3>3 DEF Unswapped, Safe
    <2>4. ~Overwritten(d, c, b) /\ ~Unswapped(d, c, b)
      BY <2>1 DEF Overwritten, Unswapped
    <2> QED
      BY <2>2, <2>3, <2>4 DEF Safe
  <1>10. ASSUME NEW l \in Keys, NEW m \in Keys, Drops(d, e, c, l, m) PROVE Safe(e, c, b)
    <2>1. /\ l # m /\ LayersOn(d, c) = {l, m} /\ LayersOn(e, c) = {m}
          /\ At(d, Config(c)) = Entry(d, l).expected
          /\ Entry(e, m).sequence = Entry(d, m).sequence /\ Entry(e, m).backup = Entry(d, m).backup
          /\ Entry(d, l).sequence < Entry(d, m).sequence => Entry(e, m).expected = Entry(d, m).expected
          /\ At(e, Config(c)) \in ConfigFiles /\ At(e, Config(c)).bytes = Entry(d, l).backup.bytes
          /\ \A n \in Nat : n # Entry(d, l).sequence => At(e, Backup(c, n)) = At(d, Backup(c, n))
          /\ l[1] = c /\ OwnBackup(d, l) = Entry(d, l).backup
      <3>1. l \in LayersOn(d, c)
        BY <1>10 DEF Drops
      <3>2. l[1] = c
        BY <3>1, LayersFacts
      <3> QED
        BY <1>10, <3>2 DEF Drops, KeepsLayer, KeepsBackup
    <2>2. At(d, Backup(c, Entry(d, l).sequence)) = Entry(d, l).backup
      BY <2>1 DEF OwnBackup
    <2>3. \A x \in LayersOn(e, c) : Entry(e, m).sequence <= Entry(e, x).sequence
      BY <1>2, <2>1
    <2>4. CASE Unnamed(d, c, b)
      BY <2>1, <2>4 DEF Unnamed, Has, Safe
    <2>5. CASE BackedUp(d, c, b) /\ Entry(d, m).sequence < Entry(d, l).sequence
      <3>1. Entry(d, m).backup.bytes = b
        <4>1. PICK i \in LayersOn(d, c) : /\ Entry(d, i).backup.bytes = b
                                          /\ \A x \in LayersOn(d, c) : Entry(d, i).sequence <= Entry(d, x).sequence
          BY <2>5 DEF BackedUp
        <4>2. i = m
          <5>1. Entry(d, i).sequence <= Entry(d, m).sequence
            BY <2>1, <4>1
          <5> QED
            BY <1>1, <2>1, <2>5, <4>1, <5>1
        <4> QED
          BY <4>1, <4>2
      <3>2. CASE Has(d, Config(c), b)
        <4>1. Entry(d, l).expected.bytes = Entry(d, m).backup.bytes
          BY <2>1, <3>1, <3>2 DEF Has
        <4>2. Entry(d, l).backup.bytes = b
          BY <2>1, <2>5, <3>1, <4>1, NothingChanged
        <4>3. Has(e, Config(c), b)
          BY <1>4, <2>1, <4>2 DEF Has
        <4> QED
          BY <2>1, <2>3, <3>1, <4>3 DEF BackedUp, Safe
      <3>3. ASSUME NEW n \in Nat, Has(d, Backup(c, n), b) PROVE Safe(e, c, b)
        <4>1. CASE n = Entry(d, l).sequence
          <5>1. Entry(d, l).backup.bytes = b
            BY <2>2, <3>3, <4>1 DEF Has
          <5>2. Has(e, Config(c), b)
            BY <1>4, <2>1, <5>1 DEF Has
          <5> QED
            BY <2>1, <2>3, <3>1, <5>2 DEF BackedUp, Safe
        <4>2. CASE n # Entry(d, l).sequence
          <5>1. Has(e, Backup(c, n), b)
            BY <2>1, <3>3, <4>2 DEF Has
          <5> QED
            BY <2>1, <2>3, <3>1, <5>1 DEF BackedUp, Safe
        <4> QED
          BY <4>1, <4>2
      <3> QED
        BY <2>5, <3>2, <3>3 DEF BackedUp
    <2>6. CASE BackedUp(d, c, b) /\ Entry(d, l).sequence < Entry(d, m).sequence
      <3>1. Entry(d, l).backup.bytes = b
        <4>1. PICK i \in LayersOn(d, c) : /\ Entry(d, i).backup.bytes = b
                                          /\ \A x \in LayersOn(d, c) : Entry(d, i).sequence <= Entry(d, x).sequence
          BY <2>6 DEF BackedUp
        <4>2. i = l
          <5>1. Entry(d, i).sequence <= Entry(d, l).sequence
            BY <2>1, <4>1
          <5> QED
            BY <1>1, <2>1, <2>6, <4>1, <5>1
        <4> QED
          BY <4>1, <4>2
      <3>2. Has(e, Config(c), b)
        BY <1>4, <2>1, <3>1 DEF Has
      <3>3. CASE At(e, Config(c)) # Entry(e, m).expected
        BY <2>1, <3>2, <3>3 DEF Overwritten, Safe
      <3>4. CASE At(e, Config(c)) = Entry(e, m).expected
        <4>1. Entry(d, m).expected.bytes = Entry(d, l).backup.bytes
          BY <2>1, <2>6, <3>4
        <4>2. Entry(d, m).backup.bytes = b
          BY <2>1, <2>6, <3>1, <4>1, NothingChanged
        <4> QED
          BY <2>1, <2>3, <3>2, <4>2 DEF BackedUp, Safe
      <3> QED
        BY <3>3, <3>4
    <2>7. ~Overwritten(d, c, b) /\ ~Unswapped(d, c, b)
      BY <2>1 DEF Overwritten, Unswapped
    <2>8. Entry(d, m).sequence < Entry(d, l).sequence \/ Entry(d, l).sequence < Entry(d, m).sequence
      <3>1. Entry(d, m).sequence # Entry(d, l).sequence
        BY <2>1, LayersFacts
      <3> QED
        BY <1>1, <2>1, <3>1
    <2> QED
      BY <2>4, <2>5, <2>6, <2>7, <2>8 DEF Safe
  <1> QED
    BY <1>5, <1>6, <1>7, <1>8, <1>9, <1>10 DEF Turns

-----------------------------------------------------------------------------
(* A command that stops halfway.                                           *)

\* Where the bytes were at a name of the client, the same file is still there.
KeepsFiles(d, g, c, b) ==
  /\ Has(d, Config(c), b) => At(g, Config(c)) = At(d, Config(c))
  /\ \A n \in Nat : Has(d, Backup(c, n), b) => At(g, Backup(c, n)) = At(d, Backup(c, n))

SameLayers(e, g, c) ==
  LayersOn(g, c) = LayersOn(e, c) /\ \A l \in LayersOn(e, c) : Entry(g, l) = Entry(e, l)

\* With its ledger, or none.
LEMMA SafeKept ==
  ASSUME NEW d, NEW g, NEW c, NEW b, Safe(d, c, b), KeepsFiles(d, g, c, b),
         SameLayers(d, g, c) \/ LayersOn(g, c) = {}
  PROVE  Safe(g, c, b)
  <1>1. (Has(d, Config(c), b) => Has(g, Config(c), b))
        /\ \A n \in Nat : Has(d, Backup(c, n), b) => Has(g, Backup(c, n), b)
    BY DEF KeepsFiles, Has
  <1>2. CASE SameLayers(d, g, c)
    <2>1. LayersOn(g, c) = LayersOn(d, c) /\ \A l \in LayersOn(d, c) : Entry(g, l) = Entry(d, l)
      BY <1>2 DEF SameLayers
    <2>2. CASE Unnamed(d, c, b)
      BY <1>1, <2>1, <2>2 DEF Unnamed, Safe
    <2>3. CASE Unswapped(d, c, b)
      BY <1>1, <2>1, <2>3 DEF Unswapped, Safe
    <2>4. CASE BackedUp(d, c, b)
      BY <1>1, <2>1, <2>4 DEF BackedUp, Safe
    <2>5. CASE Overwritten(d, c, b)
      BY <1>1, <2>1, <2>5 DEF Overwritten, Safe, KeepsFiles
    <2> QED
      BY <2>2, <2>3, <2>4, <2>5 DEF Safe
  <1>3. CASE LayersOn(g, c) = {}
    <2>1. Has(g, Config(c), b) \/ \E n \in Nat : Has(g, Backup(c, n), b)
      BY <1>1 DEF Safe, Unnamed, Unswapped, BackedUp, Overwritten
    <2> QED
      BY <1>3, <2>1 DEF Safe, Unnamed, Unswapped
  <1> QED
    BY <1>2, <1>3

\* With the ledger of its plan.
LEMMA SafeHalfway ==
  ASSUME NEW d, NEW e, NEW g, Proper(d), Proper(e), NEW c, NEW b, Chained(d, c), Turns(d, e, c),
         Follows(d, e, c), Safe(d, c, b), KeepsFiles(d, g, c, b), SameLayers(e, g, c)
  PROVE  Safe(g, c, b)
  <1>1. (Has(d, Config(c), b) => Has(g, Config(c), b) /\ At(g, Config(c)) = At(d, Config(c)))
        /\ \A n \in Nat : Has(d, Backup(c, n), b) => Has(g, Backup(c, n), b)
    BY DEF KeepsFiles, Has
  <1>2. LayersOn(g, c) = LayersOn(e, c) /\ \A l \in LayersOn(e, c) : Entry(g, l) = Entry(e, l)
    BY DEF SameLayers
  <1>3. \A l \in LayersOn(d, c) : /\ Entry(d, l).sequence \in Nat
                                  /\ Entry(d, l).backup \in ConfigFiles /\ Entry(d, l).backup # None
    BY LayersFacts, ConfigFileFacts
  <1>4. \A l \in LayersOn(e, c) : Entry(e, l).sequence \in Nat
    BY LayersFacts
  <1>5. CASE Leaves(d, e, c)
    <2>1. SameLayers(d, g, c)
      BY <1>2, <1>5 DEF Leaves, SameLayers
    <2> QED
      BY <2>1, SafeKept
  <1>6. ASSUME NEW l \in Keys, Adds(d, e, c, l) PROVE Safe(g, c, b)
    <2>1. /\ l \notin LayersOn(d, c) /\ LayersOn(e, c) = LayersOn(d, c) \cup {l}
          /\ \A k \in LayersOn(d, c) : Entry(e, k) = Entry(d, k) /\ Entry(d, k).sequence < Entry(e, l).sequence
          /\ At(d, Backup(c, Entry(e, l).sequence)) = None
          /\ Entry(e, l).backup.bytes = At(d, Config(c)).bytes
      BY <1>6 DEF Adds
    <2>2. \A k \in LayersOn(d, c) : At(d, Config(c)) = Entry(d, k).expected
      BY <1>6 DEF Follows
    <2>3. CASE Unnamed(d, c, b)
      <3>1. PICK n \in Nat : Has(d, Backup(c, n), b) /\ \A k \in LayersOn(d, c) : Entry(d, k).sequence # n
        BY <2>3 DEF Unnamed
      <3>2. n # Entry(e, l).sequence
        BY <2>1, <3>1 DEF Has
      <3>3. \A k \in LayersOn(g, c) : Entry(g, k).sequence # n
        BY <1>2, <2>1, <3>1, <3>2
      <3> QED
        BY <1>1, <3>1, <3>3 DEF Unnamed, Safe
    <2>4. CASE Unswapped(d, c, b)
      <3>1. Entry(g, l).backup.bytes = b /\ l \in LayersOn(g, c) /\ Has(g, Config(c), b)
        BY <1>1, <1>2, <2>1, <2>4 DEF Unswapped, Has
      <3>2. \A k \in LayersOn(g, c) : Entry(g, l).sequence <= Entry(g, k).sequence
        BY <1>2, <1>4, <2>1, <2>4 DEF Unswapped
      <3> QED
        BY <3>1, <3>2 DEF BackedUp, Safe
    <2>5. CASE BackedUp(d, c, b)
      <3>1. PICK k \in LayersOn(d, c) : /\ Entry(d, k).backup.bytes = b
                                        /\ \A m \in LayersOn(d, c) : Entry(d, k).sequence <= Entry(d, m).sequence
        BY <2>5 DEF BackedUp
      <3>2. k \in LayersOn(g, c) /\ Entry(g, k).backup.bytes = b
            /\ \A m \in LayersOn(g, c) : Entry(g, k).sequence <= Entry(g, m).sequence
        <4>1. Entry(d, k).sequence <= Entry(e, l).sequence
          BY <1>3, <1>4, <2>1
        <4> QED
          BY <1>2, <2>1, <3>1, <4>1
      <3>3. Has(g, Config(c), b) \/ \E n \in Nat : Has(g, Backup(c, n), b)
        BY <1>1, <2>5 DEF BackedUp
      <3> QED
        BY <3>2, <3>3 DEF BackedUp, Safe
    <2>6. ~Overwritten(d, c, b)
      BY <2>2 DEF Overwritten
    <2> QED
      BY <2>3, <2>4, <2>5, <2>6 DEF Safe
  <1>7. ASSUME NEW l \in LayersOn(d, c), LayersOn(e, c) = LayersOn(d, c),
               \A k \in LayersOn(d, c) : Entry(e, k).sequence = Entry(d, k).sequence,
               \A k \in LayersOn(d, c) : (\A m \in LayersOn(d, c) : Entry(d, k).sequence <= Entry(d, m).sequence)
                 => Entry(e, k).backup = Entry(d, k).backup,
               At(d, Config(c)) = Entry(d, l).expected
        PROVE  Safe(g, c, b)
    <2>1. CASE Unnamed(d, c, b)
      BY <1>1, <1>2, <1>7, <2>1 DEF Unnamed, Safe
    <2>2. CASE BackedUp(d, c, b)
      <3>1. PICK k \in LayersOn(d, c) : /\ Entry(d, k).backup.bytes = b
                                        /\ \A m \in LayersOn(d, c) : Entry(d, k).sequence <= Entry(d, m).sequence
        BY <2>2 DEF BackedUp
      <3>2. k \in LayersOn(g, c) /\ Entry(g, k).backup.bytes = b
            /\ \A m \in LayersOn(g, c) : Entry(g, k).sequence <= Entry(g, m).sequence
        BY <1>2, <1>7, <3>1
      <3>3. Has(g, Config(c), b) \/ \E n \in Nat : Has(g, Backup(c, n), b)
        BY <1>1, <2>2 DEF BackedUp
      <3> QED
        BY <3>2, <3>3 DEF BackedUp, Safe
    <2>3. ~Overwritten(d, c, b) /\ ~Unswapped(d, c, b)
      BY <1>7 DEF Overwritten, Unswapped
    <2> QED
      BY <2>1, <2>2, <2>3 DEF Safe
  <1>8. ASSUME NEW l \in Keys, Renews(d, e, c, l) PROVE Safe(g, c, b)
    <2>1. /\ l \in LayersOn(d, c) /\ LayersOn(e, c) = LayersOn(d, c)
          /\ \A k \in LayersOn(d, c) : /\ Entry(e, k).sequence = Entry(d, k).sequence
                                       /\ Entry(e, k).backup = Entry(d, k).backup
          /\ At(d, Config(c)) = Entry(d, l).expected
      BY <1>8 DEF Renews, KeepsLayer
    <2> QED
      BY <1>7, <2>1
  <1>9. ASSUME NEW l \in Keys, NEW k \in Keys, Relays(d, e, c, l, k) PROVE Safe(g, c, b)
    <2>1. /\ l \in LayersOn(d, c) /\ k \in LayersOn(d, c) /\ LayersOn(e, c) = LayersOn(d, c)
          /\ Entry(d, l).sequence < Entry(d, k).sequence
          /\ At(d, Config(c)) = Entry(d, k).expected
          /\ Entry(e, l).sequence = Entry(d, l).sequence /\ Entry(e, l).backup = Entry(d, l).backup
          /\ Entry(e, k).sequence = Entry(d, k).sequence
      BY <1>9 DEF Relays, KeepsLayer
    <2>2. LayersOn(d, c) = {l, k}
      <3>1. l # k
        BY <1>3, <2>1
      <3> QED
        BY <2>1, <3>1, LayersFacts
    <2>3. \A m \in LayersOn(d, c) : (\A x \in LayersOn(d, c) : Entry(d, m).sequence <= Entry(d, x).sequence)
            => m = l
      BY <1>3, <2>1, <2>2
    <2> QED
      BY <1>7, <2>1, <2>2, <2>3
  <1>10. ASSUME NEW l \in Keys, NEW k \in Keys, Clears(d, e, c, l, k) PROVE Safe(g, c, b)
    <2>1. LayersOn(g, c) = {}
      BY <1>2, <1>10 DEF Clears
    <2> QED
      BY <2>1, SafeKept
  <1>11. ASSUME NEW l \in Keys, NEW m \in Keys, Drops(d, e, c, l, m) PROVE Safe(g, c, b)
    <2>1. /\ l # m /\ LayersOn(d, c) = {l, m} /\ LayersOn(e, c) = {m}
          /\ At(d, Config(c)) = Entry(d, l).expected
          /\ Entry(e, m).sequence = Entry(d, m).sequence /\ Entry(e, m).backup = Entry(d, m).backup
          /\ OwnBackup(d, l) = Entry(d, l).backup /\ l[1] = c
      <3>1. l \in LayersOn(d, c)
        BY <1>11 DEF Drops
      <3>2. l[1] = c
        BY <3>1, LayersFacts
      <3> QED
        BY <1>11, <3>2 DEF Drops, KeepsLayer
    <2>2. CASE Unnamed(d, c, b)
      BY <1>1, <1>2, <2>1, <2>2 DEF Unnamed, Safe
    <2>3. CASE BackedUp(d, c, b)
      <3>1. PICK k \in LayersOn(d, c) : /\ Entry(d, k).backup.bytes = b
                                        /\ \A x \in LayersOn(d, c) : Entry(d, k).sequence <= Entry(d, x).sequence
        BY <2>3 DEF BackedUp
      <3>2. CASE k = m
        <4>1. m \in LayersOn(g, c) /\ Entry(g, m).backup.bytes = b
              /\ \A x \in LayersOn(g, c) : Entry(g, m).sequence <= Entry(g, x).sequence
          BY <1>2, <1>4, <2>1, <3>1, <3>2
        <4>2. Has(g, Config(c), b) \/ \E n \in Nat : Has(g, Backup(c, n), b)
          BY <1>1, <2>3 DEF BackedUp
        <4> QED
          BY <4>1, <4>2 DEF BackedUp, Safe
      <3>3. CASE k = l
        <4>1. Has(d, Backup(c, Entry(d, l).sequence), b) /\ Entry(d, l).sequence \in Nat
          BY <1>3, <2>1, <3>1, <3>3 DEF Has, OwnBackup
        <4>2. Entry(d, m).sequence # Entry(d, l).sequence
          BY <2>1, LayersFacts
        <4>3. \A x \in LayersOn(g, c) : Entry(g, x).sequence # Entry(d, l).sequence
          BY <1>2, <2>1, <4>2
        <4> QED
          BY <1>1, <4>1, <4>3 DEF Unnamed, Safe
      <3> QED
        BY <2>1, <3>1, <3>2, <3>3
    <2>4. ~Overwritten(d, c, b) /\ ~Unswapped(d, c, b)
      BY <2>1 DEF Overwritten, Unswapped
    <2> QED
      BY <2>2, <2>3, <2>4 DEF Safe
  <1> QED
    BY <1>5, <1>6, <1>8, <1>9, <1>10, <1>11 DEF Turns

-----------------------------------------------------------------------------
(* What a running command is about to do to the layers of its clients.     *)

\* The clients whose foreign edit becomes the backup of a newer layer.
Adopts(t) ==
  LET ledger == LedgerOn(t.before) IN
  {c \in ToSet(t.req.clients) :
     /\ t.req.kind = "use" /\ Layers(ledger, c) # {}
     /\ <<c, EffectiveScope(c, t.req.scope)>> \notin DOMAIN ledger.entries
     /\ Config(c) \in {t.ops[i].dest : i \in 1..Len(t.ops)}
     /\ t.before[Config(c)] # ledger.entries[Newest(ledger, Layers(ledger, c))].expected}

LEMMA AdoptedAreNew == NewlyAdopted = Adopts(tx)
  BY DEF NewlyAdopted, Adopts

\* The disk a command leaves where nothing goes wrong.
Outcome(t) == Target(t.before, t.ops)

TurnsOf(t) ==
  \A c \in Clients :
    /\ Turns(t.before, Outcome(t), c)
    /\ c \notin Adopts(t) => Follows(t.before, Outcome(t), c)

TurnsInv == tx # Idle => TurnsOf(tx)

\* The same operations have the same outcome.
LEMMA SameTarget ==
  ASSUME NEW o, NEW w, SameOps(o, w), Len(o) \in Nat, NEW d
  PROVE  Target(d, w) = Target(d, o)
  <1>1. Len(w) = Len(o) /\ \A i \in 1..Len(o) : w[i].dest = o[i].dest /\ w[i].staged = o[i].staged
    BY DEF SameOps
  <1>2. \A p : {i \in 1..Len(w) : w[i].dest = p} = {i \in 1..Len(o) : o[i].dest = p}
    BY <1>1
  <1>3. \A p : LastOn(w, p) = LastOn(o, p)
    BY <1>2 DEF LastOn
  <1>4. \A p : (\E i \in 1..Len(o) : o[i].dest = p) => LastOn(o, p) \in 1..Len(o)
    <2> SUFFICES ASSUME NEW p, NEW i \in 1..Len(o), o[i].dest = p
                 PROVE  LastOn(o, p) \in 1..Len(o)
      OBVIOUS
    <2> DEFINE S == {j \in 1..Len(o) : o[j].dest = p}
    <2>1. S \in SUBSET Nat /\ S # {} /\ \A j \in S : j <= Len(o)
      OBVIOUS
    <2> HIDE DEF S
    <2>2. LastOf(S) \in S
      BY <2>1, FiniteSetHasMaximum
    <2> QED
      BY <2>2 DEF LastOn, S
  <1>5. \A p : Aim(d, w, p) = Aim(d, o, p)
    <2> SUFFICES ASSUME NEW p PROVE Aim(d, w, p) = Aim(d, o, p)
      OBVIOUS
    <2>1. (\E i \in 1..Len(w) : w[i].dest = p) <=> (\E i \in 1..Len(o) : o[i].dest = p)
      BY <1>1
    <2>2. CASE \E i \in 1..Len(o) : o[i].dest = p
      BY <1>1, <1>3, <1>4, <2>1, <2>2 DEF Aim
    <2>3. CASE ~\E i \in 1..Len(o) : o[i].dest = p
      BY <2>1, <2>3 DEF Aim
    <2> QED
      BY <2>2, <2>3
  <1>6. {w[i].dest : i \in 1..Len(w)} = {o[i].dest : i \in 1..Len(o)}
    BY <1>1
  <1>7. {p \in DOMAIN d \cup {w[i].dest : i \in 1..Len(w)} : Aim(d, w, p) # None}
          = {p \in DOMAIN d \cup {o[i].dest : i \in 1..Len(o)} : Aim(d, o, p) # None}
    <2> DEFINE A == {w[i].dest : i \in 1..Len(w)}
               B == {o[i].dest : i \in 1..Len(o)}
    <2>1. A = B
      BY <1>6
    <2> HIDE DEF A, B
    <2> QED
      BY <1>5, <2>1 DEF A, B
  <1> DEFINE D == {p \in DOMAIN d \cup {o[i].dest : i \in 1..Len(o)} : Aim(d, o, p) # None}
  <1>8. Target(d, w) = [p \in D |-> Aim(d, w, p)]
    BY <1>7 DEF Target
  <1>9. Target(d, o) = [p \in D |-> Aim(d, o, p)]
    BY DEF Target
  <1> HIDE DEF D
  <1> QED
    BY <1>5, <1>8, <1>9

\* The steps of a command do not change what it is about.
LEMMA TurnsGoOn ==
  ASSUME NEW t \in Transactions, NEW u, u.req = t.req, u.before = t.before, SameOps(t.ops, u.ops)
  PROVE  /\ Outcome(u) = Outcome(t) /\ Adopts(u) = Adopts(t)
         /\ TurnsOf(t) => TurnsOf(u)
  <1>1. Len(t.ops) \in Nat
    BY DEF Transactions
  <1>2. Outcome(u) = Outcome(t)
    BY <1>1, SameTarget DEF Outcome
  <1>3. {u.ops[i].dest : i \in 1..Len(u.ops)} = {t.ops[i].dest : i \in 1..Len(t.ops)}
    BY DEF SameOps
  <1>4. Adopts(u) = Adopts(t)
    BY <1>3 DEF Adopts
  <1> QED
    BY <1>2, <1>4 DEF TurnsOf

\* A command without operations leaves everything.
LEMMA NothingTurns ==
  ASSUME NEW d, IsDisk(d), NEW c \in Clients
  PROVE  Leaves(d, Target(d, <<>>), c)
  <1>1. <<>> \in Seq(Operations) /\ Len(<<>>) = 0
    OBVIOUS
  <1>2. Proper(d) /\ Proper(Target(d, <<>>)) /\ \A p : At(Target(d, <<>>), p) = At(d, p)
    <2> DEFINE ops == <<>>
    <2>1. ops \in Seq(Operations) /\ \A i \in 1..Len(ops) : FALSE
      BY <1>1
    <2> HIDE DEF ops
    <2>2. Proper(Target(d, ops)) /\ \A p : At(Target(d, ops), p) = At(d, p)
      BY <2>1, TargetFacts
    <2> QED
      BY <2>2, DiskIsProper DEF ops
  <1>3. LedgerOn(Target(d, <<>>)) = LedgerOn(d)
    BY <1>2, SameLedger
  <1> QED
    BY <1>2, <1>3 DEF Leaves, LayersOn, Entry, KeepsBackup

\* Only a layer on top of others needs the configuration it finds.
LEMMA NotAdding ==
  ASSUME NEW d, NEW e, NEW c, LayersOn(e, c) \subseteq LayersOn(d, c)
  PROVE  Follows(d, e, c)
  BY DEF Follows, Adds

\* A client whose entry changes has its configuration written.
LEMMA UseWritesConfig ==
  ASSUME NEW d, NEW U, NEW req, UsePremise(d, U, req), NEW j \in Changed(d, req)
  PROVE  LET ops == UseOperations(d, U, req) IN
         Config(req.clients[j]) \in {ops[i].dest : i \in 1..Len(ops)}
  <1> DEFINE ops == UseOperations(d, U, req)
             b == BackupOrder(d, req)
             q == ConfigOrder(d, req)
             n == PlaceIn(q, j)
             i == Len(b) + 1 + n
  <1>1. n \in 1..Len(q) /\ q[n] = j /\ Len(b) \in Nat /\ Len(q) \in Nat
    BY UseOrders
  <1>2. /\ Len(ops) = Len(b) + 1 + Len(q)
        /\ \A m \in 1..Len(q) : UseConfigAt(d, U, req, ops, Len(b) + 1 + m)
    BY UseOperationsFacts
  <1>3. UseConfigAt(d, U, req, ops, i)
    BY <1>1, <1>2
  <1>4. ops[i].dest = Config(req.clients[q[i - Len(b) - 1]])
    BY <1>3 DEF UseConfigAt
  <1>5. i \in 1..Len(ops) /\ i - Len(b) - 1 = n
    BY <1>1, <1>2
  <1> QED
    BY <1>1, <1>4, <1>5

LEMMA UseFollows ==
  ASSUME NEW t, NEW U, UsePremise(t.before, U, t.req), Changed(t.before, t.req) # {},
         t.ops = UseOperations(t.before, U, t.req), NEW c \in Clients, c \notin Adopts(t)
  PROVE  Follows(t.before, Outcome(t), c)
  <1> DEFINE d == t.before
             req == t.req
             e == Target(d, UseOperations(d, U, req))
             L == LedgerOn(d)
             asked == AskedLayers(d, req, c)
  <1>1. UseOf(d, U, req, e, c, asked)
    BY UseEntries
  <1>2. Outcome(t) = e
    BY DEF Outcome
  <1>3. IsDisk(d) /\ req \in Requests /\ req.kind = "use" /\ Proper(d)
    BY DiskIsProper DEF UsePremise
  <1> SUFFICES ASSUME NEW l \in Keys, Adds(d, e, c, l), NEW k \in LayersOn(d, c)
               PROVE  At(d, Config(c)) = Entry(d, k).expected
    BY <1>2 DEF Follows
  <1>4. l \in asked /\ l \notin LayersOn(d, c) /\ LayersOn(d, c) = Layers(L, c)
    BY <1>1 DEF Adds, UseOf
  <1> DEFINE j == PlaceIn(req.clients, c)
  <1>5. LayerOf(req, j) = l /\ j \in Changed(d, req) /\ req.clients[j] = c /\ l[1] = c
        /\ j \in 1..Len(req.clients)
    BY <1>1, <1>4 DEF UseOf
  <1>6. l = <<c, EffectiveScope(c, req.scope)>>
    BY <1>5 DEF LayerOf
  <1>7. c \in ToSet(req.clients)
    BY <1>5 DEF ToSet
  <1>8. l \notin DOMAIN L.entries
    BY <1>4, <1>5 DEF Layers
  <1>9. Config(c) \in {t.ops[i].dest : i \in 1..Len(t.ops)}
    BY <1>5, UseWritesConfig
  <1>10. At(d, Config(c)) = d[Config(c)]
    <2>1. At(d, Config(c)) # None
      BY ConfigFileFacts DEF Adds
    <2> QED
      BY <2>1 DEF At
  <1>11. d[Config(c)] = L.entries[Newest(L, Layers(L, c))].expected
    BY <1>3, <1>4, <1>6, <1>7, <1>8, <1>9 DEF Adopts
  <1>12. \A m \in LayersOn(d, c) : m = k
    <2> SUFFICES ASSUME NEW m \in LayersOn(d, c), m # k PROVE FALSE
      OBVIOUS
    <2>1. l[2] \in Scopes /\ l[1] = c
      BY KeyFacts, <1>5
    <2>2. l \in LayersOn(e, c) /\ k \in LayersOn(e, c) /\ m \in LayersOn(e, c)
      BY DEF Adds
    <2>3. Proper(e)
      BY UseTarget
    <2>4. LayersOn(e, c) = {k, m}
      BY <2>2, <2>3, LayersFacts
    <2> QED
      BY <1>4, <2>2, <2>4
  <1>13. Newest(L, Layers(L, c)) = k
    <2>1. Readable(L) /\ L \in LedgerBytes
      BY UseReads
    <2>2. Layers(L, c) \in SUBSET DOMAIN L.entries /\ Layers(L, c) # {}
      BY <1>4 DEF Layers
    <2>3. Newest(L, Layers(L, c)) \in Layers(L, c)
      BY <2>1, <2>2, OldestFacts
    <2> QED
      BY <1>4, <1>12, <2>3
  <1> QED
    BY <1>10, <1>11, <1>13 DEF Entry

\* What a plan is about, where it is made.
LEMMA TurnsBegin ==
  ASSUME NEW t, NEW U, IsDisk(t.before), IsFiniteSet(U), t.req \in Requests,
         \/ t.ops = <<>>
         \/ /\ t.req.kind = "use" /\ CanUse(t.before, LedgerOn(t.before), t.req)
            /\ t.ops = UseOperations(t.before, U, t.req)
         \/ /\ t.req.kind = "revert" /\ CanRevert(t.before, LedgerOn(t.before), t.req)
            /\ t.ops = RevertOperations(t.before, U, t.req)
  PROVE  TurnsOf(t)
  <1> DEFINE d == t.before
             req == t.req
  <1> SUFFICES ASSUME NEW c \in Clients
               PROVE  /\ Turns(d, Outcome(t), c)
                      /\ c \notin Adopts(t) => Follows(d, Outcome(t), c)
    BY DEF TurnsOf
  <1>1. CASE t.ops = <<>>
    <2>1. Leaves(d, Outcome(t), c)
      BY <1>1, NothingTurns DEF Outcome
    <2>2. LayersOn(Outcome(t), c) \subseteq LayersOn(d, c)
      BY <2>1 DEF Leaves
    <2> QED
      BY <2>1, <2>2, NotAdding DEF Turns
  <1>2. CASE /\ req.kind = "use" /\ CanUse(d, LedgerOn(d), req)
             /\ t.ops = UseOperations(d, U, req) /\ t.ops # <<>>
    <2>1. UsePremise(d, U, req)
      BY <1>2 DEF UsePremise
    <2>2. Changed(d, req) # {}
      BY <1>2 DEF UseOperations
    <2>3. Turns(d, Outcome(t), c)
      BY <1>2, <2>1, <2>2, UseTurns DEF Outcome
    <2>4. c \notin Adopts(t) => Follows(d, Outcome(t), c)
      BY <1>2, <2>1, <2>2, UseFollows
    <2> QED
      BY <2>3, <2>4
  <1>3. CASE /\ req.kind = "revert" /\ CanRevert(d, LedgerOn(d), req)
             /\ t.ops = RevertOperations(d, U, req) /\ t.ops # <<>>
    <2>1. RevertPremise(d, U, req)
      BY <1>3 DEF RevertPremise
    <2>2. Selected(LedgerOn(d), req) # <<>>
      BY <1>3 DEF RevertOperations
    <2>3. Turns(d, Outcome(t), c)
      BY <1>3, <2>1, <2>2, RevertTurns DEF Outcome
    <2>4. RevertOf(d, U, req, Outcome(t), c, Selected(LedgerOn(d), req))
      BY <1>3, <2>1, <2>2, RevertEntries DEF Outcome
    <2>5. LayersOn(Outcome(t), c) \subseteq LayersOn(d, c)
      BY <2>4 DEF RevertOf
    <2> QED
      BY <2>3, <2>5, NotAdding
  <1> QED
    BY <1>1, <1>2, <1>3

-----------------------------------------------------------------------------
(* The tool copies what others wrote, and never writes what they will.     *)

\* No configuration in these bytes was written after the first n faults.
DatedBytes(b, n) ==
  /\ b \in ConfigBytes => b.rest <= n
  /\ b \in LedgerBytes =>
       \A l \in DOMAIN b.entries : /\ b.entries[l].backup.bytes.rest <= n
                                   /\ b.entries[l].expected.bytes.rest <= n

DatedFile(f, n) == f # None => DatedBytes(f.bytes, n)

DatedDisk(d, n) == \A p : DatedFile(At(d, p), n)

DatedOps(ops, n) ==
  \A i \in 1..Len(ops) : DatedFile(ops[i].staged, n) /\ DatedFile(ops[i].prior, n)

DatedInv ==
  /\ DatedDisk(disk, faults)
  /\ tx # Idle => DatedDisk(tx.before, faults) /\ DatedOps(tx.ops, faults)

LEMMA LedgerEntryTypes ==
  \A b \in LedgerBytes : \A l \in DOMAIN b.entries :
    /\ b.entries[l].backup \in ConfigFiles /\ b.entries[l].expected \in ConfigFiles
    /\ b.entries[l].backup.bytes \in ConfigBytes /\ b.entries[l].expected.bytes \in ConfigBytes
    /\ b.entries[l].backup.bytes.rest \in Nat /\ b.entries[l].expected.bytes.rest \in Nat
  <1> SUFFICES ASSUME NEW b \in LedgerBytes, NEW l \in DOMAIN b.entries
               PROVE  b.entries[l].backup \in ConfigFiles /\ b.entries[l].expected \in ConfigFiles
    BY DEF ConfigFiles, ConfigBytes
  <1>1. b.entries \in Recordings
    BY DEF LedgerBytes
  <1>2. PICK D \in SUBSET Keys : b.entries \in [D -> LayerEntries]
    BY <1>1 DEF Recordings
  <1>3. b.entries[l] \in LayerEntries
    BY <1>2
  <1> QED
    BY <1>3 DEF LayerEntries

LEMMA BytesDiffer ==
  /\ \A b \in ConfigBytes : b \notin LedgerBytes /\ b \notin OtherBytes /\ b.rest \in Nat
  /\ \A b \in OtherBytes : b \notin LedgerBytes /\ b \notin ConfigBytes
  /\ \A f \in ConfigFiles : f.bytes \in ConfigBytes /\ f # None
  BY LedgerTypes, ConfigFileFacts DEF ConfigBytes

\* What was no later than one fault is no later than the next.
LEMMA DatedGrows ==
  ASSUME NEW n \in Nat, NEW m \in Nat, n <= m
  PROVE  /\ \A f : DatedFile(f, n) => DatedFile(f, m)
         /\ \A d : DatedDisk(d, n) => DatedDisk(d, m)
         /\ \A ops : DatedOps(ops, n) => DatedOps(ops, m)
  <1>1. ASSUME NEW b, DatedBytes(b, n) PROVE DatedBytes(b, m)
    <2>1. b \in ConfigBytes => b.rest <= m
      BY <1>1, BytesDiffer DEF DatedBytes
    <2>2. ASSUME b \in LedgerBytes, NEW l \in DOMAIN b.entries
          PROVE  b.entries[l].backup.bytes.rest <= m /\ b.entries[l].expected.bytes.rest <= m
      BY <1>1, <2>2, LedgerEntryTypes DEF DatedBytes
    <2> QED
      BY <2>1, <2>2 DEF DatedBytes
  <1>2. \A f : DatedFile(f, n) => DatedFile(f, m)
    BY <1>1 DEF DatedFile
  <1> QED
    BY <1>2 DEF DatedDisk, DatedOps

LEMMA DatedConfig ==
  ASSUME NEW n, NEW f \in ConfigFiles, f.bytes.rest <= n
  PROVE  DatedFile(f, n)
  BY BytesDiffer DEF DatedFile, DatedBytes

\* The entries of the ledger of a dated disk.
LEMMA DatedEntries ==
  ASSUME NEW d, IsDisk(d), NEW n, DatedDisk(d, n), LedgerOn(d) \in LedgerBytes
  PROVE  \A l \in DOMAIN LedgerOn(d).entries :
           /\ LedgerOn(d).entries[l].backup.bytes.rest <= n
           /\ LedgerOn(d).entries[l].expected.bytes.rest <= n
  <1>1. CASE State \in DOMAIN d
    <2>1. At(d, State) # None /\ LedgerOn(d) = At(d, State).bytes
      BY <1>1, AtFacts, LedgerAtFacts
    <2> QED
      BY <2>1 DEF DatedDisk, DatedFile, DatedBytes
  <1>2. CASE State \notin DOMAIN d
    BY <1>2, LedgerAtFacts, LedgerTypes
  <1> QED
    BY <1>1, <1>2

\* A use stages what it found with another entry.
LEMMA UseDated ==
  ASSUME NEW d, NEW U, NEW req, UsePremise(d, U, req), Changed(d, req) # {},
         NEW n, DatedDisk(d, n)
  PROVE  DatedOps(UseOperations(d, U, req), n)
  <1> DEFINE L == LedgerOn(d)
             ops == UseOperations(d, U, req)
             A == LedgerAfterUse(d, U, req)
  <1>1. IsDisk(d) /\ req \in Requests /\ req.kind = "use" /\ L \in LedgerBytes
    BY UseReads DEF UsePremise
  <1>2. \A l \in DOMAIN L.entries : /\ L.entries[l].backup.bytes.rest <= n
                                    /\ L.entries[l].expected.bytes.rest <= n
    BY <1>1, DatedEntries
  <1>3. ASSUME NEW k \in Changed(d, req)
        PROVE  NewConfig(d, U, req, k) \in ConfigFiles /\ NewConfig(d, U, req, k).bytes.rest <= n
    <2>1. /\ At(d, Config(req.clients[k])) \in ConfigFiles
          /\ NewConfig(d, U, req, k) \in ConfigFiles
          /\ SameBut(At(d, Config(req.clients[k])).bytes, NewConfig(d, U, req, k).bytes, LayerOf(req, k)[2])
      BY <1>3, UseOfConfig
    <2>2. At(d, Config(req.clients[k])).bytes.rest <= n
      BY <2>1, BytesDiffer DEF DatedDisk, DatedFile, DatedBytes
    <2> QED
      BY <2>1, <2>2 DEF SameBut
  <1>4. ASSUME NEW l \in Rewritten(d, req)
        PROVE  NewBackup(d, U, req, l) \in ConfigFiles /\ NewBackup(d, U, req, l).bytes.rest <= n
    <2> DEFINE k == PlaceIn(req.clients, l[1])
    <2>1. k \in Changed(d, req) /\ req.clients[k] = l[1] /\ AskedFor(req, l[1]) = LayerOf(req, k)
      BY <1>4, RewrittenFacts
    <2>2. NewBackup(d, U, req, l) \in ConfigFiles
      BY <1>4, UseFiles
    <2> HIDE DEF k
    <2>3. CASE l \in DOMAIN L.entries
      <3>1. NewBackup(d, U, req, l).bytes
              = SetServer(L.entries[l].backup.bytes, LayerOf(req, k)[2], SpecFor(d, req, LayerOf(req, k)))
        BY <1>4, <2>1, <2>3, UseFiles
      <3>2. LayerOf(req, k)[2] \in Scopes /\ SpecFor(d, req, LayerOf(req, k)) \in ServerEntries
        BY <2>1, UseOfConfig
      <3>3. L.entries[l].backup.bytes \in ConfigBytes
        BY <1>1, <2>3, LedgerEntryTypes
      <3>4. NewBackup(d, U, req, l).bytes.rest = L.entries[l].backup.bytes.rest
        BY <3>1, <3>2, <3>3, EditedFacts
      <3> QED
        BY <1>2, <2>2, <2>3, <3>4
    <2>4. CASE l \notin DOMAIN L.entries
      <3>1. NewBackup(d, U, req, l).bytes = d[Config(l[1])].bytes
        BY <1>4, <2>4, UseFiles
      <3>2. At(d, Config(l[1])) = d[Config(l[1])] /\ At(d, Config(l[1])) \in ConfigFiles
        BY <2>1, UseOfConfig
      <3>3. At(d, Config(l[1])).bytes.rest <= n
        BY <3>2, BytesDiffer DEF DatedDisk, DatedFile, DatedBytes
      <3> QED
        BY <2>2, <3>1, <3>2, <3>3
    <2> QED
      BY <2>3, <2>4
  <1>5. ASSUME NEW l \in DOMAIN A.entries
        PROVE  A.entries[l].backup.bytes.rest <= n /\ A.entries[l].expected.bytes.rest <= n
    <2> DEFINE asked == {LayerOf(req, k) : k \in Changed(d, req)}
    <2>1. /\ DOMAIN A.entries = DOMAIN L.entries \cup asked
          /\ A.entries[l].backup = IF l \in Rewritten(d, req) THEN NewBackup(d, U, req, l)
                                   ELSE L.entries[l].backup
          /\ A.entries[l].expected = IF l \in asked \cup Rewritten(d, req)
                                     THEN NewExpected(d, U, req, l)
                                     ELSE L.entries[l].expected
      BY <1>5, UseLedger
    <2>2. \A m \in asked \cup Rewritten(d, req) :
            /\ PlaceIn(req.clients, m[1]) \in Changed(d, req)
            /\ Newer(L, m) # {} => Oldest(L, Newer(L, m)) \in Rewritten(d, req)
      BY UseLedger
    <2>3. ASSUME l \notin DOMAIN L.entries PROVE l \in Rewritten(d, req)
      <3>1. PICK k \in Changed(d, req) : l = LayerOf(req, k)
        BY <1>5, <2>1, <2>3
      <3> QED
        BY <2>3, <3>1, RewrittenFacts
    <2>4. l \in asked \cup Rewritten(d, req) => NewExpected(d, U, req, l).bytes.rest <= n
      BY <1>3, <1>4, <2>2 DEF NewExpected
    <2> HIDE DEF asked, A, L
    <2>5. A.entries[l].backup.bytes.rest <= n
      BY <1>2, <1>4, <2>1, <2>3
    <2>6. A.entries[l].expected.bytes.rest <= n
      BY <1>2, <2>1, <2>3, <2>4
    <2> QED
      BY <2>5, <2>6
  <1> SUFFICES ASSUME NEW i \in 1..Len(ops)
               PROVE  DatedFile(ops[i].staged, n) /\ DatedFile(ops[i].prior, n)
    BY DEF DatedOps
  <1>6. \/ UseBackupAt(d, U, req, ops, i)
        \/ UseLedgerAt(d, U, req, ops, i)
        \/ UseConfigAt(d, U, req, ops, i)
    BY UseOperationsFacts
  <1>7. ops[i].prior = At(d, ops[i].dest)
    BY <1>6 DEF UseBackupAt, UseLedgerAt, UseConfigAt
  <1>8. DatedFile(ops[i].prior, n)
    BY <1>7 DEF DatedDisk
  <1>9. CASE UseBackupAt(d, U, req, ops, i)
    BY <1>4, <1>8, <1>9, DatedConfig DEF UseBackupAt
  <1>10. CASE UseConfigAt(d, U, req, ops, i)
    BY <1>3, <1>8, <1>10, DatedConfig DEF UseConfigAt
  <1>11. CASE UseLedgerAt(d, U, req, ops, i)
    <2>1. ops[i].staged.bytes = A
      BY <1>11 DEF UseLedgerAt
    <2>2. A \in LedgerBytes /\ A \notin ConfigBytes
      BY UseLedger, BytesDiffer
    <2>3. DatedBytes(A, n)
      BY <1>5, <2>2 DEF DatedBytes
    <2> QED
      BY <1>8, <2>1, <2>3 DEF DatedFile
  <1> QED
    BY <1>6, <1>9, <1>10, <1>11

\* A revert stages what was backed up.
LEMMA RevertDated ==
  ASSUME NEW d, NEW U, NEW req, RevertPremise(d, U, req), Selected(LedgerOn(d), req) # <<>>,
         NEW n, DatedDisk(d, n)
  PROVE  DatedOps(RevertOperations(d, U, req), n)
  <1> DEFINE L == LedgerOn(d)
             s == Selected(L, req)
             ops == RevertOperations(d, U, req)
             A == LedgerAfterRevert(d, U, req)
  <1>1. IsDisk(d) /\ L \in LedgerBytes
    BY SelectedFacts DEF RevertPremise
  <1>2. \A l \in DOMAIN L.entries : /\ L.entries[l].backup.bytes.rest <= n
                                    /\ L.entries[l].expected.bytes.rest <= n
    BY <1>1, DatedEntries
  <1>3. ASSUME NEW i \in 1..Len(s)
        PROVE  Restored(d, U, req, i) \in ConfigFiles /\ Restored(d, U, req, i).bytes.rest <= n
    <2>1. s[i] \in DOMAIN L.entries
      BY <1>3, SelectedFacts
    <2> QED
      BY <1>2, <1>3, <2>1, RestoredFacts
  <1>4. \A i \in 1..Len(s) : DatedFile(Restored(d, U, req, i), n)
    BY <1>3, DatedConfig
  <1>5. \A i \in 1..Len(s) : Above(s, i) # {} => LastOf(Above(s, i)) \in 1..Len(s)
    <2> SUFFICES ASSUME NEW i \in 1..Len(s), Above(s, i) # {}
                 PROVE  LastOf(Above(s, i)) \in 1..Len(s)
      OBVIOUS
    <2>1. Len(s) \in Nat
      BY SelectedFacts DEF Enumerates
    <2>2. LastOf(Above(s, i)) \in 1..(i - 1)
      BY <2>1, AboveFacts
    <2> QED
      BY <2>1, <2>2
  <1>6. DatedBytes(A, n) /\ A \in LedgerBytes
    <2>1. A \in LedgerBytes /\ DOMAIN A.entries = DOMAIN L.entries \ Selection(L, req)
      BY RevertLedger
    <2> SUFFICES ASSUME NEW k \in DOMAIN A.entries
                 PROVE  A.entries[k].backup.bytes.rest <= n /\ A.entries[k].expected.bytes.rest <= n
      BY <2>1, BytesDiffer DEF DatedBytes
    <2>2. A.entries[k].backup = L.entries[k].backup
      BY RevertLedger
    <2>3. A.entries[k].expected = L.entries[k].expected
          \/ \E i \in 1..Len(s) : A.entries[k].expected = Restored(d, U, req, i)
      <3> DEFINE kept == DOMAIN L.entries \ ToSet(s)
                 Under(l) == {m \in kept : l \in Newer(L, m)}
                 Heirs == {i \in 1..Len(s) : k \in Under(s[i]) /\ Newest(L, Under(s[i])) = k}
      <3>1. DOMAIN A.entries = kept
        BY DEF LedgerAfterRevert
      <3>2. A.entries[k] = IF Heirs = {} THEN L.entries[k]
                           ELSE [L.entries[k] EXCEPT !.expected = Restored(d, U, req, LastOf(Heirs))]
        BY <3>1 DEF LedgerAfterRevert
      <3>3. L.entries[k] \in LayerEntries
        BY <2>1, SelectedFacts, LedgerFacts
      <3>4. Heirs \in SUBSET Nat /\ Len(s) \in Nat /\ \A i \in Heirs : i \in 1..Len(s) /\ i <= Len(s)
        BY SelectedFacts DEF Enumerates
      <3>5. Heirs # {} => LastOf(Heirs) \in 1..Len(s)
        <4> HIDE DEF Heirs
        <4>1. Heirs # {} => LastOf(Heirs) \in Heirs
          BY <3>4, FiniteSetHasMaximum
        <4> QED
          BY <3>4, <4>1
      <3> HIDE DEF Heirs, L, s, A
      <3> QED
        BY <3>2, <3>3, <3>5 DEF LayerEntries
    <2> HIDE DEF A, L, s
    <2> QED
      BY <1>2, <1>3, <2>1, <2>2, <2>3
  <1> SUFFICES ASSUME NEW i \in 1..Len(ops)
               PROVE  DatedFile(ops[i].staged, n) /\ DatedFile(ops[i].prior, n)
    BY DEF DatedOps
  <1>7. \/ RevertConfigAt(d, U, req, ops, i)
        \/ RevertLedgerAt(d, U, req, ops, i)
        \/ RevertBackupAt(d, U, req, ops, i)
    BY RevertOperationsFacts
  <1>8. \A p : DatedFile(At(d, p), n)
    BY DEF DatedDisk
  <1>9. DatedFile(None, n)
    BY DEF DatedFile
  <1>10. CASE RevertConfigAt(d, U, req, ops, i)
    BY <1>4, <1>5, <1>8, <1>10 DEF RevertConfigAt
  <1>11. CASE RevertLedgerAt(d, U, req, ops, i)
    BY <1>6, <1>8, <1>9, <1>11 DEF RevertLedgerAt, DatedFile
  <1>12. CASE RevertBackupAt(d, U, req, ops, i)
    BY <1>8, <1>9, <1>12 DEF RevertBackupAt
  <1> QED
    BY <1>7, <1>10, <1>11, <1>12

\* A command writes nothing once it has staged: it renames and removes.
LEMMA NothingNew ==
  ASSUME NEW t, NEW u, NEW d, NEW e, Running1(t),
         RunStep(t, d, u, e) \/ UnseenStep(t, d, u, e)
  PROVE  \A p : At(e, p) = None \/ \E q : At(e, p) = At(d, q)
  <1>1. ASSUME NEW from, NEW to, Renames(d, e, from, to)
        PROVE  \A p : At(e, p) = None \/ \E q : At(e, p) = At(d, q)
    BY <1>1 DEF Renames
  <1>2. ASSUME NEW S, Removes(d, e, S)
        PROVE  \A p : At(e, p) = None \/ \E q : At(e, p) = At(d, q)
    BY <1>2 DEF Removes
  <1>3. CASE e = d
    BY <1>3
  <1>4. CASE MoveStep(t, d, u, e) \/ MoveUnseen(t, d, u, e)
    <2>1. Renames(d, e, Now(t).dest, Aside(t.at))
      BY <1>4 DEF MoveStep, MoveUnseen
    <2> QED
      BY <1>1, <2>1
  <1>5. CASE PublishStep(t, d, u, e) \/ PublishUnseen(t, d, u, e)
    <2>1. Renames(d, e, Stage(t.at), Now(t).dest)
      BY <1>5 DEF PublishStep, PublishUnseen
    <2> QED
      BY <1>1, <2>1
  <1>6. CASE DisplaceStep(t, d, u, e)
    <2>1. Renames(d, e, Now(t).dest, Displaced(t.at))
      BY <1>6 DEF DisplaceStep
    <2> QED
      BY <1>1, <2>1
  <1>7. CASE RestoreStep(t, d, u, e)
    <2>1. Renames(d, e, Aside(t.at), Now(t).dest)
      BY <1>7 DEF RestoreStep
    <2> QED
      BY <1>1, <2>1
  <1>8. CASE DiscardStep(t, d, u, e) \/ CleanStep(t, d, u, e) \/ FinishStep(t, d, u, e)
    <2>1. e = d \/ \E S : Removes(d, e, S)
      BY <1>8 DEF DiscardStep, CleanStep, FinishStep
    <2> QED
      BY <1>2, <1>3, <2>1
  <1> QED
    BY <1>3, <1>4, <1>5, <1>6, <1>7, <1>8
       DEF RunStep, UnseenStep, TakeStep, StopStep, VerifyStep, UndoStep, GiveUpStep

LEMMA FaultCounts ==
  ASSUME TypeInv
  PROVE  /\ faults \in Nat
         /\ Fault => faults' = faults + 1 /\ faults' \in Nat /\ faults <= faults'
  <1>1. work \in Nat /\ faults \in Nat
    BY DEF TypeInv
  <1> QED
    BY <1>1 DEF Fault

LEMMA SameOpsDated ==
  ASSUME NEW o, NEW w, SameOps(o, w), NEW n, DatedOps(o, n)
  PROVE  DatedOps(w, n)
  BY DEF SameOps, DatedOps

\* The plans of a command that begins.
LEMMA PlansBegin ==
  ASSUME TypeInv, NEW req \in Requests, Begin(req)
  PROVE  /\ tx' # Idle /\ tx'.before = disk /\ tx'.req = req /\ faults' = faults
         /\ \/ tx'.ops = <<>>
            \/ /\ req.kind = "use" /\ CanUse(disk, LedgerOn(disk), req)
               /\ tx'.ops = UseOperations(disk, Inodes, req) /\ tx'.ops # <<>>
            \/ /\ req.kind = "revert" /\ CanRevert(disk, LedgerOn(disk), req)
               /\ tx'.ops = RevertOperations(disk, Inodes, req) /\ tx'.ops # <<>>
         /\ IsDisk(disk) /\ IsFiniteSet(Inodes)
  <1>1. /\ Running1(tx') /\ tx'.before = disk /\ tx'.req = req /\ history' = history
        /\ tx'.ops = <<>> \/ (Plannable(req) /\ tx'.ops = Planned(req) /\ tx'.ops # <<>>)
    BY BeginSteps DEF Starts
  <1>2. tx' # Idle
    BY <1>1, RunningFacts
  <1>3. IsDisk(disk) /\ IsFiniteSet(Inodes)
    BY InodesAreFinite DEF TypeInv
  <1>4. req.kind \in {"use", "revert"}
    BY RequestFacts
  <1> QED
    BY <1>1, <1>2, <1>3, <1>4 DEF Plannable, Planned, history

LEMMA TurnsStep ==
  ASSUME TypeInv, TurnsInv, [Next]_vars
  PROVE  TurnsInv'
  <1>1. ASSUME NEW req \in Requests, Begin(req) PROVE TurnsInv'
    <2>1. TurnsOf(tx')
      BY <1>1, PlansBegin, TurnsBegin
    <2> QED
      BY <2>1 DEF TurnsInv
  <1>2. ASSUME NEW req \in Requests, Refuse(req) \/ StagingFails(req) PROVE TurnsInv'
    <2>1. tx'.before = disk /\ tx'.ops = <<>> /\ tx'.req = req
      BY <1>2, RefuseSteps DEF Starts
    <2>2. IsDisk(disk) /\ IsFiniteSet({})
      BY FS_EmptySet DEF TypeInv
    <2>3. TurnsOf(tx')
      BY <2>1, <2>2, TurnsBegin
    <2> QED
      BY <2>3 DEF TurnsInv
  <1>3. ASSUME tx # Idle, Running1(tx), Carries(tx, tx') PROVE TurnsInv'
    <2>1. tx \in Transactions /\ TurnsOf(tx)
      BY <1>3 DEF Running1, TurnsInv
    <2> QED
      BY <1>3, <2>1, TurnsGoOn DEF TurnsInv, Carries
  <1>4. CASE Works
    BY <1>3, <1>4, WorkSteps
  <1>5. CASE Return \/ Die
    BY <1>5 DEF TurnsInv, Return, Die, Depart
  <1>6. ASSUME NEW p, Touches(tx, tx', p) PROVE TurnsInv'
    <2>1. CASE tx = Idle
      BY <1>6, <2>1 DEF Touches, TurnsInv
    <2>2. CASE tx # Idle
      <3>1. tx'.req = tx.req /\ tx'.ops = tx.ops /\ tx'.before = tx.before
        BY <1>6, <2>2 DEF Touches
      <3>2. TurnsOf(tx) => TurnsOf(tx')
        BY <3>1 DEF TurnsOf, Outcome, Adopts
      <3> QED
        BY <2>2, <3>2 DEF TurnsInv
    <2> QED
      BY <2>1, <2>2
  <1>7. CASE \E c \in Clients : Edit(c)
    BY <1>6, <1>7, EditSteps
  <1>8. CASE \E p \in DOMAIN disk : Delete(p) \/ Replace(p)
    BY <1>6, <1>8, RuinSteps
  <1>9. CASE ReplaceLock
    <2>1. tx # Idle /\ tx'.req = tx.req /\ tx'.ops = tx.ops /\ tx'.before = tx.before
      BY <1>9, LockSteps
    <2>2. TurnsOf(tx) => TurnsOf(tx')
      BY <2>1 DEF TurnsOf, Outcome, Adopts
    <2> QED
      BY <2>1, <2>2 DEF TurnsInv
  <1>10. CASE SyncFails
    BY <1>3, <1>10, UnseenSteps
  <1>11. CASE UNCHANGED vars
    BY <1>11 DEF vars, TurnsInv
  <1>12. CASE Errs
    BY <1>3, <1>12, ErrsSteps
  <1> QED
    BY <1>1, <1>2, <1>4, <1>5, <1>7, <1>8, <1>9, <1>10, <1>11, <1>12 DEF Next, Works, Errs

LEMMA DatedStep ==
  ASSUME TypeInv, DatedInv, [Next]_vars
  PROVE  DatedInv'
  <1> DEFINE n == faults
  <1>0. n \in Nat /\ (Fault => faults' = n + 1 /\ faults' \in Nat /\ n <= faults') /\ IsDisk(disk)
    BY FaultCounts DEF TypeInv
  <1>1. ASSUME NEW m, DatedDisk(disk', m), tx' # Idle => DatedDisk(tx'.before, m) /\ DatedOps(tx'.ops, m),
               faults' = m
        PROVE  DatedInv'
    BY <1>1 DEF DatedInv
  <1>2. DatedFile(None, n)
    BY DEF DatedFile
  <1>3. ASSUME NEW req \in Requests, Begin(req) PROVE DatedInv'
    <2>1. /\ tx'.before = disk /\ tx'.req = req /\ faults' = n
          /\ \/ tx'.ops = <<>>
             \/ /\ req.kind = "use" /\ CanUse(disk, LedgerOn(disk), req)
                /\ tx'.ops = UseOperations(disk, Inodes, req) /\ tx'.ops # <<>>
             \/ /\ req.kind = "revert" /\ CanRevert(disk, LedgerOn(disk), req)
                /\ tx'.ops = RevertOperations(disk, Inodes, req) /\ tx'.ops # <<>>
          /\ IsDisk(disk) /\ IsFiniteSet(Inodes)
      BY <1>3, PlansBegin
    <2>2. DatedDisk(disk, n)
      BY DEF DatedInv
    <2>3. DatedOps(tx'.ops, n)
      <3>1. CASE tx'.ops = <<>>
        BY <3>1 DEF DatedOps
      <3>2. CASE req.kind = "use" /\ CanUse(disk, LedgerOn(disk), req)
                 /\ tx'.ops = UseOperations(disk, Inodes, req) /\ tx'.ops # <<>>
        <4>1. UsePremise(disk, Inodes, req) /\ Changed(disk, req) # {}
          BY <2>1, <3>2 DEF UsePremise, UseOperations
        <4> QED
          BY <2>2, <3>2, <4>1, UseDated
      <3>3. CASE req.kind = "revert" /\ CanRevert(disk, LedgerOn(disk), req)
                 /\ tx'.ops = RevertOperations(disk, Inodes, req) /\ tx'.ops # <<>>
        <4>1. RevertPremise(disk, Inodes, req) /\ Selected(LedgerOn(disk), req) # <<>>
          BY <2>1, <3>3 DEF RevertPremise, RevertOperations
        <4> QED
          BY <2>2, <3>3, <4>1, RevertDated
      <3> QED
        BY <2>1, <3>1, <3>2, <3>3
    <2>4. DatedDisk(disk', n)
      <3>1. disk' = disk \/ Lays(disk, disk', tx'.ops)
        BY <1>3, BeginSteps DEF Starts
      <3>2. ASSUME Lays(disk, disk', tx'.ops), NEW p PROVE DatedFile(At(disk', p), n)
        <4>1. CASE p \notin StageNames
          BY <2>2, <3>2, <4>1 DEF Lays, DatedDisk
        <4>2. CASE p \in StageNames
          <5>1. PICK i \in Nat : p = Stage(i)
            BY <4>2 DEF StageNames
          <5>2. At(disk, Stage(i)) = None =>
                  At(disk', p) = IF i \in 1..Len(tx'.ops) THEN tx'.ops[i].staged ELSE None
            BY <3>2, <5>1 DEF Lays
          <5>3. At(disk', p) = At(disk, p) \/ At(disk, p) = None
            <6>1. DOMAIN disk \subseteq DOMAIN disk' /\ \A q \in DOMAIN disk : disk'[q] = disk[q]
              BY <1>3 DEF Begin
            <6> QED
              BY <6>1 DEF At
          <5> QED
            BY <1>2, <2>2, <2>3, <5>1, <5>2, <5>3 DEF DatedDisk, DatedOps
        <4> QED
          BY <4>1, <4>2
      <3> QED
        BY <2>2, <3>1, <3>2 DEF DatedDisk
    <2> QED
      BY <1>1, <2>1, <2>2, <2>3, <2>4
  <1>4. ASSUME NEW req \in Requests, Refuse(req) \/ StagingFails(req) PROVE DatedInv'
    <2>1. tx'.before = disk /\ tx'.ops = <<>> /\ disk' = disk
          /\ (faults' = n \/ faults' = n + 1)
      BY <1>4, RefuseSteps DEF Starts
    <2>2. DatedDisk(disk, faults') /\ faults' \in Nat
      BY <1>0, <2>1, DatedGrows DEF DatedInv
    <2>3. DatedOps(<<>>, faults')
      BY DEF DatedOps
    <2> QED
      BY <1>1, <2>1, <2>2, <2>3
  <1>5. ASSUME tx # Idle, Running1(tx), Carries(tx, tx'), faults' \in Nat, n <= faults',
               RunStep(tx, disk, tx', disk') \/ UnseenStep(tx, disk, tx', disk')
        PROVE  DatedInv'
    <2>1. DatedDisk(disk, faults') /\ DatedDisk(tx.before, faults') /\ DatedOps(tx.ops, faults')
      BY <1>0, <1>5, DatedGrows DEF DatedInv
    <2>2. DatedDisk(disk', faults')
      BY <1>5, <2>1, NothingNew DEF DatedDisk, DatedFile
    <2>3. tx'.before = tx.before /\ DatedOps(tx'.ops, faults')
      BY <1>5, <2>1, SameOpsDated DEF Carries
    <2> QED
      BY <1>1, <2>1, <2>2, <2>3
  <1>6. CASE Works
    BY <1>0, <1>5, <1>6, WorkSteps
  <1>7. CASE Return \/ Die
    <2>1. Depart /\ tx' = Idle /\ (faults' = n \/ faults' = n + 1)
      BY <1>7 DEF Return, Die, Depart, Fault
    <2>2. Departs(disk, disk', left, left')
      BY <2>1, DepartFacts
    <2>3. DatedDisk(disk, faults') /\ faults' \in Nat
      BY <1>0, <2>1, DatedGrows DEF DatedInv
    <2>4. \A p : At(disk', p) = None \/ At(disk', p) = At(disk, p)
      <3>1. IsDisk(disk')
        BY <2>2 DEF Departs
      <3>2. \A p : p \notin Names => At(disk', p) = None
        BY <3>1 DEF IsDisk, At
      <3> QED
        BY <2>2, <3>2 DEF Departs, Names
    <2>5. DatedDisk(disk', faults')
      BY <2>3, <2>4 DEF DatedDisk, DatedFile
    <2> QED
      BY <1>1, <2>1, <2>5
  <1>8. ASSUME NEW p, Touches(tx, tx', p), DatedFile(At(disk', p), n + 1), Fault,
               \A q : q # p => At(disk', q) = At(disk, q)
        PROVE  DatedInv'
    <2>1. faults' = n + 1
      BY <1>0, <1>8
    <2>2. DatedDisk(disk, n + 1)
          /\ (tx # Idle => DatedDisk(tx.before, n + 1) /\ DatedOps(tx.ops, n + 1))
      BY <1>0, <1>8, <2>1, DatedGrows DEF DatedInv
    <2>3. DatedDisk(disk', n + 1)
      BY <1>8, <2>2 DEF DatedDisk
    <2>4. tx' # Idle => tx # Idle /\ tx'.ops = tx.ops /\ tx'.before = tx.before
      BY <1>8 DEF Touches
    <2> QED
      BY <1>1, <2>1, <2>2, <2>3, <2>4
  <1>9. ASSUME NEW c \in Clients, Edit(c) PROVE DatedInv'
    <2>1. PICK f : Edits(disk, disk', c, f, version, version')
      BY <1>9, EditSteps
    <2>2. Touches(tx, tx', Config(c)) /\ Fault
      BY <1>9, EditSteps
    <2>3. f \in ConfigFiles /\ f.bytes.rest = n + 1 /\ At(disk', Config(c)) = f
          /\ \A q : q # Config(c) => At(disk', q) = At(disk, q)
      BY <2>1 DEF Edits
    <2>4. DatedFile(f, n + 1)
      BY <1>0, <2>3, DatedConfig
    <2> QED
      BY <1>8, <2>2, <2>3, <2>4
  <1>10. ASSUME NEW p \in DOMAIN disk, Delete(p) \/ Replace(p) PROVE DatedInv'
    <2>1. Ruins(disk, disk', p) /\ Touches(tx, tx', p) /\ Fault
      BY <1>10, RuinSteps
    <2>2. DatedFile(At(disk', p), n + 1)
      BY <2>1, BytesDiffer DEF Ruins, DatedFile, DatedBytes
    <2> QED
      BY <1>8, <2>1, <2>2 DEF Ruins
  <1>11. CASE ReplaceLock
    <2>1. tx # Idle /\ tx'.ops = tx.ops /\ tx'.before = tx.before /\ disk' = disk /\ Fault
      BY <1>11, LockSteps
    <2>2. DatedDisk(disk, faults') /\ DatedDisk(tx.before, faults') /\ DatedOps(tx.ops, faults')
      BY <1>0, <2>1, DatedGrows DEF DatedInv
    <2> QED
      BY <1>1, <2>1, <2>2
  <1>12. CASE SyncFails
    BY <1>0, <1>5, <1>12, UnseenSteps
  <1>13. CASE UNCHANGED vars
    BY <1>13 DEF vars, DatedInv
  <1>14. CASE Errs
    BY <1>0, <1>5, <1>14, ErrsSteps
  <1> QED
    BY <1>3, <1>4, <1>6, <1>7, <1>9, <1>10, <1>11, <1>12, <1>13, <1>14 DEF Next, Works, Errs

-----------------------------------------------------------------------------
(* Which ledger a running command leaves, wherever it stops.               *)

\* A rename whose directory could not be synchronized counts as made here.
LedgerIsOf(t, d) ==
  \/ At(d, State) = None
  \/ At(d, State).bytes \in OtherBytes
  \/ /\ At(d, State) = At(t.before, State)
     /\ \A i \in 1..Len(t.ops) : t.ops[i].dest = State /\ Onward(t) => ~t.ops[i].moved
  \/ \E i \in 1..Len(t.ops) :
       /\ t.ops[i].dest = State /\ t.ops[i].staged # None
       /\ At(d, State) = t.ops[i].staged /\ (Onward(t) => t.ops[i].published)

LEMMA OnwardStays ==
  ASSUME NEW t, NEW u, NEW d, NEW e, RunStep(t, d, u, e) \/ UnseenStep(t, d, u, e), Onward(u)
  PROVE  Onward(t)
  <1>1. CASE TakeStep(t, d, u, e) \/ StopStep(t, d, u, e) \/ MoveStep(t, d, u, e)
             \/ PublishStep(t, d, u, e) \/ VerifyStep(t, d, u, e) \/ FinishStep(t, d, u, e)
             \/ MoveUnseen(t, d, u, e) \/ PublishUnseen(t, d, u, e)
    BY <1>1 DEF TakeStep, StopStep, MoveStep, PublishStep, VerifyStep, FinishStep, MoveUnseen,
         PublishUnseen, Onward, Forwards
  <1>2. CASE UndoStep(t, d, u, e) \/ DisplaceStep(t, d, u, e) \/ RestoreStep(t, d, u, e)
             \/ DiscardStep(t, d, u, e) \/ GiveUpStep(t, d, u, e) \/ CleanStep(t, d, u, e)
    BY <1>2 DEF UndoStep, DisplaceStep, RestoreStep, DiscardStep, GiveUpStep, GivesUpNow, CleanStep,
         Onward, Forwards, Stays, GivesUp, Descends
  <1> QED
    BY <1>1, <1>2 DEF RunStep, UnseenStep

\* Flags change at the operation at hand alone, and where a file is renamed.
LEMMA FlagsElsewhere ==
  ASSUME NEW t, NEW u, NEW d, NEW e, RunStep(t, d, u, e) \/ UnseenStep(t, d, u, e)
  PROVE  \/ SameFlags(t, u)
         \/ /\ t.phase \in {"move", "publish", "displace", "restore"}
            /\ \A i \in 1..Len(t.ops) : i # t.at =>
                 u.ops[i].moved = t.ops[i].moved /\ u.ops[i].published = t.ops[i].published
  <1>1. CASE MoveStep(t, d, u, e) \/ PublishStep(t, d, u, e) \/ DisplaceStep(t, d, u, e)
             \/ RestoreStep(t, d, u, e) \/ MoveUnseen(t, d, u, e) \/ PublishUnseen(t, d, u, e)
    BY <1>1 DEF MoveStep, PublishStep, DisplaceStep, RestoreStep, MoveUnseen, PublishUnseen, Reflags
  <1>2. CASE ~(MoveStep(t, d, u, e) \/ PublishStep(t, d, u, e) \/ DisplaceStep(t, d, u, e)
               \/ RestoreStep(t, d, u, e) \/ MoveUnseen(t, d, u, e) \/ PublishUnseen(t, d, u, e))
    BY <1>2 DEF RunStep, UnseenStep, TakeStep, StopStep, VerifyStep, FinishStep, UndoStep, DiscardStep,
         GiveUpStep, GivesUpNow, CleanStep
  <1> QED
    BY <1>1, <1>2

LEMMA LedgerKept ==
  ASSUME NEW t, NEW u, NEW d, NEW e, Steps(t, u), RunStep(t, d, u, e) \/ UnseenStep(t, d, u, e),
         LedgerIsOf(t, d), At(e, State) = At(d, State),
         \A i \in 1..Len(t.ops) : t.ops[i].dest = State =>
           u.ops[i].moved = t.ops[i].moved /\ u.ops[i].published = t.ops[i].published
  PROVE  LedgerIsOf(u, e)
  <1>1. /\ Len(u.ops) = Len(t.ops) /\ u.before = t.before
        /\ \A i \in 1..Len(t.ops) : u.ops[i].dest = t.ops[i].dest /\ u.ops[i].staged = t.ops[i].staged
    BY DEF Steps, Carries, SameOps
  <1>2. Onward(u) => Onward(t)
    BY OnwardStays
  <1> QED
    BY <1>1, <1>2 DEF LedgerIsOf

LEMMA LedgerRenamed ==
  ASSUME NEW t, NEW u, NEW d, NEW e, NEW sp, Steps(t, u),
         Progress(t), Stages(t, d, sp), PlanPriors(t.before, t.ops), PlanPlaces(t.ops),
         t.ops[t.at].dest = State,
         \/ MoveStep(t, d, u, e) \/ MoveUnseen(t, d, u, e) \/ DisplaceStep(t, d, u, e)
         \/ PublishStep(t, d, u, e) \/ PublishUnseen(t, d, u, e) \/ RestoreStep(t, d, u, e)
  PROVE  LedgerIsOf(u, e)
  <1> DEFINE a == t.at
  <1>1. /\ a \in 1..Len(t.ops) /\ Now(t) = t.ops[a] /\ Len(t.ops) \in Nat
    BY AtAnOperation DEF Steps, MoveStep, MoveUnseen, DisplaceStep, PublishStep, PublishUnseen, RestoreStep
  <1>2. /\ Len(u.ops) = Len(t.ops) /\ u.before = t.before
        /\ \A i \in 1..Len(t.ops) : u.ops[i].dest = t.ops[i].dest /\ u.ops[i].staged = t.ops[i].staged
    BY DEF Steps, Carries, SameOps
  <1>3. \A i \in 1..Len(t.ops) : t.ops[i].dest = State => i = a
    <2>1. State \notin ConfigNames
      BY NameFacts DEF ConfigNames
    <2> QED
      BY <1>1, <2>1 DEF PlanPlaces
  <1>4. CASE MoveStep(t, d, u, e) \/ MoveUnseen(t, d, u, e)
    <2>1. Renames(d, e, State, Aside(a))
      BY <1>1, <1>4 DEF MoveStep, MoveUnseen
    <2>2. ShowsMove(d, e, State, a)
      BY <2>1, NameFacts, MoveShows
    <2>3. At(e, State) = None
      BY <2>2, NameFacts DEF ShowsMove
    <2> QED
      BY <2>3 DEF LedgerIsOf
  <1>5. CASE PublishStep(t, d, u, e) \/ PublishUnseen(t, d, u, e)
    <2>1. Renames(d, e, Stage(a), State) /\ t.phase = "publish"
      BY <1>1, <1>5 DEF PublishStep, PublishUnseen
    <2>2. At(e, State) = At(d, Stage(a))
      BY <2>1 DEF Renames
    <2>3. t.ops[a].staged # None
      BY <2>1 DEF Progress
    <2>4. Onward(u) => u.ops[a].published
      BY <1>5 DEF PublishStep, PublishUnseen, Reflags, Fails, Onward, Forwards
    <2>5. \/ At(d, Stage(a)) \in {None, t.ops[a].staged} \/ At(d, Stage(a)).bytes \in OtherBytes
      BY <1>1 DEF Stages
    <2> QED
      BY <1>1, <1>2, <2>2, <2>3, <2>4, <2>5 DEF LedgerIsOf
  <1>6. CASE DisplaceStep(t, d, u, e)
    <2>1. Renames(d, e, State, Displaced(a))
      BY <1>1, <1>6 DEF DisplaceStep
    <2>2. ShowsDisplace(d, e, State, a)
      BY <2>1, NameFacts, DisplaceShows
    <2>3. At(e, State) = None
      BY <2>2, NameFacts DEF ShowsDisplace
    <2> QED
      BY <2>3 DEF LedgerIsOf
  <1>7. CASE RestoreStep(t, d, u, e)
    <2>1. Renames(d, e, Aside(a), State) /\ At(d, Aside(a)) = t.ops[a].prior
      BY <1>1, <1>7 DEF RestoreStep
    <2>2. At(e, State) = t.ops[a].prior
      BY <2>1 DEF Renames
    <2>3. t.ops[a].prior = At(t.before, State)
      <3>1. PriorFollows(t.before, t.ops, a)
        BY <1>1, PriorsHold
      <3>2. \A j \in 1..Len(t.ops) : j < a => t.ops[j].dest # State
        BY <1>1, <1>3
      <3> QED
        BY <3>1, <3>2 DEF PriorFollows
    <2>4. ~Onward(u)
      BY <1>7 DEF RestoreStep, Onward, Forwards, Stays, Descends, GivesUp
    <2> QED
      BY <1>2, <2>2, <2>3, <2>4 DEF LedgerIsOf
  <1> QED
    BY <1>4, <1>5, <1>6, <1>7

LEMMA LedgerStep ==
  ASSUME NEW t, NEW u, NEW d, NEW e, NEW sp, Steps(t, u), RunStep(t, d, u, e) \/ UnseenStep(t, d, u, e),
         Progress(t), Stages(t, d, sp), PlanPriors(t.before, t.ops), PlanPlaces(t.ops), LedgerIsOf(t, d)
  PROVE  LedgerIsOf(u, e)
  <1>1. CASE /\ t.ops[t.at].dest = State
             /\ \/ MoveStep(t, d, u, e) \/ MoveUnseen(t, d, u, e) \/ DisplaceStep(t, d, u, e)
                \/ PublishStep(t, d, u, e) \/ PublishUnseen(t, d, u, e) \/ RestoreStep(t, d, u, e)
    BY <1>1, LedgerRenamed
  <1>2. CASE t.ops[t.at].dest # State
    <2>1. At(e, State) = At(d, State)
      BY <1>2, StateStays, NameFacts
    <2>2. \A i \in 1..Len(t.ops) : t.ops[i].dest = State =>
            u.ops[i].moved = t.ops[i].moved /\ u.ops[i].published = t.ops[i].published
      BY <1>2, FlagsElsewhere DEF SameFlags
    <2> QED
      BY <2>1, <2>2, LedgerKept
  <1>3. CASE ~(\/ MoveStep(t, d, u, e) \/ MoveUnseen(t, d, u, e) \/ DisplaceStep(t, d, u, e)
               \/ PublishStep(t, d, u, e) \/ PublishUnseen(t, d, u, e) \/ RestoreStep(t, d, u, e))
    <2>1. SameFlags(t, u)
      BY <1>3 DEF RunStep, UnseenStep, TakeStep, StopStep, VerifyStep, FinishStep, UndoStep, DiscardStep,
         GiveUpStep, GivesUpNow, CleanStep
    <2>2. e = d \/ t.phase \notin {"move", "publish", "displace", "restore"}
      BY <1>3 DEF RunStep, UnseenStep, TakeStep, StopStep, VerifyStep, FinishStep, UndoStep, DiscardStep,
         GiveUpStep, CleanStep
    <2>3. At(e, State) = At(d, State)
      BY <2>2, StateStays, NameFacts
    <2> QED
      BY <2>1, <2>3, LedgerKept DEF SameFlags
  <1> QED
    BY <1>1, <1>2, <1>3

LEMMA LedgerTouched ==
  ASSUME NEW t, NEW u, NEW d, NEW e, NEW p, t # Idle, Touches(t, u, p), LedgerIsOf(t, d),
         \A q : q # p => At(e, q) = At(d, q),
         p = State => At(e, p) = None \/ At(e, p).bytes \in OtherBytes
  PROVE  LedgerIsOf(u, e)
  <1>1. u.phase = t.phase /\ u.ops = t.ops /\ u.before = t.before
    BY DEF Touches
  <1>2. CASE p = State
    BY <1>2 DEF LedgerIsOf
  <1>3. CASE p # State
    BY <1>1, <1>3 DEF LedgerIsOf, Onward
  <1> QED
    BY <1>2, <1>3

LEMMA LedgerBegins ==
  ASSUME NEW u, NEW d, NEW e, u.before = d, At(e, State) = At(d, State),
         \A i \in 1..Len(u.ops) : u.ops[i].moved = FALSE
  PROVE  LedgerIsOf(u, e)
  BY DEF LedgerIsOf

-----------------------------------------------------------------------------
(* Where the last version others wrote is, at every point of a command.    *)

Gone(lf, sp, b) == \E f \in lf \cup sp : f.bytes = b

\* No operation of the command takes bytes b of client c for its own.
Foreign(t, c, b) ==
  /\ \A i \in 1..Len(t.ops) : t.ops[i].dest = Config(c) =>
       /\ t.ops[i].staged # None => t.ops[i].staged.bytes # b
       /\ t.ops[i].prior # None => t.ops[i].prior.bytes # b
  /\ \A l \in LayersOn(t.before, c) : Entry(t.before, l).expected.bytes # b
  /\ \A i \in 1..Len(t.ops) : t.ops[i].dest = State /\ t.ops[i].staged # None =>
       \A l \in DOMAIN t.ops[i].staged.bytes.entries :
         l[1] = c => t.ops[i].staged.bytes.entries[l].expected.bytes # b

\* Bytes b that others wrote to the configuration while the command ran.
Recent(t, d, c, b) ==
  /\ Foreign(t, c, b)
  /\ \/ Has(d, Config(c), b)
     \/ \E j \in 1..Len(t.ops) : /\ t.ops[j].dest = Config(c)
                                 /\ Has(d, Aside(j), b) \/ Has(d, Displaced(j), b)

LostIdle(d, lf, sp, c, b) == Chained(d, c) /\ (Gone(lf, sp, b) \/ Safe(d, c, b))

LostRunning(t, d, lf, sp, c, b) ==
  /\ Chained(t.before, c)
  /\ \/ Gone(lf, sp, b)
     \/ Recent(t, d, c, b)
     \/ Safe(IF t.phase \in Over THEN Outcome(t) ELSE t.before, c, b)

LostInv ==
  /\ tx # Idle => /\ LedgerIsOf(tx, disk)
                  /\ tx.phase \in Over => Adopts(tx) \subseteq adopted
  /\ \A c \in Clients \ adopted :
       IF tx = Idle THEN LostIdle(disk, left, spoilt, c, version[c])
       ELSE LostRunning(tx, disk, left, spoilt, c, version[c])

LEMMA RecentThere == ASSUME NEW t, NEW d, NEW c, NEW b
  PROVE  Recent(t, d, c, b) <=>
           Foreign(t, c, b) /\ \E f : f # None /\ f.bytes = b /\ There(t.ops, d, f, Config(c))
  BY DEF Recent, There, Has

LEMMA ForeignKept ==
  ASSUME NEW t, NEW u, SameOps(t.ops, u.ops), u.before = t.before, NEW c, NEW b
  PROVE  Foreign(t, c, b) => Foreign(u, c, b)
  BY DEF Foreign, SameOps

\* A removal takes a file of the command's own, and never that of others.
LEMMA RecentRemoved ==
  ASSUME NEW t, NEW u, NEW d, NEW e, Steps(t, u), NEW c \in Clients, NEW b, Foreign(t, c, b),
         NEW f, f # None, f.bytes = b, There(t.ops, d, f, Config(c)),
         DiscardStep(t, d, u, e) \/ CleanStep(t, d, u, e) \/ FinishStep(t, d, u, e)
  PROVE  There(t.ops, e, f, Config(c))
  <1> DEFINE a == t.at
             n == Len(t.ops)
             p == Config(c)
  <1>0. n \in Nat /\ a \in Nat /\ p \in Homes
    BY RunningFacts, NameFacts DEF Steps
  <1>1. ASSUME DiscardStep(t, d, u, e) PROVE There(t.ops, e, f, p)
    <2>1. t.phase = "discard" /\ At(d, Displaced(a)) = t.ops[a].staged /\ Removes(d, e, {Displaced(a)})
      BY <1>1 DEF DiscardStep, Now
    <2>2. a \in 1..n /\ {Displaced(a)} \subseteq ArtifactNames
      BY <1>0, <2>1, NameFacts DEF Steps, Running1, Placing
    <2>3. t.ops[a].dest = p => At(d, Displaced(a)) # f
      BY <2>1, <2>2 DEF Foreign
    <2>4. /\ \A i : At(e, Aside(i)) = At(d, Aside(i))
          /\ \A i : i # a => At(e, Displaced(i)) = At(d, Displaced(i))
          /\ At(e, p) = At(d, p)
      <3>1. \A i : Aside(i) \notin {Displaced(a)} /\ (i # a => Displaced(i) \notin {Displaced(a)})
        BY NameFacts
      <3> QED
        BY <1>0, <2>1, <2>2, <3>1, RemoveShows
    <2> QED
      BY <2>3, <2>4 DEF There
  <1>2. ASSUME CleanStep(t, d, u, e) PROVE There(t.ops, e, f, p)
    <2>1. PICK S \in SUBSET StageNames : Removes(d, e, S)
      BY <1>2 DEF CleanStep
    <2>2. S \subseteq ArtifactNames /\ \A i : Aside(i) \notin S /\ Displaced(i) \notin S
      BY NameFacts DEF StageNames, ArtifactNames
    <2>3. /\ \A i : At(e, Aside(i)) = At(d, Aside(i)) /\ At(e, Displaced(i)) = At(d, Displaced(i))
          /\ At(e, p) = At(d, p)
      BY <1>0, <2>1, <2>2, RemoveShows
    <2> QED
      BY <2>3 DEF There
  <1>3. ASSUME FinishStep(t, d, u, e) PROVE There(t.ops, e, f, p)
    <2>1. CASE e = d
      BY <2>1
    <2>2. CASE e # d
      <3>1. At(d, Aside(a)) = t.ops[a].prior /\ Removes(d, e, {Aside(a)}) /\ t.phase = "finish"
        BY <1>3, <2>2 DEF FinishStep, Now
      <3>2. a \in 1..n /\ {Aside(a)} \subseteq ArtifactNames
        BY <1>0, <3>1, NameFacts DEF Steps, Running1, Placing, Forwards
      <3>3. t.ops[a].dest = p => At(d, Aside(a)) # f
        BY <3>1, <3>2 DEF Foreign
      <3>4. /\ \A i : At(e, Displaced(i)) = At(d, Displaced(i))
            /\ \A i : i # a => At(e, Aside(i)) = At(d, Aside(i))
            /\ At(e, p) = At(d, p)
        <4>1. \A i : Displaced(i) \notin {Aside(a)} /\ (i # a => Aside(i) \notin {Aside(a)})
          BY NameFacts
        <4> QED
          BY <1>0, <3>1, <3>2, <4>1, RemoveShows
      <3> QED
        BY <3>3, <3>4 DEF There
    <2> QED
      BY <2>1, <2>2
  <1> QED
    BY <1>1, <1>2, <1>3

LEMMA RecentStep ==
  ASSUME NEW t, NEW u, NEW d, NEW e, NEW s \in BOOLEAN, Steps(t, u), Progress(t), Leftovers(t, d, s),
         NEW c \in Clients, NEW b, Recent(t, d, c, b), RunStep(t, d, u, e) \/ UnseenStep(t, d, u, e)
  PROVE  Recent(u, e, c, b)
  <1> DEFINE p == Config(c)
  <1>1. SameOps(t.ops, u.ops) /\ u.before = t.before /\ p \in Homes
    BY NameFacts DEF Steps, Carries
  <1>2. PICK f : f # None /\ f.bytes = b /\ There(t.ops, d, f, p)
    BY RecentThere
  <1>3. Foreign(t, c, b) /\ Foreign(u, c, b)
    BY <1>1, ForeignKept DEF Recent
  <1> HIDE DEF p
  <1>4. There(t.ops, e, f, p)
    <2>1. CASE \/ TakeStep(t, d, u, e) \/ StopStep(t, d, u, e) \/ VerifyStep(t, d, u, e)
               \/ UndoStep(t, d, u, e) \/ GiveUpStep(t, d, u, e)
      BY <1>2, <2>1 DEF TakeStep, StopStep, VerifyStep, UndoStep, GiveUpStep
    <2>2. CASE MoveStep(t, d, u, e) \/ MoveUnseen(t, d, u, e)
      BY <1>1, <1>2, <2>2, ThereMove
    <2>3. CASE PublishStep(t, d, u, e) \/ PublishUnseen(t, d, u, e)
      BY <1>1, <1>2, <2>3, TherePublish
    <2>4. CASE DisplaceStep(t, d, u, e)
      BY <1>1, <1>2, <2>4, ThereDisplace
    <2>5. CASE RestoreStep(t, d, u, e)
      BY <1>1, <1>2, <2>5, ThereRestore
    <2>6. CASE DiscardStep(t, d, u, e) \/ CleanStep(t, d, u, e) \/ FinishStep(t, d, u, e)
      BY <1>2, <1>3, <2>6, RecentRemoved DEF p
    <2> QED
      BY <2>1, <2>2, <2>3, <2>4, <2>5, <2>6 DEF RunStep, UnseenStep
  <1>5. There(u.ops, e, f, p)
    BY <1>1, <1>4 DEF There, SameOps
  <1> QED
    BY <1>2, <1>3, <1>5, RecentThere DEF p

\* Once everything is committed a command stays committed, and only a
\* verification commits it.
LEMMA OverStays ==
  ASSUME NEW t, NEW u, NEW d, NEW e, RunStep(t, d, u, e) \/ UnseenStep(t, d, u, e)
  PROVE  /\ t.phase \in Over => u.phase \in Over
         /\ u.phase \in Over => t.phase \in Over \/ (VerifyStep(t, d, u, e) /\ u.phase = "finish")
  <1>1. t.phase \in Over => FinishStep(t, d, u, e)
    BY DEF Over, RunStep, UnseenStep, TakeStep, StopStep, MoveStep, PublishStep, VerifyStep, UndoStep,
           DisplaceStep, RestoreStep, DiscardStep, GiveUpStep, GivesUpNow, CleanStep, MoveUnseen, PublishUnseen
  <1>2. FinishStep(t, d, u, e) => t.phase \in Over /\ u.phase \in Over
    BY DEF FinishStep, Stays, Over
  <1>3. VerifyStep(t, d, u, e) => u.phase \in {"verify", "finish"}
    BY DEF VerifyStep
  <1>4. CASE TakeStep(t, d, u, e) \/ StopStep(t, d, u, e) \/ MoveStep(t, d, u, e)
             \/ PublishStep(t, d, u, e) \/ MoveUnseen(t, d, u, e) \/ PublishUnseen(t, d, u, e)
    BY <1>1, <1>2, <1>4 DEF TakeStep, StopStep, MoveStep, PublishStep, MoveUnseen, PublishUnseen, Stays, Fails,
         Proceeds, Over
  <1>5. CASE UndoStep(t, d, u, e) \/ DisplaceStep(t, d, u, e) \/ RestoreStep(t, d, u, e)
             \/ DiscardStep(t, d, u, e) \/ GiveUpStep(t, d, u, e) \/ CleanStep(t, d, u, e)
    BY <1>1, <1>2, <1>5 DEF UndoStep, DisplaceStep, RestoreStep, DiscardStep, GiveUpStep, GivesUpNow, CleanStep,
         Stays, GivesUp, Descends, Over
  <1> QED
    BY <1>1, <1>2, <1>3, <1>4, <1>5 DEF RunStep, UnseenStep, Over

-----------------------------------------------------------------------------
(* A command that works keeps the last version where it was.               *)

LEMMA OutcomeIsProper ==
  ASSUME NEW t, Running1(t)
  PROVE  Proper(t.before) /\ Proper(Outcome(t))
  <1>1. IsDisk(t.before) /\ t.ops \in Seq(Operations)
    BY DEF Running1, Transactions
  <1> QED
    BY <1>1, DiskIsProper, TargetFacts DEF Outcome

LEMMA SafeOutcome ==
  ASSUME NEW t, Running1(t), TurnsOf(t), NEW c \in Clients, c \notin Adopts(t), Chained(t.before, c), NEW b
  PROVE  /\ Safe(t.before, c, b) => Safe(Outcome(t), c, b)
         /\ Chained(Outcome(t), c)
  <1>1. Proper(t.before) /\ Proper(Outcome(t))
    BY OutcomeIsProper
  <1>2. Turns(t.before, Outcome(t), c) /\ Follows(t.before, Outcome(t), c)
    BY DEF TurnsOf
  <1> QED
    BY <1>1, <1>2, SafeTurns, ChainedTurns

LEMMA LostGoesOn ==
  ASSUME NEW t, NEW u, NEW d, NEW e, NEW s \in BOOLEAN, Steps(t, u), Progress(t), Leftovers(t, d, s),
         TurnsOf(t), RunStep(t, d, u, e) \/ UnseenStep(t, d, u, e), NEW lf, NEW sp,
         NEW c \in Clients, NEW b, LostRunning(t, d, lf, sp, c, b),
         u.phase \in Over /\ t.phase \notin Over => c \notin Adopts(t)
  PROVE  LostRunning(u, e, lf, sp, c, b)
  <1>1. Running1(t) /\ t \in Transactions /\ u.req = t.req /\ u.before = t.before /\ SameOps(t.ops, u.ops)
    BY RunningFacts DEF Steps, Carries
  <1>2. Outcome(u) = Outcome(t)
    BY <1>1, TurnsGoOn
  <1>3. t.phase \in Over => u.phase \in Over
    BY OverStays
  <1>4. Recent(t, d, c, b) => Recent(u, e, c, b)
    BY RecentStep
  <1>5. u.phase \in Over /\ t.phase \notin Over /\ Safe(t.before, c, b) => Safe(Outcome(t), c, b)
    BY <1>1, SafeOutcome DEF LostRunning
  <1> QED
    BY <1>1, <1>2, <1>3, <1>4, <1>5 DEF LostRunning

-----------------------------------------------------------------------------
(* Others write, or delete.                                                *)

LEMMA LostTouched ==
  ASSUME NEW t, NEW u, NEW d, NEW e, NEW lf, NEW sp, NEW sq, NEW p, t # Idle, Touches(t, u, p),
         Spoils(d, e, sp, sq, p), NEW c, NEW b, LostRunning(t, d, lf, sp, c, b)
  PROVE  LostRunning(u, e, lf, sq, c, b)
  <1>1. u.phase = t.phase /\ u.ops = t.ops /\ u.before = t.before
    BY DEF Touches
  <1>2. Outcome(u) = Outcome(t) /\ (Foreign(t, c, b) => Foreign(u, c, b))
    BY <1>1 DEF Outcome, Foreign
  <1>3. Gone(lf, sp, b) => Gone(lf, sq, b)
    BY DEF Gone, Spoils
  <1>4. ASSUME NEW f, f # None, f.bytes = b, There(t.ops, d, f, Config(c))
        PROVE  Gone(lf, sq, b) \/ There(u.ops, e, f, Config(c))
    <2>1. At(d, p) = f => Gone(lf, sq, b)
      BY <1>4 DEF Spoils, Gone
    <2>2. \A q : At(d, q) = f => At(d, p) = f \/ At(e, q) = f
      BY DEF Spoils
    <2> QED
      BY <1>1, <1>4, <2>1, <2>2 DEF There
  <1>5. Recent(t, d, c, b) => Gone(lf, sq, b) \/ Recent(u, e, c, b)
    BY <1>2, <1>4, RecentThere
  <1> QED
    BY <1>1, <1>2, <1>3, <1>5 DEF LostRunning

LEMMA NoLayersWithout ==
  ASSUME NEW d, Proper(d), At(d, State) = None \/ At(d, State).bytes \in OtherBytes, NEW c
  PROVE  LayersOn(d, c) = {}
  <1>1. CASE At(d, State) = None
    <2>1. LedgerOn(d) = EmptyLedger
      BY <1>1 DEF Proper, LedgerOn
    <2> QED
      BY <2>1 DEF LayersOn, Layers, EmptyLedger
  <1>2. CASE At(d, State) # None /\ At(d, State).bytes \in OtherBytes
    <2>1. LedgerOn(d) \in OtherBytes
      BY <1>2 DEF Proper, LedgerOn, At
    <2>2. ~Readable(LedgerOn(d))
      BY <2>1, ReadableLedger, BytesDiffer
    <2> QED
      BY <2>2 DEF LayersOn
  <1> QED
    BY <1>1, <1>2

LEMMA LayersAlike ==
  ASSUME NEW d, NEW e, Proper(d), Proper(e), At(e, State) = At(d, State), NEW c
  PROVE  SameLayers(d, e, c)
  BY SameLedger DEF SameLayers, LayersOn, Entry

LEMMA ChainedAlike ==
  ASSUME NEW d, NEW e, NEW c, SameLayers(d, e, c) \/ LayersOn(e, c) = {}, Chained(d, c)
  PROVE  Chained(e, c)
  BY DEF SameLayers, Chained

LEMMA LostIdleTouched ==
  ASSUME NEW d, NEW e, NEW lf, NEW sp, NEW sq, NEW p, Proper(d), Proper(e), Spoils(d, e, sp, sq, p),
         p = State => At(e, p) = None \/ At(e, p).bytes \in OtherBytes,
         NEW c, NEW b, LostIdle(d, lf, sp, c, b)
  PROVE  LostIdle(e, lf, sq, c, b)
  <1>1. SameLayers(d, e, c) \/ LayersOn(e, c) = {}
    <2>1. CASE p = State
      BY <2>1, NoLayersWithout
    <2>2. CASE p # State
      BY <2>2, LayersAlike DEF Spoils
    <2> QED
      BY <2>1, <2>2
  <1>2. Chained(e, c)
    BY <1>1, ChainedAlike DEF LostIdle
  <1>3. Gone(lf, sp, b) => Gone(lf, sq, b)
    BY DEF Gone, Spoils
  <1>4. Has(d, p, b) => Gone(lf, sq, b)
    BY DEF Has, Gone, Spoils
  <1>5. ~Has(d, p, b) => KeepsFiles(d, e, c, b)
    BY DEF Has, KeepsFiles, Spoils
  <1>6. Safe(d, c, b) => Gone(lf, sq, b) \/ Safe(e, c, b)
    BY <1>1, <1>4, <1>5, SafeKept
  <1> QED
    BY <1>2, <1>3, <1>6 DEF LostIdle

\* The bytes of an edit are dated after all that a ledger or a plan holds.
LEMMA NewBytesAreForeign ==
  ASSUME NEW t, Running1(t), NEW lf, Static(t, lf), NEW n \in Nat,
         DatedDisk(t.before, n), DatedOps(t.ops, n),
         NEW c \in Clients, NEW b \in ConfigBytes, b.rest = n + 1
  PROVE  Foreign(t, c, b)
  <1>1. IsDisk(t.before) /\ Proper(t.before)
    BY OutcomeIsProper DEF Running1
  <1>2. b.rest > n /\ b.rest \in Nat
    OBVIOUS
  <1>3. ASSUME NEW f, f # None, DatedFile(f, n) PROVE f.bytes # b
    BY <1>2, <1>3 DEF DatedFile, DatedBytes
  <1>4. \A i \in 1..Len(t.ops) : /\ t.ops[i].staged # None => t.ops[i].staged.bytes # b
                                 /\ t.ops[i].prior # None => t.ops[i].prior.bytes # b
    BY <1>3 DEF DatedOps
  <1>5. ASSUME NEW l \in LayersOn(t.before, c) PROVE Entry(t.before, l).expected.bytes # b
    <2>1. LedgerOn(t.before) \in LedgerBytes /\ l \in DOMAIN LedgerOn(t.before).entries
      BY <1>1, <1>5, ReadableLedger, LayersFacts
    <2>2. Entry(t.before, l).expected.bytes.rest <= n
      BY <1>1, <2>1, DatedEntries DEF Entry
    <2> QED
      BY <1>2, <2>2
  <1>6. ASSUME NEW i \in 1..Len(t.ops), t.ops[i].dest = State, t.ops[i].staged # None,
               NEW l \in DOMAIN t.ops[i].staged.bytes.entries
        PROVE  t.ops[i].staged.bytes.entries[l].expected.bytes # b
    <2>1. t.ops # <<>>
      BY <1>6
    <2>2. t.ops[i].staged.bytes \in LedgerBytes
      BY <1>6, <2>1 DEF Static, PlanShapes
    <2>3. t.ops[i].staged.bytes.entries[l].expected.bytes.rest <= n
      BY <1>6, <2>2 DEF DatedOps, DatedFile, DatedBytes
    <2> QED
      BY <1>2, <2>3
  <1> QED
    BY <1>4, <1>5, <1>6 DEF Foreign

LEMMA LostEdited ==
  ASSUME NEW d, IsDisk(d), NEW e, IsDisk(e), NEW n \in Nat, DatedDisk(d, n), NEW c \in Clients,
         NEW f \in ConfigFiles, f.bytes.rest = n + 1,
         \A q : At(e, q) = IF q = Config(c) THEN f ELSE At(d, q),
         NEW lf, NEW sp, NEW sq, NEW b, LostIdle(d, lf, sp, c, b)
  PROVE  LostIdle(e, lf, sq, c, f.bytes)
  <1>1. Proper(d) /\ Proper(e) /\ Config(c) # State
    BY DiskIsProper, NameFacts
  <1>2. SameLayers(d, e, c)
    BY <1>1, LayersAlike
  <1>3. Chained(e, c)
    BY <1>2, ChainedAlike DEF LostIdle
  <1>4. Has(e, Config(c), f.bytes)
    BY BytesDiffer DEF Has
  <1>5. ASSUME NEW l \in LayersOn(e, c) PROVE At(e, Config(c)) # Entry(e, l).expected
    <2>1. l \in LayersOn(d, c) /\ Entry(e, l) = Entry(d, l)
      BY <1>2, <1>5 DEF SameLayers
    <2>2. LedgerOn(d) \in LedgerBytes /\ l \in DOMAIN LedgerOn(d).entries
      BY <1>1, <2>1, ReadableLedger, LayersFacts
    <2>3. Entry(d, l).expected.bytes.rest <= n
      BY <2>2, DatedEntries DEF Entry
    <2> QED
      BY <2>1, <2>3
  <1> QED
    BY <1>3, <1>4, <1>5 DEF LostIdle, Safe, Unswapped, Overwritten

-----------------------------------------------------------------------------
(* A command that is gone: what it leaves in their places.                 *)

RecordedIn(t, d) ==
  \E i \in 1..Len(t.ops) : /\ t.ops[i].dest = State /\ t.ops[i].staged # None
                           /\ Holds(d, State, t.ops[i].staged)

Departing(t, d, e, lf, mf, sp) ==
  /\ Running1(t) /\ IsDisk(d) /\ Departs(d, e, lf, mf)
  /\ Progress(t) /\ Static(t, lf) /\ Conserved(t, d, sp) /\ Placed(t, d, sp)
  /\ LedgerIsOf(t, d) /\ TurnsOf(t)

\* The ledger is the old one, the new one, or none at all.
LEMMA LedgerAfter ==
  ASSUME NEW t, NEW d, NEW e, NEW lf, NEW mf, NEW sp, Departing(t, d, e, lf, mf, sp), NEW c
  PROVE  \/ LayersOn(e, c) = {}
         \/ SameLayers(t.before, e, c) /\ t.phase \notin Over
         \/ SameLayers(Outcome(t), e, c) /\ (t.phase \in Over \/ RecordedIn(t, d))
  <1> DEFINE n == Len(t.ops)
             X == Outcome(t)
  <1>1. Proper(t.before) /\ Proper(X) /\ n \in Nat /\ IsDisk(t.before) /\ t.ops \in Seq(Operations)
    BY OutcomeIsProper, RunningFacts DEF Departing, Running1, Transactions
  <1>2. Proper(e) /\ At(e, State) = At(d, State)
    BY DiskIsProper, NameFacts DEF Departing, Departs
  <1>3. CASE At(d, State) = None \/ At(d, State).bytes \in OtherBytes
    BY <1>2, <1>3, NoLayersWithout
  <1>4. CASE /\ At(d, State) = At(t.before, State)
             /\ \A i \in 1..n : t.ops[i].dest = State /\ Onward(t) => ~t.ops[i].moved
    <2>1. CASE t.phase \notin Over
      BY <1>1, <1>2, <1>4, <2>1, LayersAlike
    <2>2. CASE t.phase \in Over /\ t.ops = <<>>
      <3>1. At(X, State) = At(t.before, State)
        <4>1. \A i \in 1..Len(t.ops) : t.ops[i].dest # State
          BY <2>2
        <4> QED
          BY <1>1, <4>1, TargetFacts DEF Outcome
      <3> QED
        BY <1>1, <1>2, <1>4, <2>2, <3>1, LayersAlike
    <2>3. CASE t.phase \in Over /\ t.ops # <<>>
      <3>1. PlanPriors(t.before, t.ops) /\ PlanPlaces(t.ops)
        BY <2>3 DEF Departing, Static
      <3>2. PICK i \in 1..n : t.ops[i].dest = State
        BY <2>3, <3>1 DEF PlanPlaces
      <3>3. \A j \in 1..n : t.ops[j].dest = State => j = i
        BY <3>1, <3>2, NameFacts DEF PlanPlaces, ConfigNames
      <3>4. t.ops[i].prior = At(t.before, State)
        <4>1. \A j \in 1..(i - 1) : t.ops[j].dest # t.ops[i].dest
          BY <1>1, <3>2, <3>3
        <4> QED
          BY <3>1, <3>2, <4>1 DEF PlanPriors
      <3>5. t.ops[i].prior = None
        BY <1>4, <2>3, <3>2 DEF Departing, Progress, Onward, Over, Done, Forwards
      <3> QED
        BY <1>3, <1>4, <3>4, <3>5
    <2> QED
      BY <2>1, <2>2, <2>3
  <1>5. CASE \E i \in 1..n : /\ t.ops[i].dest = State /\ t.ops[i].staged # None
                             /\ At(d, State) = t.ops[i].staged /\ (Onward(t) => t.ops[i].published)
    <2>1. PICK i \in 1..n : t.ops[i].dest = State /\ t.ops[i].staged # None /\ At(d, State) = t.ops[i].staged
      BY <1>5
    <2>2. PlanPlaces(t.ops)
      <3>1. t.ops # <<>>
        BY <2>1
      <3> QED
        BY <3>1 DEF Departing, Static
    <2>3. \A j \in 1..n : j > i => t.ops[j].dest # State
      BY <1>1, <2>1, <2>2, NameFacts DEF PlanPlaces, ConfigNames
    <2>4. At(X, State) = t.ops[i].staged
      BY <1>1, <2>1, <2>3, TargetFacts DEF Outcome
    <2>5. SameLayers(X, e, c)
      BY <1>1, <1>2, <2>1, <2>4, LayersAlike
    <2>6. RecordedIn(t, d)
      <3>1. Holds(d, State, t.ops[i].staged)
        BY <2>1, AtFacts DEF Departing
      <3> QED
        BY <2>1, <3>1 DEF RecordedIn
    <2> QED
      BY <2>5, <2>6
  <1> QED
    BY <1>3, <1>4, <1>5 DEF Departing, LedgerIsOf

\* A file of before, or of the outcome once that is committed, is still there.
LEMMA FilesNow ==
  ASSUME NEW t, NEW d, NEW sp, Running1(t), Progress(t), Conserved(t, d, sp), Placed(t, d, sp),
         NEW p \in Homes, NEW b, Has(IF t.phase \in Over THEN Outcome(t) ELSE t.before, p, b)
  PROVE  LET f == At(IF t.phase \in Over THEN Outcome(t) ELSE t.before, p) IN
         f.bytes = b /\ f # None /\ (f \in sp \/ There(t.ops, d, f, p))
  <1> DEFINE n == Len(t.ops)
             f == At(IF t.phase \in Over THEN Outcome(t) ELSE t.before, p)
  <1>1. f # None /\ f.bytes = b
    BY DEF Has
  <1>2. IsDisk(t.before) /\ t.ops \in Seq(Operations) /\ n \in Nat
    BY RunningFacts DEF Running1, Transactions
  <1>3. CASE At(t.before, p) = f /\ (t.phase \in Over => \A i \in 1..n : t.ops[i].dest # p)
    BY <1>1, <1>3, ConservedThere
  <1>4. CASE t.phase \in Over /\ \A i \in 1..n : t.ops[i].dest # p
    <2>1. f = At(t.before, p)
      BY <1>2, <1>4, TargetFacts DEF Outcome
    <2> QED
      BY <1>3, <1>4, <2>1
  <1>5. CASE t.phase \in Over /\ \E i \in 1..n : t.ops[i].dest = p
    <2>1. PICK i \in 1..n : t.ops[i].dest = p /\ \A j \in 1..n : j > i => t.ops[j].dest # p
      BY <1>2, <1>5, TargetFacts
    <2>2. f = t.ops[i].staged
      BY <1>2, <1>5, <2>1, TargetFacts DEF Outcome
    <2>3. t.ops[i].published /\ LastFor(t, i) /\ Onward(t)
      BY <1>1, <1>5, <2>1, <2>2 DEF Progress, Onward, Over, Done, Forwards, LastFor
    <2>4. f \in sp \/ At(d, p) = f
      BY <2>1, <2>2, <2>3 DEF Placed
    <2> QED
      BY <1>1, <2>4 DEF There
  <1> QED
    BY <1>1, <1>3, <1>4, <1>5

\* The files are those of before, or those of the outcome, or retained.
LEMMA FilesAfter ==
  ASSUME NEW t, NEW d, NEW e, NEW lf, NEW mf, NEW sp, Departing(t, d, e, lf, mf, sp),
         NEW p \in Homes, NEW b,
         Has(IF t.phase \in Over THEN Outcome(t) ELSE t.before, p, b)
  PROVE  \/ Gone(mf, sp, b)
         \/ At(e, p) = At(IF t.phase \in Over THEN Outcome(t) ELSE t.before, p)
  <1> DEFINE n == Len(t.ops)
             f == At(IF t.phase \in Over THEN Outcome(t) ELSE t.before, p)
  <1>1. f # None /\ f.bytes = b /\ (f \in sp \/ There(t.ops, d, f, p))
    BY FilesNow DEF Departing
  <1>2. n \in Nat
    BY RunningFacts DEF Departing
  <1>4. ASSUME NEW q \in ArtifactNames, At(d, q) = f PROVE Gone(mf, sp, b)
    BY <1>1, <1>4 DEF Departing, Departs, Gone
  <1>5. At(e, p) = At(d, p)
    BY DEF Departing, Departs
  <1> HIDE DEF f
  <1>6. \A j \in 1..n : Aside(j) \in ArtifactNames /\ Displaced(j) \in ArtifactNames
    BY <1>2, NameFacts
  <1>7. f \in sp => Gone(mf, sp, b)
    BY <1>1 DEF Gone
  <1> QED
    BY <1>1, <1>4, <1>5, <1>6, <1>7 DEF There, f

LEMMA LostDeparts ==
  ASSUME NEW t, NEW d, NEW e, NEW lf, NEW mf, NEW sp, Departing(t, d, e, lf, mf, sp),
         NEW c \in Clients, NEW b, LostRunning(t, d, lf, sp, c, b),
         t.phase \in Over \/ RecordedIn(t, d) => c \notin Adopts(t)
  PROVE  LostIdle(e, mf, sp, c, b)
  <1> DEFINE X == Outcome(t)
  <1>1. Running1(t) /\ TurnsOf(t) /\ Chained(t.before, c) /\ lf \subseteq mf
    BY DEF Departing, LostRunning, Departs
  <1>2. c \notin Adopts(t) => /\ Chained(X, c)
                              /\ Safe(t.before, c, b) => Safe(X, c, b)
                              /\ Turns(t.before, X, c) /\ Follows(t.before, X, c)
    BY <1>1, SafeOutcome DEF TurnsOf
  <1>3. \/ LayersOn(e, c) = {}
        \/ SameLayers(t.before, e, c) /\ t.phase \notin Over
        \/ SameLayers(X, e, c) /\ (t.phase \in Over \/ RecordedIn(t, d))
    BY LedgerAfter
  <1>4. Chained(e, c)
    BY <1>1, <1>2, <1>3, ChainedAlike
  <1>5. CASE Gone(lf, sp, b)
    BY <1>1, <1>4, <1>5 DEF Gone, LostIdle
  <1>6. Config(c) \in Homes /\ \A m \in Nat : Backup(c, m) \in Homes
    BY NameFacts
  <1>7. CASE Safe(IF t.phase \in Over THEN X ELSE t.before, c, b)
    <2> DEFINE Y == IF t.phase \in Over THEN X ELSE t.before
    <2>1. \A p \in Homes : Has(Y, p, b) => Gone(mf, sp, b) \/ At(e, p) = At(Y, p)
      BY FilesAfter
    <2>2. Gone(mf, sp, b) \/ KeepsFiles(Y, e, c, b)
      BY <1>6, <2>1 DEF KeepsFiles
    <2>3. ASSUME KeepsFiles(Y, e, c, b) PROVE Safe(e, c, b)
      <3>1. CASE SameLayers(Y, e, c) \/ LayersOn(e, c) = {}
        BY <1>7, <2>3, <3>1, SafeKept
      <3>2. CASE t.phase \notin Over /\ SameLayers(X, e, c) /\ RecordedIn(t, d)
        <4>1. Proper(t.before) /\ Proper(X)
          BY <1>1, OutcomeIsProper
        <4> QED
          BY <1>1, <1>2, <1>7, <2>3, <3>2, <4>1, SafeHalfway
      <3> QED
        BY <1>3, <3>1, <3>2
    <2> QED
      BY <1>4, <2>2, <2>3 DEF LostIdle
  <1>8. CASE Recent(t, d, c, b)
    <2>1. \A q \in ArtifactNames : Has(d, q, b) => Gone(mf, sp, b)
      BY DEF Has, Gone, Departing, Departs
    <2>2. \A j \in 1..Len(t.ops) : Aside(j) \in ArtifactNames /\ Displaced(j) \in ArtifactNames
      BY <1>1, RunningFacts, NameFacts
    <2>3. CASE Gone(mf, sp, b)
      BY <1>4, <2>3 DEF LostIdle
    <2>4. CASE ~Gone(mf, sp, b)
      <3>1. Has(e, Config(c), b)
        <4>1. Has(d, Config(c), b)
          BY <1>8, <2>1, <2>2, <2>4 DEF Recent
        <4> QED
          BY <1>6, <4>1 DEF Departing, Departs, Has
      <3>2. ASSUME NEW l \in LayersOn(e, c) PROVE Entry(e, l).expected.bytes # b
        <4>1. CASE SameLayers(t.before, e, c)
          BY <1>8, <3>2, <4>1 DEF SameLayers, Recent, Foreign
        <4>2. CASE SameLayers(X, e, c)
          <5>1. l \in LayersOn(X, c) /\ Entry(e, l) = Entry(X, l)
            BY <3>2, <4>2 DEF SameLayers
          <5>2. IsDisk(t.before) /\ t.ops \in Seq(Operations)
            BY <1>1 DEF Running1, Transactions
          <5>3. CASE \A i \in 1..Len(t.ops) : t.ops[i].dest # State
            <6>1. SameLayers(t.before, X, c)
              BY <1>1, <5>2, <5>3, TargetFacts, OutcomeIsProper, LayersAlike DEF Outcome
            <6> QED
              BY <1>8, <5>1, <6>1 DEF SameLayers, Recent, Foreign
          <5>4. CASE \E i \in 1..Len(t.ops) : t.ops[i].dest = State
            <6>1. PICK i \in 1..Len(t.ops) : /\ t.ops[i].dest = State
                                             /\ \A j \in 1..Len(t.ops) : j > i => t.ops[j].dest # State
              BY <5>2, <5>4, TargetFacts
            <6>2. At(X, State) = t.ops[i].staged
              BY <5>2, <6>1, TargetFacts DEF Outcome
            <6>3. t.ops[i].staged # None
              BY <1>1, <5>1, <6>2, OutcomeIsProper, NoLayersWithout
            <6>4. LedgerOn(X) = t.ops[i].staged.bytes
              BY <1>1, <6>2, <6>3, OutcomeIsProper DEF Proper, LedgerOn, At
            <6>5. l \in DOMAIN LedgerOn(X).entries /\ l[1] = c
              BY <1>1, <5>1, OutcomeIsProper, LayersFacts
            <6> QED
              BY <1>8, <5>1, <6>1, <6>3, <6>4, <6>5 DEF Recent, Foreign, Entry
          <5> QED
            BY <5>3, <5>4
        <4> QED
          BY <1>3, <3>2, <4>1, <4>2
      <3>3. Safe(e, c, b)
        BY <3>1, <3>2 DEF Safe, Unswapped, Overwritten, Has
      <3> QED
        BY <1>4, <3>3 DEF LostIdle
    <2> QED
      BY <2>3, <2>4
  <1> QED
    BY <1>5, <1>7, <1>8 DEF LostRunning

LEMMA LostMore ==
  ASSUME NEW d, NEW lf, NEW sp, NEW sq, sp \subseteq sq, NEW c, NEW b, LostIdle(d, lf, sp, c, b)
  PROVE  LostIdle(d, lf, sq, c, b)
  BY DEF LostIdle, Gone

LEMMA ForeignSame ==
  ASSUME NEW t, NEW u, u.ops = t.ops, u.before = t.before
  PROVE  \A c, b : Foreign(t, c, b) => Foreign(u, c, b)
  BY DEF Foreign

LEMMA AdoptsAtWork ==
  ASSUME TypeInv, Works
  PROVE  /\ adopted \subseteq adopted'
         /\ VerifyStep(tx, disk, tx', disk') /\ tx'.phase = "finish" => adopted' = adopted \cup Adopts(tx)
  <1>1. CASE VerifyCommitted
    BY <1>1, AdoptedAreNew DEF VerifyCommitted
  <1>2. CASE ~VerifyCommitted
    <2>1. adopted' = adopted
      BY <1>2, WorkSteps
    <2>2. tx.phase # "verify"
      BY <1>2 DEF Works, Take, Move, Publish, Finish, Undo, Displace, Restore, Discard, Clean
    <2> QED
      BY <2>1, <2>2 DEF VerifyStep
  <1> QED
    BY <1>1, <1>2

\* A command that begins, or that is refused, finds everything as it was.
LEMMA LostBegins ==
  ASSUME NEW u, NEW d, NEW e, Running1(u), u.before = d, At(e, State) = At(d, State),
         \A i \in 1..Len(u.ops) : u.ops[i].moved = FALSE,
         u.phase \in Over => u.ops = <<>>,
         NEW lf, NEW sp
  PROVE  /\ LedgerIsOf(u, e) /\ (u.phase \in Over => Adopts(u) = {})
         /\ \A c \in Clients : \A b : LostIdle(d, lf, sp, c, b) => LostRunning(u, e, lf, sp, c, b)
  <1>1. LedgerIsOf(u, e)
    BY LedgerBegins
  <1>2. u.phase \in Over => Adopts(u) = {}
    BY DEF Adopts
  <1>3. ASSUME NEW c \in Clients, NEW b, u.phase \in Over, Chained(d, c), Safe(d, c, b)
        PROVE  Safe(Outcome(u), c, b)
    <2>1. IsDisk(d) /\ Proper(d) /\ Proper(Outcome(u))
      BY OutcomeIsProper DEF Running1
    <2>2. Leaves(d, Outcome(u), c)
      BY <1>3, <2>1, NothingTurns DEF Outcome
    <2>3. Follows(d, Outcome(u), c)
      BY <2>2, NotAdding DEF Leaves
    <2> QED
      BY <1>3, <2>1, <2>2, <2>3, SafeTurns DEF Turns
  <1> QED
    BY <1>1, <1>2, <1>3 DEF LostIdle, LostRunning

LEMMA LostStep ==
  ASSUME TypeInv, StaticInv, ExactInv, BackedInv, TurnsInv, DatedInv, LostInv, [Next]_vars
  PROVE  LostInv'
  <1>0. IsDisk(disk) /\ synced \in BOOLEAN /\ faults \in Nat /\ DatedDisk(disk, faults)
    BY FaultCounts DEF TypeInv, DatedInv
  <1>1. ASSUME tx' # Idle, tx'.phase \in Over => Adopts(tx') \subseteq adopted', LedgerIsOf(tx', disk'),
               \A c \in Clients \ adopted' : LostRunning(tx', disk', left', spoilt', c, version'[c])
        PROVE  LostInv'
    BY <1>1 DEF LostInv
  <1>2. ASSUME tx' = Idle,
               \A c \in Clients \ adopted' : LostIdle(disk', left', spoilt', c, version'[c])
        PROVE  LostInv'
    BY <1>2 DEF LostInv
  <1>3. ASSUME tx = Idle, Running1(tx'), tx'.before = disk, At(disk', State) = At(disk, State),
               \A i \in 1..Len(tx'.ops) : tx'.ops[i].moved = FALSE,
               tx'.phase \in Over => tx'.ops = <<>>,
               left' = left, spoilt' = spoilt, version' = version, adopted' = adopted
        PROVE  LostInv'
    <2>1. /\ LedgerIsOf(tx', disk') /\ (tx'.phase \in Over => Adopts(tx') = {})
          /\ \A c \in Clients : \A b : LostIdle(disk, left, spoilt, c, b) =>
               LostRunning(tx', disk', left, spoilt, c, b)
      BY <1>3, LostBegins
    <2>2. tx' # Idle
      BY <1>3, RunningFacts
    <2>3. \A c \in Clients \ adopted : LostIdle(disk, left, spoilt, c, version[c])
      BY <1>3 DEF LostInv
    <2> QED
      BY <1>1, <1>3, <2>1, <2>2, <2>3
  <1>4. ASSUME NEW req \in Requests, Begin(req) PROVE LostInv'
    <2>1. /\ tx = Idle /\ Running1(tx') /\ tx'.before = disk
          /\ left' = left /\ spoilt' = spoilt /\ version' = version /\ adopted' = adopted
      BY <1>4, BeginSteps DEF Starts, history
    <2>2. \/ tx'.phase = "take" /\ Lays(disk, disk', tx'.ops) /\ PlanTyped(tx'.ops)
          \/ tx'.phase = "ok" /\ tx'.ops = <<>> /\ disk' = disk
      BY <1>4, BeginSteps DEF Starts, IsPlan
    <2>3. \A i \in 1..Len(tx'.ops) : tx'.ops[i].moved = FALSE
      BY <2>2 DEF PlanTyped
    <2>4. At(disk', State) = At(disk, State)
      <3>1. State \notin StageNames
        BY NameFacts DEF Homes, ArtifactNames
      <3> QED
        BY <2>2, <3>1 DEF Lays
    <2> QED
      BY <1>3, <2>1, <2>2, <2>3, <2>4 DEF Over
  <1>5. ASSUME NEW req \in Requests, Refuse(req) \/ StagingFails(req) PROVE LostInv'
    <2>1. /\ tx = Idle /\ Running1(tx') /\ disk' = disk /\ tx'.before = disk /\ tx'.ops = <<>>
          /\ left' = left /\ spoilt' = spoilt /\ version' = version /\ adopted' = adopted
      BY <1>5, RefuseSteps DEF Starts
    <2>2. \A i \in 1..Len(tx'.ops) : tx'.ops[i].moved = FALSE
      BY <2>1
    <2> QED
      BY <1>3, <2>1, <2>2
  <1>6. ASSUME tx # Idle, Running1(tx), Running1(tx'), Carries(tx, tx'),
               left' = left, spoilt' = spoilt, version' = version, adopted \subseteq adopted',
               RunStep(tx, disk, tx', disk') \/ UnseenStep(tx, disk, tx', disk'),
               VerifyStep(tx, disk, tx', disk') /\ tx'.phase = "finish" => Adopts(tx) \subseteq adopted'
        PROVE  LostInv'
    <2>1. Steps(tx, tx') /\ tx' # Idle /\ tx \in Transactions
      BY <1>6, RunningFacts DEF Steps
    <2>2. /\ Progress(tx) /\ Leftovers(tx, disk, synced) /\ Stages(tx, disk, spoilt)
          /\ TurnsOf(tx) /\ LedgerIsOf(tx, disk) /\ (tx.phase \in Over => Adopts(tx) \subseteq adopted)
      BY <1>6 DEF ExactInv, BackedInv, TurnsInv, LostInv
    <2>3. PlanPriors(tx.before, tx.ops) /\ PlanPlaces(tx.ops)
      <3>1. tx.phase \notin Answers
        BY <1>6 DEF RunStep, UnseenStep, TakeStep, StopStep, MoveStep, PublishStep, VerifyStep, FinishStep, UndoStep,
             DisplaceStep, RestoreStep, DiscardStep, GiveUpStep, GivesUpNow, CleanStep, MoveUnseen, PublishUnseen,
             Answers
      <3>2. Len(tx.ops) # 0 /\ Len(tx.ops) \in Nat
        <4>1. tx.phase \in Phases /\ Len(tx.ops) \in Nat
          BY <1>6, RunningFacts
        <4> QED
          BY <1>6, <3>1, <4>1 DEF Running1, Placing, Phases, Forwards, Backwards
      <3>3. tx.ops # <<>>
        BY <3>2
      <3> QED
        BY <1>6, <3>3 DEF StaticInv, Static
    <2>4. LedgerIsOf(tx', disk')
      BY <1>6, <2>1, <2>2, <2>3, LedgerStep
    <2>5. Adopts(tx') = Adopts(tx)
      BY <1>6, <2>1, TurnsGoOn DEF Carries
    <2>6. tx'.phase \in Over => Adopts(tx) \subseteq adopted'
      BY <1>6, <2>2, OverStays
    <2>7. ASSUME NEW c \in Clients \ adopted'
          PROVE  LostRunning(tx', disk', left', spoilt', c, version'[c])
      <3>1. c \in Clients /\ LostRunning(tx, disk, left, spoilt, c, version[c])
        BY <1>6, <2>7 DEF LostInv
      <3>2. tx'.phase \in Over => c \notin Adopts(tx)
        BY <2>6, <2>7
      <3>3. LostRunning(tx', disk', left, spoilt, c, version[c])
        BY <1>0, <1>6, <2>1, <2>2, <3>1, <3>2, LostGoesOn
      <3> QED
        BY <1>6, <3>3
    <2> QED
      BY <1>1, <2>1, <2>4, <2>5, <2>6, <2>7
  <1>7. CASE Works
    <2>1. Adopts(tx) \subseteq adopted \cup Adopts(tx)
      OBVIOUS
    <2> QED
      BY <1>6, <1>7, <2>1, WorkSteps, AdoptsAtWork
  <1>15. CASE Errs
    <2>1. ~(VerifyStep(tx, disk, tx', disk') /\ tx'.phase = "finish")
      BY <1>15, ErrsSteps DEF VerifyStep
    <2> QED
      BY <1>6, <1>15, <2>1, ErrsSteps
  <1>8. CASE SyncFails
    <2>1. ~VerifyStep(tx, disk, tx', disk')
      BY <1>8 DEF SyncFails, VerifyStep
    <2> QED
      BY <1>6, <1>8, <2>1, UnseenSteps
  <1>9. CASE Return \/ Die
    <2>1. Depart /\ version' = version /\ spoilt \subseteq spoilt' /\ tx # Idle
      BY <1>9, IdlePhase DEF Return, Die, Running, Answers
    <2>2. /\ tx' = Idle /\ Departs(disk, disk', left, left')
          /\ adopted' = IF RecordedIn(tx, disk) THEN adopted \cup Adopts(tx) ELSE adopted
      BY <2>1, DepartFacts, AdoptedAreNew DEF Recorded, RecordedIn
    <2>3. Departing(tx, disk, disk', left, left', spoilt)
      BY <1>0, <2>1, <2>2 DEF Departing, TypeInv, StaticInv, ExactInv, BackedInv, TurnsInv, LostInv
    <2>4. ASSUME NEW c \in Clients \ adopted'
          PROVE  LostIdle(disk', left', spoilt', c, version'[c])
      <3>1. c \in Clients \ adopted /\ (RecordedIn(tx, disk) => c \notin Adopts(tx))
        BY <2>2, <2>4
      <3>2. LostRunning(tx, disk, left, spoilt, c, version[c]) /\ (tx.phase \in Over => c \notin Adopts(tx))
        BY <2>1, <3>1 DEF LostInv
      <3>3. LostIdle(disk', left', spoilt, c, version[c])
        BY <2>3, <3>1, <3>2, LostDeparts
      <3> QED
        BY <2>1, <3>3, LostMore
    <2> QED
      BY <1>2, <2>2, <2>4
  <1>10. ASSUME NEW p, Touches(tx, tx', p), IsDisk(disk'), Spoils(disk, disk', spoilt, spoilt', p),
                p = State => At(disk', p) = None \/ At(disk', p).bytes \in OtherBytes,
                left' = left, adopted' = adopted
         PROVE  /\ tx = Idle => /\ tx' = Idle
                                /\ \A c \in Clients \ adopted' : LostIdle(disk', left', spoilt', c, version[c])
                /\ tx # Idle => /\ tx' # Idle /\ LedgerIsOf(tx', disk')
                                /\ tx'.phase \in Over => Adopts(tx') \subseteq adopted'
                                /\ \A c \in Clients \ adopted' :
                                     LostRunning(tx', disk', left', spoilt', c, version[c])
    <2>1. CASE tx = Idle
      <3>1. tx' = Idle
        BY <1>10, <2>1 DEF Touches
      <3>2. Proper(disk) /\ Proper(disk')
        BY <1>0, <1>10, DiskIsProper
      <3>3. ASSUME NEW c \in Clients \ adopted' PROVE LostIdle(disk', left', spoilt', c, version[c])
        <4>1. LostIdle(disk, left, spoilt, c, version[c])
          BY <1>10, <2>1, <3>3 DEF LostInv
        <4> QED
          BY <1>10, <3>2, <4>1, LostIdleTouched
      <3> QED
        BY <2>1, <3>1, <3>3
    <2>2. CASE tx # Idle
      <3>1. tx' # Idle /\ tx'.phase = tx.phase /\ tx'.req = tx.req /\ tx'.ops = tx.ops /\ tx'.before = tx.before
        BY <1>10, <2>2, RunningFacts DEF Touches
      <3>2. LedgerIsOf(tx, disk) /\ (tx.phase \in Over => Adopts(tx) \subseteq adopted)
        BY <2>2 DEF LostInv
      <3>3. LedgerIsOf(tx', disk')
        BY <1>10, <2>2, <3>2, LedgerTouched DEF Spoils
      <3>4. Adopts(tx') = Adopts(tx)
        BY <3>1 DEF Adopts
      <3>5. ASSUME NEW c \in Clients \ adopted' PROVE LostRunning(tx', disk', left', spoilt', c, version[c])
        <4>1. LostRunning(tx, disk, left, spoilt, c, version[c])
          BY <1>10, <2>2, <3>5 DEF LostInv
        <4> QED
          BY <1>10, <2>2, <4>1, LostTouched
      <3> QED
        BY <1>10, <2>2, <3>1, <3>2, <3>3, <3>4, <3>5
    <2> QED
      BY <2>1, <2>2
  <1>11. ASSUME NEW x \in Clients, Edit(x) PROVE LostInv'
    <2>1. PICK f : Edits(disk, disk', x, f, version, version')
      BY <1>11, EditSteps
    <2>2. /\ Touches(tx, tx', Config(x)) /\ left' = left /\ adopted' = adopted
          /\ spoilt \subseteq spoilt' /\ (At(disk, Config(x)) # None => At(disk, Config(x)) \in spoilt')
      BY <1>11, EditSteps
    <2>3. /\ IsDisk(disk') /\ f \in ConfigFiles /\ f.bytes.rest = faults + 1
          /\ \A q : At(disk', q) = IF q = Config(x) THEN f ELSE At(disk, q)
          /\ version'[x] = f.bytes /\ \A c \in Clients : c # x => version'[c] = version[c]
      BY <2>1 DEF Edits
    <2>4. Spoils(disk, disk', spoilt, spoilt', Config(x)) /\ Config(x) # State
      BY <2>2, <2>3, NameFacts DEF Spoils
    <2>5. /\ tx = Idle => /\ tx' = Idle
                          /\ \A c \in Clients \ adopted' : LostIdle(disk', left', spoilt', c, version[c])
          /\ tx # Idle => /\ tx' # Idle /\ LedgerIsOf(tx', disk')
                          /\ tx'.phase \in Over => Adopts(tx') \subseteq adopted'
                          /\ \A c \in Clients \ adopted' :
                               LostRunning(tx', disk', left', spoilt', c, version[c])
      BY <1>10, <2>2, <2>3, <2>4
    <2>6. ASSUME tx = Idle, x \notin adopted PROVE LostIdle(disk', left', spoilt', x, f.bytes)
      <3>1. LostIdle(disk, left, spoilt, x, version[x])
        BY <2>6 DEF LostInv
      <3>2. LostIdle(disk', left, spoilt', x, f.bytes)
        BY <1>0, <2>3, <3>1, LostEdited
      <3> QED
        BY <2>2, <3>2
    <2>7. ASSUME tx # Idle, x \notin adopted PROVE LostRunning(tx', disk', left', spoilt', x, f.bytes)
      <3>1. Chained(tx.before, x)
        BY <2>7 DEF LostInv, LostRunning
      <3>2. Running1(tx) /\ Static(tx, left) /\ DatedDisk(tx.before, faults) /\ DatedOps(tx.ops, faults)
        BY <2>7 DEF TypeInv, StaticInv, DatedInv
      <3>3. f.bytes \in ConfigBytes /\ f # None
        BY <2>3, BytesDiffer
      <3>4. Foreign(tx, x, f.bytes)
        BY <1>0, <2>3, <3>2, <3>3, NewBytesAreForeign
      <3>5. tx'.ops = tx.ops /\ tx'.before = tx.before
        BY <2>2, <2>7 DEF Touches
      <3>6. Has(disk', Config(x), f.bytes)
        BY <2>3, <3>3 DEF Has
      <3>7. Recent(tx', disk', x, f.bytes)
        BY <3>4, <3>5, <3>6 DEF Recent, Foreign
      <3> QED
        BY <3>1, <3>5, <3>7 DEF LostRunning
    <2>8. CASE tx = Idle
      BY <1>2, <2>2, <2>3, <2>5, <2>6, <2>8
    <2>9. CASE tx # Idle
      BY <1>1, <2>2, <2>3, <2>5, <2>7, <2>9
    <2> QED
      BY <2>8, <2>9
  <1>12. ASSUME NEW p \in DOMAIN disk, Delete(p) \/ Replace(p) PROVE LostInv'
    <2>1. /\ Ruins(disk, disk', p) /\ Touches(tx, tx', p) /\ spoilt \subseteq spoilt' /\ At(disk, p) \in spoilt'
          /\ left' = left /\ adopted' = adopted /\ version' = version
      BY <1>12, RuinSteps
    <2>2. /\ IsDisk(disk') /\ Spoils(disk, disk', spoilt, spoilt', p)
          /\ At(disk', p) = None \/ At(disk', p).bytes \in OtherBytes
      BY <2>1 DEF Ruins, Spoils
    <2>3. /\ tx = Idle => /\ tx' = Idle
                          /\ \A c \in Clients \ adopted' : LostIdle(disk', left', spoilt', c, version[c])
          /\ tx # Idle => /\ tx' # Idle /\ LedgerIsOf(tx', disk')
                          /\ tx'.phase \in Over => Adopts(tx') \subseteq adopted'
                          /\ \A c \in Clients \ adopted' :
                               LostRunning(tx', disk', left', spoilt', c, version[c])
      BY <1>10, <2>1, <2>2
    <2> QED
      BY <1>1, <1>2, <2>1, <2>3
  <1>13. CASE ReplaceLock
    <2>1. /\ tx # Idle /\ Running1(tx')
          /\ tx'.phase = tx.phase /\ tx'.req = tx.req /\ tx'.ops = tx.ops /\ tx'.before = tx.before
          /\ disk' = disk /\ left' = left /\ version' = version /\ adopted' = adopted /\ spoilt' = spoilt
      BY <1>13, LockSteps
    <2>2. tx' # Idle
      BY <2>1, RunningFacts
    <2>3. LedgerIsOf(tx, disk) => LedgerIsOf(tx', disk')
      BY <2>1 DEF LedgerIsOf, Onward
    <2>4. Outcome(tx') = Outcome(tx) /\ Adopts(tx') = Adopts(tx)
      BY <2>1 DEF Outcome, Adopts
    <2>5. \A c, b : LostRunning(tx, disk, left, spoilt, c, b) => LostRunning(tx', disk', left', spoilt', c, b)
      <3>1. \A c, b : Foreign(tx, c, b) => Foreign(tx', c, b)
        BY <2>1, ForeignSame
      <3>2. \A c, b : Recent(tx, disk, c, b) => Recent(tx', disk, c, b)
        BY <2>1, <3>1 DEF Recent
      <3> QED
        BY <2>1, <2>4, <3>2 DEF LostRunning
    <2> QED
      BY <1>1, <2>1, <2>2, <2>3, <2>4, <2>5 DEF LostInv
  <1>14. CASE UNCHANGED vars
    BY <1>14 DEF vars, LostInv
  <1> QED
    BY <1>4, <1>5, <1>7, <1>8, <1>9, <1>11, <1>12, <1>13, <1>14, <1>15 DEF Next, Works, Errs

LEMMA LostInit ==
  ASSUME Init
  PROVE  LostInv
  <1>1. tx = Idle /\ DOMAIN disk = ConfigNames /\ IsDisk(disk)
    BY InitTypes DEF Init, TypeInv
  <1>2. Proper(disk) /\ State \notin DOMAIN disk
    BY <1>1, DiskIsProper, HomesDiffer DEF ConfigNames
  <1>3. ASSUME NEW c \in Clients PROVE LostIdle(disk, left, spoilt, c, version[c])
    <2>1. LayersOn(disk, c) = {}
      BY <1>2, NoLayersWithout DEF Proper
    <2>2. disk[Config(c)].bytes = Original /\ Config(c) \in DOMAIN disk /\ version[c] = Original
      BY <1>1 DEF Init, ConfigNames
    <2>3. Has(disk, Config(c), version[c])
      BY <1>2, <2>2 DEF Has, At, Proper
    <2> QED
      BY <2>1, <2>3 DEF LostIdle, Chained, Safe, Unswapped
  <1> QED
    BY <1>1, <1>3 DEF LostInv

LEMMA DatedInit ==
  ASSUME Init
  PROVE  TurnsInv /\ DatedInv
  <1>1. tx = Idle /\ DOMAIN disk = ConfigNames /\ faults = 0
    BY InitTypes DEF Init
  <1>2. ASSUME NEW p PROVE DatedFile(At(disk, p), 0)
    <2>1. CASE p \in DOMAIN disk
      <3>1. At(disk, p).bytes = Original
        BY <1>1, <2>1 DEF Init, ConfigNames, At
      <3>2. Original \in ConfigBytes /\ Original.rest = 0
        BY DEF Original, ConfigBytes, ServerEntries, NoEntry
      <3> QED
        BY <3>1, <3>2, BytesDiffer DEF DatedFile, DatedBytes
    <2>2. CASE p \notin DOMAIN disk
      BY <2>2 DEF At, DatedFile
    <2> QED
      BY <2>1, <2>2
  <1> QED
    BY <1>1, <1>2 DEF TurnsInv, DatedInv, DatedDisk

LEMMA HomesAreOnDisk ==
  ASSUME IsDisk(disk), NEW p, NEW b, Has(disk, p, b)
  PROVE  \E f \in OnDisk : f.bytes = b
  <1>1. p \in DOMAIN disk /\ disk[p].bytes = b
    BY DEF Has, At
  <1> QED
    BY <1>1 DEF OnDisk, Files

\* A safe version is at a name: the configuration's, or a backup's.
LEMMA SafeIsSomewhere ==
  ASSUME NEW d, NEW c \in Clients, NEW b, Safe(d, c, b)
  PROVE  \E p \in Homes : Has(d, p, b)
  BY NameFacts DEF Safe, Unnamed, Unswapped, BackedUp, Overwritten

LEMMA NothingIsLostNow ==
  ASSUME TypeInv, StaticInv, ExactInv, BackedInv, LostInv
  PROVE  NothingIsLost
  <1>1. SUFFICES ASSUME NEW c \in Clients \ adopted
                 PROVE  \E f \in OnDisk \cup spoilt : f.bytes = version[c]
    BY DEF NothingIsLost
  <1> DEFINE b == version[c]
  <1>2. IsDisk(disk)
    BY DEF TypeInv
  <1>3. Gone(left, spoilt, b) => \E f \in OnDisk \cup spoilt : f.bytes = b
    BY DEF Gone, OnDisk
  <1>4. ASSUME NEW p, Has(disk, p, b) PROVE \E f \in OnDisk \cup spoilt : f.bytes = b
    BY <1>2, <1>4, HomesAreOnDisk
  <1>5. CASE tx = Idle
    <2>1. Gone(left, spoilt, b) \/ Safe(disk, c, b)
      BY <1>5 DEF LostInv, LostIdle
    <2> QED
      BY <1>3, <1>4, <2>1, SafeIsSomewhere
  <1>6. CASE tx # Idle
    <2>1. \/ Gone(left, spoilt, b) \/ Recent(tx, disk, c, b)
          \/ Safe(IF tx.phase \in Over THEN Outcome(tx) ELSE tx.before, c, b)
      BY <1>6 DEF LostInv, LostRunning
    <2>2. Recent(tx, disk, c, b) => \E p : Has(disk, p, b)
      BY DEF Recent
    <2>3. ASSUME Safe(IF tx.phase \in Over THEN Outcome(tx) ELSE tx.before, c, b)
          PROVE  \E f \in OnDisk \cup spoilt : f.bytes = b
      <3>1. PICK p \in Homes : Has(IF tx.phase \in Over THEN Outcome(tx) ELSE tx.before, p, b)
        BY <2>3, SafeIsSomewhere
      <3>2. Running1(tx) /\ Progress(tx) /\ Conserved(tx, disk, spoilt) /\ Placed(tx, disk, spoilt)
        BY <1>6 DEF TypeInv, ExactInv, BackedInv
      <3>3. \/ \E f \in spoilt : f.bytes = b
            \/ \E q : Has(disk, q, b)
        <4> DEFINE f == At(IF tx.phase \in Over THEN Outcome(tx) ELSE tx.before, p)
        <4>1. f.bytes = b /\ f # None /\ (f \in spoilt \/ There(tx.ops, disk, f, p))
          BY <3>1, <3>2, FilesNow
        <4> HIDE DEF f
        <4> QED
          BY <4>1 DEF There, Has
      <3> QED
        BY <1>4, <3>3
    <2> QED
      BY <1>3, <1>4, <2>1, <2>2, <2>3
  <1> QED
    BY <1>5, <1>6

\* Wherever a command dies, and whatever others do, the last version of a
\* configuration they wrote is still a file, or they destroyed it.
THEOREM SwapNothingIsLost == Spec => []NothingIsLost
  <1> DEFINE I == SwapInv /\ BackedInv
             J == TurnsInv /\ DatedInv /\ LostInv
  <1>1. Init => J
    BY LostInit, DatedInit
  <1>2. I /\ J /\ [Next]_vars => J'
    <2>1. TypeInv /\ TurnsInv /\ [Next]_vars => TurnsInv'
      BY TurnsStep
    <2>2. TypeInv /\ DatedInv /\ [Next]_vars => DatedInv'
      BY DatedStep
    <2>3. TypeInv /\ StaticInv /\ ExactInv /\ BackedInv /\ TurnsInv /\ DatedInv /\ LostInv /\ [Next]_vars
            => LostInv'
      BY LostStep
    <2> QED
      BY <2>1, <2>2, <2>3 DEF SwapInv
  <1>3. I /\ J => NothingIsLost
    BY NothingIsLostNow DEF SwapInv
  <1>4. Spec => []I
    BY SwapBackedInvariant
  <1> HIDE DEF I, J
  <1> QED
    BY <1>1, <1>2, <1>3, <1>4, PTL DEF Spec

-----------------------------------------------------------------------------
(* Records that only the tool has written: no fault has happened.          *)

Topmost(d, c, l) == \A k \in LayersOn(d, c) : Entry(d, k).sequence <= Entry(d, l).sequence

\* Every layer left expects the entry it installed.
Installed(d, c) == \A l \in LayersOn(d, c) : Entry(d, l).expected.bytes.entry[l[2]] # NoEntry

\* The records of a client as commands leave them that nobody disturbs: its
\* configuration is what the topmost layer left, each layer has its backup,
\* there is no other backup, and a layer was put where there was no entry.
Orderly(d, c) ==
  /\ At(d, Config(c)) \in ConfigFiles
  /\ Chained(d, c) /\ Installed(d, c)
  /\ \A l \in LayersOn(d, c) :
       /\ OwnBackup(d, l) = Entry(d, l).backup
       /\ Topmost(d, c, l) => At(d, Config(c)) = Entry(d, l).expected
       /\ Entry(d, l).backup.bytes.entry[l[2]] = NoEntry
  /\ \A n \in Nat : At(d, Backup(c, n)) # None => \E l \in LayersOn(d, c) : Entry(d, l).sequence = n
  /\ \A s \in Scopes : (\A l \in LayersOn(d, c) : l[2] # s) =>
       At(d, Config(c)).bytes.entry[s] = NoEntry

LEMMA OwnBackupAt == ASSUME NEW d, NEW c, NEW l \in LayersOn(d, c), Proper(d)
  PROVE OwnBackup(d, l) = At(d, Backup(c, Entry(d, l).sequence))
  BY LayersFacts DEF OwnBackup

\* With the order kept, the records that the command does not touch are kept.
LEMMA OrderlyLeaves ==
  ASSUME NEW d, NEW e, Proper(d), Proper(e), NEW c, Orderly(d, c), Leaves(d, e, c)
  PROVE  Orderly(e, c)
  <1>1. /\ LayersOn(e, c) = LayersOn(d, c) /\ At(e, Config(c)) = At(d, Config(c))
        /\ \A l \in LayersOn(d, c) : Entry(e, l) = Entry(d, l)
        /\ \A n \in Nat : At(e, Backup(c, n)) = At(d, Backup(c, n))
    BY DEF Leaves, KeepsBackup
  <1>2. \A l \in LayersOn(d, c) : Entry(d, l).sequence \in Nat
    BY LayersFacts
  <1>3. \A l \in LayersOn(d, c) : OwnBackup(e, l) = OwnBackup(d, l)
    BY <1>1, <1>2, OwnBackupAt
  <1>4. Chained(e, c) /\ Installed(e, c)
    BY <1>1 DEF Orderly, Chained, Installed
  <1> QED
    BY <1>1, <1>3, <1>4 DEF Orderly, Topmost

\* The order follows if it is kept at the topmost layer.
LEMMA OrderlyFollows ==
  ASSUME NEW d, NEW e, Proper(d), Proper(e), NEW c, Orderly(d, c), Turns(d, e, c)
  PROVE  Follows(d, e, c)
  <1> SUFFICES ASSUME NEW l \in Keys, Adds(d, e, c, l), NEW k \in LayersOn(d, c)
               PROVE  At(d, Config(c)) = Entry(d, k).expected
    BY DEF Follows
  <1>1. l \notin LayersOn(d, c) /\ LayersOn(e, c) = LayersOn(d, c) \cup {l}
    BY DEF Adds
  <1>2. \A m \in LayersOn(d, c) : m = k
    <2>1. \A m \in LayersOn(e, c) : m # l => LayersOn(e, c) = {m, l}
      BY <1>1, LayersFacts
    <2> QED
      BY <1>1, <2>1
  <1>3. Entry(d, k).sequence \in Nat
    BY LayersFacts
  <1>4. Topmost(d, c, k)
    BY <1>2, <1>3 DEF Topmost
  <1> QED
    BY <1>4 DEF Orderly

LEMMA OrderlyAdds ==
  ASSUME NEW d, NEW e, Proper(d), Proper(e), NEW c, Orderly(d, c), Chained(e, c), Installed(e, c),
         NEW l \in Keys, Adds(d, e, c, l)
  PROVE  Orderly(e, c)
  <1>1. /\ l \notin LayersOn(d, c) /\ LayersOn(e, c) = LayersOn(d, c) \cup {l}
        /\ \A k \in LayersOn(d, c) : /\ Entry(e, k) = Entry(d, k)
                                     /\ Entry(d, k).sequence < Entry(e, l).sequence
        /\ At(e, Config(c)) = Entry(e, l).expected
        /\ At(e, Backup(c, Entry(e, l).sequence)) = Entry(e, l).backup
        /\ Entry(e, l).backup.bytes = At(d, Config(c)).bytes
        /\ SameBut(At(d, Config(c)).bytes, At(e, Config(c)).bytes, l[2])
        /\ \A n \in Nat : n # Entry(e, l).sequence => At(e, Backup(c, n)) = At(d, Backup(c, n))
    BY DEF Adds, KeepsBackup
  <1>2. /\ \A k \in LayersOn(e, c) : /\ Entry(e, k).sequence \in Nat
                                     /\ Entry(e, k).expected \in ConfigFiles
                                     /\ k[2] \in Scopes
                                     /\ \A m \in LayersOn(e, c) : m[2] = k[2] => m = k
        /\ \A k \in LayersOn(d, c) : Entry(d, k).sequence \in Nat
    BY LayersFacts
  <1>3. At(e, Config(c)) \in ConfigFiles
    BY <1>1, <1>2
  <1>4. ASSUME NEW m \in LayersOn(e, c)
        PROVE  /\ OwnBackup(e, m) = Entry(e, m).backup
               /\ Topmost(e, c, m) => At(e, Config(c)) = Entry(e, m).expected
               /\ Entry(e, m).backup.bytes.entry[m[2]] = NoEntry
    <2>1. CASE m = l
      <3>1. OwnBackup(e, l) = Entry(e, l).backup
        BY <1>1, OwnBackupAt
      <3>2. At(d, Config(c)).bytes.entry[l[2]] = NoEntry
        BY <1>1, <1>2 DEF Orderly
      <3> QED
        BY <1>1, <2>1, <3>1, <3>2
    <2>2. CASE m # l
      <3>1. m \in LayersOn(d, c) /\ Entry(e, m) = Entry(d, m) /\ Entry(e, m).sequence < Entry(e, l).sequence
            /\ l \in LayersOn(e, c)
        BY <1>1, <2>2
      <3>2. ~Topmost(e, c, m)
        BY <1>2, <3>1 DEF Topmost
      <3>3. OwnBackup(e, m) = OwnBackup(d, m)
        BY <1>1, <1>2, <3>1, OwnBackupAt
      <3> QED
        BY <3>1, <3>2, <3>3 DEF Orderly
    <2> QED
      BY <2>1, <2>2
  <1>5. ASSUME NEW n \in Nat, At(e, Backup(c, n)) # None
        PROVE  \E m \in LayersOn(e, c) : Entry(e, m).sequence = n
    <2>1. CASE n = Entry(e, l).sequence
      BY <1>1, <2>1
    <2>2. CASE n # Entry(e, l).sequence
      BY <1>1, <1>5, <2>2 DEF Orderly
    <2> QED
      BY <2>1, <2>2
  <1>6. ASSUME NEW s \in Scopes, \A m \in LayersOn(e, c) : m[2] # s
        PROVE  At(e, Config(c)).bytes.entry[s] = NoEntry
    BY <1>1, <1>6 DEF Orderly, SameBut
  <1> QED
    BY <1>3, <1>4, <1>5, <1>6 DEF Orderly

LEMMA OrderlyRenews ==
  ASSUME NEW d, NEW e, Proper(d), Proper(e), NEW c, Orderly(d, c), Chained(e, c), Installed(e, c),
         NEW l \in Keys, Renews(d, e, c, l)
  PROVE  Orderly(e, c)
  <1>1. /\ l \in LayersOn(d, c) /\ LayersOn(e, c) = LayersOn(d, c)
        /\ \A k \in LayersOn(d, c) : k # l => /\ Entry(e, k) = Entry(d, k)
                                              /\ Entry(d, k).sequence < Entry(d, l).sequence
        /\ Entry(e, l).sequence = Entry(d, l).sequence /\ Entry(e, l).backup = Entry(d, l).backup
        /\ At(e, Config(c)) = Entry(e, l).expected
        /\ SameBut(At(d, Config(c)).bytes, At(e, Config(c)).bytes, l[2])
        /\ \A n \in Nat : At(e, Backup(c, n)) = At(d, Backup(c, n))
    BY DEF Renews, KeepsBackup, KeepsLayer
  <1>2. /\ \A k \in LayersOn(e, c) : /\ Entry(e, k).sequence \in Nat
                                     /\ Entry(e, k).expected \in ConfigFiles
    BY LayersFacts
  <1>3. At(e, Config(c)) \in ConfigFiles
    BY <1>1, <1>2
  <1>4. \A m \in LayersOn(d, c) : Entry(e, m).sequence = Entry(d, m).sequence
                                  /\ Entry(e, m).backup = Entry(d, m).backup
    BY <1>1
  <1>5. ASSUME NEW m \in LayersOn(e, c)
        PROVE  /\ OwnBackup(e, m) = Entry(e, m).backup
               /\ Topmost(e, c, m) => At(e, Config(c)) = Entry(e, m).expected
               /\ Entry(e, m).backup.bytes.entry[m[2]] = NoEntry
    <2>1. OwnBackup(e, m) = OwnBackup(d, m)
      BY <1>1, <1>2, <1>4, OwnBackupAt
    <2>2. Topmost(e, c, m) => m = l
      <3> SUFFICES ASSUME m # l, Topmost(e, c, m) PROVE FALSE
        OBVIOUS
      <3>1. Entry(e, l).sequence <= Entry(e, m).sequence /\ Entry(e, m).sequence < Entry(e, l).sequence
        BY <1>1 DEF Topmost
      <3> QED
        BY <1>1, <1>2, <3>1
    <2> QED
      BY <1>1, <1>4, <2>1, <2>2 DEF Orderly
  <1>6. \A n \in Nat : At(e, Backup(c, n)) # None =>
          \E m \in LayersOn(e, c) : Entry(e, m).sequence = n
    BY <1>1, <1>4 DEF Orderly
  <1>7. ASSUME NEW s \in Scopes, \A m \in LayersOn(e, c) : m[2] # s
        PROVE  At(e, Config(c)).bytes.entry[s] = NoEntry
    BY <1>1, <1>7 DEF Orderly, SameBut
  <1> QED
    BY <1>3, <1>5, <1>6, <1>7 DEF Orderly

LEMMA OrderlyRelays ==
  ASSUME NEW d, NEW e, Proper(d), Proper(e), NEW c, Orderly(d, c), Chained(e, c), Installed(e, c),
         NEW l \in Keys, NEW k \in Keys, Relays(d, e, c, l, k)
  PROVE  Orderly(e, c)
  <1>1. /\ l \in LayersOn(d, c) /\ k \in LayersOn(d, c) /\ LayersOn(e, c) = LayersOn(d, c)
        /\ Entry(d, l).sequence < Entry(d, k).sequence
        /\ Entry(e, l).sequence = Entry(d, l).sequence /\ Entry(e, l).backup = Entry(d, l).backup
        /\ Entry(e, k).sequence = Entry(d, k).sequence
        /\ Entry(e, k).expected = At(e, Config(c)) /\ OwnBackup(e, k) = Entry(e, k).backup
        /\ \A n \in Nat : n # Entry(d, k).sequence => At(e, Backup(c, n)) = At(d, Backup(c, n))
    BY DEF Relays, KeepsBackup, KeepsLayer
  <1>2. PICK s \in ServerEntries :
          /\ Entry(e, k).backup.bytes = SetServer(Entry(d, k).backup.bytes, l[2], s)
          /\ At(e, Config(c)).bytes = SetServer(At(d, Config(c)).bytes, l[2], s)
    BY DEF Relays
  <1>3. /\ \A m \in LayersOn(e, c) : /\ Entry(e, m).sequence \in Nat
                                     /\ Entry(e, m).expected \in ConfigFiles
                                     /\ m[2] \in Scopes
        /\ Entry(d, k).backup.bytes \in ConfigBytes /\ At(d, Config(c)).bytes \in ConfigBytes
    BY <1>1, LayersFacts, ConfigFileFacts DEF Orderly
  <1>4. k # l /\ \A m \in LayersOn(d, c) : m = k \/ m = l
    <2>1. k # l
      BY <1>1, <1>3
    <2> QED
      BY <1>1, <2>1, LayersFacts
  <1>5. k[2] # l[2]
    BY <1>1, <1>4, LayersFacts
  <1>6. At(e, Config(c)) \in ConfigFiles
    BY <1>1, <1>3
  <1>7. \A t \in Scopes : t # l[2] =>
          /\ Entry(e, k).backup.bytes.entry[t] = Entry(d, k).backup.bytes.entry[t]
          /\ At(e, Config(c)).bytes.entry[t] = At(d, Config(c)).bytes.entry[t]
    BY <1>1, <1>2, <1>3, EditedFacts
  <1>8. OwnBackup(e, l) = Entry(e, l).backup
    <2>1. OwnBackup(e, l) = At(e, Backup(c, Entry(d, l).sequence))
          /\ OwnBackup(d, l) = At(d, Backup(c, Entry(d, l).sequence))
      BY <1>1, OwnBackupAt
    <2>2. Entry(d, l).sequence \in Nat /\ Entry(d, l).sequence # Entry(d, k).sequence
      BY <1>1, <1>3
    <2> QED
      BY <1>1, <2>1, <2>2 DEF Orderly
  <1>9. ~Topmost(e, c, l)
    BY <1>1, <1>3 DEF Topmost
  <1>10. ASSUME NEW m \in LayersOn(e, c)
         PROVE  /\ OwnBackup(e, m) = Entry(e, m).backup
                /\ Topmost(e, c, m) => At(e, Config(c)) = Entry(e, m).expected
                /\ Entry(e, m).backup.bytes.entry[m[2]] = NoEntry
    <2>1. CASE m = k
      BY <1>1, <1>3, <1>5, <1>7, <2>1 DEF Orderly
    <2>2. CASE m = l
      BY <1>1, <1>8, <1>9, <2>2 DEF Orderly
    <2> QED
      BY <1>1, <1>4, <2>1, <2>2
  <1>11. ASSUME NEW n \in Nat, At(e, Backup(c, n)) # None
         PROVE  \E m \in LayersOn(e, c) : Entry(e, m).sequence = n
    <2>1. CASE n = Entry(d, k).sequence
      BY <1>1, <2>1
    <2>2. CASE n # Entry(d, k).sequence
      <3>1. PICK m \in LayersOn(d, c) : Entry(d, m).sequence = n
        BY <1>1, <1>11, <2>2 DEF Orderly
      <3> QED
        BY <1>1, <1>4, <3>1
    <2> QED
      BY <2>1, <2>2
  <1>12. ASSUME NEW t \in Scopes, \A m \in LayersOn(e, c) : m[2] # t
         PROVE  At(e, Config(c)).bytes.entry[t] = NoEntry
    BY <1>1, <1>7, <1>12 DEF Orderly
  <1> QED
    BY <1>6, <1>10, <1>11, <1>12 DEF Orderly

LEMMA OrderlyClears ==
  ASSUME NEW d, NEW e, Proper(d), Proper(e), NEW c, Orderly(d, c),
         NEW l \in Keys, NEW k \in Keys, Clears(d, e, c, l, k)
  PROVE  Orderly(e, c)
  <1>1. /\ l \in LayersOn(d, c) /\ k \in LayersOn(d, c) /\ LayersOn(e, c) = {}
        /\ \A m \in LayersOn(d, c) : m = l \/ m = k
        /\ k # l => Entry(d, l).sequence < Entry(d, k).sequence
        /\ At(e, Config(c)) \in ConfigFiles /\ At(e, Config(c)).bytes = Entry(d, l).backup.bytes
        /\ \A n \in Nat : IF n \in {Entry(d, l).sequence, Entry(d, k).sequence}
                          THEN At(e, Backup(c, n)) = None
                          ELSE At(e, Backup(c, n)) = At(d, Backup(c, n))
    BY DEF Clears, KeepsBackup
  <1>2. Chained(e, c) /\ Installed(e, c)
    BY <1>1 DEF Chained, Installed
  <1>3. \A n \in Nat : At(e, Backup(c, n)) = None
    <2> SUFFICES ASSUME NEW n \in Nat, n \notin {Entry(d, l).sequence, Entry(d, k).sequence}
                 PROVE  At(d, Backup(c, n)) = None
      BY <1>1
    <2> QED
      BY <1>1 DEF Orderly
  <1>4. ASSUME NEW s \in Scopes
        PROVE  Entry(d, l).backup.bytes.entry[s] = NoEntry
    <2>1. CASE s = l[2]
      BY <1>1, <2>1 DEF Orderly
    <2>2. CASE s # l[2] /\ k # l
      <3>1. k[2] = s
        BY <1>1, <2>2, LayersFacts DEF Scopes
      <3>2. /\ Entry(d, k).backup.bytes = Entry(d, l).expected.bytes
            /\ SameBut(Entry(d, l).backup.bytes, Entry(d, l).expected.bytes, l[2])
        BY <1>1, <2>2 DEF Orderly, Chained
      <3>3. Entry(d, k).backup.bytes.entry[s] = NoEntry
        BY <1>1, <3>1 DEF Orderly
      <3> QED
        BY <2>2, <3>2, <3>3 DEF SameBut
    <2>3. CASE s # l[2] /\ k = l
      <3>1. At(d, Config(c)).bytes.entry[s] = NoEntry
        BY <1>1, <2>3 DEF Orderly
      <3>2. Entry(d, l).sequence \in Nat
        BY <1>1, LayersFacts
      <3>3. At(d, Config(c)) = Entry(d, l).expected
        BY <1>1, <2>3, <3>2 DEF Orderly, Topmost
      <3>4. SameBut(Entry(d, l).backup.bytes, Entry(d, l).expected.bytes, l[2])
        BY <1>1 DEF Orderly, Chained
      <3> QED
        BY <2>3, <3>1, <3>3, <3>4 DEF SameBut
    <2> QED
      BY <2>1, <2>2, <2>3
  <1> QED
    BY <1>1, <1>2, <1>3, <1>4 DEF Orderly

\* A layer is dropped from above the other: from below it is not, as its
\* own entry is not in the configuration it left.
LEMMA OrderlyDrops ==
  ASSUME NEW d, NEW e, Proper(d), Proper(e), NEW c, Orderly(d, c), Chained(e, c), Installed(e, c),
         NEW l \in Keys, NEW m \in Keys, Drops(d, e, c, l, m)
  PROVE  Orderly(e, c)
  <1>1. /\ l # m /\ LayersOn(d, c) = {l, m} /\ LayersOn(e, c) = {m}
        /\ At(d, Config(c)) = Entry(d, l).expected
        /\ Entry(e, m).sequence = Entry(d, m).sequence /\ Entry(e, m).backup = Entry(d, m).backup
        /\ ~(Entry(d, l).sequence < Entry(d, m).sequence) => Entry(e, m).expected = At(e, Config(c))
        /\ At(e, Config(c)) \in ConfigFiles /\ At(e, Config(c)).bytes = Entry(d, l).backup.bytes
        /\ \A n \in Nat : IF n = Entry(d, l).sequence THEN At(e, Backup(c, n)) = None
                          ELSE At(e, Backup(c, n)) = At(d, Backup(c, n))
    BY DEF Drops, KeepsBackup, KeepsLayer
  <1>2. /\ Entry(d, l).sequence \in Nat /\ Entry(d, m).sequence \in Nat
        /\ Entry(d, l).sequence # Entry(d, m).sequence /\ l[2] # m[2]
        /\ l[2] \in Scopes /\ m[2] \in Scopes
    BY <1>1, LayersFacts
  <1>3. ~(Entry(d, l).sequence < Entry(d, m).sequence)
    <2> SUFFICES ASSUME Entry(d, l).sequence < Entry(d, m).sequence PROVE FALSE
      OBVIOUS
    <2>1. Topmost(d, c, m)
      BY <1>1, <1>2 DEF Topmost
    <2>2. Entry(d, m).expected = Entry(d, l).expected
      BY <1>1, <2>1 DEF Orderly
    <2>3. Entry(d, m).backup.bytes = Entry(d, l).expected.bytes
      BY <1>1 DEF Orderly, Chained
    <2>4. Entry(d, m).backup.bytes.entry[m[2]] = NoEntry
      BY <1>1 DEF Orderly
    <2>5. Entry(d, m).expected.bytes.entry[m[2]] # NoEntry
      BY <1>1 DEF Orderly, Installed
    <2> QED
      BY <2>2, <2>3, <2>4, <2>5
  <1>4. OwnBackup(e, m) = Entry(e, m).backup
    <2>1. OwnBackup(e, m) = At(e, Backup(c, Entry(d, m).sequence))
          /\ OwnBackup(d, m) = At(d, Backup(c, Entry(d, m).sequence))
      BY <1>1, OwnBackupAt
    <2> QED
      BY <1>1, <1>2, <2>1 DEF Orderly
  <1>5. ASSUME NEW n \in Nat, At(e, Backup(c, n)) # None
        PROVE  n = Entry(e, m).sequence
    BY <1>1, <1>5 DEF Orderly
  <1>6. ASSUME NEW s \in Scopes, s # m[2]
        PROVE  At(e, Config(c)).bytes.entry[s] = NoEntry
    <2>1. s = l[2]
      BY <1>2, <1>6 DEF Scopes
    <2> QED
      BY <1>1, <2>1 DEF Orderly
  <1> QED
    BY <1>1, <1>3, <1>4, <1>5, <1>6 DEF Orderly

\* What an undisturbed command does keeps the records of a client orderly.
LEMMA OrderlyTurns ==
  ASSUME NEW d, NEW e, Proper(d), Proper(e), NEW c, Orderly(d, c), Turns(d, e, c), Installed(e, c)
  PROVE  Orderly(e, c)
  <1>1. Chained(e, c)
    BY OrderlyFollows, ChainedTurns DEF Orderly
  <1> QED
    BY <1>1, OrderlyLeaves, OrderlyAdds, OrderlyRenews, OrderlyRelays, OrderlyClears, OrderlyDrops
       DEF Turns

AllOrderly(d) == Readable(LedgerOn(d)) /\ \A c \in Clients : Orderly(d, c)

\* A use installs its command in every layer it records or rewrites.
LEMMA UseInstalls ==
  ASSUME NEW d, NEW U, NEW req, UsePremise(d, U, req), Changed(d, req) # {}, AllOrderly(d),
         NEW c \in Clients
  PROVE  Installed(Target(d, UseOperations(d, U, req)), c)
  <1> DEFINE T == Target(d, UseOperations(d, U, req))
             L == LedgerOn(d)
             k == PlaceIn(req.clients, c)
             asked == AskedLayers(d, req, c)
  <1> HIDE DEF T, L, k, asked
  <1> SUFFICES ASSUME NEW m \in LayersOn(T, c)
               PROVE  Entry(T, m).expected.bytes.entry[m[2]] # NoEntry
    BY DEF Installed, T
  <1>1. UseOf(d, U, req, T, c, asked)
    BY UseEntries DEF T, asked
  <1>2. L \in LedgerBytes /\ Readable(L) /\ Proper(d) /\ Proper(T) /\ LayersOn(d, c) = Layers(L, c)
    BY UseReads, UseTarget DEF T, L, LayersOn
  <1>3. \A n \in LayersOn(d, c) : /\ Entry(d, n).expected.bytes.entry[n[2]] # NoEntry
                                  /\ Entry(d, n).sequence \in Nat
                                  /\ Topmost(d, c, n) => At(d, Config(c)) = Entry(d, n).expected
    BY <1>2, LayersFacts DEF AllOrderly, Orderly, Installed
  <1>4. CASE m \notin asked /\ m \notin Rewritten(d, req)
    BY <1>1, <1>3, <1>4 DEF UseOf
  <1>5. CASE m \in asked \cup Rewritten(d, req)
    <2>1. m[1] = c /\ m[2] \in Scopes /\ LayersOn(T, c) = LayersOn(d, c) \cup asked
      BY <1>1, <1>2, LayersFacts DEF UseOf
    <2>2. PICK l \in asked : m = l \/ (l \in LayersOn(d, c) /\ m \in Newer(L, l))
      BY <1>1, <1>5, <2>1, Zenon DEF UseOf, L
    <2>3. /\ l[1] = c /\ l[2] \in Scopes /\ AskedFor(req, c) = l /\ LayerOf(req, k) = l
          /\ k \in Changed(d, req) /\ k \in 1..Len(req.clients) /\ req.clients[k] = c
      BY <1>1, <2>2 DEF UseOf, k
    <2>4. Entry(T, m).expected = NewExpected(d, U, req, m)
      BY <1>1, <1>5 DEF UseOf
    <2> DEFINE spec == SpecFor(d, req, l)
    <2>5. spec \in ServerEntries /\ spec # NoEntry
      <3>1. spec \in ServerEntries /\ spec.command = req.command
        BY <2>3, SpecFacts
      <3>2. req \in Requests /\ req.kind = "use"
        BY DEF UsePremise
      <3>3. req.command # NoCommand
        BY <3>2, RequestFacts, SwapClientsAssumption
      <3> QED
        BY <3>1, <3>3 DEF NoEntry
    <2>6. /\ At(d, Config(c)) \in ConfigFiles /\ At(d, Config(c)).bytes \in ConfigBytes
          /\ NewConfig(d, U, req, k).bytes = SetServer(At(d, Config(c)).bytes, l[2], spec)
      BY <2>3, UseOfConfig, ConfigFileFacts
    <2> HIDE DEF spec
    <2>7. CASE Newer(L, m) # {}
      <3> DEFINE o == Oldest(L, Newer(L, m))
      <3>1. Newer(L, m) \in SUBSET DOMAIN L.entries
        BY NewerFacts
      <3>2. o \in Newer(L, m)
        BY <1>2, <2>7, <3>1, OldestFacts
      <3> HIDE DEF o
      <3>3. /\ o \in DOMAIN L.entries /\ m \in DOMAIN L.entries /\ o[1] = c
            /\ L.entries[o].sequence > L.entries[m].sequence
        BY <2>1, <3>2, NewerFacts
      <3>4. o \in LayersOn(d, c) /\ m \in LayersOn(d, c)
        BY <1>2, <2>1, <3>3 DEF Layers
      <3>5. Entry(d, o).sequence > Entry(d, m).sequence
        BY <3>3 DEF Entry, L
      <3>6. m = l
        <4> SUFFICES ASSUME m # l PROVE FALSE
          OBVIOUS
        <4>1. l \in LayersOn(d, c) /\ Entry(d, m).sequence > Entry(d, l).sequence
          BY <2>2, NewerFacts DEF Entry, L
        <4>2. o # l /\ o # m
          BY <1>3, <3>4, <3>5, <4>1
        <4>3. LayersOn(d, c) = {l, m}
          BY <1>2, <3>4, <4>1, LayersFacts
        <4> QED
          BY <3>4, <4>2, <4>3
      <3>7. o \in Rewritten(d, req)
        BY <1>1, <2>2, <3>2, <3>4, <3>6 DEF UseOf, L
      <3>8. NewExpected(d, U, req, m) = NewBackup(d, U, req, o)
        BY <2>7 DEF NewExpected, L, o
      <3>9. NewBackup(d, U, req, o).bytes = SetServer(L.entries[o].backup.bytes, l[2], spec)
        BY <2>3, <3>3, <3>7, UseFiles DEF L, spec
      <3>10. L.entries[o].backup.bytes \in ConfigBytes
        BY <1>2, <3>3, LedgerFacts, ConfigFileFacts
      <3> QED
        BY <2>3, <2>4, <2>5, <3>6, <3>8, <3>9, <3>10, EditedFacts
    <2>8. CASE Newer(L, m) = {}
      <3>1. Entry(T, m).expected = NewConfig(d, U, req, k)
        BY <2>1, <2>4, <2>8 DEF NewExpected, L, k
      <3>2. CASE m = l
        BY <2>3, <2>5, <2>6, <3>1, <3>2, EditedFacts
      <3>3. CASE m # l
        <4>1. /\ l \in LayersOn(d, c) /\ m \in DOMAIN L.entries
              /\ Entry(d, m).sequence > Entry(d, l).sequence
          BY <2>2, <3>3, NewerFacts DEF Entry, L
        <4>2. m \in LayersOn(d, c)
          BY <1>2, <2>1, <4>1 DEF Layers
        <4>3. m[2] # l[2]
          BY <1>2, <3>3, <4>1, <4>2, LayersFacts
        <4>4. Topmost(d, c, m)
          <5> SUFFICES ASSUME NEW n \in LayersOn(d, c), ~(Entry(d, n).sequence <= Entry(d, m).sequence)
                       PROVE  FALSE
            BY DEF Topmost
          <5>1. Entry(d, n).sequence > Entry(d, m).sequence
            BY <1>3, <4>2
          <5>2. n \in DOMAIN L.entries /\ n[1] = m[1]
            BY <1>2, <2>1 DEF Layers
          <5> QED
            BY <2>8, <4>1, <5>1, <5>2, NewerFacts DEF Entry, L
        <4>5. NewConfig(d, U, req, k).bytes.entry[m[2]] = At(d, Config(c)).bytes.entry[m[2]]
          BY <2>1, <2>3, <2>5, <2>6, <4>3, EditedFacts
        <4> QED
          BY <1>3, <3>1, <4>2, <4>4, <4>5
      <3> QED
        BY <3>2, <3>3
    <2> QED
      BY <2>7, <2>8
  <1> QED
    BY <1>4, <1>5

\* A layer left below a reverted one expects what that one had found.
LEMMA RevertInstalls ==
  ASSUME NEW d, NEW U, NEW req, RevertPremise(d, U, req), Selected(LedgerOn(d), req) # <<>>,
         AllOrderly(d), NEW c \in Clients
  PROVE  Installed(Target(d, RevertOperations(d, U, req)), c)
  <1> DEFINE T == Target(d, RevertOperations(d, U, req))
             L == LedgerOn(d)
             s == Selected(L, req)
  <1> HIDE DEF T, L, s
  <1> SUFFICES ASSUME NEW k \in LayersOn(T, c)
               PROVE  Entry(T, k).expected.bytes.entry[k[2]] # NoEntry
    BY DEF Installed, T
  <1>1. RevertOf(d, U, req, T, c, s)
    BY RevertEntries DEF T, s, L
  <1>2. Proper(d) /\ LayersOn(d, c) = Layers(L, c)
    BY <1>1, RevertTarget DEF RevertOf, L
  <1>3. k \in LayersOn(d, c)
    BY <1>1 DEF RevertOf
  <1>4. Entry(d, k).expected.bytes.entry[k[2]] # NoEntry
    BY <1>3 DEF AllOrderly, Orderly, Installed
  <1>5. CASE \A i \in 1..Len(s) : s[i] \notin Newer(L, k)
    BY <1>1, <1>4, <1>5 DEF RevertOf, L
  <1>6. ASSUME NEW i \in 1..Len(s), s[i] \in Newer(L, k)
        PROVE  Entry(T, k).expected.bytes.entry[k[2]] # NoEntry
    <2>1. \A n \in LayersOn(d, c) : \A x \in Newer(L, n) : x \in LayersOn(d, c) /\ x # n
                                                           /\ Entry(d, n).sequence < Entry(d, x).sequence
      <3> SUFFICES ASSUME NEW n \in LayersOn(d, c), NEW x \in Newer(L, n)
                   PROVE  x \in LayersOn(d, c) /\ x # n /\ Entry(d, n).sequence < Entry(d, x).sequence
        OBVIOUS
      <3>1. /\ x \in DOMAIN L.entries /\ x[1] = n[1] /\ n[1] = c
            /\ Entry(d, x).sequence > Entry(d, n).sequence
        BY <1>2, NewerFacts DEF Entry, L, Layers
      <3>2. x \in LayersOn(d, c)
        BY <1>2, <3>1 DEF Layers
      <3>3. Entry(d, x).sequence \in Nat /\ Entry(d, n).sequence \in Nat
        BY <1>2, <3>2, LayersFacts
      <3> QED
        BY <3>1, <3>2, <3>3
    <2>2. LayersOn(d, c) = {k, s[i]} /\ s[i] # k
      BY <1>2, <1>3, <1>6, <2>1, LayersFacts
    <2>3. \A j \in 1..Len(s) : s[j] \in Newer(L, k) => j = i
      BY <1>1, <1>3, <2>1, <2>2 DEF RevertOf
    <2>4. \A m \in LayersOn(T, c) : s[i] \in Newer(L, m) => m = k
      BY <1>1, <2>1, <2>2 DEF RevertOf
    <2>5. Entry(T, k).expected = Restored(d, U, req, i)
      BY <1>1, <1>6, <2>3, <2>4 DEF RevertOf, L
    <2>6. Restored(d, U, req, i).bytes = Entry(d, s[i]).backup.bytes
      BY <1>1, <2>2 DEF RevertOf
    <2>7. Entry(d, s[i]).backup.bytes = Entry(d, k).expected.bytes
      BY <1>3, <1>6, <2>1 DEF AllOrderly, Orderly, Chained
    <2> QED
      BY <1>4, <2>5, <2>6, <2>7
  <1> QED
    BY <1>5, <1>6

\* What was reverted is in the order of its sequences, the newest first.
LEMMA SelectionOrder ==
  ASSUME NEW L \in LedgerBytes, Readable(L), NEW req
  PROVE  LET s == Selected(L, req)
         IN /\ Enumerates(s, Selection(L, req))
            /\ \A i \in 1..Len(s) : s[i] \in DOMAIN L.entries /\ s[i] \in Keys
            /\ \A i, j \in 1..Len(s) : i < j => L.entries[s[j]].sequence < L.entries[s[i]].sequence
  <1> DEFINE s == Selected(L, req)
             S == Selection(L, req)
             key == [l \in S |-> -L.entries[l].sequence]
  <1>3. S \subseteq DOMAIN L.entries /\ DOMAIN L.entries \subseteq Keys
    BY LedgerFacts DEF Selection
  <1>4. IsFiniteSet(S)
    <2>1. S \subseteq Keys
      BY <1>3
    <2> QED
      BY <2>1, KeysFinite
  <1>5. \A l \in S : L.entries[l].sequence \in Nat
    BY <1>3, LedgerFacts
  <1>6. key \in [S -> Int]
    BY <1>5
  <1>7. s = SortedBy(S, key)
    BY DEF Selected
  <1> HIDE DEF s, key, S
  <1>8. Enumerates(s, S) /\ \A i, j \in 1..Len(s) : i < j => key[s[i]] <= key[s[j]]
    BY <1>4, <1>6, <1>7, OrderFacts, Zenon
  <1>9. \A i \in 1..Len(s) : s[i] \in S /\ s[i] \in DOMAIN L.entries /\ s[i] \in Keys
    BY <1>3, <1>8 DEF Enumerates
  <1>10. ASSUME NEW i \in 1..Len(s), NEW j \in 1..Len(s), i < j
         PROVE  L.entries[s[j]].sequence < L.entries[s[i]].sequence
    <2>1. key[s[i]] <= key[s[j]] /\ s[i] \in S /\ s[j] \in S
      BY <1>8, <1>9, <1>10
    <2>2. key[s[i]] = -L.entries[s[i]].sequence /\ key[s[j]] = -L.entries[s[j]].sequence
      BY <2>1 DEF key
    <2>3. s[i] # s[j]
      BY <1>8, <1>10 DEF Enumerates
    <2>4. L.entries[s[i]].sequence # L.entries[s[j]].sequence
      BY <1>9, <2>3, LedgerFacts
    <2>5. L.entries[s[i]].sequence \in Nat /\ L.entries[s[j]].sequence \in Nat
      BY <1>5, <2>1
    <2> QED
      BY <2>1, <2>2, <2>4, <2>5
  <1> QED
    BY <1>8, <1>9, <1>10 DEF s, S

LEMMA LayersOfEntries ==
  ASSUME NEW d, Readable(LedgerOn(d)), NEW l \in DOMAIN LedgerOn(d).entries
  PROVE  l \in LayersOn(d, l[1])
  BY DEF LayersOn, Layers

LEMMA OrderlyBackup ==
  ASSUME NEW d, IsDisk(d), AllOrderly(d), NEW l \in DOMAIN LedgerOn(d).entries
  PROVE  /\ l[1] \in Clients /\ l \in LayersOn(d, l[1]) /\ BackupIntact(d, LedgerOn(d), l)
  <1>1. Proper(d) /\ Readable(LedgerOn(d)) /\ LedgerOn(d) \in LedgerBytes
    BY DiskIsProper, LedgerOnFacts DEF AllOrderly
  <1>2. l \in LayersOn(d, l[1]) /\ l \in Keys /\ l[1] \in Clients
    BY <1>1, LayersOfEntries, LedgerFacts, KeyFacts
  <1>3. OwnBackup(d, l) = Entry(d, l).backup /\ Entry(d, l).backup # None
    BY <1>1, <1>2, LayersFacts, ConfigFileFacts DEF AllOrderly, Orderly
  <1> QED
    BY <1>2, <1>3, AtFacts DEF OwnBackup, BackupIntact, Entry

\* A use of any clients can be planned.
LEMMA UseIsPossible ==
  ASSUME NEW d, IsDisk(d), AllOrderly(d), NEW req \in Requests, req.kind = "use"
  PROVE  CanUse(d, LedgerOn(d), req)
  <1> DEFINE L == LedgerOn(d)
  <1>1. Proper(d) /\ Readable(L) /\ L \in LedgerBytes
    BY DiskIsProper, LedgerOnFacts DEF AllOrderly
  <1> SUFFICES ASSUME NEW k \in 1..Len(req.clients)
               PROVE  LET l == LayerOf(req, k) IN
                      /\ Config(l[1]) \in DOMAIN d
                      /\ Parses(d[Config(l[1])].bytes)
                      /\ IF l \in DOMAIN L.entries
                         THEN CanRewriteChain(d, L, l)
                         ELSE Backup(l[1], SequenceOf(L, req, l)) \notin DOMAIN d
    BY <1>1 DEF CanUse
  <1> DEFINE l == LayerOf(req, k)
             c == l[1]
  <1>2. /\ l \in Keys /\ c \in Clients /\ c = req.clients[k] /\ PlaceIn(req.clients, c) = k
    BY AskedFacts
  <1> HIDE DEF l, L
  <1>3. At(d, Config(c)) \in ConfigFiles /\ LayersOn(d, c) = Layers(L, c)
    BY <1>1, <1>2 DEF AllOrderly, Orderly, LayersOn, L
  <1>4. Config(c) \in DOMAIN d /\ d[Config(c)] = At(d, Config(c)) /\ Parses(d[Config(c)].bytes)
    BY <1>3, AtFacts, ConfigFileFacts, LedgerTypes
  <1>5. CASE l \in DOMAIN L.entries
    <2>1. l \in Layers(L, c) /\ BackupIntact(d, L, l)
      BY <1>5, OrderlyBackup DEF Layers, L
    <2>2. \A m \in Newer(L, l) : BackupIntact(d, L, m)
      BY NewerFacts, OrderlyBackup DEF L
    <2> DEFINE t == Newest(L, Layers(L, c))
    <2>3. Layers(L, c) \in SUBSET DOMAIN L.entries
      BY DEF Layers
    <2>4. t \in Layers(L, c) /\ \A m \in Layers(L, c) : L.entries[m].sequence <= L.entries[t].sequence
      BY <1>1, <2>1, <2>3, OldestFacts DEF L
    <2> HIDE DEF t
    <2>5. Topmost(d, c, t) /\ t \in LayersOn(d, c)
      BY <1>3, <2>4 DEF Topmost, Entry, L
    <2>6. d[Config(c)] = L.entries[t].expected
      BY <1>2, <1>4, <2>5 DEF AllOrderly, Orderly, Entry, L
    <2> QED
      BY <1>4, <1>5, <2>1, <2>2, <2>6 DEF CanRewriteChain, l, t
  <1>6. CASE l \notin DOMAIN L.entries
    <2> DEFINE n == SequenceOf(L, req, l)
    <2>1. PlaceIn(req.clients, c) \in 1..Len(req.clients)
      BY <1>2
    <2>2. n >= L.next /\ n \in Nat /\ L.next \in Nat
      BY <1>1, <1>6, <2>1, SequenceFacts DEF L
    <2> HIDE DEF n
    <2>3. Backup(c, n) \notin DOMAIN d
      <3> SUFFICES ASSUME Backup(c, n) \in DOMAIN d PROVE FALSE
        OBVIOUS
      <3>1. At(d, Backup(c, n)) # None
        BY AtFacts
      <3>2. PICK m \in LayersOn(d, c) : Entry(d, m).sequence = n
        BY <1>2, <2>2, <3>1 DEF AllOrderly, Orderly
      <3>3. n < L.next
        BY <1>1, <3>2, LayersFacts DEF L
      <3> QED
        BY <2>2, <3>3
    <2> QED
      BY <1>4, <1>6, <2>3 DEF n, l
  <1> QED
    BY <1>5, <1>6 DEF l, L

\* A revert is refused only where there is no ledger or a newer layer of a
\* client is not selected with the older one.
LEMMA RevertIsPossible ==
  ASSUME NEW d, IsDisk(d), AllOrderly(d), NEW req \in Requests, req.kind = "revert",
         State \in DOMAIN d,
         \A l \in Selection(LedgerOn(d), req) :
           Newer(LedgerOn(d), l) \subseteq Selection(LedgerOn(d), req)
  PROVE  CanRevert(d, LedgerOn(d), req)
  <1> DEFINE L == LedgerOn(d)
             S == Selection(L, req)
             s == Selected(L, req)
  <1>1. Proper(d) /\ Readable(L) /\ L \in LedgerBytes
    BY DiskIsProper, LedgerOnFacts DEF AllOrderly
  <1>2. /\ Enumerates(s, S)
        /\ \A i \in 1..Len(s) : s[i] \in DOMAIN L.entries /\ s[i] \in Keys
        /\ \A i, j \in 1..Len(s) : i < j => L.entries[s[j]].sequence < L.entries[s[i]].sequence
    BY <1>1, SelectionOrder, Zenon
  <1> SUFFICES ASSUME NEW i \in 1..Len(s)
               PROVE  LET entry == L.entries[s[i]]
                          above == Above(s, i)
                      IN
                      /\ Config(s[i][1]) \in DOMAIN d
                      /\ IF above = {}
                         THEN d[Config(s[i][1])] = entry.expected
                         ELSE L.entries[s[LastOf(above)]].backup.bytes = entry.expected.bytes
                      /\ BackupIntact(d, L, s[i])
    BY <1>1 DEF CanRevert
  <1> DEFINE c == s[i][1]
  <1> HIDE DEF S, s, c, L
  <1>3. c \in Clients /\ s[i] \in LayersOn(d, c) /\ BackupIntact(d, L, s[i]) /\ s[i] \in S
    BY <1>2, OrderlyBackup DEF c, L, Enumerates
  <1>4. At(d, Config(c)) \in ConfigFiles /\ LayersOn(d, c) = Layers(L, c)
    BY <1>1, <1>3 DEF AllOrderly, Orderly, LayersOn, L
  <1>5. Config(c) \in DOMAIN d /\ d[Config(c)] = At(d, Config(c))
    BY <1>4, AtFacts, ConfigFileFacts
  <1>6. \A m \in LayersOn(d, c) : Entry(d, m).sequence \in Nat /\ Entry(d, m) = L.entries[m]
    BY <1>1, LayersFacts DEF Entry, L
  <1>7. ASSUME NEW m \in LayersOn(d, c), Entry(d, s[i]).sequence < Entry(d, m).sequence
        PROVE  \E j \in Above(s, i) : s[j] = m
    <2>1. m \in DOMAIN L.entries /\ m[1] = s[i][1]
      BY <1>4 DEF Layers, c
    <2>2. m \in Newer(L, s[i])
      BY <1>2, <1>3, <1>6, <1>7, <2>1, NewerFacts
    <2>3. m \in S
      BY <1>3, <2>2 DEF S, L
    <2>4. PICK j \in 1..Len(s) : s[j] = m
      BY <1>2, <2>3 DEF Enumerates
    <2>5. j < i
      <3> SUFFICES ASSUME ~(j < i) PROVE FALSE
        OBVIOUS
      <3>1. j = i \/ i < j
        OBVIOUS
      <3>2. Entry(d, s[i]).sequence \in Nat /\ Entry(d, m).sequence \in Nat
        BY <1>3, <1>6
      <3>3. i # j
        BY <1>7, <2>4, <3>2
      <3>4. Entry(d, m).sequence < Entry(d, s[i]).sequence
        BY <1>2, <1>3, <1>6, <2>4, <3>1, <3>3
      <3> QED
        BY <1>7, <3>2, <3>4
    <2> QED
      BY <2>1, <2>4, <2>5 DEF Above
  <1>8. CASE Above(s, i) = {}
    <2>1. Topmost(d, c, s[i])
      BY <1>3, <1>6, <1>7, <1>8 DEF Topmost
    <2>2. At(d, Config(c)) = Entry(d, s[i]).expected
      BY <1>3, <2>1 DEF AllOrderly, Orderly
    <2> QED
      BY <1>3, <1>5, <1>6, <1>8, <2>2 DEF c
  <1>9. CASE Above(s, i) # {}
    <2> DEFINE j == LastOf(Above(s, i))
    <2>1. j \in 1..(i - 1) /\ s[j][1] = c
      BY <1>9, AboveFacts DEF c
    <2> HIDE DEF j
    <2>2. j \in 1..Len(s) /\ j < i
      BY <2>1
    <2>3. s[j] \in LayersOn(d, c)
      BY <1>2, <1>4, <2>1, <2>2 DEF Layers
    <2>4. Entry(d, s[i]).sequence < Entry(d, s[j]).sequence
      BY <1>2, <1>3, <1>6, <2>2, <2>3
    <2>5. Entry(d, s[j]).backup.bytes = Entry(d, s[i]).expected.bytes
      BY <1>3, <2>3, <2>4 DEF AllOrderly, Orderly, Chained
    <2> QED
      BY <1>3, <1>5, <1>6, <1>9, <2>3, <2>5 DEF c, j
  <1> QED
    BY <1>8, <1>9

LEMMA OrderlySame ==
  ASSUME NEW d, NEW e, Proper(d), Proper(e), \A p \in Homes : At(e, p) = At(d, p), AllOrderly(d)
  PROVE  AllOrderly(e)
  <1>1. LedgerOn(e) = LedgerOn(d)
    BY NameFacts, SameLedger
  <1>2. \A c \in Clients : Leaves(d, e, c)
    BY <1>1, NameFacts DEF Leaves, LayersOn, Entry, KeepsBackup
  <1> QED
    BY <1>1, <1>2, OrderlyLeaves DEF AllOrderly

\* What an undisturbed command works towards is orderly.
LEMMA OutcomeIsOrderly ==
  ASSUME NEW t, NEW U, IsDisk(t.before), IsFiniteSet(U), t.req \in Requests,
         \/ t.ops = <<>>
         \/ /\ t.req.kind = "use" /\ CanUse(t.before, LedgerOn(t.before), t.req)
            /\ t.ops = UseOperations(t.before, U, t.req) /\ t.ops # <<>>
         \/ /\ t.req.kind = "revert" /\ CanRevert(t.before, LedgerOn(t.before), t.req)
            /\ t.ops = RevertOperations(t.before, U, t.req) /\ t.ops # <<>>,
         AllOrderly(t.before)
  PROVE  AllOrderly(Outcome(t))
  <1> DEFINE d == t.before
  <1>1. Proper(d)
    BY DiskIsProper
  <1>2. CASE t.ops = <<>>
    <2> DEFINE ops == <<>>
    <2>1. ops \in Seq(Operations) /\ Len(ops) = 0
      OBVIOUS
    <2>2. \A i \in 1..Len(ops) : FALSE
      BY <2>1
    <2> HIDE DEF ops
    <2>3. Proper(Target(d, ops)) /\ \A p : At(Target(d, ops), p) = At(d, p)
      BY <2>1, <2>2, TargetFacts
    <2>4. Outcome(t) = Target(d, ops)
      BY <1>2 DEF Outcome, ops
    <2> QED
      BY <1>1, <2>3, <2>4, OrderlySame
  <1>3. \A c \in Clients : Turns(d, Outcome(t), c)
    BY TurnsBegin DEF TurnsOf
  <1>4. ASSUME t.req.kind = "use", CanUse(d, LedgerOn(d), t.req),
               t.ops = UseOperations(d, U, t.req), t.ops # <<>>
        PROVE  AllOrderly(Outcome(t))
    <2>1. UsePremise(d, U, t.req) /\ Changed(d, t.req) # {}
      BY <1>4 DEF UsePremise, UseOperations
    <2>2. Proper(Outcome(t)) /\ Readable(LedgerOn(Outcome(t)))
      BY <1>4, <2>1, UseTarget, UseReadable DEF Outcome
    <2>3. \A c \in Clients : Installed(Outcome(t), c)
      BY <1>4, <2>1, UseInstalls DEF Outcome
    <2> QED
      BY <1>1, <1>3, <2>2, <2>3, OrderlyTurns DEF AllOrderly
  <1>5. ASSUME t.req.kind = "revert", CanRevert(d, LedgerOn(d), t.req),
               t.ops = RevertOperations(d, U, t.req), t.ops # <<>>
        PROVE  AllOrderly(Outcome(t))
    <2>1. RevertPremise(d, U, t.req) /\ Selected(LedgerOn(d), t.req) # <<>>
      BY <1>5 DEF RevertPremise, RevertOperations
    <2>2. Proper(Outcome(t)) /\ Readable(LedgerOn(Outcome(t)))
      BY <1>5, <2>1, RevertTarget DEF Outcome
    <2>3. \A c \in Clients : Installed(Outcome(t), c)
      BY <1>5, <2>1, RevertInstalls DEF Outcome
    <2> QED
      BY <1>1, <1>3, <2>2, <2>3, OrderlyTurns DEF AllOrderly
  <1> QED
    BY <1>2, <1>4, <1>5

-----------------------------------------------------------------------------
(* A command that nobody disturbs.                                         *)

Skips(L, req) == \E l \in Selection(L, req) : ~(Newer(L, l) \subseteq Selection(L, req))

\* It goes forward, its files are where it put them, and where it is refused
\* that is for what it asked.
Calm(t, d) ==
  /\ t.phase \in Forwards \cup {"ok", "refused"}
  /\ t.lock = TRUE /\ t.touched = {}
  /\ \A i \in 1..Len(t.ops) :
       /\ t.ops[i].dest \in ConfigNames => t.ops[i].staged # None
       /\ t.ops[i].staged # None /\ ~t.ops[i].published => At(d, Stage(i)) = t.ops[i].staged
       /\ t.ops[i].moved /\ t.phase # "ok" /\ (t.phase = "finish" => i >= t.at) =>
            At(d, Aside(i)) = t.ops[i].prior
  /\ t.phase = "refused" =>
       /\ t.ops = <<>> /\ \A p \in Homes : At(d, p) = At(t.before, p)
       /\ t.req.kind = "revert"
       /\ LedgerOn(t.before) = EmptyLedger \/ Skips(LedgerOn(t.before), t.req)

\* A destination holds what the next operation on it is to find.
LEMMA PriorIsThere ==
  ASSUME NEW t, Running1(t), Progress(t), NEW d, PlanPriors(t.before, t.ops),
         t.phase \in {"take", "move", "publish"}, ExactAt(t, d, Now(t).dest)
  PROVE  IF t.phase = "publish" THEN At(d, Now(t).dest) = None
         ELSE At(d, Now(t).dest) = Now(t).prior
  <1> DEFINE a == t.at
             n == Len(t.ops)
             p == Now(t).dest
  <1>1. a \in 1..n /\ a \in Nat /\ n \in Nat /\ Now(t) = t.ops[a]
    BY AtAnOperation
  <1>2. PriorFollows(t.before, t.ops, a)
    BY <1>1, PriorsHold
  <1>3. /\ \A i \in 1..n : (i < a => Done(t.ops[i])) /\ (i > a => ~Active(t.ops[i]))
        /\ Onward(t)
        /\ \A i \in 1..n : t.ops[i].moved \in BOOLEAN /\ t.ops[i].published \in BOOLEAN
    BY RunningFacts DEF Progress, Onward, Forwards, Operations
  <1>4. CASE ~Active(t.ops[a])
    <2>1. CASE \A j \in 1..n : j < a => t.ops[j].dest # p
      <3>1. \A i \in 1..n : t.ops[i].dest = p => ~Active(t.ops[i])
        <4> SUFFICES ASSUME NEW i \in 1..n, t.ops[i].dest = p PROVE ~Active(t.ops[i])
          OBVIOUS
        <4>1. i = a \/ i > a
          BY <1>1, <2>1
        <4> QED
          BY <1>3, <1>4, <4>1
      <3>2. At(d, p) = At(t.before, p)
        BY <3>1 DEF ExactAt
      <3>3. At(d, p) = Now(t).prior
        BY <1>1, <1>2, <2>1, <3>2 DEF PriorFollows
      <3> QED
        BY <1>1, <1>3, <1>4, <3>3 DEF Progress, Active
    <2>2. CASE \E j \in 1..n : j < a /\ t.ops[j].dest = p
      <3> DEFINE D == {j \in 1..n : j < a /\ t.ops[j].dest = p}
      <3>1. D \in SUBSET Nat /\ D # {} /\ \A j \in D : j <= n
        BY <2>2
      <3> HIDE DEF D
      <3>2. LastOf(D) \in D /\ \A j \in D : j <= LastOf(D)
        BY <1>1, <3>1, FiniteSetHasMaximum
      <3> DEFINE i == LastOf(D)
      <3>3. i \in 1..n /\ i < a /\ t.ops[i].dest = p
        BY <3>2 DEF D
      <3>4. \A k \in 1..n : i < k /\ k < a => t.ops[k].dest # p
        <4> SUFFICES ASSUME NEW k \in 1..n, i < k, k < a, t.ops[k].dest = p PROVE FALSE
          OBVIOUS
        <4>1. k \in D
          BY DEF D
        <4>2. k <= i
          BY <3>2, <4>1
        <4> QED
          BY <3>3, <4>2
      <3> HIDE DEF i
      <3>5. t.ops[a].prior = t.ops[i].staged /\ Done(t.ops[i]) /\ Active(t.ops[i])
        BY <1>1, <1>2, <1>3, <3>3, <3>4 DEF PriorFollows
      <3>6. \A j \in 1..n : j > i /\ t.ops[j].dest = p => ~Active(t.ops[j])
        <4> SUFFICES ASSUME NEW j \in 1..n, j > i, t.ops[j].dest = p PROVE ~Active(t.ops[j])
          OBVIOUS
        <4>1. j = a \/ j > a
          BY <1>1, <3>3, <3>4
        <4> QED
          BY <1>3, <1>4, <4>1
      <3>7. At(d, p) = IF t.ops[i].published THEN t.ops[i].staged ELSE None
        BY <1>3, <3>3, <3>5, <3>6 DEF ExactAt
      <3>8. ~t.ops[i].published => t.ops[i].staged = None
        BY <1>3, <3>3, <3>5 DEF Done
      <3>9. At(d, p) = Now(t).prior
        BY <1>1, <3>5, <3>7, <3>8
      <3> QED
        BY <1>1, <1>3, <1>4, <3>9 DEF Progress, Active
    <2> QED
      BY <1>1, <1>3, <1>4, <2>1, <2>2 DEF Progress, Active
  <1>5. CASE Active(t.ops[a])
    <2>1. t.phase = "publish" /\ ~t.ops[a].published
      BY <1>1, <1>5 DEF Progress
    <2>2. \A j \in 1..n : j > a /\ t.ops[j].dest = p => ~Active(t.ops[j])
      BY <1>3
    <2> QED
      BY <1>1, <1>5, <2>1, <2>2 DEF ExactAt
  <1> QED
    BY <1>4, <1>5

\* Nothing stops it.
LEMMA CalmForward ==
  ASSUME TypeInv, StaticInv, ExactInv, Calm(tx, disk), Works
  PROVE  tx'.phase \in Forwards \cup {"ok"}
  <1> DEFINE n == Len(tx.ops)
             a == tx.at
  <1>1. /\ tx # Idle /\ Running1(tx) /\ Running1(tx') /\ IsDisk(disk) /\ tx \in Transactions
        /\ Carries(tx, tx') /\ RunStep(tx, disk, tx', disk')
    BY WorkSteps, RunningFacts
  <1>2. Progress(tx) /\ Exactly(tx, disk, synced) /\ Static(tx, left)
    BY <1>1 DEF ExactInv, StaticInv
  <1>3. tx.phase \in Forwards
    BY DEF Calm, Works, Take, Move, Publish, VerifyCommitted, Finish, Undo, Displace, Restore,
           Discard, Clean, Forwards
  <1>4. /\ a \in 1..n /\ a \in Nat /\ n \in Nat /\ Now(tx).dest \in Homes /\ Now(tx) = tx.ops[a] /\ Op = tx.ops[a]
        /\ Now(tx) \in Operations
    BY <1>1, <1>3, AtAnOperation, RunningFacts DEF Forwards, Op, Now
  <1>5. tx.ops # <<>> /\ PlanPriors(tx.before, tx.ops) /\ PlanPlaces(tx.ops)
    BY <1>2, <1>4 DEF Static
  <1>6. \A p \in Homes : ExactAt(tx, disk, p)
    BY <1>2, <1>3, ExactlyEach DEF Calm, Onward
  <1>7. tx.lock /\ \A i \in 1..n :
          /\ tx.ops[i].dest \in ConfigNames => tx.ops[i].staged # None
          /\ tx.ops[i].staged # None /\ ~tx.ops[i].published => At(disk, Stage(i)) = tx.ops[i].staged
          /\ tx.ops[i].moved /\ (tx.phase = "finish" => i >= a) => At(disk, Aside(i)) = tx.ops[i].prior
    BY <1>3 DEF Calm, Forwards
  <1>8. tx.phase \in {"take", "move", "publish"} =>
          IF tx.phase = "publish" THEN At(disk, Op.dest) = None ELSE At(disk, Op.dest) = Op.prior
    BY <1>1, <1>2, <1>4, <1>5, <1>6, PriorIsThere
  <1>9. \A x \in Transactions : Advance(x).phase \in Forwards
    <2> SUFFICES ASSUME NEW x \in Transactions PROVE Advance(x).phase \in Forwards
      OBVIOUS
    <2> QED
      BY AdvanceFacts DEF Proceeds, Forwards
  <1>10. CASE Take
    <2>1. tx.phase = "take" /\ (Op.prior = None \/ Holds(disk, Op.dest, Op.prior))
      BY <1>1, <1>8, <1>10, AtFacts DEF Take
    <2>2. tx' = Goto(IF Op.prior = None THEN "publish" ELSE "move")
      BY <1>7, <1>10, <2>1 DEF Take
    <2>3. \A ph \in Phases : Goto(ph).phase = ph
      BY <1>1, GotoFacts DEF Stays
    <2> QED
      BY <2>2, <2>3 DEF Phases, Forwards
  <1>11. CASE Move
    <2>1. tx.phase = "move" /\ Op.prior # None
      BY <1>2, <1>4, <1>11 DEF Move, Progress
    <2>2. Op.dest \in DOMAIN disk /\ disk[Op.dest] = Op.prior
      BY <1>1, <1>8, <2>1, AtFacts
    <2> DEFINE moved == Flagged("moved", TRUE)
    <2>3. tx' = IF Op.staged = None THEN Advance(moved) ELSE [moved EXCEPT !.phase = "publish"]
      BY <1>11, <2>2 DEF Move
    <2>4. moved \in Transactions
      BY <1>1, <1>4, FlaggedFacts DEF Carries
    <2> HIDE DEF moved
    <2>5. [moved EXCEPT !.phase = "publish"].phase = "publish"
      BY <2>4, GoesFacts DEF Phases, Forwards
    <2> QED
      BY <1>9, <2>3, <2>4, <2>5 DEF Forwards
  <1>12. CASE Publish
    <2>1. tx.phase = "publish" /\ Op.staged # None /\ ~Op.published
      BY <1>2, <1>4, <1>12 DEF Publish, Progress
    <2>2. At(disk, Stage(a)) = Op.staged
      BY <1>4, <1>7, <2>1
    <2>3. CanPublish /\ disk[Stage(a)] = Op.staged
      BY <1>1, <1>7, <1>8, <2>1, <2>2, AtFacts DEF CanPublish
    <2>4. tx' = Advance(Flagged("published", TRUE))
      BY <1>12, <2>3 DEF Publish
    <2>5. Flagged("published", TRUE) \in Transactions
      BY <1>1, <1>4, FlaggedFacts DEF Carries
    <2> QED
      BY <1>9, <2>4, <2>5
  <1>13. CASE VerifyCommitted
    <2>1. tx.phase = "verify" /\ \A i \in 1..n : Done(tx.ops[i])
      BY <1>2, <1>13 DEF VerifyCommitted, Progress
    <2>2. Onward(tx)
      BY <2>1 DEF Onward, Forwards
    <2>3. Op.moved => Holds(disk, Aside(a), Op.prior)
      <3>1. Op.moved => At(disk, Aside(a)) = Op.prior /\ Op.prior # None
        BY <1>2, <1>4, <1>7, <2>1 DEF Progress
      <3> QED
        BY <1>1, <3>1, AtFacts
    <2>4. Active(Op)
      BY <1>4, <1>5, <2>1, PriorsHold DEF PriorFollows
    <2>5. ASSUME Op.published, IsLastFor(a)
          PROVE  Holds(disk, Op.dest, Op.staged)
      <3>1. \A j \in 1..n : j > a => tx.ops[j].dest # Op.dest
        BY <1>4, <2>5 DEF IsLastFor
      <3>2. At(disk, Op.dest) = Op.staged
        BY <1>4, <1>6, <2>2, <2>4, <2>5, <3>1 DEF ExactAt
      <3>3. Op.staged # None
        BY <1>2, <1>4, <2>5 DEF Progress
      <3> QED
        BY <1>1, <3>2, <3>3, AtFacts
    <2>6. ASSUME Op.moved, ~Op.published
          PROVE  Op.dest \notin DOMAIN disk
      <3>1. Op.staged = None
        BY <1>4, <2>1, <2>6 DEF Done, Operations
      <3>2. \A j \in 1..n : j > a => tx.ops[j].dest # Op.dest
        BY <1>4, <1>5, <1>7, <3>1 DEF PlanPlaces
      <3>3. At(disk, Op.dest) = None
        BY <1>4, <1>6, <2>4, <2>6, <3>2 DEF ExactAt
      <3> QED
        BY <1>1, <3>3, AtFacts
    <2>7. Committed(a)
      BY <1>4, <1>7, <2>3, <2>5, <2>6 DEF Committed
    <2>8. tx' = IF a < n THEN [tx EXCEPT !.at = @ + 1] ELSE [tx EXCEPT !.phase = "finish", !.at = 1]
      BY <1>13, <2>7 DEF VerifyCommitted
    <2>9. [tx EXCEPT !.at = @ + 1].phase = tx.phase
          /\ [tx EXCEPT !.phase = "finish", !.at = 1].phase = "finish"
      BY <1>1 DEF Transactions
    <2> QED
      BY <2>1, <2>8, <2>9 DEF Forwards
  <1>14. CASE Finish
    <2>1. tx.phase = "finish"
      BY <1>14 DEF Finish
    <2>2. Op.moved => Holds(disk, Aside(a), Op.prior)
      <3>1. Op.moved => At(disk, Aside(a)) = Op.prior /\ Op.prior # None
        BY <1>2, <1>4, <1>7, <2>1 DEF Progress
      <3> QED
        BY <1>1, <3>1, AtFacts
    <2>3. tx' = IF a = n THEN Goto("ok") ELSE [tx EXCEPT !.at = @ + 1]
      BY <1>14, <2>2 DEF Finish
    <2>4. Goto("ok").phase = "ok" /\ [tx EXCEPT !.at = @ + 1].phase = tx.phase
      BY <1>1 DEF Goto, Transactions
    <2> QED
      BY <2>1, <2>3, <2>4 DEF Forwards
  <1> QED
    BY <1>3, <1>10, <1>11, <1>12, <1>13, <1>14
       DEF Works, Undo, Displace, Restore, Discard, Clean, Forwards

\* And what is laid out for it stays there.
LEMMA CalmGoesOn ==
  ASSUME NEW t, NEW u, NEW d, NEW e, Steps(t, u), Calm(t, d), t.phase \in Forwards,
         RunStep(t, d, u, e), u.phase \in Forwards \cup {"ok"}
  PROVE  Calm(u, e)
  <1> DEFINE n == Len(t.ops)
             a == t.at
             x == Now(t).dest
  <1>1. /\ n \in Nat /\ a \in 1..n /\ a \in Nat /\ x \in Homes /\ Now(t) = t.ops[a]
        /\ Len(u.ops) = n /\ u.lock = TRUE /\ u.touched = {}
        /\ \A i \in 1..n : /\ u.ops[i].dest = t.ops[i].dest /\ u.ops[i].staged = t.ops[i].staged
                           /\ u.ops[i].prior = t.ops[i].prior
    BY AtAnOperation DEF Steps, Carries, SameOps, Calm, Forwards
  <1>2. \A i \in 1..n :
          /\ t.ops[i].dest \in ConfigNames => t.ops[i].staged # None
          /\ t.ops[i].staged # None /\ ~t.ops[i].published => At(d, Stage(i)) = t.ops[i].staged
          /\ t.ops[i].moved /\ t.phase # "ok" /\ (t.phase = "finish" => i >= a) =>
               At(d, Aside(i)) = t.ops[i].prior
    BY DEF Calm
  <1>3. SUFFICES ASSUME NEW i \in 1..n
                 PROVE  /\ t.ops[i].staged # None /\ ~u.ops[i].published => At(e, Stage(i)) = t.ops[i].staged
                        /\ u.ops[i].moved /\ u.phase # "ok" /\ (u.phase = "finish" => i >= u.at) =>
                             At(e, Aside(i)) = t.ops[i].prior
    BY <1>1, <1>2 DEF Calm, Forwards
  <1>4. CASE TakeStep(t, d, u, e)
    BY <1>2, <1>3, <1>4 DEF TakeStep, SameFlags
  <1>5. CASE MoveStep(t, d, u, e)
    <2>1. ShowsMove(d, e, x, a)
      BY <1>1, <1>5, MoveShows DEF MoveStep
    <2>2. /\ t.phase = "move" /\ Reflags(t, u, TRUE, Now(t).published) /\ At(d, x) = Now(t).prior
          /\ u.phase # "finish"
      BY <1>5 DEF MoveStep, Fails, Proceeds, Stays, Forwards
    <2>3. u.ops[i].published = t.ops[i].published /\ At(e, Stage(i)) = At(d, Stage(i))
      BY <1>1, <2>1, <2>2 DEF ShowsMove, Reflags
    <2>4. i # a => u.ops[i].moved = t.ops[i].moved /\ At(e, Aside(i)) = At(d, Aside(i))
      BY <2>1, <2>2 DEF ShowsMove, Reflags
    <2>5. At(e, Aside(a)) = t.ops[a].prior
      BY <1>1, <2>1, <2>2 DEF ShowsMove
    <2> QED
      BY <1>2, <2>2, <2>3, <2>4, <2>5
  <1>6. CASE PublishStep(t, d, u, e)
    <2>1. ShowsPublish(d, e, x, a)
      BY <1>1, <1>6, PublishShows DEF PublishStep
    <2>2. /\ t.phase = "publish" /\ Reflags(t, u, Now(t).moved, TRUE) /\ u.phase # "finish"
      BY <1>6 DEF PublishStep, Fails, Proceeds, Forwards
    <2>3. u.ops[i].moved = t.ops[i].moved /\ At(e, Aside(i)) = At(d, Aside(i))
      BY <1>1, <2>1, <2>2 DEF ShowsPublish, Reflags
    <2>4. i # a => u.ops[i].published = t.ops[i].published /\ At(e, Stage(i)) = At(d, Stage(i))
      BY <2>1, <2>2 DEF ShowsPublish, Reflags
    <2>5. u.ops[a].published
      BY <2>2 DEF Reflags
    <2> QED
      BY <1>2, <2>2, <2>3, <2>4, <2>5
  <1>7. CASE VerifyStep(t, d, u, e)
    BY <1>2, <1>3, <1>7 DEF VerifyStep, SameFlags
  <1>8. CASE FinishStep(t, d, u, e)
    <2>1. t.phase = "finish" /\ SameFlags(t, u) /\ (u.phase = "ok" \/ (u.phase = "finish" /\ u.at = a + 1))
      BY <1>8 DEF FinishStep, Stays, Forwards
    <2>2. e = d \/ Removes(d, e, {Aside(a)})
      BY <1>8 DEF FinishStep, Stays, Forwards
    <2>3. At(e, Stage(i)) = At(d, Stage(i)) /\ (i # a => At(e, Aside(i)) = At(d, Aside(i)))
      <3>1. CASE Removes(d, e, {Aside(a)})
        <4>1. {Aside(a)} \subseteq ArtifactNames /\ Stage(i) \notin {Aside(a)}
              /\ (i # a => Aside(i) \notin {Aside(a)})
          BY <1>1, NameFacts
        <4> QED
          BY <3>1, <4>1, RemoveShows
      <3> QED
        BY <2>2, <3>1
    <2>4. u.phase = "finish" /\ i >= u.at => i # a /\ i >= a
      BY <1>1, <2>1
    <2> QED
      BY <1>2, <2>1, <2>3, <2>4 DEF SameFlags
  <1> QED
    BY <1>4, <1>5, <1>6, <1>7, <1>8
       DEF RunStep, StopStep, Fails, UndoStep, DisplaceStep, RestoreStep, DiscardStep, GiveUpStep,
           GivesUpNow, CleanStep, Forwards

\* Every plan stages the configurations it writes.
LEMMA PlansWriteConfigs ==
  ASSUME NEW d, NEW U, NEW req,
         \/ UsePremise(d, U, req) /\ Changed(d, req) # {}
         \/ RevertPremise(d, U, req) /\ Selected(LedgerOn(d), req) # <<>>,
         NEW ops,
         ops = IF req.kind = "use" THEN UseOperations(d, U, req) ELSE RevertOperations(d, U, req),
         NEW i \in 1..Len(ops), ops[i].dest \in ConfigNames
  PROVE  ops[i].staged # None
  <1>1. \A f \in ConfigFiles : f # None
    BY ConfigFileFacts
  <1>2. State \notin ConfigNames /\ \A p \in BackupNames : p \notin ConfigNames
    BY HomesDiffer DEF ConfigNames, BackupNames
  <1>3. CASE UsePremise(d, U, req) /\ Changed(d, req) # {}
    <2>1. ops = UseOperations(d, U, req)
      BY <1>3 DEF UsePremise
    <2>2. \A j \in 1..Len(UseOperations(d, U, req)) :
            LET o == UseOperations(d, U, req) IN
            UseBackupAt(d, U, req, o, j) \/ UseLedgerAt(d, U, req, o, j) \/ UseConfigAt(d, U, req, o, j)
      BY <1>3, UseOperationsFacts
    <2>3. UseBackupAt(d, U, req, ops, i) \/ UseLedgerAt(d, U, req, ops, i) \/ UseConfigAt(d, U, req, ops, i)
      BY <2>1, <2>2
    <2> QED
      BY <1>1, <1>2, <2>3 DEF UseBackupAt, UseLedgerAt, UseConfigAt
  <1>4. CASE RevertPremise(d, U, req) /\ Selected(LedgerOn(d), req) # <<>>
    <2>1. ops = RevertOperations(d, U, req)
      BY <1>4 DEF RevertPremise
    <2>2. RevertConfigAt(d, U, req, ops, i) \/ RevertLedgerAt(d, U, req, ops, i) \/ RevertBackupAt(d, U, req, ops, i)
      BY <1>4, <2>1, RevertOperationsFacts
    <2> QED
      BY <1>1, <1>2, <2>2 DEF RevertConfigAt, RevertLedgerAt, RevertBackupAt
  <1> QED
    BY <1>3, <1>4

\* Until something goes wrong, commands find their records in order, and leave
\* them so.
CalmInv ==
  faults = 0 =>
    IF tx = Idle THEN AllOrderly(disk)
    ELSE Calm(tx, disk) /\ AllOrderly(tx.before) /\ AllOrderly(Outcome(tx))

LEMMA CalmInit ==
  ASSUME Init
  PROVE  CalmInv
  <1>1. TypeInv /\ DOMAIN disk = ConfigNames /\ tx = Idle
    BY InitTypes DEF Init
  <1>2. IsDisk(disk)
    BY <1>1 DEF TypeInv
  <1>3. LedgerOn(disk) = EmptyLedger /\ Readable(EmptyLedger) /\ \A c : LayersOn(disk, c) = {}
    <2>1. State \notin DOMAIN disk
      BY <1>1, HomesDiffer DEF ConfigNames
    <2> QED
      BY <2>1, LedgerTypes DEF LedgerOn, LayersOn, Layers
  <1>4. SUFFICES ASSUME NEW c \in Clients PROVE Orderly(disk, c)
    BY <1>1, <1>3 DEF CalmInv, AllOrderly
  <1>5. Config(c) \in DOMAIN disk /\ \A n : Backup(c, n) \notin DOMAIN disk
    BY <1>1, HomesDiffer DEF ConfigNames
  <1>6. At(disk, Config(c)).bytes = Original /\ At(disk, Config(c)) \in AllFiles
    <2>1. At(disk, Config(c)) = disk[Config(c)] /\ disk[Config(c)] \in AllFiles
      BY <1>2, <1>5, AtFacts
    <2>2. disk[Config(c)].bytes = Original
      BY <1>4 DEF Init
    <2> QED
      BY <2>1, <2>2
  <1>7. Original \in ConfigBytes /\ \A s \in Scopes : Original.entry[s] = NoEntry
    BY DEF Original, ConfigBytes, NoEntry, ServerEntries
  <1>8. At(disk, Config(c)) \in ConfigFiles
    BY <1>6, <1>7, ConfigFileFacts
  <1>9. \A n \in Nat : At(disk, Backup(c, n)) = None
    BY <1>2, <1>5, AtFacts
  <1> QED
    BY <1>3, <1>6, <1>7, <1>8, <1>9 DEF Orderly, Chained, Installed

LEMMA CalmBegins ==
  ASSUME TypeInv, ExactInv, tx = Idle, AllOrderly(disk), NEW req \in Requests, Begin(req)
  PROVE  Calm(tx', disk') /\ AllOrderly(tx'.before) /\ AllOrderly(Outcome(tx'))
  <1>1. /\ tx'.before = disk /\ tx'.req = req /\ IsDisk(disk) /\ IsFiniteSet(Inodes)
        /\ \/ tx'.ops = <<>>
           \/ /\ req.kind = "use" /\ CanUse(disk, LedgerOn(disk), req)
              /\ tx'.ops = UseOperations(disk, Inodes, req) /\ tx'.ops # <<>>
           \/ /\ req.kind = "revert" /\ CanRevert(disk, LedgerOn(disk), req)
              /\ tx'.ops = RevertOperations(disk, Inodes, req) /\ tx'.ops # <<>>
    BY PlansBegin
  <1>2. AllOrderly(Outcome(tx'))
    BY <1>1, OutcomeIsOrderly
  <1>3. Calm(tx', disk')
    <2>1. \/ tx'.phase = "ok" /\ tx'.ops = <<>> /\ tx'.lock = TRUE /\ tx'.touched = {}
          \/ /\ tx'.phase = "take" /\ tx'.ops # <<>> /\ tx'.lock = TRUE /\ tx'.touched = {}
             /\ Lays(disk, disk', tx'.ops) /\ IsPlan(disk, Inodes, tx'.ops)
      BY BeginSteps DEF Starts
    <2>2. CASE tx'.ops = <<>> /\ tx'.phase = "ok"
      <3>1. Len(tx'.ops) = 0
        BY <2>2
      <3> QED
        BY <2>1, <2>2, <3>1 DEF Calm
    <2>3. CASE tx'.ops # <<>> /\ tx'.phase = "take"
      <3>1. \A i \in 1..Len(tx'.ops) : tx'.ops[i].moved = FALSE /\ i \in Nat
        BY <2>1, <2>3 DEF IsPlan, PlanTyped
      <3>2. \A i \in 1..Len(tx'.ops) : At(disk', Stage(i)) = tx'.ops[i].staged
        <4>1. \A i \in Nat : At(disk, Stage(i)) = None
          BY NameFacts DEF ExactInv
        <4> QED
          BY <2>1, <2>3, <3>1, <4>1 DEF Lays
      <3>3. \A i \in 1..Len(tx'.ops) : tx'.ops[i].dest \in ConfigNames => tx'.ops[i].staged # None
        <4>1. \/ UsePremise(disk, Inodes, req) /\ Changed(disk, req) # {}
              \/ RevertPremise(disk, Inodes, req) /\ Selected(LedgerOn(disk), req) # <<>>
          BY <1>1, <2>3 DEF UsePremise, RevertPremise, UseOperations, RevertOperations
        <4>2. tx'.ops = IF req.kind = "use" THEN UseOperations(disk, Inodes, req)
                        ELSE RevertOperations(disk, Inodes, req)
          BY <1>1, <2>3
        <4> QED
          BY <4>1, <4>2, PlansWriteConfigs
      <3> QED
        BY <2>1, <2>3, <3>1, <3>2, <3>3 DEF Calm, Forwards
    <2> QED
      BY <2>1, <2>2, <2>3
  <1> QED
    BY <1>1, <1>2, <1>3

LEMMA CalmRefuses ==
  ASSUME TypeInv, AllOrderly(disk), NEW req \in Requests, Refuse(req)
  PROVE  Calm(tx', disk') /\ AllOrderly(tx'.before) /\ AllOrderly(Outcome(tx'))
  <1>1. IsDisk(disk) /\ disk' = disk
    BY DEF TypeInv, Refuse
  <1>2. Starts(tx, tx', "refused", req, <<>>)
    <2>1. <<>> \in Seq(Operations) /\ "refused" \in Phases /\ "refused" \in Answers
      BY DEF Phases, Answers
    <2> QED
      BY <1>1, <2>1, StartedFacts DEF Refuse
  <1>3. tx'.before = disk /\ tx'.req = req /\ tx'.ops = <<>> /\ Len(tx'.ops) = 0
        /\ tx'.phase = "refused" /\ tx'.lock = TRUE /\ tx'.touched = {}
    BY <1>2 DEF Starts
  <1>4. AllOrderly(Outcome(tx'))
    <2>1. IsFiniteSet({})
      BY FS_EmptySet
    <2> QED
      BY <1>1, <1>3, <2>1, OutcomeIsOrderly
  <1>5. req.kind = "revert"
    BY <1>1, RequestFacts, UseIsPossible DEF Refuse, Plannable
  <1>6. LedgerOn(disk) = EmptyLedger \/ Skips(LedgerOn(disk), req)
    <2>1. CASE State \notin DOMAIN disk
      BY <2>1 DEF LedgerOn
    <2>2. CASE State \in DOMAIN disk
      <3>1. ~CanRevert(disk, LedgerOn(disk), req)
        BY <1>5 DEF Refuse, Plannable
      <3> QED
        BY <1>1, <1>5, <2>2, <3>1, RevertIsPossible DEF Skips
    <2> QED
      BY <2>1, <2>2
  <1> QED
    BY <1>1, <1>3, <1>4, <1>5, <1>6 DEF Calm

\* What a calm command that is over leaves is what it planned, or what it found.
LEMMA CalmReturns ==
  ASSUME TypeInv, StaticInv, ExactInv, tx # Idle, tx.phase \in Answers, Depart,
         Calm(tx, disk), AllOrderly(tx.before), AllOrderly(Outcome(tx))
  PROVE  AllOrderly(disk')
  <1> DEFINE n == Len(tx.ops)
  <1>1. /\ Running1(tx) /\ IsDisk(disk) /\ IsDisk(disk') /\ \A p \in Homes : At(disk', p) = At(disk, p)
    BY DepartFacts DEF TypeInv, Departs
  <1>2. n \in Nat /\ tx.ops \in Seq(Operations) /\ IsDisk(tx.before)
        /\ \A i \in 1..n : tx.ops[i] \in Operations
    BY <1>1, RunningFacts DEF Transactions
  <1>3. Proper(disk') /\ Proper(tx.before) /\ Proper(Outcome(tx))
    BY <1>1, DiskIsProper, OutcomeIsProper
  <1>4. CASE tx.phase = "refused"
    BY <1>1, <1>3, <1>4, OrderlySame DEF Calm
  <1>5. CASE tx.phase = "ok"
    <2>1. Progress(tx) /\ Exactly(tx, disk, synced) /\ Static(tx, left)
      BY DEF ExactInv, StaticInv
    <2>2. \A p \in Homes : ExactAt(tx, disk, p)
      BY <1>5, <2>1, ExactlyEach DEF Calm, Onward
    <2>3. \A i \in 1..n : Done(tx.ops[i])
      BY <1>5, <2>1 DEF Progress, Over
    <2>4. ASSUME NEW p \in Homes PROVE At(disk, p) = At(Outcome(tx), p)
      <3>1. CASE \A i \in 1..n : tx.ops[i].dest # p
        <4>1. At(Outcome(tx), p) = At(tx.before, p)
          BY <1>2, <3>1, TargetFacts DEF Outcome
        <4> QED
          BY <2>2, <3>1, <4>1 DEF ExactAt
      <3>2. ASSUME NEW k \in 1..n, tx.ops[k].dest = p
            PROVE  At(disk, p) = At(Outcome(tx), p)
        <4>6. \A q : (\E i \in 1..n : tx.ops[i].dest = q) =>
                \E i \in 1..n : tx.ops[i].dest = q /\ \A j \in 1..n : j > i => tx.ops[j].dest # q
          BY <1>2, TargetFacts
        <4>1. PICK i \in 1..n : tx.ops[i].dest = p /\ \A j \in 1..n : j > i => tx.ops[j].dest # p
          BY <3>2, <4>6
        <4>2. At(Outcome(tx), p) = tx.ops[i].staged
          BY <1>2, <4>1, TargetFacts DEF Outcome
        <4>3. Active(tx.ops[i])
          <5>1. PlanPriors(tx.before, tx.ops)
            BY <1>2, <2>1, <4>1 DEF Static
          <5> QED
            BY <1>2, <2>3, <5>1, PriorsHold DEF PriorFollows
        <4>4. At(disk, p) = IF tx.ops[i].published THEN tx.ops[i].staged ELSE None
          BY <1>5, <2>2, <4>1, <4>3 DEF ExactAt, Onward
        <4>5. tx.ops[i].published = (tx.ops[i].staged # None)
          BY <2>3 DEF Done
        <4> QED
          BY <4>2, <4>4, <4>5
      <3> QED
        BY <3>1, <3>2
    <2> QED
      BY <1>1, <1>3, <2>4, OrderlySame
  <1> QED
    BY <1>4, <1>5 DEF Calm, Forwards, Answers

LEMMA CalmStep ==
  ASSUME TypeInv, StaticInv, ExactInv, CalmInv, [Next]_vars
  PROVE  CalmInv'
  <1>1. ASSUME Fault PROVE CalmInv'
    BY <1>1, FaultCounts DEF CalmInv
  <1>2. SUFFICES ASSUME faults' = 0 PROVE CalmInv'
    BY DEF CalmInv
  <1>3. ASSUME NEW req \in Requests, Begin(req) PROVE CalmInv'
    <2>1. tx = Idle /\ tx' # Idle /\ faults' = faults
      BY <1>3, PlansBegin DEF Begin
    <2>2. AllOrderly(disk)
      BY <1>2, <2>1 DEF CalmInv
    <2> QED
      BY <1>3, <2>1, <2>2, CalmBegins DEF CalmInv
  <1>4. ASSUME NEW req \in Requests, Refuse(req) PROVE CalmInv'
    <2>1. tx = Idle /\ faults' = faults
      BY <1>4 DEF Refuse, history
    <2>2. AllOrderly(disk)
      BY <1>2, <2>1 DEF CalmInv
    <2>3. tx' # Idle
      BY <1>4, RefuseSteps, RunningFacts
    <2> QED
      BY <1>4, <2>2, <2>3, CalmRefuses DEF CalmInv
  <1>5. ASSUME NEW req \in Requests, StagingFails(req) PROVE CalmInv'
    <2>1. faults' = faults + 1 /\ faults \in Nat
      BY <1>5, FaultCounts DEF StagingFails
    <2> QED
      BY <1>2, <2>1
  <1>6. CASE Works
    <2>1. /\ tx # Idle /\ tx' # Idle /\ Running1(tx) /\ Running1(tx') /\ Carries(tx, tx')
          /\ RunStep(tx, disk, tx', disk') /\ faults' = faults
      BY <1>6, WorkSteps, RunningFacts
    <2>2. Calm(tx, disk) /\ AllOrderly(tx.before) /\ AllOrderly(Outcome(tx))
      BY <1>2, <2>1 DEF CalmInv
    <2>3. tx'.phase \in Forwards \cup {"ok"}
      BY <1>6, <2>2, CalmForward
    <2>4. tx.phase \in Forwards
      BY <1>6, <2>2
         DEF Calm, Works, Take, Move, Publish, VerifyCommitted, Finish, Undo, Displace, Restore,
             Discard, Clean, Forwards
    <2>5. Calm(tx', disk')
      BY <2>1, <2>2, <2>3, <2>4, CalmGoesOn DEF Steps
    <2>6. tx'.before = tx.before /\ Outcome(tx') = Outcome(tx)
      BY <2>1, TurnsGoOn DEF Carries, Running1
    <2> QED
      BY <2>1, <2>2, <2>5, <2>6 DEF CalmInv
  <1>7. CASE Return
    <2>1. tx # Idle /\ tx.phase \in Answers /\ Depart /\ tx' = Idle /\ faults' = faults
      BY <1>7, IdlePhase DEF Return, Depart, Answers
    <2>2. Calm(tx, disk) /\ AllOrderly(tx.before) /\ AllOrderly(Outcome(tx))
      BY <1>2, <2>1 DEF CalmInv
    <2> QED
      BY <2>1, <2>2, CalmReturns DEF CalmInv
  <1>8. CASE (\E c \in Clients : Edit(c)) \/ (\E p \in DOMAIN disk : Delete(p) \/ Replace(p))
             \/ ReplaceLock \/ Die \/ SyncFails \/ Errs
    BY <1>1, <1>8 DEF Edit, Delete, Replace, ReplaceLock, Die, SyncFails, Errs, CommitFails, RollbackFails, CleanupFails
  <1>9. CASE UNCHANGED vars
    <2>1. tx' = tx /\ disk' = disk /\ faults' = faults
      BY <1>9 DEF vars, history
    <2> QED
      BY <2>1 DEF CalmInv, Calm, AllOrderly, Orderly
  <1> QED
    BY <1>3, <1>4, <1>5, <1>6, <1>7, <1>8, <1>9 DEF Next, Works, Errs

LEMMA CalmSucceeds ==
  ASSUME CalmInv
  PROVE  UndisturbedCommandsSucceed
  <1>1. SUFFICES ASSUME faults = 0
                 PROVE  /\ tx.phase \notin {"failed", "incomplete", "unfinished"}
                        /\ tx.phase = "refused" =>
                             /\ tx.req.kind = "revert"
                             /\ \/ LedgerOn(tx.before) = EmptyLedger
                                \/ Skips(LedgerOn(tx.before), tx.req)
    BY DEF UndisturbedCommandsSucceed, Skips
  <1>2. CASE tx = Idle
    BY <1>2, IdlePhase
  <1>3. CASE tx # Idle
    BY <1>1, <1>3 DEF CalmInv, Calm, Forwards
  <1> QED
    BY <1>2, <1>3

\* Without faults no sequence of commands fails, and a command is refused only
\* for what it asks: the tool's own records always authenticate.
THEOREM SwapUndisturbedCommandsSucceed == Spec => []UndisturbedCommandsSucceed
  <1>1. Init => CalmInv
    BY CalmInit
  <1>2. SwapInv /\ CalmInv /\ [Next]_vars => CalmInv'
    BY CalmStep DEF SwapInv
  <1>3. CalmInv => UndisturbedCommandsSucceed
    BY CalmSucceeds
  <1>4. Spec => []SwapInv
    BY SwapInvariant
  <1> QED
    BY <1>1, <1>2, <1>3, <1>4, PTL DEF Spec

-----------------------------------------------------------------------------
(* What taking every layer off a configuration leads to.                   *)

\* Some layer expects the configuration as it is: a command may take it off.
Expecting(d, c) == \E l \in LayersOn(d, c) : At(d, Config(c)) = Entry(d, l).expected

Eldest(d, c, l) == \A k \in LayersOn(d, c) : Entry(d, l).sequence <= Entry(d, k).sequence

\* The first layer of c backs up b.
Rooted(d, c, b) ==
  LayersOn(d, c) # {} /\ \A l \in LayersOn(d, c) : Eldest(d, c, l) => Entry(d, l).backup.bytes = b

\* Taking every layer off c, if the ledger allows it, leads to b.
Restorable(d, c, b) ==
  /\ LayersOn(d, c) = {} /\ At(d, Config(c)) \in ConfigFiles => At(d, Config(c)).bytes = b
  /\ Expecting(d, c) => Rooted(d, c, b)

LEMMA RootedRestores ==
  ASSUME NEW d, NEW c, NEW b, Rooted(d, c, b)
  PROVE  Restorable(d, c, b)
  BY DEF Rooted, Restorable

\* Installing a command leaves the layers alone, or a first layer that backs up b.
LEMMA RootedGrowing ==
  ASSUME NEW d, NEW e, Proper(d), Proper(e), NEW c, NEW b, Restorable(d, c, b), Turns(d, e, c),
         Follows(d, e, c), LayersOn(d, c) \subseteq LayersOn(e, c)
  PROVE  Leaves(d, e, c) \/ Rooted(e, c, b)
  <1>1. \A l \in LayersOn(d, c) : Entry(d, l).sequence \in Nat
    BY LayersFacts
  <1>2. \A l \in LayersOn(e, c) : Entry(e, l).sequence \in Nat
    BY LayersFacts
  <1>3. \A k \in LayersOn(d, c), l \in LayersOn(d, c) : k # l => LayersOn(d, c) = {k, l}
    BY LayersFacts
  <1>4. ASSUME NEW l \in Keys, Adds(d, e, c, l) PROVE Rooted(e, c, b)
    <2>1. /\ l \notin LayersOn(d, c) /\ LayersOn(e, c) = LayersOn(d, c) \cup {l}
          /\ \A k \in LayersOn(d, c) : /\ Entry(e, k) = Entry(d, k)
                                       /\ Entry(d, k).sequence < Entry(e, l).sequence
          /\ At(d, Config(c)) \in ConfigFiles
          /\ Entry(e, l).backup.bytes = At(d, Config(c)).bytes
      BY <1>4 DEF Adds
    <2>2. CASE LayersOn(d, c) = {}
      BY <2>1, <2>2 DEF Restorable, Rooted
    <2>3. CASE LayersOn(d, c) # {}
      <3>1. Rooted(d, c, b)
        BY <1>4, <2>3 DEF Follows, Expecting, Restorable
      <3>2. ASSUME NEW m \in LayersOn(e, c), Eldest(e, c, m) PROVE Entry(e, m).backup.bytes = b
        <4>1. m # l
          <5>1. PICK k \in LayersOn(d, c) : TRUE
            BY <2>3
          <5>2. Entry(e, m).sequence <= Entry(d, k).sequence
            BY <2>1, <3>2, <5>1 DEF Eldest
          <5> QED
            BY <1>1, <1>2, <2>1, <5>1, <5>2
        <4>2. m \in LayersOn(d, c) /\ Eldest(d, c, m)
          BY <2>1, <3>2, <4>1 DEF Eldest
        <4> QED
          BY <2>1, <3>1, <4>2 DEF Rooted
      <3> QED
        BY <2>1, <3>2 DEF Rooted
    <2> QED
      BY <2>2, <2>3
  <1>5. ASSUME NEW l \in Keys, Renews(d, e, c, l) PROVE Rooted(e, c, b)
    <2>1. /\ l \in LayersOn(d, c) /\ LayersOn(e, c) = LayersOn(d, c)
          /\ \A k \in LayersOn(d, c) : k # l => Entry(e, k) = Entry(d, k)
          /\ At(d, Config(c)) = Entry(d, l).expected
          /\ Entry(e, l).sequence = Entry(d, l).sequence /\ Entry(e, l).backup = Entry(d, l).backup
      BY <1>5 DEF Renews, KeepsLayer
    <2>2. \A k \in LayersOn(d, c) : /\ Entry(e, k).sequence = Entry(d, k).sequence
                                    /\ Entry(e, k).backup = Entry(d, k).backup
      BY <2>1
    <2>3. Rooted(d, c, b)
      BY <2>1 DEF Expecting, Restorable
    <2> QED
      BY <2>1, <2>2, <2>3 DEF Rooted, Eldest
  <1>6. ASSUME NEW l \in Keys, NEW k \in Keys, Relays(d, e, c, l, k) PROVE Rooted(e, c, b)
    <2>1. /\ l \in LayersOn(d, c) /\ k \in LayersOn(d, c) /\ LayersOn(e, c) = LayersOn(d, c)
          /\ Entry(d, l).sequence < Entry(d, k).sequence
          /\ At(d, Config(c)) = Entry(d, k).expected
          /\ Entry(e, l).sequence = Entry(d, l).sequence /\ Entry(e, l).backup = Entry(d, l).backup
          /\ Entry(e, k).sequence = Entry(d, k).sequence
      BY <1>6 DEF Relays, KeepsLayer
    <2>2. Rooted(d, c, b)
      BY <2>1 DEF Expecting, Restorable
    <2>3. LayersOn(d, c) = {l, k}
      BY <1>1, <1>3, <2>1
    <2>4. Eldest(d, c, l) /\ \A m \in LayersOn(e, c) : Eldest(e, c, m) => m = l
      BY <1>1, <2>1, <2>3 DEF Eldest
    <2> QED
      BY <2>1, <2>2, <2>4 DEF Rooted
  <1>7. ASSUME NEW l \in Keys, NEW k \in Keys, Clears(d, e, c, l, k) PROVE FALSE
    BY <1>7 DEF Clears
  <1>8. ASSUME NEW l \in Keys, NEW m \in Keys, Drops(d, e, c, l, m) PROVE FALSE
    BY <1>8 DEF Drops
  <1> QED
    BY <1>4, <1>5, <1>6, <1>7, <1>8 DEF Turns

\* A plan carried out keeps what reverting leads to.
LEMMA RestorableTurns ==
  ASSUME NEW d, NEW e, Proper(d), Proper(e), NEW c, NEW b, Chained(d, c), Turns(d, e, c),
         Follows(d, e, c), Restorable(d, c, b)
  PROVE  Restorable(e, c, b)
  <1>1. \A l \in LayersOn(d, c) : Entry(d, l).sequence \in Nat
    BY LayersFacts
  <1>2. CASE LayersOn(d, c) \subseteq LayersOn(e, c)
    <2>1. Leaves(d, e, c) => Restorable(e, c, b)
      BY DEF Leaves, Restorable, Expecting, Rooted, Eldest
    <2> QED
      BY <1>2, <2>1, RootedGrowing, RootedRestores
  <1>3. CASE ~(LayersOn(d, c) \subseteq LayersOn(e, c))
    <2>1. \E l, k \in Keys : Clears(d, e, c, l, k) \/ Drops(d, e, c, l, k)
      BY <1>3 DEF Turns, Leaves, Adds, Renews, Relays
    <2>2. ASSUME NEW l \in Keys, NEW k \in Keys, Clears(d, e, c, l, k) PROVE Restorable(e, c, b)
      <3>1. /\ l \in LayersOn(d, c) /\ k \in LayersOn(d, c) /\ LayersOn(e, c) = {}
            /\ \A m \in LayersOn(d, c) : m = l \/ m = k
            /\ At(d, Config(c)) = Entry(d, k).expected
            /\ k # l => Entry(d, l).sequence < Entry(d, k).sequence
            /\ At(e, Config(c)).bytes = Entry(d, l).backup.bytes
        BY <2>2 DEF Clears
      <3>2. Rooted(d, c, b)
        BY <3>1 DEF Expecting, Restorable
      <3>3. Eldest(d, c, l)
        BY <1>1, <3>1 DEF Eldest
      <3> QED
        BY <3>1, <3>2, <3>3 DEF Rooted, Restorable, Expecting
    <2>3. ASSUME NEW l \in Keys, NEW m \in Keys, Drops(d, e, c, l, m) PROVE Restorable(e, c, b)
      <3>1. /\ l # m /\ LayersOn(d, c) = {l, m} /\ LayersOn(e, c) = {m}
            /\ At(d, Config(c)) = Entry(d, l).expected
            /\ Entry(e, m).backup = Entry(d, m).backup
            /\ Entry(e, m).expected = IF Entry(d, l).sequence < Entry(d, m).sequence
                                      THEN Entry(d, m).expected ELSE At(e, Config(c))
            /\ At(e, Config(c)).bytes = Entry(d, l).backup.bytes
        BY <2>3 DEF Drops, KeepsLayer
      <3>2. Rooted(d, c, b)
        BY <3>1 DEF Expecting, Restorable
      <3>3. CASE Entry(d, l).sequence < Entry(d, m).sequence
        <4>1. Entry(d, l).backup.bytes = b
          BY <1>1, <3>1, <3>2, <3>3 DEF Rooted, Eldest
        <4>2. ASSUME Expecting(e, c) PROVE Entry(e, m).backup.bytes = b
          <5>1. Entry(d, m).expected.bytes = Entry(d, l).backup.bytes
            BY <3>1, <3>3, <4>2 DEF Expecting
          <5>2. l \in LayersOn(d, c) /\ m \in LayersOn(d, c)
            BY <3>1
          <5>3. Entry(d, m).backup.bytes = Entry(d, l).backup.bytes
            BY <3>3, <5>1, <5>2, NothingChanged
          <5> QED
            BY <3>1, <4>1, <5>3
        <4> QED
          BY <3>1, <4>2 DEF Rooted, Restorable
      <3>4. CASE ~(Entry(d, l).sequence < Entry(d, m).sequence)
        <4>1. Eldest(d, c, m)
          BY <1>1, <3>1, <3>4 DEF Eldest
        <4> QED
          BY <3>1, <3>2, <4>1 DEF Rooted, Restorable
      <3> QED
        BY <3>3, <3>4
    <2> QED
      BY <2>1, <2>2, <2>3
  <1> QED
    BY <1>2, <1>3

-----------------------------------------------------------------------------
(* What a running command left of a configuration nobody else wrote.       *)

ConfigOps(t, c) == {i \in 1..Len(t.ops) : t.ops[i].dest = Config(c)}

Due(t, i)     == Onward(t) \/ Pending(t, i)
Reached(t, i) == Onward(t) \/ i <= t.at

\* What the operations left in c's configuration: what the last published one
\* that is not given up staged, or the file of before.  None where it is aside.
Left(t, d, c) ==
  \/ At(d, Config(c)) = None
  \/ At(d, Config(c)).bytes \in OtherBytes
  \/ /\ At(d, Config(c)) = At(t.before, Config(c))
     /\ \A i \in ConfigOps(t, c) : t.ops[i].published => ~Due(t, i)
  \/ \E j \in ConfigOps(t, c) :
       /\ At(d, Config(c)) = t.ops[j].staged /\ t.ops[j].published /\ Due(t, j)
       /\ \A i \in ConfigOps(t, c) : i > j /\ t.ops[i].published => ~Due(t, i)

Undisturbed(t, d, c) ==
  /\ Left(t, d, c)
  /\ \A j \in ConfigOps(t, c) :
       t.ops[j].moved /\ ~t.ops[j].published /\ Reached(t, j) => At(d, Config(c)) = None

\* A file that is what the step looks for is acted on.
Acts(t, d, u) ==
  /\ t.phase = "undo" /\ t.at > 0 /\ Now(t).published /\ Holds(d, Now(t).dest, Now(t).staged) => ~GivesUp(t, u)
  /\ t.phase = "displace" /\ Holds(d, Now(t).dest, Now(t).staged) => u.ops[t.at].published = FALSE
  /\ t.phase = "restore" /\ Holds(d, Aside(t.at), Now(t).prior) /\ At(d, Now(t).dest) = None =>
       u.ops[t.at].moved = FALSE

\* Every configuration an operation writes was there, and is written anew.
WritesConfigs(t) ==
  \A c \in Clients : \A j \in ConfigOps(t, c) :
    t.ops[j].prior \in ConfigFiles /\ t.ops[j].staged \in ConfigFiles

LEMMA ReachedShrinks ==
  ASSUME NEW t, NEW u, NEW d, NEW e, Steps(t, u), RunStep(t, d, u, e),
         NEW i \in 1..Len(t.ops), Reached(u, i)
  PROVE  Reached(t, i)
  <1>1. t.at \in Nat /\ u.at \in Nat /\ Len(t.ops) \in Nat
    BY RunningFacts DEF Steps
  <1>2. CASE Onward(u)
    BY <1>2, OnwardStays DEF Reached
  <1>3. CASE ~Onward(u) /\ ~Onward(t)
    <2>1. \/ UndoStep(t, d, u, e) \/ DisplaceStep(t, d, u, e) \/ RestoreStep(t, d, u, e)
          \/ DiscardStep(t, d, u, e) \/ GiveUpStep(t, d, u, e) \/ CleanStep(t, d, u, e)
      BY <1>3 DEF Onward, Forwards, RunStep, TakeStep, StopStep, MoveStep, PublishStep, VerifyStep, FinishStep
    <2>2. u.at = t.at \/ u.at = t.at - 1
      BY <2>1 DEF UndoStep, DisplaceStep, RestoreStep, DiscardStep, GiveUpStep, GivesUpNow, CleanStep,
         Stays, Descends, GivesUp
    <2>3. u.at <= t.at
      BY <1>1, <2>2
    <2> QED
      BY <1>1, <1>3, <2>3 DEF Reached
  <1> QED
    BY <1>2, <1>3 DEF Reached

LEMMA DueSame ==
  ASSUME NEW t, NEW u, NEW d, NEW e, Steps(t, u), RunStep(t, d, u, e),
         NEW i \in 1..Len(t.ops), i # t.at \/ Onward(t)
  PROVE  Due(u, i) <=> Due(t, i)
  <1>1. t.at \in Nat /\ u.at \in Nat /\ Len(t.ops) \in Nat
    BY RunningFacts DEF Steps
  <1>2. Due(u, i) => Due(t, i)
    BY PendingShrinks DEF StillPending, Due
  <1>3. CASE i # t.at
    BY <1>2, <1>3, StaysPending DEF Due
  <1>4. CASE Onward(t)
    <2>1. Onward(u) \/ (u.phase = "undo" /\ u.at = Len(t.ops))
      BY <1>4 DEF Onward, Forwards, RunStep, TakeStep, StopStep, MoveStep, PublishStep, VerifyStep, FinishStep, UndoStep, DisplaceStep,
         RestoreStep, DiscardStep, GiveUpStep, GivesUpNow, CleanStep, Stays, Proceeds, Fails
    <2> QED
      BY <1>1, <1>2, <1>4, <2>1 DEF Due, Pending
  <1> QED
    BY <1>3, <1>4

LEMMA UndisturbedKept ==
  ASSUME NEW t, NEW u, NEW d, NEW e, NEW c, SameOps(t.ops, u.ops), u.before = t.before,
         At(e, Config(c)) = At(d, Config(c)),
         \A j \in ConfigOps(t, c) : /\ u.ops[j].moved = t.ops[j].moved
                                    /\ u.ops[j].published = t.ops[j].published
                                    /\ Reached(u, j) => Reached(t, j),
         \/ At(d, Config(c)) = None
         \/ At(d, Config(c)).bytes \in OtherBytes
         \/ \A j \in ConfigOps(t, c) : t.ops[j].published => (Due(u, j) <=> Due(t, j)),
         Undisturbed(t, d, c)
  PROVE  Undisturbed(u, e, c)
  <1>1. ConfigOps(u, c) = ConfigOps(t, c) /\ \A j \in ConfigOps(t, c) : u.ops[j].staged = t.ops[j].staged
    BY DEF ConfigOps, SameOps
  <1>2. Left(u, e, c)
    <2>1. CASE At(d, Config(c)) = None \/ At(d, Config(c)).bytes \in OtherBytes
      BY <2>1 DEF Left
    <2>2. CASE \A j \in ConfigOps(t, c) : t.ops[j].published => (Due(u, j) <=> Due(t, j))
      BY <1>1, <2>2 DEF Left, Undisturbed
    <2> QED
      BY <2>1, <2>2
  <1>3. \A j \in ConfigOps(u, c) :
          u.ops[j].moved /\ ~u.ops[j].published /\ Reached(u, j) => At(e, Config(c)) = None
    BY <1>1 DEF Undisturbed
  <1> QED
    BY <1>2, <1>3 DEF Undisturbed

\* A step that writes nothing into the configuration.
LEMMA UndisturbedElsewhere ==
  ASSUME NEW t, NEW u, NEW d, NEW e, Steps(t, u), RunStep(t, d, u, e), Progress(t), WritesConfigs(t),
         NEW c \in Clients, Undisturbed(t, d, c), IsDisk(d), Acts(t, d, u) \/ Now(t).dest # Config(c),
         \/ \A p \in Homes : At(e, p) = At(d, p)
         \/ t.at \notin ConfigOps(t, c)
  PROVE  Undisturbed(u, e, c)
  <1> DEFINE n == Len(t.ops)
             a == t.at
  <1>1. n \in Nat /\ a \in Nat /\ SameOps(t.ops, u.ops) /\ u.before = t.before
        /\ \A i \in 1..n : t.ops[i] \in Operations
    BY RunningFacts DEF Steps, Carries
  <1>2. Config(c) \in Homes
    BY NameFacts
  <1>3. At(e, Config(c)) = At(d, Config(c))
    <2>1. CASE a \notin ConfigOps(t, c)
      <3>1. t.phase \in {"move", "publish", "displace", "restore"} => t.ops[t.at].dest # Config(c)
        BY <2>1, AtAnOperation DEF ConfigOps, Steps
      <3> QED
        BY <1>2, <3>1, StateStays
    <2> QED
      BY <1>2, <2>1
  <1>4. ASSUME NEW j \in ConfigOps(t, c)
        PROVE  u.ops[j].moved = t.ops[j].moved /\ u.ops[j].published = t.ops[j].published
    <2>1. j \in 1..n
      BY <1>4 DEF ConfigOps
    <2>2. CASE SameFlags(t, u)
      BY <2>1, <2>2 DEF SameFlags
    <2>3. CASE ~SameFlags(t, u)
      <3>1. /\ t.phase \in {"move", "publish", "displace", "restore"}
            /\ \A i \in 1..n : i # a =>
                 u.ops[i].moved = t.ops[i].moved /\ u.ops[i].published = t.ops[i].published
        BY <2>3, FlagsElsewhere
      <3>2. CASE j # a
        BY <2>1, <3>1, <3>2
      <3>3. CASE j = a
        <4>1. \A p \in Homes : At(e, p) = At(d, p)
          BY <1>4, <3>3
        <4>2. a \in 1..n /\ Now(t).dest = Config(c) /\ Config(c) \notin AsideNames /\ Config(c) \notin StageNames
              /\ Config(c) \notin DisplacedNames
          BY <1>2, <1>4, <3>3, NameFacts DEF ConfigOps, Now, ArtifactNames, Homes
        <4>3. At(d, Config(c)) = At(e, Config(c))
          BY <1>2, <4>1
        <4>4. Aside(a) # Config(c) /\ Stage(a) # Config(c) /\ Displaced(a) # Config(c)
          BY <1>1, <4>2 DEF AsideNames, StageNames, DisplacedNames
        <4>5. \A p : p \in DOMAIN d <=> At(d, p) # None
          BY AtFacts
        <4>6. Now(t).published => Now(t).staged # None
          BY <4>2 DEF Progress, Now
        <4>7. ~MoveStep(t, d, u, e) /\ ~DisplaceStep(t, d, u, e)
          BY <4>2, <4>3, <4>4, <4>5 DEF MoveStep, DisplaceStep, Renames
        <4>8. ~PublishStep(t, d, u, e) /\ ~RestoreStep(t, d, u, e)
          BY <4>2, <4>3, <4>4, <4>5 DEF PublishStep, RestoreStep, Renames
        <4> QED
          BY <2>3, <4>7, <4>8 DEF RunStep, TakeStep, StopStep, VerifyStep, FinishStep, UndoStep, DiscardStep,
             GiveUpStep, GivesUpNow, CleanStep
      <3> QED
        BY <3>2, <3>3
    <2> QED
      BY <2>2, <2>3
  <1>5. \A j \in ConfigOps(t, c) : Reached(u, j) => Reached(t, j)
    BY ReachedShrinks DEF ConfigOps
  <1>6. \/ At(d, Config(c)) = None
        \/ At(d, Config(c)).bytes \in OtherBytes
        \/ \A j \in ConfigOps(t, c) : t.ops[j].published => (Due(u, j) <=> Due(t, j))
    <2>1. SUFFICES ASSUME At(d, Config(c)) # None, At(d, Config(c)).bytes \notin OtherBytes,
                          NEW j \in ConfigOps(t, c), t.ops[j].published
                   PROVE  Due(u, j) <=> Due(t, j)
      OBVIOUS
    <2>2. j \in 1..n /\ t.ops[j].dest = Config(c)
      BY DEF ConfigOps
    <2>3. CASE j # a \/ Onward(t)
      BY <2>2, <2>3, DueSame
    <2>4. CASE j = a /\ ~Onward(t)
      <3>1. Now(t) = t.ops[j] /\ Now(t).published /\ Now(t).staged \in ConfigFiles /\ Now(t).dest = Config(c)
        BY <2>1, <2>2, <2>4 DEF Now, WritesConfigs
      <3>2. t.phase \notin {"restore", "discard"}
        BY <2>1, <2>4 DEF Progress, Active
      <3>8. ASSUME t.phase \in {"undo", "displace"} PROVE Holds(d, Now(t).dest, Now(t).staged)
        <4>1. Due(t, a)
          BY <1>1, <3>8 DEF Due, Pending
        <4>2. At(d, Config(c)) = t.ops[a].staged
          <5>1. CASE \A i \in ConfigOps(t, c) : t.ops[i].published => ~Due(t, i)
            BY <2>1, <2>4, <4>1, <5>1
          <5>2. ASSUME NEW i \in ConfigOps(t, c), At(d, Config(c)) = t.ops[i].staged, Due(t, i),
                       \A k \in ConfigOps(t, c) : k > i /\ t.ops[k].published => ~Due(t, k)
                PROVE  At(d, Config(c)) = t.ops[a].staged
            <6>1. i \in Nat /\ i <= a
              BY <1>1, <2>4, <3>8, <5>2 DEF ConfigOps, Due, Pending
            <6>2. ~(a > i)
              BY <2>1, <2>4, <4>1, <5>2
            <6>3. i = a
              BY <1>1, <6>1, <6>2
            <6> QED
              BY <5>2, <6>3
          <5> QED
            BY <2>1, <5>1, <5>2 DEF Undisturbed, Left
        <4> QED
          BY <2>1, <2>4, <3>1, <4>2, AtFacts
      <3>3. CASE UndoStep(t, d, u, e)
        <4>1. Due(t, a)
          BY <1>1, <3>3 DEF UndoStep, Due, Pending
        <4>3. Holds(d, Now(t).dest, Now(t).staged)
          BY <3>3, <3>8 DEF UndoStep
        <4>4. Stays(t, u, "displace")
          BY <3>1, <3>3, <4>3 DEF UndoStep, Active
        <4> QED
          BY <1>1, <2>4, <3>3, <4>1, <4>4 DEF Due, Pending, Stays
      <3>4. CASE GiveUpStep(t, d, u, e)
        <4>1. /\ t.phase \in {"undo", "displace"} /\ SameFlags(t, u) /\ GivesUp(t, u)
              /\ t.phase = "undo" => t.at > 0
          BY <3>2, <3>4 DEF GiveUpStep, GivesUpNow
        <4>2. u.ops[a].published
          BY <2>2, <2>4, <3>1, <4>1 DEF SameFlags
        <4> QED
          BY <3>1, <3>8, <4>1, <4>2 DEF Acts
      <3>5. CASE DisplaceStep(t, d, u, e)
        <4>1. \A p \in Homes : At(e, p) = At(d, p)
          BY <2>1, <2>4
        <4>2. Displaced(a) # Config(c)
          BY <1>1, <1>2, NameFacts
        <4> QED
          BY <1>2, <2>1, <3>1, <3>5, <4>1, <4>2 DEF DisplaceStep, Renames
      <3>6. \/ UndoStep(t, d, u, e) \/ DisplaceStep(t, d, u, e) \/ RestoreStep(t, d, u, e)
            \/ DiscardStep(t, d, u, e) \/ GiveUpStep(t, d, u, e) \/ CleanStep(t, d, u, e)
        BY <2>4 DEF Onward, Forwards, RunStep, TakeStep, StopStep, MoveStep, PublishStep, VerifyStep, FinishStep
      <3>7. ~CleanStep(t, d, u, e)
        BY <1>1, <2>2, <2>4 DEF CleanStep
      <3> QED
        BY <3>2, <3>3, <3>4, <3>5, <3>6, <3>7 DEF RestoreStep, DiscardStep
    <2> QED
      BY <2>3, <2>4
  <1> QED
    BY <1>1, <1>3, <1>4, <1>5, <1>6, UndisturbedKept

LEMMA QuietOrRenames ==
  ASSUME NEW t, NEW u, NEW d, NEW e, Steps(t, u), RunStep(t, d, u, e)
  PROVE  \/ \A p \in Homes : At(e, p) = At(d, p)
         \/ MoveStep(t, d, u, e) \/ PublishStep(t, d, u, e)
         \/ DisplaceStep(t, d, u, e) \/ RestoreStep(t, d, u, e)
  <1>1. CASE t.phase \notin {"move", "publish", "displace", "restore"}
    BY <1>1, StateStays
  <1>2. CASE t.phase \in {"move", "publish", "displace", "restore"}
    BY <1>2 DEF RunStep, TakeStep, StopStep, VerifyStep, FinishStep, UndoStep, DiscardStep, GiveUpStep, CleanStep
  <1> QED
    BY <1>1, <1>2

LEMMA UndisturbedPublish ==
  ASSUME NEW t, NEW u, NEW d, NEW e, NEW sp, Steps(t, u), PublishStep(t, d, u, e), Progress(t),
         Stages(t, d, sp), WritesConfigs(t), IsDisk(d), NEW c \in Clients, t.at \in ConfigOps(t, c)
  PROVE  Undisturbed(u, e, c)
  <1> DEFINE n == Len(t.ops)
             a == t.at
  <1>1. n \in Nat /\ a \in Nat /\ SameOps(t.ops, u.ops) /\ u.before = t.before /\ Config(c) \in Homes
    BY RunningFacts, NameFacts DEF Steps, Carries
  <1>2. a \in 1..n /\ Now(t).dest = Config(c) /\ Now(t) = t.ops[a] /\ t.phase = "publish"
    BY DEF ConfigOps, Now, PublishStep
  <1>3. ConfigOps(u, c) = ConfigOps(t, c) /\ ConfigOps(t, c) \subseteq 1..n
        /\ \A j \in ConfigOps(t, c) : u.ops[j].staged = t.ops[j].staged
    BY <1>1 DEF ConfigOps, SameOps
  <1>4. u.ops[a].published /\ \A j \in 1..n : j # a => /\ u.ops[j].moved = t.ops[j].moved
                                                       /\ u.ops[j].published = t.ops[j].published
    BY <1>2 DEF PublishStep, Reflags
  <1>5. \A j \in ConfigOps(t, c) : (j < a => u.ops[j].published) /\ (j > a => ~u.ops[j].published /\ ~u.ops[j].moved)
    <2>1. SUFFICES ASSUME NEW j \in ConfigOps(t, c)
                   PROVE  (j < a => u.ops[j].published) /\ (j > a => ~u.ops[j].published /\ ~u.ops[j].moved)
      OBVIOUS
    <2>2. j \in 1..n /\ t.ops[j].staged # None
      BY <1>3, ConfigFileFacts DEF WritesConfigs
    <2>3. (j < a => Done(t.ops[j])) /\ (j > a => ~Active(t.ops[j]))
      BY <1>2, <2>2 DEF Progress
    <2> QED
      BY <1>1, <1>4, <2>2, <2>3 DEF Done, Active
  <1>6. At(e, Config(c)) = At(d, Stage(a)) /\ At(d, Stage(a)) # None
    <2>1. Stage(a) \in DOMAIN d /\ Renames(d, e, Stage(a), Config(c))
      BY <1>2 DEF PublishStep, Renames
    <2>2. ShowsPublish(d, e, Config(c), a)
      BY <1>1, <2>1, PublishShows
    <2>3. At(d, Stage(a)) # None
      BY <2>1, AtFacts
    <2> QED
      BY <1>1, <2>2, <2>3 DEF ShowsPublish
  <1>7. Left(u, e, c)
    <2>1. CASE At(d, Stage(a)).bytes \in OtherBytes
      BY <1>6, <2>1 DEF Left
    <2>2. CASE At(d, Stage(a)) = t.ops[a].staged
      <3>1. RunStep(t, d, u, e) /\ Onward(t)
        BY <1>2 DEF RunStep, Onward, Forwards
      <3>2. Due(u, a)
        BY <1>2, <3>1, DueSame DEF Due
      <3>3. \A i \in ConfigOps(t, c) : i > a => ~u.ops[i].published
        BY <1>5
      <3> QED
        BY <1>3, <1>4, <1>6, <2>2, <3>2, <3>3 DEF Left
    <2> QED
      BY <1>2, <1>6, <2>1, <2>2 DEF Stages
  <1>8. \A j \in ConfigOps(u, c) : u.ops[j].moved => u.ops[j].published
    <2>1. SUFFICES ASSUME NEW j \in ConfigOps(u, c), u.ops[j].moved PROVE u.ops[j].published
      OBVIOUS
    <2>2. j \in Nat /\ j \in ConfigOps(t, c)
      BY <1>3
    <2>3. j = a \/ j < a \/ j > a
      BY <1>1, <2>2
    <2> QED
      BY <1>4, <1>5, <2>1, <2>2, <2>3
  <1> QED
    BY <1>7, <1>8 DEF Undisturbed

LEMMA UndisturbedRestore ==
  ASSUME NEW t, NEW u, NEW d, NEW e, Steps(t, u), RestoreStep(t, d, u, e), Progress(t),
         PlanPriors(t.before, t.ops), WritesConfigs(t), NEW c \in Clients, t.at \in ConfigOps(t, c)
  PROVE  Undisturbed(u, e, c)
  <1> DEFINE n == Len(t.ops)
             a == t.at
             K == ConfigOps(t, c)
  <1>1. n \in Nat /\ a \in Nat /\ SameOps(t.ops, u.ops) /\ u.before = t.before /\ Config(c) \in Homes
        /\ u.at \in Nat
    BY RunningFacts, NameFacts DEF Steps, Carries
  <1>2. a \in 1..n /\ Now(t).dest = Config(c) /\ Now(t) = t.ops[a] /\ t.phase = "restore"
    BY DEF ConfigOps, Now, RestoreStep
  <1>3. ConfigOps(u, c) = K /\ K \subseteq 1..n /\ \A j \in K : u.ops[j].staged = t.ops[j].staged
    BY <1>1 DEF ConfigOps, SameOps
  <1>4. t.ops[a].moved /\ ~t.ops[a].published /\ ~u.ops[a].published
        /\ \A j \in 1..n : j # a => /\ u.ops[j].moved = t.ops[j].moved
                                    /\ u.ops[j].published = t.ops[j].published
    BY <1>2 DEF RestoreStep, Reflags, SameFlags, Progress
  <1>5. \A j \in K : j < a => Done(t.ops[j]) /\ u.ops[j].published
    <2>1. SUFFICES ASSUME NEW j \in K, j < a PROVE Done(t.ops[j]) /\ u.ops[j].published
      OBVIOUS
    <2>2. j \in 1..n /\ t.ops[j].staged # None
      BY <1>3, <2>1, ConfigFileFacts DEF WritesConfigs
    <2>3. Done(t.ops[j])
      BY <1>1, <1>2, <1>4, <2>1, <2>2 DEF Progress, Onward, Forwards, Active
    <2> QED
      BY <1>1, <1>4, <2>1, <2>2, <2>3 DEF Done
  <1>6. \/ u.phase = "discard" /\ u.at = a
        \/ u.phase = "undo" /\ u.at = a - 1
    BY <1>2 DEF RestoreStep, Stays, Descends, GivesUp
  <1>7. \A i \in K : i > a => ~Due(u, i) /\ ~Reached(u, i)
    BY <1>1, <1>3, <1>6 DEF Due, Reached, Pending, Onward, Forwards
  <1>8. At(e, Config(c)) = t.ops[a].prior
    <2>1. Renames(d, e, Aside(a), Config(c)) /\ At(d, Aside(a)) = t.ops[a].prior
      BY <1>2 DEF RestoreStep
    <2>2. ShowsRestore(d, e, Config(c), a)
      BY <1>1, <2>1, RestoreShows
    <2> QED
      BY <1>1, <2>1, <2>2 DEF ShowsRestore
  <1>9. PriorFollows(t.before, t.ops, a)
    BY <1>1, <1>2, PriorsHold
  <1>10. Left(u, e, c)
    <2>1. CASE \A j \in K : ~(j < a)
      <3>1. At(e, Config(c)) = At(t.before, Config(c))
        BY <1>2, <1>8, <1>9, <2>1 DEF PriorFollows, ConfigOps
      <3>2. \A i \in K : u.ops[i].published => ~Due(u, i)
        <4>1. SUFFICES ASSUME NEW i \in K, u.ops[i].published PROVE ~Due(u, i)
          OBVIOUS
        <4>2. i > a
          BY <1>1, <1>3, <1>4, <2>1, <4>1
        <4> QED
          BY <1>7, <4>2
      <3> QED
        BY <1>1, <1>3, <3>1, <3>2 DEF Left
    <2>2. CASE ~(\A j \in K : ~(j < a))
      <3> DEFINE D == {j \in K : j < a}
      <3>1. D \in SUBSET Nat /\ D # {} /\ \A j \in D : j <= n
        BY <1>1, <1>3, <2>2
      <3>2. PICK j \in D : \A i \in D : i <= j
        BY <1>1, <3>1, FiniteSetHasMaximum
      <3>3. j \in K /\ j \in 1..n /\ j < a /\ u.ops[j].published
        BY <1>3, <1>5, <3>2
      <3>4. \A k \in 1..n : j < k /\ k < a => t.ops[k].dest # t.ops[a].dest
        <4>1. SUFFICES ASSUME NEW k \in 1..n, j < k, k < a, t.ops[k].dest = t.ops[a].dest PROVE FALSE
          OBVIOUS
        <4>2. k \in D
          BY <1>2, <4>1 DEF ConfigOps
        <4> QED
          BY <1>1, <3>2, <3>3, <4>1, <4>2
      <3>5. At(e, Config(c)) = t.ops[j].staged
        BY <1>2, <1>8, <1>9, <3>3, <3>4 DEF PriorFollows, ConfigOps
      <3>6. Due(u, j)
        BY <1>1, <1>6, <3>3 DEF Due, Pending
      <3>7. \A i \in K : i > j /\ u.ops[i].published => ~Due(u, i)
        <4>1. SUFFICES ASSUME NEW i \in K, i > j, u.ops[i].published PROVE ~Due(u, i)
          OBVIOUS
        <4>2. i \in 1..n /\ i # a /\ t.ops[i].dest = t.ops[a].dest
          BY <1>2, <1>3, <1>4, <4>1 DEF ConfigOps
        <4>3. i > a
          BY <1>1, <3>3, <3>4, <4>1, <4>2
        <4> QED
          BY <1>7, <4>3
      <3> QED
        BY <1>3, <3>3, <3>5, <3>6, <3>7 DEF Left
    <2> QED
      BY <2>1, <2>2
  <1>11. \A j \in ConfigOps(u, c) : ~(u.ops[j].moved /\ ~u.ops[j].published /\ Reached(u, j))
    <2>1. SUFFICES ASSUME NEW j \in K, u.ops[j].moved, ~u.ops[j].published, Reached(u, j) PROVE FALSE
      BY <1>3
    <2>2. j = a
      BY <1>1, <1>3, <1>5, <1>7, <2>1
    <2>3. SameFlags(t, u) /\ GivesUp(t, u)
      BY <1>2, <2>1, <2>2 DEF RestoreStep, Reflags
    <2> QED
      BY <1>1, <2>1, <2>2, <2>3 DEF GivesUp, Reached, Onward, Forwards
  <1> QED
    BY <1>10, <1>11 DEF Undisturbed

\* As long as nobody else writes it, a configuration is the last one staged,
\* or the file of before, or it is aside.
LEMMA UndisturbedStep ==
  ASSUME NEW t, NEW u, NEW d, NEW e, NEW sp, Steps(t, u), RunStep(t, d, u, e), Progress(t),
         Stages(t, d, sp), PlanPriors(t.before, t.ops), WritesConfigs(t), IsDisk(d),
         NEW c \in Clients, Undisturbed(t, d, c), Acts(t, d, u) \/ Now(t).dest # Config(c)
  PROVE  Undisturbed(u, e, c)
  <1>1. CASE (\A p \in Homes : At(e, p) = At(d, p)) \/ t.at \notin ConfigOps(t, c)
    BY <1>1, UndisturbedElsewhere
  <1>2. CASE t.at \in ConfigOps(t, c) /\ (MoveStep(t, d, u, e) \/ DisplaceStep(t, d, u, e))
    <2>1. Config(c) \in Homes /\ Now(t).dest = Config(c)
      BY <1>2, NameFacts DEF ConfigOps, Now
    <2>2. At(e, Config(c)) = None
      <3>1. CASE MoveStep(t, d, u, e)
        <4>1. ShowsMove(d, e, Config(c), t.at)
          BY <2>1, <3>1, MoveShows DEF MoveStep
        <4> QED
          BY <2>1, <4>1 DEF ShowsMove
      <3>2. CASE DisplaceStep(t, d, u, e)
        <4>1. ShowsDisplace(d, e, Config(c), t.at)
          BY <2>1, <3>2, DisplaceShows DEF DisplaceStep
        <4> QED
          BY <2>1, <4>1 DEF ShowsDisplace
      <3> QED
        BY <1>2, <3>1, <3>2
    <2> QED
      BY <2>2 DEF Undisturbed, Left
  <1> QED
    BY <1>1, <1>2, QuietOrRenames, UndisturbedPublish, UndisturbedRestore

-----------------------------------------------------------------------------
(* A configuration that others wrote meanwhile.                            *)

\* Someone else wrote c's configuration: b, which no file of the command is.
\* While there is none, none will be put back.
Disturbed(t, d, c, b) ==
  /\ At(d, Config(c)) # None => At(d, Config(c)).bytes = b /\ Foreign(t, c, b)
  /\ At(d, Config(c)) = None =>
       /\ ~(t.phase = "publish" /\ Now(t).dest = Config(c))
       /\ \A j \in ConfigOps(t, c) :
            t.ops[j].moved /\ ~t.ops[j].published /\ Reached(t, j) => At(d, Aside(j)) # t.ops[j].prior

LEMMA DisturbedElsewhere ==
  ASSUME NEW t, NEW u, NEW d, NEW e, NEW b, Steps(t, u), RunStep(t, d, u, e), Progress(t), WritesConfigs(t),
         NEW c \in Clients, Disturbed(t, d, c, b),
         \/ ~(MoveStep(t, d, u, e) \/ PublishStep(t, d, u, e)
                \/ DisplaceStep(t, d, u, e) \/ RestoreStep(t, d, u, e))
         \/ t.at \notin ConfigOps(t, c)
  PROVE  Disturbed(u, e, c, b)
  <1> DEFINE n == Len(t.ops)
             a == t.at
  <1>1. n \in Nat /\ a \in Nat /\ SameOps(t.ops, u.ops) /\ u.before = t.before /\ Config(c) \in Homes
    BY RunningFacts, NameFacts DEF Steps, Carries
  <1>2. ConfigOps(u, c) = ConfigOps(t, c) /\ ConfigOps(t, c) \subseteq 1..n
        /\ \A j \in ConfigOps(t, c) : /\ u.ops[j].staged = t.ops[j].staged
                                      /\ u.ops[j].prior = t.ops[j].prior
                                      /\ t.ops[j].prior # None
    BY <1>1, ConfigFileFacts DEF ConfigOps, SameOps, WritesConfigs
  <1>3. At(e, Config(c)) = At(d, Config(c))
    <2>1. CASE a \notin ConfigOps(t, c)
      <3>1. t.phase \in {"move", "publish", "displace", "restore"} => t.ops[t.at].dest # Config(c)
        BY <2>1, AtAnOperation DEF ConfigOps, Steps
      <3> QED
        BY <1>1, <3>1, StateStays
    <2>2. CASE ~(MoveStep(t, d, u, e) \/ PublishStep(t, d, u, e)
                  \/ DisplaceStep(t, d, u, e) \/ RestoreStep(t, d, u, e))
      BY <1>1, <2>2, QuietOrRenames
    <2> QED
      BY <2>1, <2>2
  <1>4. ASSUME NEW j \in ConfigOps(t, c)
        PROVE  u.ops[j].moved = t.ops[j].moved /\ u.ops[j].published = t.ops[j].published
    <2>1. j \in 1..n
      BY <1>2
    <2>2. CASE SameFlags(t, u)
      BY <2>1, <2>2 DEF SameFlags
    <2>3. CASE a \notin ConfigOps(t, c)
      BY <2>1, <2>3, FlagsElsewhere DEF SameFlags
    <2>4. CASE ~(MoveStep(t, d, u, e) \/ PublishStep(t, d, u, e)
                  \/ DisplaceStep(t, d, u, e) \/ RestoreStep(t, d, u, e))
      <3>1. SameFlags(t, u)
        BY <2>4 DEF RunStep, TakeStep, StopStep, VerifyStep, FinishStep, UndoStep, DiscardStep, GiveUpStep,
           GivesUpNow, CleanStep
      <3> QED
        BY <2>2, <3>1
    <2> QED
      BY <2>3, <2>4
  <1>5. \A j \in ConfigOps(t, c) : Reached(u, j) => Reached(t, j)
    BY <1>2, ReachedShrinks
  <1>6. ASSUME NEW j \in ConfigOps(t, c) PROVE At(e, Aside(j)) \in {None, At(d, Aside(j))}
    <2>0. j \in Nat
      BY <1>1, <1>2
    <2>1. CASE MoveStep(t, d, u, e)
      <3>1. Renames(d, e, Now(t).dest, Aside(a)) /\ j # a
        BY <1>6, <2>1 DEF MoveStep
      <3>2. Aside(j) # Aside(a)
        BY <3>1, NameFacts
      <3> QED
        BY <3>1, <3>2 DEF Renames
    <2>2. CASE PublishStep(t, d, u, e)
      <3>1. Renames(d, e, Stage(a), Now(t).dest) /\ Now(t).dest \in Homes
        BY <2>2, AtAnOperation DEF PublishStep, Steps
      <3>2. ShowsPublish(d, e, Now(t).dest, a)
        BY <3>1, PublishShows
      <3> QED
        BY <3>2 DEF ShowsPublish
    <2>3. CASE DisplaceStep(t, d, u, e)
      <3>1. Renames(d, e, Now(t).dest, Displaced(a)) /\ Now(t).dest \in Homes
        BY <2>3, AtAnOperation DEF DisplaceStep, Steps
      <3>2. ShowsDisplace(d, e, Now(t).dest, a)
        BY <3>1, DisplaceShows
      <3> QED
        BY <3>2 DEF ShowsDisplace
    <2>4. CASE RestoreStep(t, d, u, e)
      <3>1. Renames(d, e, Aside(a), Now(t).dest) /\ Now(t).dest \in Homes
        BY <2>4, AtAnOperation DEF RestoreStep, Steps
      <3>2. ShowsRestore(d, e, Now(t).dest, a)
        BY <3>1, RestoreShows
      <3> QED
        BY <3>2 DEF ShowsRestore
    <2>5. CASE e = d
      BY <2>5
    <2>6. CASE \E S : Removes(d, e, S)
      BY <2>6 DEF Removes
    <2>7. \/ e = d \/ MoveStep(t, d, u, e) \/ PublishStep(t, d, u, e) \/ DisplaceStep(t, d, u, e)
          \/ RestoreStep(t, d, u, e) \/ \E S : Removes(d, e, S)
      BY DEF RunStep, TakeStep, StopStep, VerifyStep, FinishStep, UndoStep, DiscardStep, GiveUpStep,
         CleanStep
    <2> QED
      BY <2>1, <2>2, <2>3, <2>4, <2>5, <2>6, <2>7
  <1>7. At(e, Config(c)) # None => At(e, Config(c)).bytes = b /\ Foreign(u, c, b)
    BY <1>1, <1>3, ForeignKept DEF Disturbed
  <1>8. ASSUME At(d, Config(c)) = None, u.phase = "publish", Now(u).dest = Config(c) PROVE FALSE
    <2>1. u.at \in 1..n /\ u.at \in ConfigOps(t, c)
      <3>1. u.at \in 1..Len(u.ops)
        BY <1>8, AtAnOperation DEF Steps
      <3> QED
        BY <1>1, <1>2, <1>8, <3>1 DEF ConfigOps, Now, SameOps
    <2>2. \/ TakeStep(t, d, u, e) /\ Now(t).prior = None /\ u.at = a
          \/ MoveStep(t, d, u, e) /\ u.at = a
      BY <1>8 DEF RunStep, TakeStep, StopStep, MoveStep, PublishStep, VerifyStep, FinishStep, UndoStep, DisplaceStep,
         RestoreStep, DiscardStep, GiveUpStep, GivesUpNow, CleanStep, Fails, Stays, Proceeds, Descends, GivesUp
    <2>3. a \in ConfigOps(t, c) /\ Now(t).prior # None
      BY <1>2, <2>1, <2>2 DEF Now
    <2> QED
      BY <2>2, <2>3
  <1>9. ASSUME At(d, Config(c)) = None, NEW j \in ConfigOps(t, c), u.ops[j].moved, ~u.ops[j].published, Reached(u, j)
        PROVE  At(e, Aside(j)) # u.ops[j].prior
    <2>1. At(d, Aside(j)) # t.ops[j].prior
      BY <1>4, <1>5, <1>9 DEF Disturbed
    <2> QED
      BY <1>2, <1>6, <2>1
  <1> QED
    BY <1>2, <1>3, <1>7, <1>8, <1>9 DEF Disturbed

\* What others wrote is taken for no file of the command, and stays.
LEMMA DisturbedStep ==
  ASSUME NEW t, NEW u, NEW d, NEW e, NEW b, Steps(t, u), RunStep(t, d, u, e), Progress(t), WritesConfigs(t),
         IsDisk(d), NEW c \in Clients, Disturbed(t, d, c, b)
  PROVE  Disturbed(u, e, c, b)
  <1> DEFINE n == Len(t.ops)
             a == t.at
  <1>1. CASE \/ ~(MoveStep(t, d, u, e) \/ PublishStep(t, d, u, e)
                    \/ DisplaceStep(t, d, u, e) \/ RestoreStep(t, d, u, e))
             \/ a \notin ConfigOps(t, c)
    BY <1>1, DisturbedElsewhere
  <1>2. CASE a \in ConfigOps(t, c)
    <2>1. n \in Nat /\ a \in 1..n /\ Now(t) = t.ops[a] /\ Now(t).dest = Config(c) /\ Config(c) \in Homes
          /\ SameOps(t.ops, u.ops) /\ Now(t).staged # None /\ Now(t).prior # None
      BY <1>2, RunningFacts, NameFacts, ConfigFileFacts DEF Steps, Carries, ConfigOps, Now, WritesConfigs
    <2>2. ConfigOps(u, c) = ConfigOps(t, c) /\ ConfigOps(t, c) \subseteq 1..n
          /\ \A j \in ConfigOps(t, c) : t.ops[j].staged # None /\ u.ops[j].prior = t.ops[j].prior
      BY <2>1, ConfigFileFacts DEF ConfigOps, SameOps, WritesConfigs
    <2>3. At(d, Config(c)) # None => At(d, Config(c)) # Now(t).prior /\ At(d, Config(c)) # Now(t).staged
      BY <2>1 DEF Disturbed, Foreign
    <2>4. Config(c) \in DOMAIN d <=> At(d, Config(c)) # None
      BY AtFacts
    <2>5. CASE MoveStep(t, d, u, e)
      <3>1. At(d, Config(c)) # None
        BY <2>1, <2>4, <2>5 DEF MoveStep, Renames
      <3>2. Fails(t, u) /\ Reflags(t, u, TRUE, Now(t).published)
        BY <2>1, <2>3, <2>5, <3>1 DEF MoveStep
      <3>3. ShowsMove(d, e, Config(c), a)
        BY <2>1, <2>5, MoveShows DEF MoveStep
      <3>4. At(e, Config(c)) = None /\ At(e, Aside(a)) = At(d, Config(c))
        BY <2>1, <3>3 DEF ShowsMove
      <3>5. ASSUME NEW j \in ConfigOps(t, c), u.ops[j].moved, ~u.ops[j].published PROVE j = a
        <4>1. j \in 1..n /\ (j # a => t.ops[j].moved /\ ~t.ops[j].published)
          BY <2>2, <3>2, <3>5 DEF Reflags
        <4>2. (j < a => Done(t.ops[j])) /\ (j > a => ~Active(t.ops[j]))
          BY <2>5, <4>1 DEF Progress, MoveStep
        <4>3. ~(j < a) /\ ~(j > a)
          <5>1. j # a => ~Done(t.ops[j]) /\ Active(t.ops[j])
            BY <2>2, <4>1 DEF Done, Active
          <5> QED
            BY <2>1, <4>1, <4>2, <5>1
        <4> QED
          BY <2>1, <4>1, <4>3
      <3> QED
        BY <2>1, <2>2, <2>3, <3>1, <3>2, <3>4, <3>5 DEF Disturbed, Fails
    <2>6. CASE PublishStep(t, d, u, e)
      BY <2>1, <2>6 DEF PublishStep, Disturbed
    <2>7. CASE DisplaceStep(t, d, u, e)
      <3>1. At(d, Config(c)) # None
        BY <2>1, <2>4, <2>7 DEF DisplaceStep, Renames
      <3>2. SameFlags(t, u) /\ GivesUp(t, u)
        BY <2>1, <2>3, <2>7, <3>1 DEF DisplaceStep
      <3>3. ShowsDisplace(d, e, Config(c), a)
        BY <2>1, <2>7, DisplaceShows DEF DisplaceStep
      <3>4. At(e, Config(c)) = None
        BY <2>1, <3>3 DEF ShowsDisplace
      <3>5. ASSUME NEW j \in ConfigOps(t, c), u.ops[j].moved, ~u.ops[j].published, Reached(u, j) PROVE FALSE
        <4>1. j \in 1..n /\ t.ops[j].moved /\ ~t.ops[j].published
          BY <2>2, <3>2, <3>5 DEF SameFlags
        <4>2. j < a
          BY <2>1, <3>2, <3>5, <4>1 DEF GivesUp, Reached, Onward, Forwards
        <4>3. Done(t.ops[j])
          BY <2>1, <2>7, <4>1, <4>2 DEF Progress, DisplaceStep, Onward, Forwards, Active
        <4> QED
          BY <2>2, <4>1, <4>3 DEF Done
      <3> QED
        BY <2>2, <3>2, <3>4, <3>5 DEF Disturbed, GivesUp
    <2>8. CASE RestoreStep(t, d, u, e)
      <3>1. At(d, Config(c)) = None /\ At(d, Aside(a)) = t.ops[a].prior /\ t.phase = "restore"
        BY <2>1, <2>8 DEF RestoreStep
      <3>2. t.ops[a].moved /\ ~t.ops[a].published /\ Reached(t, a)
        BY <2>1, <3>1 DEF Progress, Reached
      <3> QED
        BY <1>2, <3>1, <3>2 DEF Disturbed
    <2> QED
      BY <1>1, <2>5, <2>6, <2>7, <2>8
  <1> QED
    BY <1>1, <1>2

-----------------------------------------------------------------------------
(* Where the ledgers are.                                                  *)

GoodLedger(f) == f = None \/ Readable(f.bytes)

\* Where the ledgers are, as the operation s on the ledger says.
LedgerPlace(t, d, s) ==
  LET o == t.ops[s] IN
  /\ ~Active(o) => At(d, State) = At(t.before, State)
  /\ o.published => At(d, State) = o.staged
  /\ o.moved /\ ~o.published => At(d, State) = None
  /\ o.moved /\ t.phase \notin Over => At(d, Aside(s)) = o.prior
  /\ ~Onward(t) /\ Active(o) => s <= t.at
  /\ ~o.published /\ o.staged # None /\ Onward(t) => At(d, Stage(s)) = o.staged

LedgerTracked(t, d) ==
  /\ GoodLedger(At(t.before, State))
  /\ t.ops = <<>> => At(d, State) = At(t.before, State)
  /\ \A s \in 1..Len(t.ops) : t.ops[s].dest = State => LedgerPlace(t, d, s) /\ GoodLedger(t.ops[s].staged)

LEMMA WorksAct ==
  ASSUME TypeInv, Works
  PROVE  Acts(tx, disk, tx')
  <1>1. tx \in Transactions /\ Running1(tx) /\ IsDisk(disk)
    BY WorkSteps, RunningFacts
  <1>2. CASE tx.phase = "displace"
    <2>1. tx.at \in 1..Len(tx.ops) /\ Now(tx) = Op
      BY <1>2, AtWork, WorkSteps
    <2>2. ASSUME Holds(disk, Now(tx).dest, Now(tx).staged) PROVE tx'.ops[tx.at].published = FALSE
      <3>1. Displace
        BY <1>2 DEF Works, Take, Move, Publish, VerifyCommitted, Finish, Undo, Restore, Discard, Clean
      <3>2. Op.dest \in DOMAIN disk /\ disk[Op.dest] = Op.staged
        BY <2>1, <2>2 DEF Holds
      <3>3. tx' = [Flagged("published", FALSE) EXCEPT !.phase = IF Op.moved THEN "restore" ELSE "discard"]
        BY <3>1, <3>2 DEF Displace
      <3> DEFINE m == Flagged("published", FALSE)
                 ph == IF Op.moved THEN "restore" ELSE "discard"
      <3>4. m \in Transactions /\ m.ops[tx.at].published = FALSE
        BY <1>1, <2>1, FlaggedFacts DEF Carries, Reflags
      <3>5. tx' = [m EXCEPT !.phase = ph] /\ ph \in Phases
        BY <3>3 DEF Phases, Backwards
      <3> HIDE DEF m, ph
      <3>6. tx'.ops = m.ops
        BY <3>4, <3>5, GoesFacts
      <3> QED
        BY <3>4, <3>6
    <2> QED
      BY <1>2, <2>2 DEF Acts
  <1>3. CASE tx.phase = "restore"
    <2>1. tx.at \in 1..Len(tx.ops) /\ Now(tx) = Op
      BY <1>3, AtWork, WorkSteps
    <2>2. ASSUME Holds(disk, Aside(tx.at), Now(tx).prior), At(disk, Now(tx).dest) = None
          PROVE  tx'.ops[tx.at].moved = FALSE
      <3>1. Restore
        BY <1>3 DEF Works, Take, Move, Publish, VerifyCommitted, Finish, Undo, Displace, Discard, Clean
      <3>2. CanRestore
        BY <1>1, <2>1, <2>2, AtFacts DEF CanRestore
      <3> DEFINE m == Flagged("moved", FALSE)
      <3>3. tx' = IF Displaced(tx.at) \in DOMAIN disk THEN [m EXCEPT !.phase = "discard"] ELSE Below(m)
        BY <3>1, <3>2 DEF Restore
      <3>4. m \in Transactions /\ m.ops[tx.at].moved = FALSE /\ m.at = tx.at
        BY <1>1, <2>1, FlaggedFacts DEF Carries, Reflags, Stays
      <3> HIDE DEF m
      <3>5. "discard" \in Phases /\ m.at > 0
        BY <2>1, <3>4 DEF Phases, Backwards
      <3>6. [m EXCEPT !.phase = "discard"].ops = m.ops
        BY <3>4, <3>5, GoesFacts
      <3>7. Below(m).ops = m.ops
        BY <3>4, <3>5, BelowFacts
      <3> QED
        BY <3>3, <3>4, <3>6, <3>7
    <2> QED
      BY <1>3, <2>2 DEF Acts
  <1>4. ASSUME tx.phase = "undo", tx.at > 0, Now(tx).published, Holds(disk, Now(tx).dest, Now(tx).staged)
        PROVE  ~GivesUp(tx, tx')
    <2>1. Undo /\ Now(tx) = Op
      BY <1>4, AtWork, WorkSteps DEF Works, Take, Move, Publish, VerifyCommitted, Finish, Displace, Restore, Discard, Clean
    <2>2. tx' = Goto("displace")
      BY <1>4, <2>1 DEF Undo
    <2>3. tx'.phase = "displace"
      BY <1>1, <2>2 DEF Goto, Transactions
    <2> QED
      BY <2>3 DEF GivesUp
  <1> QED
    BY <1>2, <1>3, <1>4 DEF Acts

\* A rollback leaves a file it looks for on an error only.
LEMMA ErrsAct ==
  ASSUME TypeInv, Errs
  PROVE  Acts(tx, disk, tx') \/ Now(tx).dest \in abandoned'
  BY ErrsSteps DEF Acts, Undoing

LEMMA PlaceKept ==
  ASSUME NEW t, NEW u, NEW d, NEW e, NEW s, u.before = t.before, At(e, State) = At(d, State),
         u.ops[s] = t.ops[s] \/ /\ u.ops[s].staged = t.ops[s].staged /\ u.ops[s].prior = t.ops[s].prior
                                /\ u.ops[s].moved = t.ops[s].moved
                                /\ u.ops[s].published = t.ops[s].published,
         t.ops[s].moved /\ u.phase \notin Over => t.phase \notin Over /\ At(e, Aside(s)) = At(d, Aside(s)),
         ~Onward(u) /\ Active(t.ops[s]) => s <= u.at,
         ~t.ops[s].published /\ Onward(u) => Onward(t) /\ At(e, Stage(s)) = At(d, Stage(s)),
         LedgerPlace(t, d, s)
  PROVE  LedgerPlace(u, e, s)
  <1> DEFINE o == t.ops[s]
             w == u.ops[s]
  <1>1. /\ w.staged = o.staged /\ w.prior = o.prior /\ w.moved = o.moved /\ w.published = o.published
        /\ Active(w) <=> Active(o)
    BY DEF Active
  <1>2. /\ ~Active(o) => At(d, State) = At(t.before, State)
        /\ o.published => At(d, State) = o.staged
        /\ o.moved /\ ~o.published => At(d, State) = None
        /\ o.moved /\ t.phase \notin Over => At(d, Aside(s)) = o.prior
        /\ ~o.published /\ o.staged # None /\ Onward(t) => At(d, Stage(s)) = o.staged
    BY DEF LedgerPlace
  <1>3. /\ ~Active(w) => At(e, State) = At(u.before, State)
        /\ w.published => At(e, State) = w.staged
        /\ w.moved /\ ~w.published => At(e, State) = None
        /\ w.moved /\ u.phase \notin Over => At(e, Aside(s)) = w.prior
        /\ ~Onward(u) /\ Active(w) => s <= u.at
        /\ ~w.published /\ w.staged # None /\ Onward(u) => At(e, Stage(s)) = w.staged
    BY <1>1, <1>2
  <1> QED
    BY <1>3 DEF LedgerPlace

\* What a step leaves where it was.
LEMMA PlaceElsewhere ==
  ASSUME NEW t, NEW u, NEW d, NEW e, Steps(t, u), RunStep(t, d, u, e), Progress(t), IsDisk(d),
         NEW s \in 1..Len(t.ops), t.ops[s].dest = State, LedgerPlace(t, d, s),
         \/ ~(MoveStep(t, d, u, e) \/ PublishStep(t, d, u, e)
                \/ DisplaceStep(t, d, u, e) \/ RestoreStep(t, d, u, e))
         \/ t.at # s /\ t.ops[t.at].dest # State,
         ~Onward(u) /\ Active(t.ops[s]) => s <= u.at
  PROVE  LedgerPlace(u, e, s)
  <1> DEFINE n == Len(t.ops)
             a == t.at
  <1>1. n \in Nat /\ a \in Nat /\ SameOps(t.ops, u.ops) /\ u.before = t.before /\ State \in Homes /\ s \in Nat
    BY RunningFacts, NameFacts DEF Steps, Carries
  <1>2. u.ops[s].staged = t.ops[s].staged /\ u.ops[s].prior = t.ops[s].prior
    BY <1>1 DEF SameOps
  <1>3. SameFlags(t, u) \/ a # s
    BY DEF RunStep, TakeStep, StopStep, VerifyStep, FinishStep, UndoStep, DiscardStep, GiveUpStep,
       GivesUpNow, CleanStep
  <1>4. u.ops[s].moved = t.ops[s].moved /\ u.ops[s].published = t.ops[s].published
    BY <1>3, FlagsElsewhere DEF SameFlags
  <1>5. CASE MoveStep(t, d, u, e) \/ PublishStep(t, d, u, e) \/ DisplaceStep(t, d, u, e) \/ RestoreStep(t, d, u, e)
    <2>1. a # s /\ Now(t).dest \in Homes /\ Now(t).dest # State
      BY <1>5, AtAnOperation DEF Now, Steps, MoveStep, PublishStep, DisplaceStep, RestoreStep
    <2>6. At(e, State) = At(d, State) /\ At(e, Aside(s)) = At(d, Aside(s)) /\ At(e, Stage(s)) = At(d, Stage(s))
      <3>2. CASE MoveStep(t, d, u, e)
        <4>1. Renames(d, e, Now(t).dest, Aside(a))
          BY <3>2 DEF MoveStep
        <4>2. ShowsMove(d, e, Now(t).dest, a)
          BY <2>1, <4>1, MoveShows
        <4> QED
          BY <1>1, <2>1, <4>2 DEF ShowsMove
      <3>3. CASE PublishStep(t, d, u, e)
        <4>1. Renames(d, e, Stage(a), Now(t).dest)
          BY <3>3 DEF PublishStep
        <4>2. ShowsPublish(d, e, Now(t).dest, a)
          BY <2>1, <4>1, PublishShows
        <4> QED
          BY <1>1, <2>1, <4>2 DEF ShowsPublish
      <3>4. CASE DisplaceStep(t, d, u, e)
        <4>1. Renames(d, e, Now(t).dest, Displaced(a))
          BY <3>4 DEF DisplaceStep
        <4>2. ShowsDisplace(d, e, Now(t).dest, a)
          BY <2>1, <4>1, DisplaceShows
        <4> QED
          BY <1>1, <2>1, <4>2 DEF ShowsDisplace
      <3>5. CASE RestoreStep(t, d, u, e)
        <4>1. Renames(d, e, Aside(a), Now(t).dest)
          BY <3>5 DEF RestoreStep
        <4>2. ShowsRestore(d, e, Now(t).dest, a)
          BY <2>1, <4>1, RestoreShows
        <4> QED
          BY <1>1, <2>1, <4>2 DEF ShowsRestore
      <3> QED
        BY <1>5, <3>2, <3>3, <3>4, <3>5
    <2>7. t.phase \notin Over /\ (Onward(u) => Onward(t))
      BY <1>5, OnwardStays DEF MoveStep, PublishStep, DisplaceStep, RestoreStep, Over
    <2> QED
      BY <1>1, <1>2, <1>4, <2>6, <2>7, PlaceKept
  <1>6. CASE ~(MoveStep(t, d, u, e) \/ PublishStep(t, d, u, e) \/ DisplaceStep(t, d, u, e) \/ RestoreStep(t, d, u, e))
    <2>1. At(e, State) = At(d, State)
      BY <1>1, <1>6, QuietOrRenames
    <2>2. \/ e = d /\ (t.phase \in Over => u.phase \in Over)
          \/ FinishStep(t, d, u, e) /\ u.phase \in Over
          \/ DiscardStep(t, d, u, e) /\ ~Onward(u) /\ t.phase \notin Over
          \/ CleanStep(t, d, u, e) /\ ~Onward(u) /\ t.phase \notin Over
      <3>1. FinishStep(t, d, u, e) => u.phase \in Over
        BY DEF FinishStep, Stays, Over
      <3>2. DiscardStep(t, d, u, e) => ~Onward(u) /\ t.phase \notin Over
        BY DEF DiscardStep, Descends, Onward, Forwards, Over
      <3>3. CleanStep(t, d, u, e) => ~Onward(u) /\ t.phase \notin Over
        BY DEF CleanStep, Stays, Onward, Forwards, Over
      <3>4. t.phase \in Over => u.phase \in Over
        BY OverStays
      <3>5. e = d \/ FinishStep(t, d, u, e) \/ DiscardStep(t, d, u, e) \/ CleanStep(t, d, u, e)
        BY <1>6 DEF RunStep, TakeStep, StopStep, VerifyStep, UndoStep, GiveUpStep
      <3> QED
        BY <3>1, <3>2, <3>3, <3>4, <3>5
    <2>3. Onward(u) => Onward(t)
      BY OnwardStays
    <2>4. CASE e = d
      <3>1. u.phase \notin Over => t.phase \notin Over
        BY <2>4, OverStays
      <3> QED
        BY <1>1, <1>2, <1>4, <2>3, <2>4, <3>1, PlaceKept
    <2>5. CASE FinishStep(t, d, u, e)
      <3>1. At(e, Stage(s)) = At(d, Stage(s))
        <4>1. e = d \/ Removes(d, e, {Aside(a)})
          BY <2>5 DEF FinishStep
        <4> QED
          BY <4>1, NameFacts DEF Removes
      <3>2. u.phase \in Over
        BY <2>5 DEF FinishStep, Stays, Over
      <3> QED
        BY <1>1, <1>2, <1>4, <2>1, <2>3, <3>1, <3>2, PlaceKept
    <2>6. CASE (DiscardStep(t, d, u, e) \/ CleanStep(t, d, u, e)) /\ ~Onward(u) /\ t.phase \notin Over
      <3>1. At(e, Aside(s)) = At(d, Aside(s))
        <4>1. \E S : Removes(d, e, S) /\ (S = {Displaced(a)} \/ S \in SUBSET StageNames)
          BY <2>6 DEF DiscardStep, CleanStep
        <4>2. Aside(s) \notin StageNames /\ Aside(s) # Displaced(a)
          BY NameFacts DEF StageNames
        <4> QED
          BY <4>1, <4>2 DEF Removes
      <3> QED
        BY <1>1, <1>2, <1>4, <2>1, <2>6, <3>1, PlaceKept
    <2> QED
      BY <2>2, <2>4, <2>5, <2>6
  <1> QED
    BY <1>5, <1>6

\* The rollback reaches the ledger before it passes it.
LEMMA PlaceReached ==
  ASSUME NEW t, NEW u, NEW d, NEW e, Steps(t, u), RunStep(t, d, u, e), Progress(t), IsDisk(d),
         NEW s \in 1..Len(t.ops), t.ops[s].dest = State, LedgerPlace(t, d, s), Acts(t, d, u) \/ t.at # s,
         \/ ~(MoveStep(t, d, u, e) \/ PublishStep(t, d, u, e)
                \/ DisplaceStep(t, d, u, e) \/ RestoreStep(t, d, u, e))
         \/ t.at # s,
         ~Onward(u), Active(t.ops[s])
  PROVE  s <= u.at
  <1> DEFINE n == Len(t.ops)
             a == t.at
  <1>1. n \in Nat /\ a \in Nat /\ u.at \in Nat /\ s \in Nat /\ s <= n
    BY RunningFacts DEF Steps
  <1>2. CASE Onward(t)
    <2>1. u.at = n
      BY <1>2 DEF Onward, Forwards, RunStep, TakeStep, StopStep, MoveStep, PublishStep, VerifyStep, FinishStep,
         UndoStep, DisplaceStep, RestoreStep, DiscardStep, GiveUpStep, GivesUpNow, CleanStep, Stays, Proceeds, Fails
    <2> QED
      BY <1>1, <2>1
  <1>3. CASE ~Onward(t)
    <2>1. s <= a
      BY <1>3 DEF LedgerPlace
    <2>2. u.at = a \/ (u.at = a - 1 /\ a # s)
      <3>1. CASE UndoStep(t, d, u, e)
        <4>1. ASSUME a = s, Now(t).published PROVE Holds(d, Now(t).dest, Now(t).staged)
          <5>1. At(d, State) = Now(t).staged /\ Now(t).dest = State /\ Now(t).staged # None
            BY <4>1 DEF LedgerPlace, Now, Progress
          <5> QED
            BY <5>1, AtFacts
        <4>2. a = s => Now(t) = t.ops[s]
          BY DEF Now
        <4> QED
          BY <3>1, <4>1, <4>2 DEF UndoStep, Stays, GivesUp, Descends
      <3>2. CASE GiveUpStep(t, d, u, e)
        <4>1. ASSUME a = s PROVE FALSE
          <5>1. Now(t) = t.ops[s] /\ Now(t).dest = State
            BY <4>1 DEF Now
          <5>2. CASE t.phase = "displace"
            <6>1. Now(t).published /\ Now(t).staged # None
              BY <4>1, <5>1, <5>2 DEF Progress
            <6>2. Holds(d, Now(t).dest, Now(t).staged)
              BY <5>1, <6>1, AtFacts DEF LedgerPlace
            <6>3. u.ops[a].published = FALSE
              BY <4>1, <5>2, <6>2 DEF Acts
            <6> QED
              BY <3>2, <4>1, <5>1, <6>1, <6>3 DEF GiveUpStep, GivesUpNow, SameFlags
          <5>5. CASE t.phase = "undo"
            <6>1. Now(t).published /\ t.at > 0 /\ GivesUp(t, u)
              BY <3>2, <5>5 DEF GiveUpStep, GivesUpNow
            <6>2. Now(t).staged # None
              BY <4>1, <5>1, <6>1 DEF Progress
            <6>3. Holds(d, Now(t).dest, Now(t).staged)
              BY <5>1, <6>1, <6>2, AtFacts DEF LedgerPlace
            <6> QED
              BY <4>1, <5>5, <6>1, <6>3 DEF Acts
          <5>3. CASE t.phase = "restore"
            <6>1. Now(t).moved /\ ~Now(t).published /\ Now(t).prior # None
              BY <4>1, <5>1, <5>3 DEF Progress
            <6>2. At(d, State) = None /\ At(d, Aside(a)) = Now(t).prior
              BY <4>1, <5>1, <5>3, <6>1 DEF LedgerPlace, Over
            <6>3. Holds(d, Aside(a), Now(t).prior)
              BY <6>1, <6>2, AtFacts
            <6>4. u.ops[a].moved = FALSE
              BY <4>1, <5>1, <5>3, <6>2, <6>3 DEF Acts
            <6> QED
              BY <3>2, <4>1, <5>1, <6>1, <6>4 DEF GiveUpStep, GivesUpNow, SameFlags
          <5>4. CASE t.phase = "discard"
            BY <4>1, <5>4 DEF Progress
          <5> QED
            BY <3>2, <5>2, <5>3, <5>4, <5>5 DEF GiveUpStep, GivesUpNow
        <4> QED
          BY <3>2, <4>1 DEF GiveUpStep, GivesUpNow, GivesUp
      <3>3. CASE DiscardStep(t, d, u, e)
        BY <3>3 DEF DiscardStep, Progress, Descends
      <3>4. CASE CleanStep(t, d, u, e)
        BY <3>4 DEF CleanStep, Stays
      <3>5. CASE DisplaceStep(t, d, u, e)
        BY <3>5 DEF DisplaceStep, Stays, GivesUp
      <3>6. CASE RestoreStep(t, d, u, e)
        BY <3>6 DEF RestoreStep, Stays, GivesUp, Descends
      <3>7. \/ UndoStep(t, d, u, e) \/ DisplaceStep(t, d, u, e) \/ RestoreStep(t, d, u, e)
            \/ DiscardStep(t, d, u, e) \/ GiveUpStep(t, d, u, e) \/ CleanStep(t, d, u, e)
        BY <1>3 DEF Onward, Forwards, RunStep, TakeStep, StopStep, MoveStep, PublishStep, VerifyStep, FinishStep
      <3> QED
        BY <3>1, <3>2, <3>3, <3>4, <3>5, <3>6, <3>7
    <2> QED
      BY <1>1, <2>1, <2>2
  <1> QED
    BY <1>2, <1>3

\* The rename of the ledger itself.
LEMMA PlaceHere ==
  ASSUME NEW t, NEW u, NEW d, NEW e, Steps(t, u), Progress(t), IsDisk(d), Acts(t, d, u),
         NEW s \in 1..Len(t.ops), t.ops[s].dest = State, LedgerPlace(t, d, s), t.at = s,
         t.ops[s].prior = At(t.before, State),
         \/ MoveStep(t, d, u, e) \/ PublishStep(t, d, u, e)
         \/ DisplaceStep(t, d, u, e) \/ RestoreStep(t, d, u, e)
  PROVE  LedgerPlace(u, e, s)
  <1> DEFINE n == Len(t.ops)
             o == t.ops[s]
             w == u.ops[s]
  <1>1. /\ n \in Nat /\ s \in Nat /\ s <= n /\ u.at \in Nat /\ u.before = t.before /\ State \in Homes
        /\ w.staged = o.staged /\ w.prior = o.prior /\ Now(t) = o /\ Now(t).dest = State
    BY RunningFacts, NameFacts DEF Steps, Carries, SameOps, Now
  <1>2. /\ ~Active(o) => At(d, State) = At(t.before, State)
        /\ o.published => At(d, State) = o.staged
        /\ o.moved /\ ~o.published => At(d, State) = None
        /\ o.moved /\ t.phase \notin Over => At(d, Aside(s)) = o.prior
        /\ ~o.published /\ o.staged # None /\ Onward(t) => At(d, Stage(s)) = o.staged
    BY DEF LedgerPlace
  <1>3. SUFFICES /\ ~Active(w) => At(e, State) = At(t.before, State)
                 /\ w.published => At(e, State) = o.staged
                 /\ w.moved /\ ~w.published => At(e, State) = None
                 /\ w.moved /\ u.phase \notin Over => At(e, Aside(s)) = o.prior
                 /\ ~Onward(u) /\ Active(w) => s <= u.at
                 /\ ~w.published /\ o.staged # None /\ Onward(u) => At(e, Stage(s)) = o.staged
    BY <1>1 DEF LedgerPlace
  <1>4. CASE MoveStep(t, d, u, e)
    <2>1. ~Active(o) /\ w.moved = TRUE /\ w.published = o.published /\ t.phase = "move"
      BY <1>1, <1>4 DEF MoveStep, Progress, Reflags
    <2>2. ShowsMove(d, e, State, s)
      BY <1>1, <1>4, MoveShows DEF MoveStep
    <2>3. At(e, State) = None /\ At(e, Aside(s)) = At(d, State) /\ At(e, Stage(s)) = At(d, Stage(s))
      BY <1>1, <2>2 DEF ShowsMove
    <2>4. Onward(u) \/ u.at = n
      BY <1>4 DEF MoveStep, Fails, Proceeds, Stays, Onward, Forwards
    <2>5. Onward(t)
      BY <2>1 DEF Onward, Forwards
    <2>6. ~o.published
      BY <2>1 DEF Active
    <2> QED
      BY <1>1, <1>2, <2>1, <2>3, <2>4, <2>5, <2>6 DEF Active
  <1>5. CASE PublishStep(t, d, u, e)
    <2>1. /\ ~o.published /\ o.staged # None /\ o.moved = (o.prior # None)
          /\ w.moved = o.moved /\ w.published = TRUE /\ t.phase = "publish"
      BY <1>1, <1>5 DEF PublishStep, Progress, Reflags
    <2>2. ShowsPublish(d, e, State, s)
      BY <1>1, <1>5, PublishShows DEF PublishStep
    <2>3. At(e, State) = At(d, Stage(s)) /\ At(e, Aside(s)) = At(d, Aside(s))
      BY <1>1, <2>2 DEF ShowsPublish
    <2>4. Onward(u) \/ u.at = n
      BY <1>5 DEF PublishStep, Fails, Proceeds, Onward, Forwards
    <2>5. Onward(t) /\ t.phase \notin Over
      BY <2>1 DEF Onward, Forwards, Over
    <2> QED
      BY <1>1, <1>2, <2>1, <2>3, <2>4, <2>5 DEF Active
  <1>6. CASE DisplaceStep(t, d, u, e)
    <2>1. o.published /\ o.staged # None /\ t.phase = "displace" /\ ~Onward(t) /\ t.phase \notin Over
      BY <1>1, <1>6 DEF DisplaceStep, Progress, Onward, Forwards, Over
    <2>2. Holds(d, Now(t).dest, Now(t).staged)
      BY <1>1, <1>2, <2>1, AtFacts
    <2>3. w.published = FALSE
      BY <2>1, <2>2 DEF Acts
    <2>4. Reflags(t, u, Now(t).moved, FALSE) /\ Stays(t, u, IF Now(t).moved THEN "restore" ELSE "discard")
      BY <1>6, <2>1, <2>3 DEF DisplaceStep, SameFlags
    <2>5. w.moved = o.moved /\ ~Onward(u) /\ u.at = s
      BY <1>1, <2>4 DEF Reflags, Stays, Onward, Forwards
    <2>6. ShowsDisplace(d, e, State, s)
      BY <1>1, <1>6, DisplaceShows DEF DisplaceStep
    <2>7. At(e, State) = None /\ At(e, Aside(s)) = At(d, Aside(s))
      BY <1>1, <2>6 DEF ShowsDisplace
    <2>8. o.moved = (o.prior # None)
      BY <1>1, <2>1 DEF Progress, Active
    <2>9. /\ ~w.published /\ (~Active(w) => At(t.before, State) = None)
          /\ w.moved => o.moved /\ s <= u.at
      <3>1. s <= u.at
        BY <1>1, <2>5
      <3>2. ~Active(w) => ~o.moved
        BY <2>5 DEF Active
      <3> QED
        BY <2>3, <2>5, <2>8, <3>1, <3>2
    <2> QED
      BY <1>1, <1>2, <2>1, <2>5, <2>7, <2>9
  <1>7. CASE RestoreStep(t, d, u, e)
    <2>1. /\ o.moved /\ ~o.published /\ t.phase = "restore" /\ ~Onward(t) /\ o.prior # None
          /\ At(d, State) = None /\ At(d, Aside(s)) = o.prior
      BY <1>1, <1>7 DEF RestoreStep, Progress, Onward, Forwards
    <2>2. Holds(d, Aside(s), Now(t).prior)
      BY <1>1, <2>1, AtFacts
    <2>3. w.moved = FALSE
      BY <1>1, <2>1, <2>2 DEF Acts
    <2>4. Reflags(t, u, FALSE, Now(t).published)
      BY <1>7, <2>1, <2>3 DEF RestoreStep, SameFlags
    <2>5. ~w.published /\ ~Onward(u)
      BY <1>1, <1>7, <2>1, <2>4 DEF Reflags, RestoreStep, Stays, Descends, GivesUp, Onward, Forwards
    <2>6. ShowsRestore(d, e, State, s)
      BY <1>1, <1>7, RestoreShows DEF RestoreStep
    <2>7. At(e, State) = At(d, Aside(s))
      BY <1>1, <2>6 DEF ShowsRestore
    <2> QED
      BY <1>1, <2>1, <2>3, <2>5, <2>7 DEF Active
  <1> QED
    BY <1>4, <1>5, <1>6, <1>7

LEMMA LedgerTrackedStep ==
  ASSUME NEW t, NEW u, NEW d, NEW e, NEW lf, Steps(t, u), RunStep(t, d, u, e), Progress(t), IsDisk(d),
         Acts(t, d, u) \/ Now(t).dest # State, Static(t, lf), LedgerTracked(t, d)
  PROVE  LedgerTracked(u, e)
  <1>1. /\ SameOps(t.ops, u.ops) /\ u.before = t.before /\ Len(t.ops) \in Nat /\ Len(u.ops) \in Nat
        /\ u.ops \in Seq(Operations) /\ t.ops \in Seq(Operations)
    BY RunningFacts DEF Steps, Carries, Transactions
  <1>2. t.ops # <<>> /\ u.ops # <<>>
    <2>1. t.phase \in Forwards \cup {"undo", "displace", "restore", "discard"}
      BY DEF RunStep, TakeStep, StopStep, MoveStep, PublishStep, VerifyStep, FinishStep, UndoStep, DisplaceStep,
         RestoreStep, DiscardStep, GiveUpStep, GivesUpNow, CleanStep, Forwards
    <2>2. Len(t.ops) # 0
      BY <1>1, <2>1 DEF Steps, Running1, Placing
    <2> QED
      BY <1>1, <2>2 DEF SameOps
  <1>3. PlanPriors(t.before, t.ops) /\ PlanPlaces(t.ops)
    BY <1>2 DEF Static
  <1>4. ASSUME NEW s \in 1..Len(u.ops), u.ops[s].dest = State
        PROVE  LedgerPlace(u, e, s) /\ GoodLedger(u.ops[s].staged)
    <2>1. s \in 1..Len(t.ops) /\ t.ops[s].dest = State /\ u.ops[s].staged = t.ops[s].staged
      BY <1>1, <1>4 DEF SameOps
    <2>2. LedgerPlace(t, d, s) /\ GoodLedger(t.ops[s].staged)
      BY <2>1 DEF LedgerTracked
    <2>3. State \notin ConfigNames
      BY NameFacts DEF ConfigNames
    <2>4. \A j \in 1..Len(t.ops) : t.ops[j].dest = State => j = s
      BY <1>3, <2>1, <2>3 DEF PlanPlaces
    <2>5. CASE t.at = s /\ (MoveStep(t, d, u, e) \/ PublishStep(t, d, u, e)
                             \/ DisplaceStep(t, d, u, e) \/ RestoreStep(t, d, u, e))
      <3>1. PriorFollows(t.before, t.ops, s)
        BY <1>1, <1>3, <2>1, PriorsHold
      <3>2. s \in Nat /\ \A j \in 1..Len(t.ops) : j < s => t.ops[j].dest # State
        BY <1>1, <2>1, <2>4
      <3>3. t.ops[s].prior = At(t.before, State)
        BY <2>1, <3>1, <3>2 DEF PriorFollows
      <3>4. Acts(t, d, u)
        BY <2>1, <2>5 DEF Now
      <3> QED
        BY <2>1, <2>2, <2>5, <3>3, <3>4, PlaceHere
    <2>6. CASE ~(t.at = s /\ (MoveStep(t, d, u, e) \/ PublishStep(t, d, u, e)
                               \/ DisplaceStep(t, d, u, e) \/ RestoreStep(t, d, u, e)))
      <3>1. ~Onward(u) /\ Active(t.ops[s]) => s <= u.at
        <4>1. Acts(t, d, u) \/ t.at # s
          BY <2>1 DEF Now
        <4> QED
          BY <2>1, <2>2, <2>6, <4>1, PlaceReached
      <3>2. MoveStep(t, d, u, e) \/ PublishStep(t, d, u, e) \/ DisplaceStep(t, d, u, e) \/ RestoreStep(t, d, u, e)
              => t.at # s /\ t.ops[t.at].dest # State
        BY <2>4, <2>6, AtAnOperation DEF Steps, MoveStep, PublishStep, DisplaceStep, RestoreStep
      <3> QED
        BY <2>1, <2>2, <3>1, <3>2, PlaceElsewhere
    <2> QED
      BY <2>2, <2>1, <2>5, <2>6
  <1> QED
    BY <1>1, <1>2, <1>4 DEF LedgerTracked

-----------------------------------------------------------------------------
(* In which order a plan writes.                                           *)

\* A configuration is written after a ledger that keeps every layer of its
\* client, and once, or a revert writes it before the ledger: then some layer
\* expects it.
Ordered(t) ==
  \A c \in Clients : \A j \in ConfigOps(t, c) :
    \A s \in 1..Len(t.ops) : t.ops[s].dest = State =>
      IF j < s THEN t.req.kind = "revert" /\ Expecting(t.before, c)
      ELSE /\ t.ops[s].staged # None /\ \A i \in ConfigOps(t, c) : i = j
           /\ LayersOn(t.before, c) \subseteq LayersOn(Outcome(t), c)

LEMMA UseIsOrdered ==
  ASSUME NEW d, NEW U, NEW req, UsePremise(d, U, req), Changed(d, req) # {}, NEW t
  PROVE  t.before = d /\ t.ops = UseOperations(d, U, req) => Ordered(t) /\ WritesConfigs(t)
  <1> DEFINE b == BackupOrder(d, req)
             q == ConfigOrder(d, req)
             ops == UseOperations(d, U, req)
  <1>1. /\ Len(b) \in Nat /\ Len(q) \in Nat /\ Len(ops) = Len(b) + 1 + Len(q)
        /\ \A i \in 1..Len(ops) : \/ UseBackupAt(d, U, req, ops, i)
                                  \/ UseLedgerAt(d, U, req, ops, i)
                                  \/ UseConfigAt(d, U, req, ops, i)
        /\ UseLedgerAt(d, U, req, ops, Len(b) + 1)
    <2>1. Len(b) \in Nat /\ Len(q) \in Nat
      BY UseOrders
    <2>2. /\ ops \in Seq(Operations) /\ Len(ops) = Len(b) + 1 + Len(q)
          /\ \A i \in 1..Len(ops) : \/ UseBackupAt(d, U, req, ops, i)
                                  \/ UseLedgerAt(d, U, req, ops, i)
                                  \/ UseConfigAt(d, U, req, ops, i)
          /\ \A i \in 1..Len(b) : UseBackupAt(d, U, req, ops, i)
          /\ UseLedgerAt(d, U, req, ops, Len(b) + 1)
          /\ \A j \in 1..Len(q) : UseConfigAt(d, U, req, ops, Len(b) + 1 + j)
      BY UseOperationsFacts
    <2> QED
      BY <2>1, <2>2
  <1>s. SUFFICES ASSUME t.before = d, t.ops = ops PROVE Ordered(t) /\ WritesConfigs(t)
    OBVIOUS
  <1>d. Outcome(t) = Target(d, ops)
    BY <1>s DEF Outcome
  <1> HIDE DEF ops
  <1>2. ASSUME NEW c \in Clients, NEW j \in ConfigOps(t, c)
        PROVE  /\ j \in 1..Len(ops) /\ j > Len(b) + 1 /\ UseConfigAt(d, U, req, ops, j)
               /\ ops[j].prior \in ConfigFiles /\ ops[j].staged \in ConfigFiles
               /\ \A i \in ConfigOps(t, c) : i = j
    <2>1. j \in 1..Len(ops) /\ ops[j].dest = Config(c)
      BY <1>2, <1>s DEF ConfigOps
    <2>2. ~UseBackupAt(d, U, req, ops, j) /\ ~UseLedgerAt(d, U, req, ops, j)
      BY <2>1, HomesDiffer DEF UseBackupAt, UseLedgerAt
    <2>3. UseConfigAt(d, U, req, ops, j)
      BY <1>1, <2>1, <2>2
    <2>4. PICK k \in Changed(d, req) : /\ j - Len(b) - 1 \in 1..Len(q) /\ ops[j].dest = Config(req.clients[k])
                                       /\ ops[j].prior = At(d, ops[j].dest) /\ ops[j].staged \in ConfigFiles
      BY <2>3 DEF UseConfigAt
    <2>5. ops[j].prior \in ConfigFiles
      BY <2>4, UseOfConfig
    <2>6. \A i \in ConfigOps(t, c) : i = j
      BY <1>s, <2>1, UseWritesOnce DEF ConfigOps, ops
    <2>7. j > Len(b) + 1
      BY <1>1, <2>1, <2>4
    <2> QED
      BY <2>1, <2>3, <2>4, <2>5, <2>6, <2>7
  <1>3. ASSUME NEW c \in Clients, NEW j \in ConfigOps(t, c), NEW s \in 1..Len(ops), ops[s].dest = State
        PROVE  /\ ~(j < s) /\ ops[s].staged # None
               /\ LayersOn(d, c) \subseteq LayersOn(Outcome(t), c)
    <2>1. ~UseBackupAt(d, U, req, ops, s) /\ ~UseConfigAt(d, U, req, ops, s)
      BY <1>3, HomesDiffer DEF UseBackupAt, UseConfigAt
    <2>2. UseLedgerAt(d, U, req, ops, s)
      BY <1>1, <1>3, <2>1
    <2>3. s = Len(b) + 1 /\ ops[s].staged # None
      BY <2>2, FileFacts DEF UseLedgerAt
    <2>4. UseOf(d, U, req, Target(d, ops), c, AskedLayers(d, req, c))
      BY UseEntries DEF ops
    <2>5. LayersOn(d, c) \subseteq LayersOn(Outcome(t), c)
      BY <1>d, <2>4 DEF UseOf
    <2> QED
      BY <1>1, <1>2, <1>3, <2>3, <2>5
  <1> QED
    BY <1>s, <1>2, <1>3 DEF Ordered, WritesConfigs

LEMMA RevertIsOrdered ==
  ASSUME NEW d, NEW U, NEW req, RevertPremise(d, U, req), Selected(LedgerOn(d), req) # <<>>, NEW t
  PROVE  t.req = req /\ t.before = d /\ t.ops = RevertOperations(d, U, req) =>
           Ordered(t) /\ WritesConfigs(t)
  <1> DEFINE L == LedgerOn(d)
             s == Selected(L, req)
             ops == RevertOperations(d, U, req)
  <1>1. /\ Len(s) \in Nat /\ Len(ops) = Len(s) + 1 + Len(s) /\ IsDisk(d) /\ L \in LedgerBytes /\ Readable(L)
        /\ \A i \in 1..Len(ops) : \/ RevertConfigAt(d, U, req, ops, i)
                                  \/ RevertLedgerAt(d, U, req, ops, i)
                                  \/ RevertBackupAt(d, U, req, ops, i)
    <2>1. Len(s) \in Nat /\ IsDisk(d) /\ L \in LedgerBytes /\ Readable(L)
      <3>1. Enumerates(s, Selection(L, req)) /\ L \in LedgerBytes /\ Readable(L)
        BY SelectedFacts
      <3> QED
        BY <3>1 DEF Enumerates, RevertPremise
    <2>2. /\ ops \in Seq(Operations) /\ Len(ops) = Len(s) + 1 + Len(s)
          /\ \A i \in 1..Len(ops) : \/ RevertConfigAt(d, U, req, ops, i)
                                  \/ RevertLedgerAt(d, U, req, ops, i)
                                  \/ RevertBackupAt(d, U, req, ops, i)
          /\ \A i \in 1..Len(s) : RevertConfigAt(d, U, req, ops, i)
          /\ RevertLedgerAt(d, U, req, ops, Len(s) + 1)
          /\ \A j \in 1..Len(s) : RevertBackupAt(d, U, req, ops, Len(s) + 1 + j)
      BY RevertOperationsFacts
    <2> QED
      BY <2>1, <2>2
  <1>s. SUFFICES ASSUME t.req = req, t.before = d, t.ops = ops PROVE Ordered(t) /\ WritesConfigs(t)
    OBVIOUS
  <1>k. t.req.kind = "revert"
    BY <1>s DEF RevertPremise
  <1> HIDE DEF ops
  <1>2. \A i \in 1..Len(s) :
          /\ s[i] \in DOMAIN L.entries /\ s[i] \in LayersOn(d, s[i][1])
          /\ L.entries[s[i]].expected \in ConfigFiles
          /\ Above(s, i) = {} => At(d, Config(s[i][1])) = Entry(d, s[i]).expected
    <2>1. SUFFICES ASSUME NEW i \in 1..Len(s)
                   PROVE  /\ s[i] \in DOMAIN L.entries /\ s[i] \in LayersOn(d, s[i][1])
                          /\ L.entries[s[i]].expected \in ConfigFiles
                          /\ Above(s, i) = {} => At(d, Config(s[i][1])) = Entry(d, s[i]).expected
      OBVIOUS
    <2>2. /\ s[i] \in DOMAIN L.entries /\ Config(s[i][1]) \in DOMAIN d
          /\ Above(s, i) = {} => d[Config(s[i][1])] = L.entries[s[i]].expected
      BY SelectedFacts
    <2>3. s[i] \in LayersOn(d, s[i][1])
      BY <1>1, <2>2, LayersOfEntries
    <2>4. d[Config(s[i][1])] = At(d, Config(s[i][1]))
      BY <1>1, <2>2, AtFacts
    <2> QED
      BY <1>1, <2>2, <2>3, <2>4, LedgerFacts DEF Entry
  <1>3. ASSUME NEW c \in Clients, NEW j \in ConfigOps(t, c)
        PROVE  /\ j \in 1..Len(s) /\ s[j][1] = c /\ RevertConfigAt(d, U, req, ops, j)
               /\ ops[j].prior \in ConfigFiles /\ ops[j].staged \in ConfigFiles
    <2>1. j \in 1..Len(ops) /\ ops[j].dest = Config(c)
      BY <1>3, <1>s DEF ConfigOps
    <2>2. ~RevertBackupAt(d, U, req, ops, j) /\ ~RevertLedgerAt(d, U, req, ops, j)
      BY <2>1, HomesDiffer DEF RevertBackupAt, RevertLedgerAt, OwnName
    <2>3. RevertConfigAt(d, U, req, ops, j)
      BY <1>1, <2>1, <2>2
    <2>4. /\ j \in 1..Len(s) /\ s[j][1] = c /\ ops[j].dest = Config(s[j][1]) /\ ops[j].staged \in ConfigFiles
          /\ ops[j].prior = IF Above(s, j) = {} THEN At(d, ops[j].dest) ELSE Restored(d, U, req, LastOf(Above(s, j)))
      BY <2>1, <2>3, NameFacts DEF RevertConfigAt
    <2>5. ops[j].prior \in ConfigFiles
      <3>1. CASE Above(s, j) = {}
        <4>1. ops[j].prior = Entry(d, s[j]).expected
          BY <1>2, <2>4, <3>1
        <4> QED
          BY <1>2, <2>4, <4>1 DEF Entry
      <3>2. CASE Above(s, j) # {}
        <4>1. LastOf(Above(s, j)) \in 1..(j - 1)
          BY <1>1, <2>4, <3>2, AboveFacts
        <4>2. LastOf(Above(s, j)) \in 1..Len(s)
          BY <1>1, <2>4, <4>1
        <4> QED
          BY <2>4, <3>2, <4>2, RestoredFacts
      <3> QED
        BY <3>1, <3>2
    <2> QED
      BY <2>3, <2>4, <2>5
  <1>4. ASSUME NEW c \in Clients, NEW j \in ConfigOps(t, c) PROVE Expecting(d, c)
    <2> DEFINE D == {i \in 1..Len(s) : s[i][1] = c}
    <2>1. D \in SUBSET Nat /\ D # {}
      BY <1>1, <1>3, <1>4
    <2>2. PICK k \in D : \A i \in D : k <= i
      BY <2>1, NatHasMinimum
    <2>3. k \in 1..Len(s) /\ k \in Nat /\ s[k][1] = c
      BY <1>1, <2>2
    <2>4. Above(s, k) = {}
      <3>1. SUFFICES ASSUME Above(s, k) # {} PROVE FALSE
        OBVIOUS
      <3>2. LastOf(Above(s, k)) \in 1..(k - 1) /\ s[LastOf(Above(s, k))][1] = s[k][1]
        BY <2>3, <3>1, AboveFacts
      <3>3. LastOf(Above(s, k)) \in D
        BY <1>1, <2>3, <3>2
      <3> QED
        BY <2>2, <2>3, <3>2, <3>3
    <2> QED
      BY <1>2, <2>3, <2>4 DEF Expecting
  <1>5. ASSUME NEW c \in Clients, NEW j \in ConfigOps(t, c), NEW z \in 1..Len(ops), ops[z].dest = State
        PROVE  j < z
    <2>1. ~RevertBackupAt(d, U, req, ops, z) /\ ~RevertConfigAt(d, U, req, ops, z)
      BY <1>5, HomesDiffer DEF RevertBackupAt, RevertConfigAt, OwnName
    <2>2. z = Len(s) + 1
      BY <1>1, <1>5, <2>1 DEF RevertLedgerAt
    <2> QED
      BY <1>1, <1>3, <1>5, <2>2
  <1> QED
    BY <1>s, <1>k, <1>3, <1>4, <1>5 DEF Ordered, WritesConfigs

LEMMA OrderedBegins ==
  ASSUME NEW t, NEW U, IsDisk(t.before), IsFiniteSet(U), t.req \in Requests,
         \/ t.ops = <<>>
         \/ /\ t.req.kind = "use" /\ CanUse(t.before, LedgerOn(t.before), t.req)
            /\ t.ops = UseOperations(t.before, U, t.req) /\ t.ops # <<>>
         \/ /\ t.req.kind = "revert" /\ CanRevert(t.before, LedgerOn(t.before), t.req)
            /\ t.ops = RevertOperations(t.before, U, t.req) /\ t.ops # <<>>
  PROVE  Ordered(t) /\ WritesConfigs(t)
  <1>1. CASE t.ops = <<>>
    <2>1. 1..Len(t.ops) = {}
      BY <1>1
    <2> QED
      BY <2>1 DEF Ordered, WritesConfigs, ConfigOps
  <1>2. CASE /\ t.req.kind = "use" /\ CanUse(t.before, LedgerOn(t.before), t.req)
             /\ t.ops = UseOperations(t.before, U, t.req) /\ t.ops # <<>>
    <2>1. Changed(t.before, t.req) # {}
      BY <1>2 DEF UseOperations
    <2> QED
      BY <1>2, <2>1, UseIsOrdered DEF UsePremise
  <1>3. CASE /\ t.req.kind = "revert" /\ CanRevert(t.before, LedgerOn(t.before), t.req)
             /\ t.ops = RevertOperations(t.before, U, t.req) /\ t.ops # <<>>
    <2>1. Selected(LedgerOn(t.before), t.req) # <<>>
      BY <1>3 DEF RevertOperations
    <2> QED
      BY <1>3, <2>1, RevertIsOrdered DEF RevertPremise
  <1> QED
    BY <1>1, <1>2, <1>3

LEMMA OrderedKept ==
  ASSUME NEW t \in Transactions, NEW u, u.req = t.req, u.before = t.before, SameOps(t.ops, u.ops),
         Ordered(t), WritesConfigs(t)
  PROVE  Ordered(u) /\ WritesConfigs(u)
  <1>1. Outcome(u) = Outcome(t)
    BY TurnsGoOn
  <1>2. \A c : ConfigOps(u, c) = ConfigOps(t, c)
    BY DEF ConfigOps, SameOps
  <1>3. Len(u.ops) = Len(t.ops)
        /\ \A i \in 1..Len(t.ops) : /\ u.ops[i].dest = t.ops[i].dest /\ u.ops[i].staged = t.ops[i].staged
                                    /\ u.ops[i].prior = t.ops[i].prior
    BY DEF SameOps
  <1>4. \A c : ConfigOps(t, c) \subseteq 1..Len(t.ops)
    BY DEF ConfigOps
  <1>5. WritesConfigs(u)
    BY <1>2, <1>3, <1>4 DEF WritesConfigs
  <1>6. Ordered(u)
    BY <1>1, <1>2, <1>3, <1>4 DEF Ordered
  <1> QED
    BY <1>5, <1>6

-----------------------------------------------------------------------------
(* What reverting leads to where a command ends.                           *)

LEMMA RootedAlike ==
  ASSUME NEW x, NEW d, NEW c, NEW b, SameLayers(x, d, c), Rooted(x, c, b)
  PROVE  Restorable(d, c, b)
  <1>1. Rooted(d, c, b)
    BY DEF SameLayers, Rooted, Eldest
  <1> QED
    BY <1>1, RootedRestores

LEMMA RestorableAlike ==
  ASSUME NEW x, NEW d, NEW c, NEW b, SameLayers(x, d, c), At(d, Config(c)) = At(x, Config(c)),
         Restorable(x, c, b)
  PROVE  Restorable(d, c, b)
  BY DEF SameLayers, Restorable, Expecting, Rooted, Eldest

\* What is not a configuration is expected by no layer.
LEMMA RestorableWithout ==
  ASSUME NEW d, Proper(d), NEW c, NEW b,
         At(d, Config(c)) = None \/ At(d, Config(c)).bytes \in OtherBytes
  PROVE  Restorable(d, c, b)
  <1>1. At(d, Config(c)) \notin ConfigFiles
    BY BytesDiffer
  <1>2. \A l \in LayersOn(d, c) : Entry(d, l).expected \in ConfigFiles
    BY LayersFacts
  <1> QED
    BY <1>1, <1>2 DEF Restorable, Expecting

\* The operations before one that was done, and is not given up, were done too.
LEMMA DoneBefore ==
  ASSUME NEW t, Running1(t), Progress(t), NEW k \in 1..Len(t.ops), Active(t.ops[k]), Reached(t, k),
         NEW j \in 1..Len(t.ops), j < k
  PROVE  Done(t.ops[j]) /\ Due(t, j)
  <1>1. t.at \in Nat /\ Len(t.ops) \in Nat /\ t.phase \in Phases
    BY RunningFacts
  <1>2. CASE Onward(t)
    <2>1. CASE t.phase \in {"take", "move", "publish"}
      <3>1. \A i \in 1..Len(t.ops) : (i < t.at => Done(t.ops[i])) /\ (i > t.at => ~Active(t.ops[i]))
        BY <2>1 DEF Progress
      <3>2. j < t.at
        BY <1>1, <3>1
      <3> QED
        BY <1>2, <3>1, <3>2 DEF Due
    <2>2. CASE t.phase \in Over \cup {"verify"}
      BY <1>2, <2>2 DEF Progress, Due
    <2> QED
      BY <1>2, <2>1, <2>2 DEF Onward, Forwards, Over
  <1>3. CASE ~Onward(t)
    <2>1. k <= t.at
      BY <1>3 DEF Reached
    <2>2. Done(t.ops[j])
      BY <1>3, <2>1 DEF Progress
    <2>3. ~Settled(t)
      <3>1. Len(t.ops) # 0 /\ t.at # 0
        BY <1>1, <2>1
      <3> QED
        BY <3>1 DEF Progress
    <2>4. t.phase \in Backwards
      BY <1>1, <1>3, <2>3 DEF Phases, Onward, Settled, Answers
    <2>5. j < t.at
      BY <1>1, <2>1
    <2>6. j <= t.at
      BY <1>1, <2>5
    <2> QED
      BY <2>2, <2>4, <2>5, <2>6 DEF Due, Pending, Backwards
  <1> QED
    BY <1>2, <1>3

\* No command left the ledger aside with its successor unpublished.
Unorphaned(t) ==
  \A s \in 1..Len(t.ops) : t.ops[s].dest = State /\ t.ops[s].staged # None =>
    ~(t.ops[s].moved /\ ~t.ops[s].published)

\* The ledger is the one of before, or the planned one.
LEMMA LedgerNow ==
  ASSUME NEW t, NEW d, NEW lf, Running1(t), IsDisk(d), Static(t, lf), LedgerTracked(t, d), Unorphaned(t)
  PROVE  \/ /\ At(d, State) = At(t.before, State)
            /\ \A s \in 1..Len(t.ops) : t.ops[s].dest = State => ~Active(t.ops[s])
         \/ \E s \in 1..Len(t.ops) :
              /\ t.ops[s].dest = State /\ Active(t.ops[s]) /\ Reached(t, s)
              /\ At(d, State) = t.ops[s].staged /\ At(Outcome(t), State) = At(d, State)
  <1>1. t.ops \in Seq(Operations) /\ IsDisk(t.before) /\ Len(t.ops) \in Nat
    BY RunningFacts DEF Transactions
  <1>2. CASE t.ops = <<>>
    <2>1. 1..Len(t.ops) = {}
      BY <1>2
    <2> QED
      BY <1>2, <2>1 DEF LedgerTracked
  <1>3. CASE t.ops # <<>>
    <2>1. PlanPlaces(t.ops)
      BY <1>3 DEF Static
    <2>2. State \notin ConfigNames
      BY HomesDiffer DEF ConfigNames
    <2>3. PICK s \in 1..Len(t.ops) : t.ops[s].dest = State
      BY <1>3, <2>1 DEF PlanPlaces
    <2>4. \A i \in 1..Len(t.ops) : t.ops[i].dest = State => i = s
      BY <2>1, <2>2, <2>3 DEF PlanPlaces
    <2>5. LedgerPlace(t, d, s)
      BY <2>3 DEF LedgerTracked
    <2>6. CASE ~Active(t.ops[s])
      BY <2>4, <2>5, <2>6 DEF LedgerPlace
    <2>7. CASE Active(t.ops[s])
      <3>1. At(d, State) = t.ops[s].staged
        BY <2>3, <2>5, <2>7 DEF LedgerPlace, Active, Unorphaned
      <3>2. Reached(t, s)
        BY <2>5, <2>7 DEF LedgerPlace, Reached
      <3>3. \A j \in 1..Len(t.ops) : j > s => t.ops[j].dest # t.ops[s].dest
        BY <1>1, <2>3, <2>4
      <3>4. At(Outcome(t), State) = t.ops[s].staged
        BY <1>1, <2>3, <3>3, TargetFacts DEF Outcome
      <3> QED
        BY <2>3, <2>7, <3>1, <3>2, <3>4
    <2> QED
      BY <2>6, <2>7
  <1> QED
    BY <1>2, <1>3

ConfigTracked(t, d, c, b) ==
  IF Config(c) \in t.touched THEN Disturbed(t, d, c, b)
  ELSE Restorable(t.before, c, b) /\ Undisturbed(t, d, c)

\* A command whose ledger is on the disk did not adopt a client it leaves alone.
LEMMA NotAdopted ==
  ASSUME NEW t, NEW d, Running1(t), IsDisk(d), Ordered(t), Progress(t), NEW c \in Clients,
         RecordedIn(t, d) => c \notin Adopts(t),
         NEW s \in 1..Len(t.ops), t.ops[s].dest = State, At(d, State) = t.ops[s].staged
  PROVE  c \notin Adopts(t)
  <1>1. CASE t.ops[s].staged # None
    <2>1. Holds(d, State, t.ops[s].staged)
      BY <1>1 DEF Holds, At
    <2> QED
      BY <1>1, <2>1 DEF RecordedIn
  <1>2. CASE t.ops[s].staged = None
    <2>1. SUFFICES ASSUME c \in Adopts(t) PROVE FALSE
      OBVIOUS
    <2>2. t.req.kind = "use" /\ Config(c) \in {t.ops[i].dest : i \in 1..Len(t.ops)}
      BY <2>1 DEF Adopts
    <2>3. PICK j \in ConfigOps(t, c) : TRUE
      BY <2>2 DEF ConfigOps
    <2>4. j < s \/ t.ops[s].staged # None
      BY <2>3 DEF Ordered
    <2>5. j < s => t.req.kind = "revert"
      BY <2>3 DEF Ordered
    <2> QED
      BY <1>2, <2>2, <2>4, <2>5
  <1> QED
    BY <1>1, <1>2

\* The ledger of before, with the configuration the command left.
LEMMA RestorableUnrecorded ==
  ASSUME NEW t, NEW d, NEW lf, Running1(t), IsDisk(d), Static(t, lf), Progress(t), Ordered(t),
         At(d, State) = At(t.before, State),
         \A s \in 1..Len(t.ops) : t.ops[s].dest = State => ~Active(t.ops[s]),
         NEW c \in Clients, NEW b, Restorable(t.before, c, b), Left(t, d, c)
  PROVE  Restorable(d, c, b)
  <1>1. t.ops \in Seq(Operations) /\ Len(t.ops) \in Nat /\ t.at \in Nat
    BY RunningFacts DEF Transactions
  <1>2. Proper(d) /\ Proper(t.before)
    BY DiskIsProper, RunningFacts
  <1>3. SameLayers(t.before, d, c)
    BY <1>2, LayersAlike
  <1>4. CASE At(d, Config(c)) = None \/ At(d, Config(c)).bytes \in OtherBytes
    BY <1>2, <1>4, RestorableWithout
  <1>5. CASE At(d, Config(c)) = At(t.before, Config(c))
    BY <1>3, <1>5, RestorableAlike
  <1>6. ASSUME NEW j \in ConfigOps(t, c), t.ops[j].published, Due(t, j)
        PROVE  Restorable(d, c, b)
    <2>1. j \in 1..Len(t.ops) /\ t.ops[j].dest = Config(c)
      BY <1>6 DEF ConfigOps
    <2>2. PlanPlaces(t.ops) /\ PlanPriors(t.before, t.ops)
      <3>1. t.ops # <<>>
        BY <2>1
      <3> QED
        BY <3>1 DEF Static
    <2>3. PICK s \in 1..Len(t.ops) : t.ops[s].dest = State
      <3>1. t.ops # <<>>
        BY <2>1
      <3> QED
        BY <2>2, <3>1 DEF PlanPlaces
    <2>4. ~Active(t.ops[s])
      BY <2>3
    <2>5. ~(s < j)
      <3>1. SUFFICES ASSUME s < j PROVE FALSE
        OBVIOUS
      <3>2. Active(t.ops[j])
        BY <1>6 DEF Active
      <3>3. Reached(t, j)
        BY <1>1, <1>6, <2>1 DEF Due, Pending, Reached
      <3>4. Done(t.ops[s])
        BY <2>1, <3>1, <3>2, <3>3, DoneBefore
      <3>5. t.ops[s].prior # None \/ t.ops[s].staged # None
        BY <2>2 DEF PlanPriors
      <3> QED
        BY <2>4, <3>4, <3>5 DEF Done, Active
    <2>6. j < s
      <3>1. j # s
        BY <2>1, <2>3, HomesDiffer
      <3> QED
        BY <1>1, <2>1, <2>5, <3>1
    <2>7. Expecting(t.before, c)
      BY <1>6, <2>3, <2>6 DEF Ordered
    <2>8. Rooted(t.before, c, b)
      BY <2>7 DEF Restorable
    <2> QED
      BY <1>3, <2>8, RootedAlike
  <1> QED
    BY <1>4, <1>5, <1>6 DEF Left

\* The ledger planned, with the configuration the command left.
LEMMA RestorableRecorded ==
  ASSUME NEW t, NEW d, Running1(t), IsDisk(d), Progress(t), Ordered(t), WritesConfigs(t), TurnsOf(t),
         NEW c \in Clients, c \notin Adopts(t), Chained(t.before, c),
         NEW s \in 1..Len(t.ops), t.ops[s].dest = State, Active(t.ops[s]), Reached(t, s),
         At(Outcome(t), State) = At(d, State),
         NEW b, Restorable(t.before, c, b), Left(t, d, c)
  PROVE  Restorable(d, c, b)
  <1> DEFINE x == t.before
             y == Outcome(t)
             K == ConfigOps(t, c)
  <1>1. t.ops \in Seq(Operations) /\ Len(t.ops) \in Nat /\ t.at \in Nat /\ IsDisk(x)
    BY RunningFacts DEF Transactions
  <1>2. Proper(d) /\ Proper(x) /\ Proper(y)
    BY DiskIsProper, OutcomeIsProper
  <1>3. SameLayers(y, d, c)
    BY <1>2, LayersAlike
  <1>4. Turns(x, y, c) /\ Follows(x, y, c)
    BY DEF TurnsOf
  <1>5. Restorable(y, c, b)
    BY <1>2, <1>4, RestorableTurns
  <1>6. ASSUME NEW j \in K, j < s PROVE t.ops[j].published /\ Due(t, j)
    <2>1. j \in 1..Len(t.ops)
      BY <1>6 DEF ConfigOps
    <2>2. Done(t.ops[j]) /\ Due(t, j)
      BY <1>6, <2>1, DoneBefore
    <2>3. t.ops[j].staged # None
      BY <1>6, ConfigFileFacts DEF WritesConfigs
    <2> QED
      BY <2>2, <2>3 DEF Done
  <1>7. ASSUME NEW j \in K, ~(j < s)
        PROVE  (\A i \in K : i = j) /\ LayersOn(x, c) \subseteq LayersOn(y, c)
    BY <1>7 DEF Ordered
  <1>8. ASSUME NEW j \in 1..Len(t.ops), t.ops[j].dest = Config(c), \A i \in K : i > j => FALSE
        PROVE  At(y, Config(c)) = t.ops[j].staged
    <2>1. \A i \in 1..Len(t.ops) : i > j => t.ops[i].dest # t.ops[j].dest
      BY <1>8 DEF ConfigOps
    <2> QED
      BY <1>1, <1>8, <2>1, TargetFacts DEF Outcome
  <1>9. CASE At(d, Config(c)) = None \/ At(d, Config(c)).bytes \in OtherBytes
    BY <1>2, <1>9, RestorableWithout
  <1>10. ASSUME At(d, Config(c)) = At(x, Config(c)), \A i \in K : t.ops[i].published => ~Due(t, i)
         PROVE  Restorable(d, c, b)
    <2>1. CASE K = {}
      <3>1. \A i \in 1..Len(t.ops) : t.ops[i].dest # Config(c)
        BY <2>1 DEF ConfigOps
      <3>2. At(y, Config(c)) = At(x, Config(c))
        BY <1>1, <3>1, TargetFacts DEF Outcome
      <3> QED
        BY <1>3, <1>5, <1>10, <3>2, RestorableAlike
    <2>2. CASE K # {}
      <3>1. PICK j \in K : TRUE
        BY <2>2
      <3>2. LayersOn(x, c) \subseteq LayersOn(y, c)
        BY <1>6, <1>7, <1>10, <3>1
      <3>3. Leaves(x, y, c) \/ Rooted(y, c, b)
        BY <1>2, <1>4, <3>2, RootedGrowing
      <3>4. CASE Leaves(x, y, c)
        <4>1. At(y, Config(c)) = At(x, Config(c))
          BY <3>4 DEF Leaves
        <4> QED
          BY <1>3, <1>5, <1>10, <4>1, RestorableAlike
      <3>5. CASE Rooted(y, c, b)
        BY <1>3, <3>5, RootedAlike
      <3> QED
        BY <3>3, <3>4, <3>5
    <2> QED
      BY <2>1, <2>2
  <1>11. ASSUME NEW j \in K, At(d, Config(c)) = t.ops[j].staged,
                \A i \in K : i > j /\ t.ops[i].published => ~Due(t, i)
         PROVE  Restorable(d, c, b)
    <2>1. j \in 1..Len(t.ops) /\ t.ops[j].dest = Config(c) /\ K \subseteq 1..Len(t.ops)
      BY <1>11 DEF ConfigOps
    <2>2. \A i \in K : i > j => FALSE
      <3>1. SUFFICES ASSUME NEW i \in K, i > j PROVE FALSE
        OBVIOUS
      <3>2. i < s => FALSE
        BY <1>6, <1>11, <3>1
      <3>3. j = i
        BY <1>7, <1>11, <3>1, <3>2
      <3> QED
        BY <2>1, <3>1, <3>3
    <2>3. At(y, Config(c)) = t.ops[j].staged
      BY <1>8, <2>1, <2>2
    <2> QED
      BY <1>3, <1>5, <1>11, <2>3, RestorableAlike
  <1> QED
    BY <1>9, <1>10, <1>11 DEF Left

\* A configuration that others wrote is one that no layer expects.
LEMMA RestorableDisturbed ==
  ASSUME NEW t, NEW d, Running1(t), IsDisk(d), NEW c \in Clients, NEW b, Disturbed(t, d, c, b),
         \/ At(d, State) = At(t.before, State)
         \/ \E s \in 1..Len(t.ops) : t.ops[s].dest = State /\ At(d, State) = t.ops[s].staged
  PROVE  Restorable(d, c, b)
  <1>1. Proper(d) /\ Proper(t.before)
    BY DiskIsProper, RunningFacts
  <1>2. CASE At(d, Config(c)) = None
    BY <1>1, <1>2, RestorableWithout
  <1>3. CASE At(d, Config(c)) # None
    <2>1. At(d, Config(c)).bytes = b /\ Foreign(t, c, b)
      BY <1>3 DEF Disturbed
    <2>2. ASSUME NEW l \in LayersOn(d, c) PROVE Entry(d, l).expected.bytes # b
      <3>1. CASE At(d, State) = At(t.before, State)
        <4>1. SameLayers(t.before, d, c)
          BY <1>1, <3>1, LayersAlike
        <4> QED
          BY <2>1, <2>2, <4>1 DEF SameLayers, Foreign
      <3>2. ASSUME NEW s \in 1..Len(t.ops), t.ops[s].dest = State, At(d, State) = t.ops[s].staged
            PROVE  Entry(d, l).expected.bytes # b
        <4>1. At(d, State) # None
          BY <1>1, <2>2, NoLayersWithout
        <4>2. LedgerOn(d) = t.ops[s].staged.bytes
          BY <1>1, <3>2, <4>1, LedgerAtFacts DEF Proper
        <4>3. l \in DOMAIN LedgerOn(d).entries /\ l[1] = c
          BY <1>1, <2>2, LayersFacts
        <4> QED
          BY <2>1, <3>2, <4>1, <4>2, <4>3 DEF Foreign, Entry
      <3> QED
        BY <3>1, <3>2
    <2>3. ~Expecting(d, c)
      BY <2>1, <2>2 DEF Expecting
    <2> QED
      BY <2>1, <2>3 DEF Restorable
  <1> QED
    BY <1>2, <1>3

LEMMA RestorableNow ==
  ASSUME NEW t, NEW d, NEW lf, Running1(t), IsDisk(d), Static(t, lf), Progress(t), TurnsOf(t),
         Ordered(t), WritesConfigs(t), LedgerTracked(t, d), Unorphaned(t),
         NEW c \in Clients, RecordedIn(t, d) => c \notin Adopts(t), Chained(t.before, c),
         NEW b, ConfigTracked(t, d, c, b)
  PROVE  Restorable(d, c, b)
  <1>1. \/ /\ At(d, State) = At(t.before, State)
           /\ \A s \in 1..Len(t.ops) : t.ops[s].dest = State => ~Active(t.ops[s])
        \/ \E s \in 1..Len(t.ops) :
             /\ t.ops[s].dest = State /\ Active(t.ops[s]) /\ Reached(t, s)
             /\ At(d, State) = t.ops[s].staged /\ At(Outcome(t), State) = At(d, State)
    BY LedgerNow
  <1>2. CASE Config(c) \in t.touched
    <2>1. Disturbed(t, d, c, b)
      BY <1>2 DEF ConfigTracked
    <2> QED
      BY <1>1, <2>1, RestorableDisturbed
  <1>3. CASE Config(c) \notin t.touched
    <2>1. Restorable(t.before, c, b) /\ Left(t, d, c)
      BY <1>3 DEF ConfigTracked, Undisturbed
    <2>2. CASE /\ At(d, State) = At(t.before, State)
               /\ \A s \in 1..Len(t.ops) : t.ops[s].dest = State => ~Active(t.ops[s])
      BY <2>1, <2>2, RestorableUnrecorded
    <2>3. ASSUME NEW s \in 1..Len(t.ops), t.ops[s].dest = State, Active(t.ops[s]), Reached(t, s),
                 At(d, State) = t.ops[s].staged, At(Outcome(t), State) = At(d, State)
          PROVE  Restorable(d, c, b)
      <3>1. c \notin Adopts(t)
        BY <2>3, NotAdopted
      <3> QED
        BY <2>1, <2>3, <3>1, RestorableRecorded
    <2> QED
      BY <1>1, <2>2, <2>3
  <1> QED
    BY <1>2, <1>3

-----------------------------------------------------------------------------
(* What others write.                                                      *)

\* While another program writes p: the old file at p is none of the ledgers.
LEMMA LedgerTrackedTouched ==
  ASSUME NEW t, NEW u, NEW d, NEW e, NEW p, NEW lf, t # Idle, Running1(t), Touches(t, u, p),
         \A q : q # p => At(e, q) = At(d, q),
         At(d, p) # None => ~Readable(At(d, p).bytes),
         p = State => At(d, p) # None,
         Progress(t), Static(t, lf), LedgerTracked(t, d)
  PROVE  LedgerTracked(u, e)
  <1>1. /\ u.phase = t.phase /\ u.ops = t.ops /\ u.at = t.at /\ u.before = t.before
        /\ Onward(u) = Onward(t)
    BY DEF Touches, Onward
  <1>2. ASSUME NEW s \in 1..Len(t.ops), t.ops[s].dest = State PROVE LedgerPlace(u, e, s) /\ p # State
    <2> DEFINE o == t.ops[s]
    <2>1. LedgerPlace(t, d, s) /\ GoodLedger(o.staged) /\ GoodLedger(At(t.before, State))
      BY <1>2 DEF LedgerTracked
    <2>2. o.prior = At(t.before, State)
      <3>1. t.ops # <<>>
        BY <1>2
      <3>2. PlanPlaces(t.ops) /\ PlanPriors(t.before, t.ops) /\ Len(t.ops) \in Nat
        BY <3>1, RunningFacts DEF Static
      <3>3. State \notin ConfigNames
        BY HomesDiffer DEF ConfigNames
      <3>4. \A j \in 1..(s - 1) : t.ops[j].dest # State
        BY <1>2, <3>2, <3>3 DEF PlanPlaces
      <3> QED
        BY <1>2, <3>2, <3>4 DEF PlanPriors
    <2>3. p # State
      <3>1. At(d, State) \in {None, At(t.before, State), o.staged}
        BY <2>1 DEF LedgerPlace, Active
      <3> QED
        BY <2>1, <3>1 DEF GoodLedger
    <2>4. o.moved /\ t.phase \notin Over => p # Aside(s)
      <3>1. SUFFICES ASSUME o.moved, t.phase \notin Over, p = Aside(s) PROVE FALSE
        OBVIOUS
      <3>2. At(d, p) = At(t.before, State)
        BY <2>1, <2>2, <3>1 DEF LedgerPlace
      <3>3. o.prior # None
        BY <3>1 DEF Progress
      <3> QED
        BY <2>1, <2>2, <3>2, <3>3 DEF GoodLedger
    <2>5. ~o.published /\ o.staged # None /\ Onward(t) => p # Stage(s)
      <3>1. SUFFICES ASSUME ~o.published, o.staged # None, Onward(t), p = Stage(s) PROVE FALSE
        OBVIOUS
      <3>2. At(d, p) = o.staged
        BY <2>1, <3>1 DEF LedgerPlace
      <3> QED
        BY <2>1, <3>1, <3>2 DEF GoodLedger
    <2> QED
      BY <1>1, <2>1, <2>3, <2>4, <2>5 DEF LedgerPlace
  <1>3. t.ops = <<>> => p # State
    BY DEF LedgerTracked, GoodLedger
  <1> QED
    BY <1>1, <1>2, <1>3 DEF LedgerTracked

\* Another name was written: nothing that is told of c's configuration changes.
LEMMA ConfigTrackedElsewhere ==
  ASSUME NEW t, NEW u, NEW d, NEW e, NEW p, t # Idle, Touches(t, u, p),
         \A q : q # p => At(e, q) = At(d, q),
         \/ At(e, p) = None
         \/ At(e, p).bytes \in OtherBytes
         \/ p \in Homes,
         WritesConfigs(t), NEW c \in Clients, p # Config(c), NEW b, ConfigTracked(t, d, c, b)
  PROVE  ConfigTracked(u, e, c, b)
  <1>1. /\ u.phase = t.phase /\ u.ops = t.ops /\ u.at = t.at /\ u.before = t.before
        /\ At(e, Config(c)) = At(d, Config(c)) /\ (Config(c) \in u.touched <=> Config(c) \in t.touched)
    BY DEF Touches
  <1>2. /\ ConfigOps(u, c) = ConfigOps(t, c) /\ Now(u) = Now(t)
        /\ \A i : /\ Due(u, i) <=> Due(t, i)
                  /\ Reached(u, i) <=> Reached(t, i)
    BY <1>1 DEF ConfigOps, Now, Due, Reached, Onward, Pending
  <1>3. Undisturbed(t, d, c) => Undisturbed(u, e, c)
    BY <1>1, <1>2 DEF Undisturbed, Left
  <1>4. ASSUME Disturbed(t, d, c, b) PROVE Disturbed(u, e, c, b)
    <2>1. Foreign(t, c, b) => Foreign(u, c, b)
      BY <1>1, ForeignSame
    <2>2. ASSUME NEW j \in ConfigOps(t, c), At(d, Aside(j)) # t.ops[j].prior
          PROVE  At(e, Aside(j)) # t.ops[j].prior
      <3>1. t.ops[j].prior \in ConfigFiles
        BY <2>2 DEF WritesConfigs
      <3>2. t.ops[j].prior # None /\ t.ops[j].prior.bytes \notin OtherBytes
        BY <3>1, BytesDiffer
      <3>3. CASE p = Aside(j)
        <4>1. j \in Nat
          BY <2>2 DEF ConfigOps
        <4>2. p \notin Homes
          BY <3>3, <4>1, NameFacts
        <4> QED
          BY <3>2, <3>3, <4>2
      <3> QED
        BY <2>2, <3>3
    <2> QED
      BY <1>1, <1>2, <1>4, <2>1, <2>2 DEF Disturbed
  <1> QED
    BY <1>1, <1>3, <1>4 DEF ConfigTracked

\* The configuration is deleted, and was not the last version of others.
LEMMA ConfigTrackedRuined ==
  ASSUME NEW t, NEW u, NEW d, NEW e, NEW c \in Clients, NEW b, t # Idle, Touches(t, u, Config(c)),
         Running1(t), Running1(u), Progress(t), WritesConfigs(t),
         At(d, Config(c)) # None, At(d, Config(c)).bytes # b, At(e, Config(c)) = None,
         ConfigTracked(t, d, c, b)
  PROVE  ConfigTracked(u, e, c, b)
  <1>1. /\ u.phase = t.phase /\ u.ops = t.ops /\ u.at = t.at /\ Config(c) \in u.touched
    BY DEF Touches
  <1>2. ConfigOps(u, c) = ConfigOps(t, c) /\ Now(u) = Now(t) /\ \A i : Reached(u, i) <=> Reached(t, i)
    BY <1>1 DEF ConfigOps, Now, Reached, Onward
  <1>3. Undisturbed(t, d, c)
    BY DEF ConfigTracked, Disturbed
  <1>4. \A j \in ConfigOps(t, c) : ~(t.ops[j].moved /\ ~t.ops[j].published /\ Reached(t, j))
    BY <1>3 DEF Undisturbed
  <1>5. ~(t.phase = "publish" /\ Now(t).dest = Config(c))
    <2>1. SUFFICES ASSUME t.phase = "publish", Now(t).dest = Config(c) PROVE FALSE
      OBVIOUS
    <2>2. t.at \in 1..Len(t.ops) /\ Onward(t)
      BY <2>1 DEF Running1, Placing, Forwards, Onward
    <2>3. t.at \in ConfigOps(t, c) /\ Reached(t, t.at)
      BY <2>1, <2>2 DEF ConfigOps, Now, Reached
    <2>4. t.ops[t.at].prior # None
      BY <2>3, ConfigFileFacts DEF WritesConfigs
    <2>5. t.ops[t.at].moved /\ ~t.ops[t.at].published
      BY <2>1, <2>4 DEF Progress
    <2> QED
      BY <1>4, <2>3, <2>5
  <1> QED
    BY <1>1, <1>2, <1>4, <1>5 DEF ConfigTracked, Disturbed

\* Another program saves the configuration.
LEMMA ConfigTrackedEdited ==
  ASSUME NEW t, NEW u, NEW e, NEW c \in Clients, t # Idle, Touches(t, u, Config(c)),
         NEW f \in ConfigFiles, At(e, Config(c)) = f, Foreign(t, c, f.bytes)
  PROVE  ConfigTracked(u, e, c, f.bytes)
  <1>1. u.ops = t.ops /\ u.before = t.before /\ Config(c) \in u.touched
    BY DEF Touches
  <1>2. Foreign(u, c, f.bytes)
    BY <1>1, ForeignSame
  <1>3. f # None
    BY ConfigFileFacts
  <1> QED
    BY <1>1, <1>2, <1>3 DEF ConfigTracked, Disturbed

\* A new version of the configuration is expected by no layer.
LEMMA RestorableEdited ==
  ASSUME NEW d, NEW e, IsDisk(d), IsDisk(e), NEW n \in Nat, DatedDisk(d, n), NEW c \in Clients,
         NEW f \in ConfigFiles, f.bytes.rest = n + 1,
         \A q : At(e, q) = IF q = Config(c) THEN f ELSE At(d, q)
  PROVE  Restorable(e, c, f.bytes)
  <1>1. Proper(d) /\ Proper(e)
    BY DiskIsProper
  <1>2. At(e, State) = At(d, State) /\ At(e, Config(c)) = f
    BY HomesDiffer
  <1>3. SameLayers(d, e, c)
    BY <1>1, <1>2, LayersAlike
  <1>4. ASSUME NEW l \in LayersOn(e, c) PROVE Entry(e, l).expected # f
    <2>1. l \in LayersOn(d, c) /\ Entry(e, l) = Entry(d, l)
      BY <1>3, <1>4 DEF SameLayers
    <2>2. /\ Readable(LedgerOn(d)) /\ l \in DOMAIN LedgerOn(d).entries
          /\ Entry(d, l).expected \in ConfigFiles
      BY <1>1, <2>1, LayersFacts
    <2>3. LedgerOn(d) \in LedgerBytes
      BY <1>1, <2>2, ReadableLedger
    <2>4. Entry(d, l).expected.bytes.rest <= n
      BY <2>2, <2>3, DatedEntries DEF Entry
    <2>5. Entry(d, l).expected.bytes.rest \in Nat
      BY <2>2, BytesDiffer
    <2> QED
      BY <2>1, <2>4, <2>5
  <1> QED
    BY <1>2, <1>4 DEF Restorable, Expecting

\* Between commands another program writes p, which is no ledger.
LEMMA RestorableElsewhere ==
  ASSUME NEW d, NEW e, Proper(d), Proper(e), NEW c, NEW b, Restorable(d, c, b),
         At(e, State) = At(d, State),
         At(e, Config(c)) = At(d, Config(c)) \/ At(e, Config(c)) = None
  PROVE  Restorable(e, c, b)
  <1>1. SameLayers(d, e, c)
    BY LayersAlike
  <1> QED
    BY <1>1, RestorableAlike, RestorableWithout

-----------------------------------------------------------------------------
(* The invariant behind RevertRestores.                                    *)

LEMMA OutcomeIsReadable ==
  ASSUME NEW t, NEW U, IsDisk(t.before), IsFiniteSet(U), t.req \in Requests,
         \/ /\ t.req.kind = "use" /\ CanUse(t.before, LedgerOn(t.before), t.req)
            /\ t.ops = UseOperations(t.before, U, t.req) /\ t.ops # <<>>
         \/ /\ t.req.kind = "revert" /\ CanRevert(t.before, LedgerOn(t.before), t.req)
            /\ t.ops = RevertOperations(t.before, U, t.req) /\ t.ops # <<>>
  PROVE  Readable(LedgerOn(Outcome(t)))
  <1>1. CASE /\ t.req.kind = "use" /\ CanUse(t.before, LedgerOn(t.before), t.req)
             /\ t.ops = UseOperations(t.before, U, t.req) /\ t.ops # <<>>
    <2>1. Changed(t.before, t.req) # {}
      BY <1>1 DEF UseOperations
    <2>2. UsePremise(t.before, U, t.req)
      BY <1>1 DEF UsePremise
    <2>3. LedgerOn(Target(t.before, UseOperations(t.before, U, t.req))) = LedgerAfterUse(t.before, U, t.req)
      BY <2>1, <2>2, UseTarget
    <2>4. Readable(LedgerAfterUse(t.before, U, t.req))
      BY <2>2, UseReadable
    <2> QED
      BY <1>1, <2>3, <2>4 DEF Outcome
  <1>2. CASE /\ t.req.kind = "revert" /\ CanRevert(t.before, LedgerOn(t.before), t.req)
             /\ t.ops = RevertOperations(t.before, U, t.req) /\ t.ops # <<>>
    <2>1. Selected(LedgerOn(t.before), t.req) # <<>>
      BY <1>2 DEF RevertOperations
    <2>2. RevertPremise(t.before, U, t.req)
      BY <1>2 DEF RevertPremise
    <2>3. Readable(LedgerOn(Target(t.before, RevertOperations(t.before, U, t.req))))
      BY <2>1, <2>2, RevertTarget
    <2> QED
      BY <1>2, <2>3 DEF Outcome
  <1> QED
    BY <1>1, <1>2

\* A ledger that is planned can be read.
LEMMA StagesGoodLedger ==
  ASSUME NEW t, Running1(t), PlanPlaces(t.ops), Readable(LedgerOn(Outcome(t))),
         NEW s \in 1..Len(t.ops), t.ops[s].dest = State
  PROVE  GoodLedger(t.ops[s].staged)
  <1>1. t.ops \in Seq(Operations) /\ IsDisk(t.before) /\ Len(t.ops) \in Nat
    BY RunningFacts DEF Transactions
  <1>2. State \notin ConfigNames
    BY HomesDiffer DEF ConfigNames
  <1>3. \A j \in 1..Len(t.ops) : j > s => t.ops[j].dest # t.ops[s].dest
    <2>1. \A j \in 1..Len(t.ops) : t.ops[j].dest = State => j = s
      BY <1>2 DEF PlanPlaces
    <2> QED
      BY <1>1, <2>1
  <1>4. At(Outcome(t), State) = t.ops[s].staged
    BY <1>1, <1>3, TargetFacts DEF Outcome
  <1>5. At(Outcome(t), State) # None => LedgerOn(Outcome(t)) = At(Outcome(t), State).bytes
    BY LedgerAtFacts, OutcomeIsProper DEF Proper
  <1> QED
    BY <1>4, <1>5 DEF GoodLedger

\* The running command has done nothing yet.
LEMMA TrackingBegins ==
  ASSUME NEW u, NEW d, NEW e, Running1(u), u.before = d, u.touched = {},
         \A p \in Homes : At(e, p) = At(d, p),
         \A i \in 1..Len(u.ops) : /\ u.ops[i].moved = FALSE /\ u.ops[i].published = FALSE
                                  /\ u.ops[i].staged # None => At(e, Stage(i)) = u.ops[i].staged,
         \A i \in 1..Len(u.ops) : u.ops[i].dest = State => GoodLedger(u.ops[i].staged),
         GoodLedger(At(d, State))
  PROVE  /\ LedgerTracked(u, e)
         /\ \A c \in Clients : \A b : Restorable(d, c, b) => ConfigTracked(u, e, c, b)
  <1>1. At(e, State) = At(d, State) /\ \A c \in Clients : At(e, Config(c)) = At(d, Config(c))
    BY NameFacts
  <1>2. \A c : ConfigOps(u, c) \subseteq 1..Len(u.ops)
    BY DEF ConfigOps
  <1>3. LedgerTracked(u, e)
    BY <1>1 DEF LedgerTracked, LedgerPlace, Active
  <1>4. ASSUME NEW c \in Clients PROVE Undisturbed(u, e, c)
    BY <1>1, <1>2, <1>4 DEF Undisturbed, Left
  <1> QED
    BY <1>3, <1>4 DEF ConfigTracked

LEMMA AnsweredUnorphaned ==
  ASSUME NEW t, NEW d, Running1(t), Progress(t), LedgerTracked(t, d), t.phase \in Answers
  PROVE  Unorphaned(t)
  <1>1. SUFFICES ASSUME NEW s \in 1..Len(t.ops), t.ops[s].dest = State, t.ops[s].staged # None,
                        t.ops[s].moved, ~t.ops[s].published
                 PROVE  FALSE
    BY DEF Unorphaned
  <1>2. CASE t.phase \in {"ok", "unfinished"}
    <2>1. Done(t.ops[s])
      BY <1>2 DEF Progress, Over
    <2> QED
      BY <1>1, <2>1 DEF Done
  <1>3. CASE t.phase \in {"failed", "refused", "incomplete"}
    <2>1. ~Onward(t) /\ Settled(t)
      BY <1>3 DEF Onward, Settled, Forwards
    <2>2. s <= t.at
      BY <1>1, <2>1 DEF LedgerTracked, LedgerPlace, Active
    <2>3. Len(t.ops) = 0 \/ t.at = 0
      BY <2>1 DEF Progress
    <2>4. Len(t.ops) \in Nat /\ t.at \in Nat
      BY RunningFacts
    <2> QED
      BY <2>2, <2>3, <2>4
  <1> QED
    BY <1>2, <1>3 DEF Answers

\* A command that dies with the ledger aside leaves a ledger that can be read.
LEMMA DeadUnorphaned ==
  ASSUME NEW lf, Running1(tx), IsDisk(disk), Progress(tx), Static(tx, lf), LedgerTracked(tx, disk),
         \A f \in Orphaned : ~Readable(f.bytes)
  PROVE  Unorphaned(tx)
  <1>1. SUFFICES ASSUME NEW s \in 1..Len(tx.ops), tx.ops[s].dest = State, tx.ops[s].staged # None,
                        tx.ops[s].moved, ~tx.ops[s].published
                 PROVE  FALSE
    BY DEF Unorphaned
  <1>2. tx.phase \notin Over
    <2>1. SUFFICES ASSUME tx.phase \in Over PROVE FALSE
      OBVIOUS
    <2>2. Done(tx.ops[s])
      BY <2>1 DEF Progress
    <2> QED
      BY <1>1, <2>2 DEF Done
  <1>3. LedgerPlace(tx, disk, s) /\ GoodLedger(At(tx.before, State))
    BY <1>1 DEF LedgerTracked
  <1>4. At(disk, State) = None /\ At(disk, Aside(s)) = tx.ops[s].prior
    BY <1>1, <1>2, <1>3 DEF LedgerPlace
  <1>5. tx.ops[s].prior # None
    BY <1>1 DEF Progress
  <1>6. tx.ops[s].prior = At(tx.before, State)
    <2>1. tx.ops # <<>>
      BY <1>1
    <2>2. PlanPlaces(tx.ops) /\ PlanPriors(tx.before, tx.ops) /\ Len(tx.ops) \in Nat
      BY <2>1, RunningFacts DEF Static
    <2>3. State \notin ConfigNames
      BY HomesDiffer DEF ConfigNames
    <2>4. \A j \in 1..(s - 1) : tx.ops[j].dest # State
      BY <1>1, <2>2, <2>3 DEF PlanPlaces
    <2> QED
      BY <1>1, <2>2, <2>4 DEF PlanPriors
  <1>7. State \notin DOMAIN disk /\ Aside(s) \in DOMAIN disk /\ disk[Aside(s)] = tx.ops[s].prior
    BY <1>4, <1>5, AtFacts DEF At
  <1>8. tx.ops[s].prior \in Orphaned
    BY <1>1, <1>7 DEF Orphaned
  <1> QED
    BY <1>3, <1>5, <1>6, <1>8 DEF GoodLedger

Spared   == synced /\ State \notin abandoned /\ \A f \in spoilt : ~Readable(f.bytes)
Fresh(c) == Config(c) \notin abandoned /\ \A f \in spoilt : f.bytes # version[c]

RestoreInv ==
  /\ tx # Idle => Ordered(tx) /\ WritesConfigs(tx)
  /\ Spared =>
       /\ IF tx = Idle THEN GoodLedger(At(disk, State)) ELSE LedgerTracked(tx, disk)
       /\ \A c \in Clients \ adopted : Fresh(c) =>
            IF tx = Idle THEN Restorable(disk, c, version[c]) ELSE ConfigTracked(tx, disk, c, version[c])

\* What a running, an idle state have to show.
LEMMA RestoreShown ==
  /\ tx # Idle /\ Ordered(tx) /\ WritesConfigs(tx)
       /\ (Spared => /\ LedgerTracked(tx, disk)
                     /\ \A c \in Clients \ adopted : Fresh(c) => ConfigTracked(tx, disk, c, version[c]))
       => RestoreInv
  /\ tx = Idle
       /\ (Spared => /\ GoodLedger(At(disk, State))
                     /\ \A c \in Clients \ adopted : Fresh(c) => Restorable(disk, c, version[c]))
       => RestoreInv
  BY DEF RestoreInv

LEMMA RestoreStarts ==
  ASSUME TypeInv, RestoreInv, tx = Idle, Running1(tx'), tx'.before = disk, tx'.touched = {},
         \A p \in Homes : At(disk', p) = At(disk, p),
         \A i \in 1..Len(tx'.ops) : /\ tx'.ops[i].moved = FALSE /\ tx'.ops[i].published = FALSE
                                    /\ tx'.ops[i].staged # None => At(disk', Stage(i)) = tx'.ops[i].staged,
         \A i \in 1..Len(tx'.ops) : tx'.ops[i].dest = State => GoodLedger(tx'.ops[i].staged),
         Ordered(tx'), WritesConfigs(tx'),
         spoilt' = spoilt, synced' = synced, abandoned' = abandoned, version' = version, adopted' = adopted
  PROVE  RestoreInv'
  <1>1. tx' # Idle
    BY RunningFacts
  <1>2. ASSUME Spared'
        PROVE  /\ LedgerTracked(tx', disk')
               /\ \A c \in Clients \ adopted' : Fresh(c)' => ConfigTracked(tx', disk', c, version'[c])
    <2>1. Spared /\ \A c \in Clients : Fresh(c)' => Fresh(c)
      BY <1>2 DEF Spared, Fresh
    <2>2. GoodLedger(At(disk, State))
          /\ \A c \in Clients \ adopted : Fresh(c) => Restorable(disk, c, version[c])
      BY <2>1 DEF RestoreInv
    <2>3. /\ LedgerTracked(tx', disk')
          /\ \A c \in Clients : \A b : Restorable(disk, c, b) => ConfigTracked(tx', disk', c, b)
      BY <2>2, TrackingBegins
    <2> QED
      BY <2>1, <2>2, <2>3
  <1> QED
    BY <1>1, <1>2 DEF RestoreInv

LEMMA RestoreBegins ==
  ASSUME TypeInv, ExactInv, RestoreInv, NEW req \in Requests, Begin(req)
  PROVE  RestoreInv'
  <1>1. /\ tx = Idle /\ Running1(tx') /\ tx'.before = disk /\ tx'.touched = {} /\ tx'.req = req
        /\ spoilt' = spoilt /\ synced' = synced /\ abandoned' = abandoned /\ version' = version /\ adopted' = adopted
    BY BeginSteps DEF Starts, history
  <1>2. /\ \/ tx'.ops = <<>>
           \/ /\ req.kind = "use" /\ CanUse(disk, LedgerOn(disk), req)
              /\ tx'.ops = UseOperations(disk, Inodes, req) /\ tx'.ops # <<>>
           \/ /\ req.kind = "revert" /\ CanRevert(disk, LedgerOn(disk), req)
              /\ tx'.ops = RevertOperations(disk, Inodes, req) /\ tx'.ops # <<>>
        /\ IsDisk(disk) /\ IsFiniteSet(Inodes)
    BY PlansBegin
  <1>3. Ordered(tx') /\ WritesConfigs(tx')
    <2>1. \/ tx'.ops = <<>>
          \/ /\ tx'.req.kind = "use" /\ CanUse(tx'.before, LedgerOn(tx'.before), tx'.req)
             /\ tx'.ops = UseOperations(tx'.before, Inodes, tx'.req) /\ tx'.ops # <<>>
          \/ /\ tx'.req.kind = "revert" /\ CanRevert(tx'.before, LedgerOn(tx'.before), tx'.req)
             /\ tx'.ops = RevertOperations(tx'.before, Inodes, tx'.req) /\ tx'.ops # <<>>
      BY <1>1, <1>2
    <2>2. IsDisk(tx'.before) /\ tx'.req \in Requests
      BY <1>1, <1>2
    <2> QED
      BY <1>2, <2>1, <2>2, OrderedBegins
  <1>4. \/ IsPlan(disk, Inodes, tx'.ops) /\ Lays(disk, disk', tx'.ops)
        \/ tx'.ops = <<>> /\ disk' = disk
    BY BeginSteps DEF Starts
  <1>5. \A p \in Homes : At(disk', p) = At(disk, p)
    <2>1. \A p \in Homes : p \notin StageNames
      BY NameFacts DEF ArtifactNames
    <2> QED
      BY <1>4, <2>1 DEF Lays
  <1>6. ASSUME NEW i \in 1..Len(tx'.ops)
        PROVE  /\ tx'.ops[i].moved = FALSE /\ tx'.ops[i].published = FALSE
               /\ tx'.ops[i].staged # None => At(disk', Stage(i)) = tx'.ops[i].staged
               /\ tx'.ops[i].dest = State => GoodLedger(tx'.ops[i].staged)
    <2>1. tx'.ops # <<>>
      BY <1>6
    <2>2. IsPlan(disk, Inodes, tx'.ops) /\ Lays(disk, disk', tx'.ops)
      BY <1>4, <2>1
    <2>3. tx'.ops[i].moved = FALSE /\ tx'.ops[i].published = FALSE
      BY <2>2 DEF IsPlan, PlanTyped
    <2>4. At(disk', Stage(i)) = tx'.ops[i].staged
      <3>1. i \in Nat
        OBVIOUS
      <3>2. At(disk, Stage(i)) = None
        BY <1>1, <3>1, NameFacts DEF ExactInv
      <3> QED
        BY <2>2, <3>1, <3>2 DEF Lays
    <2>5. Readable(LedgerOn(Outcome(tx')))
      <3>1. \/ /\ tx'.req.kind = "use" /\ CanUse(tx'.before, LedgerOn(tx'.before), tx'.req)
               /\ tx'.ops = UseOperations(tx'.before, Inodes, tx'.req) /\ tx'.ops # <<>>
            \/ /\ tx'.req.kind = "revert" /\ CanRevert(tx'.before, LedgerOn(tx'.before), tx'.req)
               /\ tx'.ops = RevertOperations(tx'.before, Inodes, tx'.req) /\ tx'.ops # <<>>
        BY <1>1, <1>2, <2>1
      <3>2. IsDisk(tx'.before) /\ tx'.req \in Requests
        BY <1>1, <1>2
      <3> QED
        BY <1>2, <3>1, <3>2, OutcomeIsReadable
    <2>6. PlanPlaces(tx'.ops)
      BY <2>2 DEF IsPlan
    <2> QED
      BY <1>1, <2>3, <2>4, <2>5, <2>6, StagesGoodLedger
  <1> QED
    BY <1>1, <1>3, <1>5, <1>6, RestoreStarts

LEMMA RestoreRefuses ==
  ASSUME TypeInv, RestoreInv, NEW req \in Requests, Refuse(req) \/ StagingFails(req)
  PROVE  RestoreInv'
  <1>1. /\ tx = Idle /\ Running1(tx') /\ disk' = disk /\ tx'.before = disk /\ tx'.ops = <<>> /\ tx'.touched = {}
        /\ tx'.req = req
        /\ spoilt' = spoilt /\ synced' = synced /\ abandoned' = abandoned /\ version' = version /\ adopted' = adopted
    BY RefuseSteps DEF Starts
  <1>2. 1..Len(tx'.ops) = {}
    BY <1>1
  <1>3. Ordered(tx') /\ WritesConfigs(tx')
    BY <1>2 DEF Ordered, WritesConfigs, ConfigOps
  <1> QED
    BY <1>1, <1>2, <1>3, RestoreStarts

LEMMA RestoreWorks ==
  ASSUME TypeInv, StaticInv, ExactInv, BackedInv, RestoreInv, Works \/ Errs
  PROVE  RestoreInv'
  <1>1. /\ tx # Idle /\ Running1(tx) /\ Running1(tx') /\ IsDisk(disk) /\ IsDisk(disk')
        /\ Carries(tx, tx') /\ RunStep(tx, disk, tx', disk')
        /\ version' = version /\ spoilt' = spoilt /\ synced' = synced /\ adopted \subseteq adopted'
        /\ abandoned \subseteq abandoned'
    BY WorkSteps, ErrsSteps, AdoptsAtWork
  <1>2. Steps(tx, tx') /\ tx' # Idle /\ tx \in Transactions
    BY <1>1, RunningFacts DEF Steps
  <1>3. Progress(tx) /\ Stages(tx, disk, spoilt) /\ Static(tx, left)
    BY <1>1 DEF ExactInv, BackedInv, StaticInv
  <1>4. PlanPriors(tx.before, tx.ops)
    <2>1. tx.phase \notin Answers
      BY <1>1 DEF RunStep, TakeStep, StopStep, MoveStep, PublishStep, VerifyStep, FinishStep, UndoStep,
           DisplaceStep, RestoreStep, DiscardStep, GiveUpStep, GivesUpNow, CleanStep, Answers
    <2>2. Len(tx.ops) # 0
      <3>1. tx.phase \in Phases /\ Len(tx.ops) \in Nat
        BY <1>1, RunningFacts
      <3> QED
        BY <1>1, <2>1, <3>1 DEF Running1, Placing, Phases, Forwards, Backwards
    <2>3. tx.ops # <<>>
      BY <2>2
    <2> QED
      BY <1>3, <2>3 DEF Static
  <1>5. Ordered(tx) /\ WritesConfigs(tx)
    BY <1>1 DEF RestoreInv
  <1>6. Ordered(tx') /\ WritesConfigs(tx')
    BY <1>1, <1>2, <1>5, OrderedKept DEF Carries
  <1>7. Acts(tx, disk, tx') \/ Now(tx).dest \in abandoned'
    BY WorksAct, ErrsAct
  <1>8. ASSUME Spared'
        PROVE  /\ LedgerTracked(tx', disk')
               /\ \A c \in Clients \ adopted' : Fresh(c)' => ConfigTracked(tx', disk', c, version'[c])
    <2>1. Spared /\ \A c \in Clients : Fresh(c)' => Fresh(c)
      BY <1>1, <1>8 DEF Spared, Fresh
    <2>2. LedgerTracked(tx, disk)
          /\ \A c \in Clients \ adopted : Fresh(c) => ConfigTracked(tx, disk, c, version[c])
      BY <1>1, <2>1 DEF RestoreInv
    <2>3. LedgerTracked(tx', disk')
      <3>1. Acts(tx, disk, tx') \/ Now(tx).dest # State
        BY <1>7, <1>8 DEF Spared
      <3> QED
        BY <1>1, <1>2, <1>3, <2>2, <3>1, LedgerTrackedStep
    <2>4. ASSUME NEW c \in Clients \ adopted', Fresh(c)' PROVE ConfigTracked(tx', disk', c, version'[c])
      <3> DEFINE b == version[c]
      <3>1. ConfigTracked(tx, disk, c, b)
        BY <1>1, <2>1, <2>2, <2>4
      <3>2. Disturbed(tx, disk, c, b) => Disturbed(tx', disk', c, b)
        BY <1>1, <1>2, <1>3, <1>5, DisturbedStep
      <3>3. Undisturbed(tx, disk, c) => Undisturbed(tx', disk', c)
        <4>1. Acts(tx, disk, tx') \/ Now(tx).dest # Config(c)
          BY <1>7, <2>4 DEF Fresh
        <4> QED
          BY <1>1, <1>2, <1>3, <1>4, <1>5, <4>1, UndisturbedStep
      <3>4. tx'.touched = tx.touched /\ tx'.before = tx.before
        BY <1>1 DEF Carries
      <3> QED
        BY <1>1, <3>1, <3>2, <3>3, <3>4 DEF ConfigTracked
    <2> QED
      BY <2>3, <2>4
  <1> QED
    BY <1>2, <1>6, <1>8 DEF RestoreInv

LEMMA RestoreUnseen ==
  ASSUME TypeInv, RestoreInv, SyncFails
  PROVE  RestoreInv'
  <1>1. /\ tx # Idle /\ Running1(tx) /\ Running1(tx') /\ Carries(tx, tx') /\ synced' = FALSE
    BY UnseenSteps
  <1>2. tx' # Idle /\ tx \in Transactions /\ ~(Spared')
    BY <1>1, RunningFacts DEF Spared
  <1>3. Ordered(tx) /\ WritesConfigs(tx)
    BY <1>1 DEF RestoreInv
  <1>4. Ordered(tx') /\ WritesConfigs(tx')
    BY <1>1, <1>2, <1>3, OrderedKept DEF Carries
  <1> QED
    BY <1>2, <1>4 DEF RestoreInv

LEMMA RestoreDeparts ==
  ASSUME TypeInv, StaticInv, ExactInv, TurnsInv, LostInv, RestoreInv, Return \/ Die
  PROVE  RestoreInv'
  <1>1. /\ Depart /\ version' = version /\ synced' = synced /\ abandoned' = abandoned
        /\ spoilt \subseteq spoilt' /\ tx # Idle
        /\ tx.phase \in Answers \/ Orphaned \subseteq spoilt'
    BY IdlePhase DEF Return, Die, Running, Answers
  <1>2. /\ tx' = Idle /\ Departs(disk, disk', left, left')
        /\ adopted' = IF RecordedIn(tx, disk) THEN adopted \cup Adopts(tx) ELSE adopted
    BY <1>1, DepartFacts, AdoptedAreNew DEF Recorded, RecordedIn
  <1>3. /\ Running1(tx) /\ IsDisk(disk) /\ Static(tx, left) /\ Progress(tx) /\ TurnsOf(tx)
        /\ Ordered(tx) /\ WritesConfigs(tx)
    BY <1>1 DEF TypeInv, StaticInv, ExactInv, TurnsInv, RestoreInv
  <1>4. /\ IsDisk(disk') /\ At(disk', State) = At(disk, State)
        /\ \A c \in Clients : At(disk', Config(c)) = At(disk, Config(c))
    BY <1>2, NameFacts DEF Departs
  <1>5. ASSUME Spared'
        PROVE  /\ GoodLedger(At(disk', State))
               /\ \A c \in Clients \ adopted' : Fresh(c)' => Restorable(disk', c, version'[c])
    <2>1. Spared /\ \A c \in Clients : Fresh(c)' => Fresh(c)
      BY <1>1, <1>5 DEF Spared, Fresh
    <2>2. LedgerTracked(tx, disk)
          /\ \A c \in Clients \ adopted : Fresh(c) => ConfigTracked(tx, disk, c, version[c])
      BY <1>1, <2>1 DEF RestoreInv
    <2>3. Unorphaned(tx)
      <3>1. Orphaned \subseteq spoilt' => \A f \in Orphaned : ~Readable(f.bytes)
        BY <1>5 DEF Spared
      <3> QED
        BY <1>1, <1>3, <2>2, <3>1, AnsweredUnorphaned, DeadUnorphaned
    <2>4. GoodLedger(At(disk', State))
      BY <1>3, <1>4, <2>2, <2>3, LedgerNow DEF LedgerTracked
    <2>5. ASSUME NEW c \in Clients \ adopted', Fresh(c)' PROVE Restorable(disk', c, version'[c])
      <3>1. c \in Clients \ adopted /\ (RecordedIn(tx, disk) => c \notin Adopts(tx))
        BY <1>2, <2>5
      <3>2. Chained(tx.before, c)
        BY <1>1, <3>1 DEF LostInv, LostRunning
      <3>3. ConfigTracked(tx, disk, c, version[c])
        BY <2>1, <2>2, <2>5, <3>1
      <3>4. Restorable(disk, c, version[c])
        BY <1>3, <2>2, <2>3, <3>1, <3>2, <3>3, RestorableNow
      <3>5. Proper(disk) /\ Proper(disk')
        BY <1>3, <1>4, DiskIsProper
      <3> QED
        BY <1>1, <1>4, <3>1, <3>4, <3>5, RestorableElsewhere
    <2> QED
      BY <2>4, <2>5
  <1> QED
    BY <1>2, <1>5 DEF RestoreInv

\* None of the files sp holds c's version, and no rollback abandoned it.
Anew(sp, c) == Config(c) \notin abandoned /\ \A f \in sp : f.bytes # version[c]

\* Another program writes p: what is told of the ledger and of the other
\* configurations still holds.
LEMMA RestoreTouched ==
  ASSUME TypeInv, StaticInv, ExactInv, RestoreInv, NEW p, Touches(tx, tx', p), IsDisk(disk'),
         Spoils(disk, disk', spoilt, spoilt', p), synced' = synced, abandoned' = abandoned, adopted' = adopted,
         p = State => At(disk, p) # None,
         \/ At(disk', p) = None
         \/ At(disk', p).bytes \in OtherBytes
         \/ p \in Homes
  PROVE  /\ tx # Idle =>
              /\ tx' # Idle /\ Ordered(tx') /\ WritesConfigs(tx')
              /\ Spared' => /\ LedgerTracked(tx', disk')
                            /\ \A c \in Clients \ adopted :
                                 p # Config(c) /\ Anew(spoilt', c) =>
                                   ConfigTracked(tx', disk', c, version[c])
         /\ tx = Idle =>
              /\ tx' = Idle
              /\ Spared' => /\ GoodLedger(At(disk', State))
                            /\ \A c \in Clients \ adopted :
                                 p # Config(c) /\ Anew(spoilt', c) =>
                                   Restorable(disk', c, version[c])
  <1>1. /\ \A q : q # p => At(disk', q) = At(disk, q)
        /\ spoilt \subseteq spoilt' /\ (At(disk, p) # None => At(disk, p) \in spoilt')
    BY DEF Spoils
  <1>2. Spared' => Spared /\ (At(disk, p) # None => ~Readable(At(disk, p).bytes))
    BY <1>1 DEF Spared
  <1>3. \A c : Anew(spoilt', c) => Fresh(c)
    BY <1>1 DEF Fresh, Anew
  <1>4. CASE tx # Idle
    <2>1. Running1(tx) /\ Progress(tx) /\ Static(tx, left) /\ Ordered(tx) /\ WritesConfigs(tx)
      BY <1>4 DEF TypeInv, ExactInv, StaticInv, RestoreInv
    <2>2. Running1(tx') /\ tx'.ops = tx.ops /\ tx'.before = tx.before /\ tx'.req = tx.req
      BY <1>4 DEF Touches
    <2>3. tx' # Idle /\ tx \in Transactions
      BY <2>1, <2>2, RunningFacts
    <2>4. Ordered(tx') /\ WritesConfigs(tx')
      BY <2>1, <2>2, <2>3, OrderedKept DEF SameOps
    <2>5. ASSUME Spared' PROVE LedgerTracked(tx', disk')
      BY <1>1, <1>2, <1>4, <2>1, <2>5, LedgerTrackedTouched DEF RestoreInv
    <2>6. ASSUME Spared', NEW c \in Clients \ adopted, p # Config(c), Anew(spoilt', c)
          PROVE  ConfigTracked(tx', disk', c, version[c])
      <3>1. ConfigTracked(tx, disk, c, version[c])
        BY <1>2, <1>3, <1>4, <2>6 DEF RestoreInv
      <3> QED
        BY <1>1, <1>4, <2>1, <2>6, <3>1, ConfigTrackedElsewhere
    <2> QED
      BY <1>4, <2>3, <2>4, <2>5, <2>6
  <1>5. CASE tx = Idle
    <2>1. tx' = Idle
      BY <1>5 DEF Touches
    <2>2. ASSUME Spared'
          PROVE  /\ GoodLedger(At(disk', State))
                 /\ \A c \in Clients \ adopted :
                      p # Config(c) /\ Anew(spoilt', c) =>
                        Restorable(disk', c, version[c])
      <3>1. GoodLedger(At(disk, State))
            /\ \A c \in Clients \ adopted : Fresh(c) => Restorable(disk, c, version[c])
        BY <1>2, <1>5, <2>2 DEF RestoreInv
      <3>2. p # State
        BY <1>2, <2>2, <3>1 DEF GoodLedger
      <3>3. At(disk', State) = At(disk, State)
        BY <1>1, <3>2
      <3>4. Proper(disk) /\ Proper(disk')
        BY DiskIsProper DEF TypeInv
      <3> QED
        BY <1>1, <1>3, <3>1, <3>3, <3>4, RestorableElsewhere
    <2> QED
      BY <1>5, <2>1, <2>2
  <1> QED
    BY <1>4, <1>5

LEMMA RestoreEdits ==
  ASSUME TypeInv, StaticInv, ExactInv, DatedInv, RestoreInv, NEW x \in Clients, Edit(x)
  PROVE  RestoreInv'
  <1>0. IsDisk(disk) /\ faults \in Nat /\ DatedDisk(disk, faults)
    BY FaultCounts DEF TypeInv, DatedInv
  <1>1. PICK f : Edits(disk, disk', x, f, version, version')
    BY EditSteps
  <1>2. /\ Touches(tx, tx', Config(x)) /\ adopted' = adopted /\ synced' = synced /\ abandoned' = abandoned
        /\ spoilt \subseteq spoilt' /\ (At(disk, Config(x)) # None => At(disk, Config(x)) \in spoilt')
    BY EditSteps
  <1>3. /\ IsDisk(disk') /\ f \in ConfigFiles /\ f.bytes.rest = faults + 1
        /\ \A q : At(disk', q) = IF q = Config(x) THEN f ELSE At(disk, q)
        /\ version'[x] = f.bytes /\ \A c \in Clients : c # x => version'[c] = version[c]
    BY <1>1 DEF Edits
  <1>4. Spoils(disk, disk', spoilt, spoilt', Config(x)) /\ Config(x) # State /\ Config(x) \in Homes
        /\ \A c \in Clients : c # x => Config(x) # Config(c)
    BY <1>2, <1>3, NameFacts DEF Spoils
  <1>5. \A c \in Clients : Fresh(c)' /\ c # x => Anew(spoilt', c)
    BY <1>2, <1>3 DEF Fresh, Anew
  <1>6. CASE tx # Idle
    <2>1. /\ tx' # Idle /\ Ordered(tx') /\ WritesConfigs(tx')
          /\ Spared' => /\ LedgerTracked(tx', disk')
                        /\ \A c \in Clients \ adopted :
                             Config(x) # Config(c) /\ Anew(spoilt', c) =>
                               ConfigTracked(tx', disk', c, version[c])
      BY <1>2, <1>3, <1>4, <1>6, RestoreTouched
    <2>2. Running1(tx) /\ Static(tx, left) /\ DatedDisk(tx.before, faults) /\ DatedOps(tx.ops, faults)
      BY <1>6 DEF TypeInv, StaticInv, DatedInv
    <2>3. f.bytes \in ConfigBytes
      BY <1>3, BytesDiffer
    <2>4. Foreign(tx, x, f.bytes)
      BY <1>0, <1>3, <2>2, <2>3, NewBytesAreForeign
    <2>5. ConfigTracked(tx', disk', x, f.bytes)
      BY <1>2, <1>3, <1>6, <2>4, ConfigTrackedEdited
    <2>6. ASSUME Spared', NEW c \in Clients \ adopted', Fresh(c)'
          PROVE  ConfigTracked(tx', disk', c, version'[c])
      BY <1>2, <1>3, <1>4, <1>5, <2>1, <2>5, <2>6
    <2> QED
      BY <2>1, <2>6 DEF RestoreInv
  <1>7. CASE tx = Idle
    <2>1. /\ tx' = Idle
          /\ Spared' => /\ GoodLedger(At(disk', State))
                        /\ \A c \in Clients \ adopted :
                             Config(x) # Config(c) /\ Anew(spoilt', c) =>
                               Restorable(disk', c, version[c])
      BY <1>2, <1>3, <1>4, <1>7, RestoreTouched
    <2>2. Restorable(disk', x, f.bytes)
      BY <1>0, <1>3, RestorableEdited
    <2>3. ASSUME Spared', NEW c \in Clients \ adopted', Fresh(c)'
          PROVE  Restorable(disk', c, version'[c])
      BY <1>2, <1>3, <1>4, <1>5, <2>1, <2>2, <2>3
    <2> QED
      BY <2>1, <2>3 DEF RestoreInv
  <1> QED
    BY <1>6, <1>7

LEMMA RestoreRuined ==
  ASSUME TypeInv, StaticInv, ExactInv, RestoreInv, NEW p \in DOMAIN disk, Delete(p) \/ Replace(p)
  PROVE  RestoreInv'
  <1>1. /\ Ruins(disk, disk', p) /\ Touches(tx, tx', p) /\ spoilt \subseteq spoilt' /\ At(disk, p) \in spoilt'
        /\ adopted' = adopted /\ version' = version /\ synced' = synced /\ abandoned' = abandoned
    BY RuinSteps
  <1>2. /\ IsDisk(disk') /\ Spoils(disk, disk', spoilt, spoilt', p) /\ At(disk, p) # None
        /\ At(disk', p) = None \/ At(disk', p).bytes \in OtherBytes
        /\ \A c \in Clients : p = Config(c) => At(disk', p) = None
    BY <1>1 DEF Ruins, Spoils, ConfigNames
  <1>3. \A c : Fresh(c)' => Anew(spoilt', c)
    BY <1>1 DEF Fresh, Anew
  <1>4. CASE tx # Idle
    <2>1. /\ tx' # Idle /\ Ordered(tx') /\ WritesConfigs(tx')
          /\ Spared' => /\ LedgerTracked(tx', disk')
                        /\ \A c \in Clients \ adopted :
                             p # Config(c) /\ Anew(spoilt', c) =>
                               ConfigTracked(tx', disk', c, version[c])
      BY <1>1, <1>2, <1>4, RestoreTouched
    <2>2. ASSUME Spared', NEW c \in Clients \ adopted', Fresh(c)'
          PROVE  ConfigTracked(tx', disk', c, version'[c])
      <3>1. CASE p # Config(c)
        BY <1>1, <1>3, <2>1, <2>2, <3>1
      <3>2. CASE p = Config(c)
        <4>1. Spared /\ Fresh(c) /\ At(disk, Config(c)).bytes # version[c]
          BY <1>1, <1>3, <2>2, <3>2 DEF Spared, Fresh, Anew
        <4>2. ConfigTracked(tx, disk, c, version[c])
          BY <1>1, <1>4, <2>2, <4>1 DEF RestoreInv
        <4>3. Running1(tx) /\ Running1(tx') /\ Progress(tx) /\ WritesConfigs(tx)
          BY <1>1, <1>4 DEF TypeInv, Touches, ExactInv, RestoreInv
        <4> QED
          BY <1>1, <1>2, <1>4, <2>2, <3>2, <4>1, <4>2, <4>3, ConfigTrackedRuined
      <3> QED
        BY <3>1, <3>2
    <2> QED
      BY <2>1, <2>2 DEF RestoreInv
  <1>5. CASE tx = Idle
    <2>1. /\ tx' = Idle
          /\ Spared' => /\ GoodLedger(At(disk', State))
                        /\ \A c \in Clients \ adopted :
                             p # Config(c) /\ Anew(spoilt', c) =>
                               Restorable(disk', c, version[c])
      BY <1>1, <1>2, <1>5, RestoreTouched
    <2>2. \A c \in Clients : p = Config(c) => Restorable(disk', c, version[c])
      BY <1>2, DiskIsProper, RestorableWithout
    <2>3. ASSUME Spared', NEW c \in Clients \ adopted', Fresh(c)'
          PROVE  Restorable(disk', c, version'[c])
      BY <1>1, <1>3, <2>1, <2>2, <2>3
    <2> QED
      BY <2>1, <2>3 DEF RestoreInv
  <1> QED
    BY <1>4, <1>5

LEMMA RestoreLocked ==
  ASSUME TypeInv, RestoreInv, ReplaceLock
  PROVE  RestoreInv'
  <1>1. /\ tx # Idle /\ Running1(tx')
        /\ tx'.phase = tx.phase /\ tx'.req = tx.req /\ tx'.ops = tx.ops /\ tx'.at = tx.at
        /\ tx'.before = tx.before /\ tx'.touched = tx.touched
        /\ disk' = disk /\ version' = version /\ adopted' = adopted /\ spoilt' = spoilt /\ synced' = synced
        /\ abandoned' = abandoned
    BY LockSteps
  <1>2. tx' # Idle /\ tx \in Transactions
    BY <1>1, RunningFacts DEF TypeInv
  <1>3. Ordered(tx') /\ WritesConfigs(tx')
    BY <1>1, <1>2, OrderedKept DEF RestoreInv, SameOps
  <1>4. LedgerTracked(tx, disk) => LedgerTracked(tx', disk')
    BY <1>1 DEF LedgerTracked, LedgerPlace, Onward
  <1>5. \A c, b : Foreign(tx, c, b) => Foreign(tx', c, b)
    BY <1>1, ForeignSame
  <1>6. /\ Now(tx') = Now(tx) /\ \A c : ConfigOps(tx', c) = ConfigOps(tx, c)
        /\ \A i : /\ Due(tx', i) <=> Due(tx, i)
                  /\ Reached(tx', i) <=> Reached(tx, i)
    BY <1>1 DEF ConfigOps, Now, Due, Reached, Onward, Pending
  <1>7. \A c : Undisturbed(tx, disk, c) => Undisturbed(tx', disk', c)
    BY <1>1, <1>6 DEF Undisturbed, Left
  <1>8. \A c, b : Disturbed(tx, disk, c, b) => Disturbed(tx', disk', c, b)
    BY <1>1, <1>5, <1>6 DEF Disturbed
  <1>9. \A c, b : ConfigTracked(tx, disk, c, b) => ConfigTracked(tx', disk', c, b)
    BY <1>1, <1>7, <1>8 DEF ConfigTracked
  <1>10. (Spared' => Spared) /\ \A c : Fresh(c)' => Fresh(c)
    BY <1>1 DEF Spared, Fresh
  <1> QED
    BY <1>1, <1>2, <1>3, <1>4, <1>9, <1>10 DEF RestoreInv

LEMMA RestoreStays ==
  ASSUME RestoreInv, UNCHANGED vars
  PROVE  RestoreInv'
  BY DEF vars, RestoreInv, Spared, Fresh

LEMMA RestoreNext ==
  ASSUME TypeInv, StaticInv, ExactInv, BackedInv, TurnsInv, DatedInv, LostInv, RestoreInv, [Next]_vars
  PROVE  RestoreInv'
  <1>1. \A req \in Requests : Begin(req) \/ Refuse(req) \/ StagingFails(req) => RestoreInv'
    BY RestoreBegins, RestoreRefuses
  <1>2. Works \/ Errs => RestoreInv'
    BY RestoreWorks
  <1>3. SyncFails => RestoreInv'
    BY RestoreUnseen
  <1>4. Return \/ Die => RestoreInv'
    BY RestoreDeparts
  <1>5. \A c \in Clients : Edit(c) => RestoreInv'
    BY RestoreEdits
  <1>6. \A p \in DOMAIN disk : Delete(p) \/ Replace(p) => RestoreInv'
    BY RestoreRuined
  <1>7. ReplaceLock => RestoreInv'
    BY RestoreLocked
  <1>8. UNCHANGED vars => RestoreInv'
    BY RestoreStays
  <1> QED
    BY <1>1, <1>2, <1>3, <1>4, <1>5, <1>6, <1>7, <1>8 DEF Next, Works, Errs

LEMMA RestoreInit ==
  ASSUME Init
  PROVE  RestoreInv
  <1>1. tx = Idle /\ DOMAIN disk = ConfigNames /\ IsDisk(disk)
    BY InitTypes DEF Init, TypeInv
  <1>2. Proper(disk) /\ At(disk, State) = None
    BY <1>1, DiskIsProper, HomesDiffer DEF ConfigNames, Proper
  <1>3. ASSUME NEW c \in Clients PROVE Restorable(disk, c, version[c])
    <2>1. LayersOn(disk, c) = {}
      BY <1>2, NoLayersWithout
    <2>2. disk[Config(c)].bytes = Original /\ Config(c) \in DOMAIN disk /\ version[c] = Original
      BY <1>1 DEF Init, ConfigNames
    <2> QED
      BY <2>1, <2>2 DEF Restorable, Expecting, At
  <1> QED
    BY <1>1, <1>2, <1>3 DEF RestoreInv, GoodLedger

\* A configuration that a successful command wrote, and nobody else, is there.
LEMMA WritesAConfig ==
  ASSUME TypeInv, StaticInv, ExactInv, tx # Idle, tx.phase = "ok", WritesConfigs(tx),
         NEW c \in Clients, ConfigOps(tx, c) # {}, Config(c) \notin tx.touched
  PROVE  At(disk, Config(c)) \in ConfigFiles
  <1> DEFINE n == Len(tx.ops)
  <1>1. /\ Running1(tx) /\ Progress(tx) /\ Exactly(tx, disk, synced) /\ IsDisk(tx.before)
        /\ tx.ops \in Seq(Operations)
    BY RunningFacts DEF TypeInv, ExactInv, Transactions
  <1>2. ExactAt(tx, disk, Config(c)) /\ Onward(tx)
    BY <1>1, ExactlyEach, NameFacts DEF Onward
  <1>3. PICK k \in 1..n : tx.ops[k].dest = Config(c)
    BY DEF ConfigOps
  <1>4. \A q : (\E i \in 1..n : tx.ops[i].dest = q) =>
          \E i \in 1..n : tx.ops[i].dest = q /\ \A j \in 1..n : j > i => tx.ops[j].dest # q
    BY <1>1, TargetFacts
  <1>5. PICK i \in 1..n : tx.ops[i].dest = Config(c) /\ \A j \in 1..n : j > i => tx.ops[j].dest # Config(c)
    BY <1>3, <1>4
  <1>6. tx.ops[i].staged \in ConfigFiles
    BY <1>5 DEF WritesConfigs, ConfigOps
  <1>7. Done(tx.ops[i])
    BY <1>1 DEF Progress, Over
  <1>8. tx.ops[i].published /\ Active(tx.ops[i])
    BY <1>6, <1>7, ConfigFileFacts DEF Done, Active
  <1>9. At(disk, Config(c)) = tx.ops[i].staged
    BY <1>2, <1>5, <1>8 DEF ExactAt
  <1> QED
    BY <1>6, <1>9

LEMMA RevertRestoresNow ==
  ASSUME TypeInv, StaticInv, ExactInv, TurnsInv, LostInv, RestoreInv
  PROVE  RevertRestores
  <1>1. SUFFICES ASSUME tx.phase = "ok", tx.req.kind = "revert", synced, State \notin abandoned,
                        NEW c \in Clients \ adopted,
                        Config(c) \in {tx.ops[i].dest : i \in 1..Len(tx.ops)},
                        Config(c) \notin tx.touched \cup abandoned,
                        Layers(LedgerOn(disk), c) = {},
                        \A f \in spoilt : f.bytes # version[c] /\ ~Readable(f.bytes)
                 PROVE  disk[Config(c)].bytes = version[c]
    BY DEF RevertRestores
  <1>2. tx # Idle
    BY <1>1 DEF Idle
  <1>3. /\ Running1(tx) /\ IsDisk(disk) /\ Static(tx, left) /\ Progress(tx) /\ TurnsOf(tx)
        /\ Ordered(tx) /\ WritesConfigs(tx) /\ Chained(tx.before, c)
    BY <1>2 DEF TypeInv, StaticInv, ExactInv, TurnsInv, RestoreInv, LostInv, LostRunning
  <1>4. LedgerTracked(tx, disk) /\ ConfigTracked(tx, disk, c, version[c])
    BY <1>1, <1>2 DEF RestoreInv, Spared, Fresh
  <1>5. Unorphaned(tx)
    BY <1>1, <1>3, <1>4, AnsweredUnorphaned DEF Answers
  <1>6. c \notin Adopts(tx)
    BY <1>1 DEF Adopts
  <1>7. Restorable(disk, c, version[c])
    BY <1>3, <1>4, <1>5, <1>6, RestorableNow
  <1>8. LayersOn(disk, c) = {}
    BY <1>1 DEF LayersOn
  <1>9. At(disk, Config(c)) \in ConfigFiles
    <2>1. ConfigOps(tx, c) # {}
      BY <1>1 DEF ConfigOps
    <2> QED
      BY <1>1, <1>2, <1>3, <2>1, WritesAConfig
  <1>10. At(disk, Config(c)).bytes = version[c]
    BY <1>7, <1>8, <1>9 DEF Restorable
  <1> QED
    BY <1>9, <1>10, ConfigFileFacts DEF At

\* A revert that takes the last layer off gives back the configuration as it
\* was before the first: the last version of others, byte for byte; except
\* where a rollback gave up on it, or on the ledger, on an error.
THEOREM SwapRevertRestores == Spec => []RevertRestores
  <1> DEFINE I == SwapInv /\ BackedInv
             J == TurnsInv /\ DatedInv /\ LostInv /\ RestoreInv
  <1>1. Init => J
    BY LostInit, DatedInit, RestoreInit
  <1>2. I /\ J /\ [Next]_vars => J'
    <2>1. TypeInv /\ TurnsInv /\ [Next]_vars => TurnsInv'
      BY TurnsStep
    <2>2. TypeInv /\ DatedInv /\ [Next]_vars => DatedInv'
      BY DatedStep
    <2>3. TypeInv /\ StaticInv /\ ExactInv /\ BackedInv /\ TurnsInv /\ DatedInv /\ LostInv /\ [Next]_vars
            => LostInv'
      BY LostStep
    <2>4. TypeInv /\ StaticInv /\ ExactInv /\ BackedInv /\ TurnsInv /\ DatedInv /\ LostInv /\ RestoreInv
            /\ [Next]_vars => RestoreInv'
      BY RestoreNext
    <2> QED
      BY <2>1, <2>2, <2>3, <2>4 DEF SwapInv
  <1>3. I /\ J => RevertRestores
    BY RevertRestoresNow DEF SwapInv
  <1>4. Spec => []I
    BY SwapBackedInvariant
  <1> HIDE DEF I, J
  <1> QED
    BY <1>1, <1>2, <1>3, <1>4, PTL DEF Spec

=============================================================================
