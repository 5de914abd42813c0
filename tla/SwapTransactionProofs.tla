------------------------ MODULE SwapTransactionProofs ------------------------
(***************************************************************************)
(* Proofs about SwapTransaction, for every number of clients, layers,      *)
(* commands, faults and foreign writes.  First what SwapLedger's operators *)
(* return (sorted enumerations, fresh inodes, the plans of use and         *)
(* revert), then what each step does to the disk and to the plan under     *)
(* way, then the invariants: TypeInv, StaticInv and ExactInv behind        *)
(* AllOrNothing, BackedInv behind LedgerIsBacked.                          *)
(***************************************************************************)
EXTENDS SwapTransaction, FiniteSetTheorems, WellFoundedInduction, TLAPS

-----------------------------------------------------------------------------
(* Numbers and enumerations.                                               *)

LEMMA NatHasMinimum ==
  ASSUME NEW D \in SUBSET Nat, D # {}
  PROVE  \E d \in D : \A e \in D : d <= e
  <1>1. PICK d \in D : \A e \in D : ~(<<e, d>> \in OpToRel(<, Nat))
    BY NatLessThanWellFounded, WFMin
  <1>2. \A e \in D : ~(e < d)
    BY <1>1 DEF OpToRel
  <1> QED
    BY <1>2

LEMMA FiniteSetHasMaximum ==
  ASSUME NEW D \in SUBSET Nat, D # {}, NEW n \in Nat, \A d \in D : d <= n
  PROVE  LastOf(D) \in D /\ \A d \in D : d <= LastOf(D)
  <1> DEFINE C == {n - d : d \in D}
  <1>1. C \in SUBSET Nat /\ C # {}
    <2>1. \A d \in D : n - d \in Nat
      OBVIOUS
    <2> QED
      BY <2>1
  <1>2. PICK c \in C : \A x \in C : c <= x
    BY <1>1, NatHasMinimum
  <1>3. PICK d \in D : c = n - d
    OBVIOUS
  <1>4. \A e \in D : e <= d
    BY <1>2, <1>3
  <1> QED
    BY <1>4 DEF LastOf

\* The numbers up to i that are not used.
FreeUpTo(used, i) == Cardinality((1..i) \ used)

LEMMA FreeUpToGrows ==
  ASSUME NEW used, NEW i \in Nat
  PROVE  /\ FreeUpTo(used, i) \in Nat /\ FreeUpTo(used, 0) = 0
         /\ FreeUpTo(used, i + 1) = IF i + 1 \in used THEN FreeUpTo(used, i)
                                    ELSE FreeUpTo(used, i) + 1
  <1> DEFINE S == (1..i) \ used
  <1>1. IsFiniteSet(1..i)
    BY FS_Interval
  <1>2. IsFiniteSet(S) /\ Cardinality(S) \in Nat
    BY <1>1, FS_Difference, FS_CardinalityType
  <1>3. (1..0) \ used = {}
    OBVIOUS
  <1>4. i + 1 \notin S
    OBVIOUS
  <1>5. (1..(i + 1)) \ used = IF i + 1 \in used THEN S ELSE S \cup {i + 1}
    OBVIOUS
  <1>6. Cardinality(S \cup {i + 1}) = Cardinality(S) + 1
    BY <1>2, <1>4, FS_AddElement
  <1> HIDE DEF S
  <1>7. Cardinality((1..i) \ used) = Cardinality(S)
    BY DEF S
  <1>8. Cardinality((1..0) \ used) = 0
    BY <1>3, FS_EmptySet
  <1> QED
    BY <1>2, <1>5, <1>6, <1>7, <1>8 DEF FreeUpTo

\* FreshInode(used, n) is a number that is not used, with n - 1 such below it.
LEMMA FreshInodeFacts ==
  ASSUME NEW used, IsFiniteSet(used), NEW n \in Nat \ {0}
  PROVE  /\ FreshInode(used, n) \in Nat \ {0} /\ FreshInode(used, n) \notin used
         /\ FreeUpTo(used, FreshInode(used, n)) = n
  <1> DEFINE k == Cardinality(used)
             D == {i \in Nat : FreeUpTo(used, i) >= n}
  <1>1. k \in Nat
    BY FS_CardinalityType
  <1>2. k + n \in D
    <2>1. IsFiniteSet(1..(k + n)) /\ Cardinality(1..(k + n)) = k + n
      BY <1>1, FS_Interval
    <2>2. IsFiniteSet((1..(k + n)) \cap used) /\ Cardinality((1..(k + n)) \cap used) <= k
      BY FS_Intersection
    <2>3. Cardinality((1..(k + n)) \cap used) \in Nat
      BY <2>2, FS_CardinalityType
    <2>4. Cardinality((1..(k + n)) \ used)
            = Cardinality(1..(k + n)) - Cardinality((1..(k + n)) \cap used)
      BY <2>1, FS_Difference
    <2> QED
      BY <1>1, <2>1, <2>2, <2>3, <2>4 DEF FreeUpTo
  <1>3. PICK i \in D : \A j \in D : i <= j
    BY <1>2, NatHasMinimum
  <1>4. i \in Nat /\ i <= k + n /\ FreeUpTo(used, i) >= n
    BY <1>2, <1>3
  <1>5. i # 0
    BY <1>4, FreeUpToGrows
  <1>6. i - 1 \in Nat /\ ~(FreeUpTo(used, i - 1) >= n)
    BY <1>3, <1>4, <1>5
  <1>7. /\ FreeUpTo(used, i - 1) \in Nat
        /\ FreeUpTo(used, i) = IF i \in used THEN FreeUpTo(used, i - 1)
                               ELSE FreeUpTo(used, i - 1) + 1
    <2>1. (i - 1) + 1 = i
      BY <1>4
    <2> QED
      BY <1>6, <2>1, FreeUpToGrows
  <1>8. i \notin used /\ FreeUpTo(used, i) = n
    BY <1>4, <1>6, <1>7
  <1>9. i \in 1..(k + n)
    BY <1>1, <1>4, <1>5
  <1>10. /\ FreshInode(used, n) \in 1..(k + n) /\ FreshInode(used, n) \notin used
         /\ FreeUpTo(used, FreshInode(used, n)) = n
    BY <1>8, <1>9 DEF FreshInode, FreeUpTo
  <1> QED
    BY <1>1, <1>10

LEMMA FreshInodesDiffer ==
  ASSUME NEW used, IsFiniteSet(used), NEW m \in Nat \ {0}, NEW n \in Nat \ {0},
         FreshInode(used, m) = FreshInode(used, n)
  PROVE  m = n
  BY FreshInodeFacts

\* A finite set is enumerated without repetition by SetToSeq.
LEMMA SetToSeqFacts ==
  ASSUME NEW S, IsFiniteSet(S)
  PROVE  /\ SetToSeq(S) \in [1..Cardinality(S) -> S]
         /\ \A i, j \in 1..Cardinality(S) : SetToSeq(S)[i] = SetToSeq(S)[j] => i = j
         /\ \A x \in S : \E i \in 1..Cardinality(S) : SetToSeq(S)[i] = x
         /\ SetToSeq(S) \in Seq(S) /\ Len(SetToSeq(S)) = Cardinality(S)
  <1> DEFINE n == Cardinality(S)
  <1>1. n \in Nat /\ ExistsBijection(1..n, S)
    BY FS_CardinalityType
  <1>2. \E f \in [1..n -> S] : IsInjective(f)
    BY <1>1 DEF ExistsBijection, Bijection, Injection, IsInjective
  <1>3. SetToSeq(S) \in [1..n -> S] /\ IsInjective(SetToSeq(S))
    BY <1>2 DEF SetToSeq
  <1>4. \A i, j \in 1..n : SetToSeq(S)[i] = SetToSeq(S)[j] => i = j
    BY <1>3 DEF IsInjective
  <1>5. SetToSeq(S) \in Injection(1..n, S)
    BY <1>3, <1>4 DEF Injection, IsInjective
  <1>6. IsFiniteSet(1..n) /\ Cardinality(1..n) = n
    BY <1>1, FS_Interval
  <1>7. SetToSeq(S) \in Surjection(1..n, S)
    BY <1>5, <1>6, FS_Injection
  <1>8. SetToSeq(S) \in Seq(S) /\ Len(SetToSeq(S)) = n
    BY <1>1, <1>3
  <1> QED
    BY <1>3, <1>4, <1>7, <1>8 DEF Surjection

\* The elements of S, each once, with keys that do not go down.
IsSorting(s, S, key) ==
  /\ s \in [1..Cardinality(S) -> S]
  /\ \A i, j \in 1..Cardinality(S) : i < j => s[i] # s[j] /\ key[s[i]] <= key[s[j]]

CanSort(n) ==
  \A S, key : IsFiniteSet(S) /\ Cardinality(S) = n /\ key \in [S -> Int]
                => \E s : IsSorting(s, S, key)

LEMMA SortingInserts ==
  ASSUME NEW n \in Nat, CanSort(n)
  PROVE  CanSort(n + 1)
  <1> SUFFICES ASSUME NEW S, NEW key, IsFiniteSet(S), Cardinality(S) = n + 1, key \in [S -> Int]
               PROVE  \E s : IsSorting(s, S, key)
    BY DEF CanSort
  <1>1. PICK x : x \in S
    BY FS_EmptySet
  <1> DEFINE T == S \ {x}
             low == [y \in T |-> key[y]]
  <1>2. IsFiniteSet(T) /\ Cardinality(T) = n /\ low \in [T -> Int]
    BY <1>1, FS_RemoveElement
  <1>3. PICK t : IsSorting(t, T, low)
    BY <1>2 DEF CanSort
  <1>4. /\ t \in [1..n -> T]
        /\ \A i, j \in 1..n : i < j => t[i] # t[j] /\ key[t[i]] <= key[t[j]]
    BY <1>2, <1>3 DEF IsSorting
  <1> DEFINE D == {i \in Nat : i > 0 /\ (i <= n => key[t[i]] > key[x])}
  <1>5. n + 1 \in D
    OBVIOUS
  <1>6. PICK p \in D : \A i \in D : p <= i
    BY <1>5, NatHasMinimum
  <1>7. p \in 1..(n + 1) /\ \A i \in 1..n : i < p => key[t[i]] <= key[x]
    <2>1. p \in 1..(n + 1)
      BY <1>5, <1>6
    <2>2. ASSUME NEW i \in 1..n, i < p PROVE key[t[i]] <= key[x]
      <3>1. i \notin D
        BY <1>6, <2>2
      <3>2. key[t[i]] \in Int /\ key[x] \in Int
        BY <1>1, <1>4
      <3> QED
        BY <3>1, <3>2
    <2> QED
      BY <2>1, <2>2
  <1>8. \A i \in 1..n : i >= p => key[x] < key[t[i]]
    <2>1. ASSUME NEW i \in 1..n, i >= p PROVE key[x] < key[t[i]]
      <3>1. p \in 1..n /\ key[t[p]] > key[x]
        BY <1>6, <1>7, <2>1
      <3>2. key[t[p]] <= key[t[i]]
        <4>1. CASE i = p
          BY <4>1, <3>1, <1>1, <1>4
        <4>2. CASE p < i
          BY <4>2, <3>1, <1>4
        <4> QED
          BY <4>1, <4>2, <2>1, <1>7
      <3>3. key[x] \in Int /\ key[t[i]] \in Int /\ key[t[p]] \in Int
        BY <1>1, <1>4, <3>1
      <3> QED
        BY <3>1, <3>2, <3>3
    <2> QED
      BY <2>1
  <1> DEFINE s == [i \in 1..(n + 1) |-> IF i < p THEN t[i] ELSE IF i = p THEN x ELSE t[i - 1]]
  <1>9. \A i \in 1..(n + 1) : /\ i < p => i \in 1..n /\ s[i] = t[i]
                              /\ i = p => s[i] = x
                              /\ i > p => i - 1 \in 1..n /\ s[i] = t[i - 1]
    BY <1>7
  <1>10. s \in [1..(n + 1) -> S]
    BY <1>1, <1>4, <1>7
  <1> HIDE DEF s, D, T
  <1>11. ASSUME NEW i \in 1..(n + 1), NEW j \in 1..(n + 1), i < j
         PROVE  s[i] # s[j] /\ key[s[i]] <= key[s[j]]
    <2>1. \A m \in 1..n : t[m] # x /\ key[t[m]] \in Int /\ key[x] \in Int
      BY <1>1, <1>4 DEF T
    <2>2. CASE j < p
      BY <2>2, <1>4, <1>7, <1>9, <1>11
    <2>3. CASE j = p
      BY <2>1, <2>3, <1>7, <1>9, <1>11
    <2>4. CASE i < p /\ j > p
      <3>2. i \in 1..n /\ j - 1 \in 1..n /\ s[i] = t[i] /\ s[j] = t[j - 1] /\ i < j - 1
        BY <2>4, <1>7, <1>9
      <3> QED
        BY <3>2, <1>4
    <2>5. CASE i = p /\ j > p
      <3>1. j - 1 \in 1..n /\ s[i] = x /\ s[j] = t[j - 1] /\ j - 1 >= p
        BY <2>5, <1>7, <1>9
      <3> QED
        BY <3>1, <2>1, <1>8
    <2>6. CASE i > p
      <3>1. i - 1 \in 1..n /\ j - 1 \in 1..n /\ s[i] = t[i - 1] /\ s[j] = t[j - 1] /\ i - 1 < j - 1
        BY <2>6, <1>7, <1>9, <1>11
      <3> QED
        BY <3>1, <1>4
    <2> QED
      BY <2>2, <2>3, <2>4, <2>5, <2>6, <1>7, <1>11
  <1> QED
    BY <1>10, <1>11 DEF IsSorting

LEMMA EveryFiniteSetCanBeSorted ==
  ASSUME NEW n \in Nat
  PROVE  CanSort(n)
  <1> DEFINE D == {m \in Nat : ~CanSort(m)}
  <1>1. SUFFICES ASSUME D # {} PROVE FALSE
    OBVIOUS
  <1>2. PICK m \in D : \A k \in D : m <= k
    BY <1>1, NatHasMinimum
  <1>3. CanSort(0)
    <2> SUFFICES ASSUME NEW S, NEW key, IsFiniteSet(S), Cardinality(S) = 0
                 PROVE  \E s : IsSorting(s, S, key)
      BY DEF CanSort
    <2>1. 1..0 = {} /\ [i \in 1..0 |-> i] \in [1..0 -> S]
      OBVIOUS
    <2> QED
      BY <2>1 DEF IsSorting
  <1>4. m # 0 /\ m - 1 \in Nat /\ m - 1 \notin D
    BY <1>2, <1>3
  <1>5. CanSort((m - 1) + 1)
    BY <1>4, SortingInserts
  <1>6. (m - 1) + 1 = m
    BY <1>2
  <1> QED
    BY <1>2, <1>5, <1>6

LEMMA SortedByFacts ==
  ASSUME NEW S, IsFiniteSet(S), NEW key \in [S -> Int]
  PROVE  /\ SortedBy(S, key) \in Seq(S) /\ Len(SortedBy(S, key)) = Cardinality(S)
         /\ Cardinality(S) \in Nat
         /\ \A i \in 1..Cardinality(S) : SortedBy(S, key)[i] \in S
         /\ \A i, j \in 1..Cardinality(S) :
              /\ SortedBy(S, key)[i] = SortedBy(S, key)[j] => i = j
              /\ i < j => key[SortedBy(S, key)[i]] <= key[SortedBy(S, key)[j]]
         /\ \A x \in S : \E i \in 1..Cardinality(S) : SortedBy(S, key)[i] = x
  <1> DEFINE n == Cardinality(S)
             s == SortedBy(S, key)
  <1>1. n \in Nat
    BY FS_CardinalityType
  <1>2. \E t : IsSorting(t, S, key)
    BY <1>1, EveryFiniteSetCanBeSorted DEF CanSort
  <1>3. IsSorting(s, S, key)
    BY <1>2 DEF SortedBy, IsSorting
  <1> HIDE DEF s
  <1>4. s \in [1..n -> S] /\ \A i, j \in 1..n : i < j => s[i] # s[j] /\ key[s[i]] <= key[s[j]]
    BY <1>3 DEF IsSorting
  <1>5. s \in Seq(S) /\ Len(s) = n
    BY <1>1, <1>4
  <1>6. \A i, j \in 1..n : s[i] = s[j] => i = j
    <2> SUFFICES ASSUME NEW i \in 1..n, NEW j \in 1..n, s[i] = s[j] PROVE i = j
      OBVIOUS
    <2>1. ~(i < j) /\ ~(j < i)
      BY <1>4
    <2> QED
      BY <1>1, <2>1
  <1>7. s \in Injection(1..n, S)
    BY <1>4, <1>6 DEF Injection, IsInjective
  <1>8. IsFiniteSet(1..n) /\ Cardinality(1..n) = n
    BY <1>1, FS_Interval
  <1>9. s \in Surjection(1..n, S)
    BY <1>7, <1>8, FS_Injection
  <1>10. \A x \in S : \E i \in 1..n : s[i] = x
    BY <1>9 DEF Surjection
  <1>11. SortedBy(S, key) = s
    BY DEF s
  <1> QED
    BY <1>1, <1>4, <1>5, <1>6, <1>10, <1>11

-----------------------------------------------------------------------------
(* Names, bytes and files.                                                 *)

ConfigNames   == {Config(c) : c \in Clients}
BackupNames   == {Backup(c, n) : c \in Clients, n \in Nat}
Homes         == ConfigNames \cup {State} \cup BackupNames
StageNames    == {Stage(i) : i \in Nat}
AsideNames    == {Aside(i) : i \in Nat}
DisplacedNames == {Displaced(i) : i \in Nat}
ArtifactNames == StageNames \cup AsideNames \cup DisplacedNames
Names         == Homes \cup ArtifactNames

Keys         == Clients \X Scopes
ServerEntries == [command : Commands \cup {NoCommand}, env : Nat]
ConfigBytes  == [rest : Nat, entry : [Scopes -> ServerEntries]]
OtherBytes   == [other : Nat]
ConfigFiles  == [id : Nat \ {0}, bytes : ConfigBytes]
LayerEntries == [sequence : Nat, backup : ConfigFiles, expected : ConfigFiles]
Recordings   == UNION {[D -> LayerEntries] : D \in SUBSET Keys}
LedgerBytes  == [next : Nat, entries : Recordings]
AllBytes     == ConfigBytes \cup OtherBytes \cup LedgerBytes
AllFiles     == [id : Nat \ {0}, bytes : AllBytes]

\* The kinds of names differ, and a name tells what it is the name of.
LEMMA NamesDiffer ==
  /\ \A c : Config(c)[1] = "config" /\ Config(c)[2] = c
  /\ State[1] = "state"
  /\ \A c, n : Backup(c, n)[1] = "backup" /\ Backup(c, n)[2] = c /\ Backup(c, n)[3] = n
  /\ \A i : /\ Stage(i)[1] = "stage" /\ Stage(i)[2] = i
            /\ Aside(i)[1] = "aside" /\ Aside(i)[2] = i
            /\ Displaced(i)[1] = "displaced" /\ Displaced(i)[2] = i
  BY DEF Config, State, Backup, Stage, Aside, Displaced

LEMMA NameFacts ==
  /\ \A p \in Homes : ~IsArtifact(p) /\ p[1] # "stage" /\ p \notin ArtifactNames
  /\ \A p \in ArtifactNames : IsArtifact(p) /\ p \notin Homes
  /\ \A i, j : /\ Stage(i) = Stage(j) => i = j
               /\ Aside(i) = Aside(j) => i = j
               /\ Displaced(i) = Displaced(j) => i = j
               /\ Stage(i) # Aside(j) /\ Stage(i) # Displaced(j) /\ Aside(i) # Displaced(j)
  /\ \A i \in Nat : /\ Stage(i) \in ArtifactNames /\ Aside(i) \in ArtifactNames
                    /\ Displaced(i) \in ArtifactNames
  /\ \A i : Aside(i)[1] # "stage" /\ Displaced(i)[1] # "stage" /\ Stage(i)[1] = "stage"
  /\ \A c, e : Config(c) = Config(e) => c = e
  /\ \A c, e, m, n : Backup(c, m) = Backup(e, n) => c = e /\ m = n
  /\ \A c, e, n : Config(c) # Backup(e, n) /\ Config(c) # State /\ Backup(e, n) # State
  /\ \A c : Config(c)[1] = "config" /\ \A n : Backup(c, n)[1] # "config"
  /\ State[1] # "config"
  /\ State \in Homes /\ \A c \in Clients : Config(c) \in Homes
  /\ \A c \in Clients, n \in Nat : Backup(c, n) \in Homes
  <1> USE NamesDiffer
  <1>1. \A p \in Homes : p[1] \in {"config", "state", "backup"}
    BY DEF Homes, ConfigNames, BackupNames
  <1>2. \A p \in ArtifactNames : p[1] \in {"stage", "aside", "displaced"}
    BY DEF ArtifactNames, StageNames, AsideNames, DisplacedNames
  <1>3. /\ \A p \in Homes : ~IsArtifact(p) /\ p[1] # "stage" /\ p \notin ArtifactNames
        /\ \A p \in ArtifactNames : IsArtifact(p) /\ p \notin Homes
    BY <1>1, <1>2 DEF IsArtifact
  <1>4. ASSUME NEW i, NEW j
        PROVE  /\ Stage(i) = Stage(j) => i = j
               /\ Aside(i) = Aside(j) => i = j
               /\ Displaced(i) = Displaced(j) => i = j
    <2>1. Stage(i)[2] = i /\ Stage(j)[2] = j /\ Aside(i)[2] = i /\ Aside(j)[2] = j
          /\ Displaced(i)[2] = i /\ Displaced(j)[2] = j
      OBVIOUS
    <2> QED
      BY <2>1, Zenon
  <1>5. ASSUME NEW i, NEW j
        PROVE  Stage(i) # Aside(j) /\ Stage(i) # Displaced(j) /\ Aside(i) # Displaced(j)
    <2>1. Stage(i)[1] # Aside(j)[1] /\ Stage(i)[1] # Displaced(j)[1] /\ Aside(i)[1] # Displaced(j)[1]
      OBVIOUS
    <2> QED
      BY <2>1, Zenon
  <1>6. \A i \in Nat : /\ Stage(i) \in ArtifactNames /\ Aside(i) \in ArtifactNames
                       /\ Displaced(i) \in ArtifactNames
    BY DEF ArtifactNames, StageNames, AsideNames, DisplacedNames
  <1>7. \A i : Aside(i)[1] # "stage" /\ Displaced(i)[1] # "stage" /\ Stage(i)[1] = "stage"
    OBVIOUS
  <1>8. ASSUME NEW c, NEW e, NEW m, NEW n
        PROVE  /\ Config(c) = Config(e) => c = e
               /\ Backup(c, m) = Backup(e, n) => c = e /\ m = n
    <2>1. /\ Config(c)[2] = c /\ Config(e)[2] = e /\ Backup(c, m)[2] = c /\ Backup(e, n)[2] = e
          /\ Backup(c, m)[3] = m /\ Backup(e, n)[3] = n
      OBVIOUS
    <2> QED
      BY <2>1, Zenon
  <1>9. ASSUME NEW c, NEW e, NEW n
        PROVE  Config(c) # Backup(e, n) /\ Config(c) # State /\ Backup(e, n) # State
    <2>1. Config(c)[1] # Backup(e, n)[1] /\ Config(c)[1] # State[1] /\ Backup(e, n)[1] # State[1]
      OBVIOUS
    <2> QED
      BY <2>1, Zenon
  <1>10. /\ \A c : Config(c)[1] = "config" /\ \A n : Backup(c, n)[1] # "config"
         /\ State[1] # "config"
    OBVIOUS
  <1>11. /\ State \in Homes /\ \A c \in Clients : Config(c) \in Homes
         /\ \A c \in Clients, n \in Nat : Backup(c, n) \in Homes
    BY DEF Homes, ConfigNames, BackupNames
  <1> QED
    BY <1>3, <1>4, <1>5, <1>6, <1>7, <1>8, <1>9, <1>10, <1>11

LEMMA BackupsDiffer ==
  ASSUME NEW c, NEW e, NEW m, NEW n, Backup(c, m) = Backup(e, n)
  PROVE  c = e /\ m = n
  BY NameFacts

LEMMA HomesDiffer ==
  ASSUME NEW c, NEW e, NEW n
  PROVE  Config(c) # Backup(e, n) /\ Config(c) # State /\ Backup(e, n) # State
  BY NameFacts

LEMMA FileFacts ==
  /\ None \notin AllFiles /\ None.id = 0
  /\ \A f \in AllFiles : /\ f # None /\ DOMAIN f = {"id", "bytes"} /\ f.id \in Nat \ {0}
                         /\ f.bytes \in AllBytes
  /\ ConfigFiles \subseteq AllFiles
  /\ \A f, g \in AllFiles : f.id = g.id /\ f.bytes = g.bytes => f = g
  BY DEF None, AllFiles, ConfigFiles, AllBytes

-----------------------------------------------------------------------------
(* Disks.                                                                  *)

\* A disk maps finitely many names to files, and no two to the same inode.
IsDisk(d) ==
  /\ IsFiniteSet(DOMAIN d) /\ DOMAIN d \subseteq Names
  /\ d \in [DOMAIN d -> AllFiles]
  /\ \A p, q \in DOMAIN d : d[p].id = d[q].id => p = q

LEMMA AtFacts ==
  ASSUME NEW d, IsDisk(d)
  PROVE  /\ \A p : At(d, p) \in AllFiles \cup {None}
         /\ \A p : p \in DOMAIN d <=> At(d, p) # None
         /\ \A p : p \in DOMAIN d => d[p] = At(d, p) /\ d[p] \in AllFiles
         /\ \A p, f : f # None => (Holds(d, p, f) <=> At(d, p) = f)
         /\ \A p, q : p \in DOMAIN d /\ q \in DOMAIN d /\ d[p] = d[q] => p = q
         /\ \A p, q : At(d, p) = At(d, q) /\ At(d, p) # None => p = q
  <1>1. \A p \in DOMAIN d : d[p] \in AllFiles /\ d[p] # None
    BY FileFacts DEF IsDisk
  <1> QED
    BY <1>1 DEF IsDisk, At, Holds

LEMMA WithoutFacts ==
  ASSUME NEW d, IsDisk(d), NEW S
  PROVE  /\ IsDisk(Without(d, S)) /\ DOMAIN Without(d, S) = DOMAIN d \ S
         /\ \A p : At(Without(d, S), p) = IF p \in S THEN None ELSE At(d, p)
  <1> DEFINE w == Without(d, S)
  <1>1. DOMAIN w = DOMAIN d \ S /\ \A p \in DOMAIN w : w[p] = d[p]
    BY DEF Without
  <1>2. IsFiniteSet(DOMAIN w)
    <2>1. IsFiniteSet(DOMAIN d \ S)
      BY FS_Difference DEF IsDisk
    <2> QED
      BY <1>1, <2>1
  <1>3. w \in [DOMAIN w -> AllFiles]
    BY <1>1 DEF IsDisk, Without
  <1> HIDE DEF w
  <1>4. \A p : At(w, p) = IF p \in S THEN None ELSE At(d, p)
    BY <1>1 DEF At
  <1>5. IsDisk(w)
    BY <1>1, <1>2, <1>3 DEF IsDisk
  <1> QED
    BY <1>1, <1>4, <1>5 DEF w

\* A file with an inode no other name has.
LEMMA WithFacts ==
  ASSUME NEW d, IsDisk(d), NEW x \in Names, NEW f \in AllFiles,
         \A q \in DOMAIN d : d[q].id = f.id => q = x
  PROVE  /\ IsDisk(With(d, x, f)) /\ DOMAIN With(d, x, f) = DOMAIN d \cup {x}
         /\ \A p : At(With(d, x, f), p) = IF p = x THEN f ELSE At(d, p)
  <1> DEFINE w == With(d, x, f)
  <1>1. DOMAIN w = DOMAIN d \cup {x} /\ \A p \in DOMAIN w : w[p] = IF p = x THEN f ELSE d[p]
    BY DEF With
  <1>2. IsFiniteSet(DOMAIN w)
    BY <1>1, FS_AddElement DEF IsDisk
  <1>3. w \in [DOMAIN w -> AllFiles]
    BY <1>1 DEF IsDisk, With
  <1> HIDE DEF w
  <1>4. \A p : At(w, p) = IF p = x THEN f ELSE At(d, p)
    BY <1>1 DEF At
  <1>5. DOMAIN w \subseteq Names
    BY <1>1 DEF IsDisk
  <1>6. \A p, q \in DOMAIN w : w[p].id = w[q].id => p = q
    BY <1>1 DEF IsDisk
  <1>7. IsDisk(w)
    BY <1>2, <1>3, <1>5, <1>6 DEF IsDisk
  <1> QED
    BY <1>1, <1>4, <1>7 DEF w

LEMMA RenamedFacts ==
  ASSUME NEW d, IsDisk(d), NEW from \in DOMAIN d, NEW to \in Names, from # to
  PROVE  /\ IsDisk(Renamed(d, from, to))
         /\ DOMAIN Renamed(d, from, to) = (DOMAIN d \ {from}) \cup {to}
         /\ \A p : At(Renamed(d, from, to), p) =
              IF p = to THEN At(d, from) ELSE IF p = from THEN None ELSE At(d, p)
  <1> DEFINE w == Without(d, {from})
             f == d[from]
  <1>1. /\ IsDisk(w) /\ DOMAIN w = DOMAIN d \ {from}
        /\ \A p : At(w, p) = IF p = from THEN None ELSE At(d, p)
    BY WithoutFacts
  <1>2. f \in AllFiles /\ At(d, from) = f
    BY AtFacts
  <1>3. \A q \in DOMAIN w : w[q] = d[q]
    BY DEF Without
  <1>4. \A q \in DOMAIN w : w[q].id = f.id => q = to
    BY <1>1, <1>3 DEF IsDisk
  <1>5. Renamed(d, from, to) = With(w, to, f)
    BY DEF Renamed
  <1> HIDE DEF w, f
  <1>6. /\ IsDisk(With(w, to, f)) /\ DOMAIN With(w, to, f) = DOMAIN w \cup {to}
        /\ \A p : At(With(w, to, f), p) = IF p = to THEN f ELSE At(w, p)
    BY <1>1, <1>2, <1>4, WithFacts
  <1> QED
    BY <1>1, <1>2, <1>5, <1>6

\* The files of a disk are finitely many, and so are their inodes.
LEMMA FilesFinite ==
  ASSUME NEW d, IsDisk(d)
  PROVE  IsFiniteSet(Files(d)) /\ Files(d) \subseteq AllFiles
  <1>1. Files(d) \subseteq AllFiles
    BY DEF Files, IsDisk
  <1> DEFINE g == [p \in DOMAIN d |-> d[p]]
  <1>2. g \in Surjection(DOMAIN d, Files(d))
    BY DEF Surjection, Files
  <1> QED
    BY <1>1, <1>2, FS_Surjection DEF IsDisk

LEMMA InodesFinite ==
  ASSUME NEW F, IsFiniteSet(F)
  PROVE  IsFiniteSet({f.id : f \in F})
  <1> DEFINE g == [f \in F |-> f.id]
  <1>1. g \in Surjection(F, {f.id : f \in F})
    BY DEF Surjection
  <1> QED
    BY <1>1, FS_Surjection

-----------------------------------------------------------------------------
(* Clients, requests and ledgers.                                          *)

LEMMA KeysFinite ==
  /\ IsFiniteSet(Clients) /\ IsFiniteSet(Keys)
  /\ \A S \in SUBSET Keys : IsFiniteSet(S)
  <1>1. IsFiniteSet(Clients)
    BY SwapClientsAssumption, FS_Singleton, FS_Union DEF Clients
  <1>2. IsFiniteSet(Scopes)
    <2>1. IsFiniteSet({"user"})
      BY FS_Singleton
    <2>2. IsFiniteSet({"user"} \cup {"project"})
      BY <2>1, FS_AddElement
    <2>3. Scopes = {"user"} \cup {"project"}
      BY DEF Scopes
    <2> QED
      BY <2>2, <2>3
  <1>3. IsFiniteSet(Clients \X Scopes)
    BY <1>1, <1>2, FS_Product
  <1> QED
    BY <1>1, <1>3, FS_Subset DEF Keys

LEMMA KeyFacts ==
  /\ \A c, s : <<c, s>>[1] = c /\ <<c, s>>[2] = s
  /\ \A c \in Clients, s \in Scopes : <<c, s>> \in Keys
  /\ \A l \in Keys : l[1] \in Clients /\ l[2] \in Scopes /\ l = <<l[1], l[2]>>
  BY DEF Keys

\* A selection enumerates a set of clients, each once.
IsSelection(s) ==
  /\ s \in Seq(Clients) /\ Len(s) \in Nat \ {0}
  /\ \A i, j \in 1..Len(s) : s[i] = s[j] => i = j

LEMMA RequestFacts ==
  ASSUME NEW req \in Requests
  PROVE  /\ IsSelection(req.clients)
         /\ req.kind \in {"use", "revert"}
         /\ req.kind = "use" => req.scope \in Scopes /\ req.command \in Commands
         /\ req.kind = "revert" => req.scope \in Scopes \cup {"any"}
  <1>1. req.clients \in Selections
    BY DEF Requests
  <1>2. PICK S : S \in (SUBSET Clients) \ {{}} /\ req.clients = SetToSeq(S)
    BY <1>1 DEF Selections
  <1>3. IsFiniteSet(S)
    BY <1>2, KeysFinite, FS_Subset
  <1>4. Cardinality(S) \in Nat /\ Cardinality(S) # 0
    <2>1. Cardinality(S) \in Nat
      BY <1>3, FS_CardinalityType
    <2>2. Cardinality(S) = 0 <=> S = {}
      BY <1>3, FS_EmptySet
    <2> QED
      BY <1>2, <2>1, <2>2
  <1> DEFINE s == SetToSeq(S)
  <1>5. /\ s \in Seq(S) /\ Len(s) = Cardinality(S)
        /\ \A i, j \in 1..Cardinality(S) : s[i] = s[j] => i = j
    BY <1>3, SetToSeqFacts
  <1> HIDE DEF s
  <1>6. s \in Seq(Clients)
    BY <1>2, <1>5
  <1>7. IsSelection(s)
    BY <1>4, <1>5, <1>6 DEF IsSelection
  <1> QED
    BY <1>2, <1>7 DEF s, Requests

LEMMA PlaceInFacts ==
  ASSUME NEW s, NEW i \in 1..Len(s), \A k, m \in 1..Len(s) : s[k] = s[m] => k = m
  PROVE  PlaceIn(s, s[i]) = i
  BY DEF PlaceIn

\* The place of a layer's client in a request, and what is asked for there.
LEMMA AskedFacts ==
  ASSUME NEW req \in Requests, req.kind = "use", NEW k \in 1..Len(req.clients)
  PROVE  /\ LayerOf(req, k) \in Keys /\ LayerOf(req, k)[1] = req.clients[k]
         /\ LayerOf(req, k)[2] = EffectiveScope(req.clients[k], req.scope)
         /\ req.clients[k] \in Clients
         /\ PlaceIn(req.clients, req.clients[k]) = k
         /\ AskedFor(req, req.clients[k]) = LayerOf(req, k)
  <1>1. IsSelection(req.clients) /\ req.scope \in Scopes
    BY RequestFacts
  <1>2. req.clients[k] \in Clients
    BY <1>1 DEF IsSelection
  <1>3. PlaceIn(req.clients, req.clients[k]) = k
    BY <1>1, PlaceInFacts DEF IsSelection
  <1>4. EffectiveScope(req.clients[k], req.scope) \in Scopes
    BY <1>1 DEF EffectiveScope, Scopes
  <1> QED
    BY <1>2, <1>3, <1>4, KeyFacts DEF LayerOf, AskedFor

LEMMA LedgerTypes ==
  /\ EmptyLedger \in LedgerBytes /\ Readable(EmptyLedger)
  /\ DOMAIN EmptyLedger.entries = {}
  /\ \A b \in AllBytes : DOMAIN b = {"next", "entries"} => b \in LedgerBytes
  /\ \A b \in AllBytes : Parses(b) => b \in ConfigBytes
  /\ \A b \in ConfigBytes : Parses(b) /\ b \notin OtherBytes /\ b \notin LedgerBytes
  /\ \A b \in OtherBytes : ~Parses(b) /\ ~Readable(b) /\ b \notin LedgerBytes
  /\ \A b \in AllBytes : Readable(b) => b \in LedgerBytes
  <1>1. \A b \in ConfigBytes : DOMAIN b = {"rest", "entry"}
    BY DEF ConfigBytes
  <1>2. \A b \in OtherBytes : DOMAIN b = {"other"}
    BY DEF OtherBytes
  <1>3. \A b \in LedgerBytes : DOMAIN b = {"next", "entries"}
    BY DEF LedgerBytes
  <1>4. /\ {"rest", "entry"} # {"other"} /\ {"rest", "entry"} # {"next", "entries"}
        /\ {"other"} # {"next", "entries"}
    OBVIOUS
  <1>5. DOMAIN <<>> = {} /\ <<>> \in [{} -> LayerEntries]
    OBVIOUS
  <1>6. <<>> \in Recordings
    BY <1>5 DEF Recordings
  <1>7. EmptyLedger \in LedgerBytes /\ DOMAIN EmptyLedger.entries = {} /\ EmptyLedger.next = 0
    BY <1>5, <1>6 DEF EmptyLedger, LedgerBytes
  <1>8. Readable(EmptyLedger)
    BY <1>3, <1>7 DEF Readable
  <1> QED
    BY <1>1, <1>2, <1>3, <1>4, <1>7, <1>8 DEF AllBytes, Parses, Readable

\* The ledger of a disk, where it can be read, is a ledger.
LEMMA LedgerOnFacts ==
  ASSUME NEW d, IsDisk(d), Readable(LedgerOn(d))
  PROVE  LedgerOn(d) \in LedgerBytes
  <1>1. CASE State \in DOMAIN d
    <2>1. d[State].bytes \in AllBytes
      BY <1>1, AtFacts, FileFacts
    <2> QED
      BY <1>1, <2>1, LedgerTypes DEF LedgerOn
  <1>2. CASE State \notin DOMAIN d
    BY <1>2, LedgerTypes DEF LedgerOn
  <1> QED
    BY <1>1, <1>2

LEMMA LedgerFacts ==
  ASSUME NEW L \in LedgerBytes, Readable(L)
  PROVE  /\ L.next \in Nat /\ DOMAIN L.entries \subseteq Keys
         /\ L.entries \in [DOMAIN L.entries -> LayerEntries]
         /\ \A l \in DOMAIN L.entries :
              /\ l[2] = EffectiveScope(l[1], l[2])
              /\ L.entries[l] \in LayerEntries
              /\ L.entries[l].sequence \in Nat /\ L.entries[l].sequence < L.next
              /\ L.entries[l].backup \in ConfigFiles /\ L.entries[l].expected \in ConfigFiles
         /\ \A k, l \in DOMAIN L.entries : L.entries[k].sequence = L.entries[l].sequence => k = l
  <1>1. L.next \in Nat /\ L.entries \in Recordings
    BY DEF LedgerBytes
  <1>2. PICK D \in SUBSET Keys : L.entries \in [D -> LayerEntries]
    BY <1>1 DEF Recordings
  <1>3. \A e \in LayerEntries : e.sequence \in Nat /\ e.backup \in ConfigFiles /\ e.expected \in ConfigFiles
    BY DEF LayerEntries
  <1>4. L.entries \in [DOMAIN L.entries -> LayerEntries] /\ DOMAIN L.entries \subseteq Keys
    BY <1>2
  <1>5. \A l \in DOMAIN L.entries : L.entries[l] \in LayerEntries
    BY <1>4
  <1>6. \A l \in DOMAIN L.entries : l[2] = EffectiveScope(l[1], l[2])
    BY DEF Readable
  <1>7. \A l \in DOMAIN L.entries : L.entries[l].sequence \in 0..(L.next - 1)
    BY DEF Readable
  <1>8. \A k, l \in DOMAIN L.entries : L.entries[k].sequence = L.entries[l].sequence => k = l
    BY DEF Readable
  <1>9. \A l \in DOMAIN L.entries : L.entries[l].sequence \in Nat /\ L.entries[l].sequence < L.next
    BY <1>1, <1>3, <1>5, <1>7
  <1> QED
    BY <1>1, <1>3, <1>4, <1>5, <1>6, <1>8, <1>9

LEMMA NewerFacts ==
  ASSUME NEW L, NEW l
  PROVE  /\ Newer(L, l) \subseteq DOMAIN L.entries
         /\ \A k \in Newer(L, l) : /\ l \in DOMAIN L.entries /\ k[1] = l[1]
                                   /\ L.entries[k].sequence > L.entries[l].sequence
         /\ \A k \in DOMAIN L.entries :
              l \in DOMAIN L.entries /\ k[1] = l[1] /\ L.entries[k].sequence > L.entries[l].sequence
                => k \in Newer(L, l)
  BY DEF Newer, Layers

LEMMA OldestFacts ==
  ASSUME NEW L \in LedgerBytes, Readable(L), NEW S \in SUBSET DOMAIN L.entries, S # {}
  PROVE  /\ Oldest(L, S) \in S /\ Newest(L, S) \in S
         /\ \A k \in S : /\ L.entries[Oldest(L, S)].sequence <= L.entries[k].sequence
                         /\ L.entries[k].sequence <= L.entries[Newest(L, S)].sequence
  <1> DEFINE Q == {L.entries[l].sequence : l \in S}
  <1>1. Q \in SUBSET Nat /\ Q # {} /\ L.next \in Nat /\ \A q \in Q : q <= L.next
    <2>1. \A l \in S : L.entries[l].sequence \in Nat /\ L.entries[l].sequence < L.next
      BY LedgerFacts
    <2>2. L.next \in Nat
      BY LedgerFacts
    <2> QED
      BY <2>1, <2>2
  <1>2. PICK q \in Q : \A r \in Q : q <= r
    BY <1>1, NatHasMinimum
  <1>3. LastOf(Q) \in Q /\ \A r \in Q : r <= LastOf(Q)
    BY <1>1, FiniteSetHasMaximum, Zenon
  <1>4. \E l \in S : \A k \in S : L.entries[l].sequence <= L.entries[k].sequence
    BY <1>2
  <1>5. \E l \in S : \A k \in S : L.entries[k].sequence <= L.entries[l].sequence
    BY <1>3
  <1>6. Oldest(L, S) \in S /\ \A k \in S : L.entries[Oldest(L, S)].sequence <= L.entries[k].sequence
    BY <1>4 DEF Oldest
  <1>7. Newest(L, S) \in S /\ \A k \in S : L.entries[k].sequence <= L.entries[Newest(L, S)].sequence
    BY <1>5 DEF Newest
  <1> QED
    BY <1>6, <1>7

-----------------------------------------------------------------------------
(* Operations.                                                             *)

Operations == [dest : Homes, staged : AllFiles \cup {None}, prior : AllFiles \cup {None},
               moved : BOOLEAN, published : BOOLEAN]

LEMMA OperationFacts ==
  ASSUME NEW dest, NEW staged, NEW prior
  PROVE  /\ Operation(dest, staged, prior).dest = dest
         /\ Operation(dest, staged, prior).staged = staged
         /\ Operation(dest, staged, prior).prior = prior
         /\ Operation(dest, staged, prior).moved = FALSE
         /\ Operation(dest, staged, prior).published = FALSE
         /\ dest \in Homes /\ staged \in AllFiles \cup {None} /\ prior \in AllFiles \cup {None}
              => Operation(dest, staged, prior) \in Operations
  BY DEF Operation, Operations

\* Three sequences, the middle one of one element.
Joined(a, x, b) == a \o <<x>> \o b

IsJoined(s, T, a, x, b) ==
  /\ s \in Seq(T) /\ Len(s) = Len(a) + 1 + Len(b)
  /\ \A i \in 1..Len(a) : s[i] = a[i]
  /\ s[Len(a) + 1] = x
  /\ \A i \in 1..Len(b) : s[Len(a) + 1 + i] = b[i]

LEMMA JoinFacts ==
  ASSUME NEW T, NEW a \in Seq(T), NEW x \in T, NEW b \in Seq(T)
  PROVE  IsJoined(Joined(a, x, b), T, a, x, b)
  BY DEF Joined, IsJoined

-----------------------------------------------------------------------------
(* What a use plans.                                                       *)

UsePremise(d, U, req) ==
  /\ IsDisk(d) /\ IsFiniteSet(U)
  /\ req \in Requests /\ req.kind = "use" /\ CanUse(d, LedgerOn(d), req)

\* The configurations of a use are configurations, and its ledger a ledger.
LEMMA UseReads ==
  ASSUME NEW d, NEW U, NEW req, UsePremise(d, U, req)
  PROVE  /\ LedgerOn(d) \in LedgerBytes /\ Readable(LedgerOn(d))
         /\ \A k \in 1..Len(req.clients) :
              /\ Config(req.clients[k]) \in DOMAIN d
              /\ d[Config(req.clients[k])].bytes \in ConfigBytes
              /\ LET l == LayerOf(req, k) IN
                 IF l \in DOMAIN LedgerOn(d).entries
                 THEN CanRewriteChain(d, LedgerOn(d), l)
                 ELSE Backup(l[1], SequenceOf(LedgerOn(d), req, l)) \notin DOMAIN d
  <1> USE DEF UsePremise
  <1>1. LedgerOn(d) \in LedgerBytes /\ Readable(LedgerOn(d))
    BY LedgerOnFacts DEF CanUse
  <1>2. ASSUME NEW k \in 1..Len(req.clients)
        PROVE  /\ Config(req.clients[k]) \in DOMAIN d
               /\ d[Config(req.clients[k])].bytes \in ConfigBytes
               /\ LET l == LayerOf(req, k) IN
                  IF l \in DOMAIN LedgerOn(d).entries
                  THEN CanRewriteChain(d, LedgerOn(d), l)
                  ELSE Backup(l[1], SequenceOf(LedgerOn(d), req, l)) \notin DOMAIN d
    <2>1. LayerOf(req, k)[1] = req.clients[k]
      BY AskedFacts
    <2>2. Config(req.clients[k]) \in DOMAIN d /\ Parses(d[Config(req.clients[k])].bytes)
      BY <2>1 DEF CanUse
    <2>3. d[Config(req.clients[k])].bytes \in AllBytes
      BY <2>2, AtFacts, FileFacts
    <2> QED
      BY <2>2, <2>3, LedgerTypes DEF CanUse
  <1> QED
    BY <1>1, <1>2

\* Every rewritten layer is the new one a client is asked for, or newer than
\* the known one it is asked for.
LEMMA RewrittenFacts ==
  ASSUME NEW d, NEW U, NEW req, UsePremise(d, U, req)
  PROVE  /\ Changed(d, req) \subseteq 1..Len(req.clients) /\ IsFiniteSet(Changed(d, req))
         /\ Rewritten(d, req) \subseteq Keys /\ IsFiniteSet(Rewritten(d, req))
         /\ \A l \in Rewritten(d, req) :
              LET k == PlaceIn(req.clients, l[1]) IN
              /\ k \in Changed(d, req) /\ req.clients[k] = l[1]
              /\ AskedFor(req, l[1]) = LayerOf(req, k)
              /\ \/ l \notin DOMAIN LedgerOn(d).entries /\ l = LayerOf(req, k)
                 \/ l \in DOMAIN LedgerOn(d).entries /\ l \in Newer(LedgerOn(d), LayerOf(req, k))
         /\ \A k \in Changed(d, req) :
              IF LayerOf(req, k) \in DOMAIN LedgerOn(d).entries
              THEN Newer(LedgerOn(d), LayerOf(req, k)) \subseteq Rewritten(d, req)
              ELSE LayerOf(req, k) \in Rewritten(d, req)
         /\ \A l \in Rewritten(d, req) : Newer(LedgerOn(d), l) \subseteq Rewritten(d, req)
  <1> DEFINE L == LedgerOn(d)
             K == 1..Len(req.clients)
             P(k) == IF LayerOf(req, k) \in DOMAIN L.entries THEN Newer(L, LayerOf(req, k))
                     ELSE {LayerOf(req, k)}
  <1>1. req \in Requests /\ req.kind = "use" /\ IsSelection(req.clients)
    BY RequestFacts DEF UsePremise
  <1>2. L \in LedgerBytes /\ Readable(L)
    BY UseReads
  <1>3. Changed(d, req) \subseteq K /\ IsFiniteSet(Changed(d, req))
    <2>1. 1 \in Int /\ Len(req.clients) \in Int
      BY <1>1 DEF IsSelection
    <2>2. IsFiniteSet(K)
      BY <2>1, FS_Interval
    <2> QED
      BY <2>2, FS_Subset DEF Changed
  <1>4. Rewritten(d, req) = UNION {P(k) : k \in Changed(d, req)}
    BY DEF Rewritten
  <1>5. \A l : l \in Rewritten(d, req) <=> \E k \in Changed(d, req) : l \in P(k)
    BY <1>4
  <1> HIDE DEF L, P
  <1>6. \A k \in K : /\ LayerOf(req, k) \in Keys /\ LayerOf(req, k)[1] = req.clients[k]
                     /\ PlaceIn(req.clients, req.clients[k]) = k
                     /\ AskedFor(req, req.clients[k]) = LayerOf(req, k)
    BY <1>1, AskedFacts
  <1>7. \A l : /\ Newer(L, l) \subseteq DOMAIN L.entries
               /\ \A k \in Newer(L, l) : k[1] = l[1]
    BY NewerFacts
  <1>8. \A l \in Rewritten(d, req) :
              LET k == PlaceIn(req.clients, l[1]) IN
              /\ k \in Changed(d, req) /\ req.clients[k] = l[1]
              /\ AskedFor(req, l[1]) = LayerOf(req, k)
              /\ \/ l \notin DOMAIN L.entries /\ l = LayerOf(req, k)
                 \/ l \in DOMAIN L.entries /\ l \in Newer(L, LayerOf(req, k))
    <2> SUFFICES ASSUME NEW l \in Rewritten(d, req)
                 PROVE  LET k == PlaceIn(req.clients, l[1]) IN
                        /\ k \in Changed(d, req) /\ req.clients[k] = l[1]
                        /\ AskedFor(req, l[1]) = LayerOf(req, k)
                        /\ \/ l \notin DOMAIN L.entries /\ l = LayerOf(req, k)
                           \/ l \in DOMAIN L.entries /\ l \in Newer(L, LayerOf(req, k))
      OBVIOUS
    <2>1. PICK k \in Changed(d, req) : l \in P(k)
      BY <1>5
    <2>2. l[1] = LayerOf(req, k)[1]
      BY <2>1, <1>7 DEF P
    <2>3. req.clients[k] = l[1] /\ PlaceIn(req.clients, l[1]) = k /\ AskedFor(req, l[1]) = LayerOf(req, k)
      BY <1>3, <1>6, <2>2
    <2>4. \/ l \notin DOMAIN L.entries /\ l = LayerOf(req, k)
          \/ l \in DOMAIN L.entries /\ l \in Newer(L, LayerOf(req, k))
      BY <2>1, <1>7 DEF P
    <2> QED
      BY <2>3, <2>4
  <1>9. DOMAIN L.entries \subseteq Keys
    BY <1>2, LedgerFacts
  <1>10. Rewritten(d, req) \subseteq Keys /\ IsFiniteSet(Rewritten(d, req))
    <2>1. Rewritten(d, req) \subseteq Keys
      BY <1>3, <1>6, <1>8, <1>9
    <2> QED
      BY <2>1, KeysFinite
  <1>11. \A k \in Changed(d, req) :
              IF LayerOf(req, k) \in DOMAIN L.entries
              THEN Newer(L, LayerOf(req, k)) \subseteq Rewritten(d, req)
              ELSE LayerOf(req, k) \in Rewritten(d, req)
    BY <1>5 DEF P
  <1>12. \A l \in Rewritten(d, req) : Newer(L, l) \subseteq Rewritten(d, req)
    <2> SUFFICES ASSUME NEW l \in Rewritten(d, req), NEW m \in Newer(L, l) PROVE m \in Rewritten(d, req)
      OBVIOUS
    <2> DEFINE k == PlaceIn(req.clients, l[1])
    <2>1. l \in DOMAIN L.entries /\ m \in DOMAIN L.entries /\ m[1] = l[1]
          /\ L.entries[m].sequence > L.entries[l].sequence
      BY NewerFacts
    <2>2. k \in Changed(d, req) /\ l \in Newer(L, LayerOf(req, k))
      BY <1>8, <2>1
    <2>3. /\ LayerOf(req, k) \in DOMAIN L.entries /\ l[1] = LayerOf(req, k)[1]
          /\ L.entries[l].sequence > L.entries[LayerOf(req, k)].sequence
      BY <2>2, NewerFacts
    <2>4. L.entries[m].sequence \in Nat /\ L.entries[l].sequence \in Nat
          /\ L.entries[LayerOf(req, k)].sequence \in Nat
      BY <1>2, <2>1, <2>3, LedgerFacts
    <2>5. m \in Newer(L, LayerOf(req, k))
      BY <2>1, <2>3, <2>4, NewerFacts
    <2> QED
      BY <2>2, <2>3, <2>5, <1>11
  <1> QED
    BY <1>3, <1>8, <1>10, <1>11, <1>12 DEF L

\* Every element of S once.
Enumerates(s, S) ==
  /\ s \in Seq(S) /\ Len(s) = Cardinality(S) /\ Len(s) \in Nat
  /\ \A i \in 1..Len(s) : s[i] \in S
  /\ \A i, j \in 1..Len(s) : s[i] = s[j] => i = j
  /\ \A x \in S : \E i \in 1..Len(s) : s[i] = x

LEMMA OrderFacts ==
  ASSUME NEW S, IsFiniteSet(S), NEW key \in [S -> Int], NEW s, s = SortedBy(S, key)
  PROVE  Enumerates(s, S) /\ \A i, j \in 1..Len(s) : i < j => key[s[i]] <= key[s[j]]
  <1> DEFINE t == SortedBy(S, key)
  <1>1. /\ t \in Seq(S) /\ Len(t) = Cardinality(S)
        /\ Cardinality(S) \in Nat
        /\ \A i \in 1..Cardinality(S) : t[i] \in S
        /\ \A i, j \in 1..Cardinality(S) :
              /\ t[i] = t[j] => i = j
              /\ i < j => key[t[i]] <= key[t[j]]
        /\ \A x \in S : \E i \in 1..Cardinality(S) : t[i] = x
    BY SortedByFacts
  <1>2. s = t
    OBVIOUS
  <1> HIDE DEF t
  <1> QED
    BY <1>1, <1>2 DEF Enumerates

\* The orders in which backups and configurations are staged.
LEMMA UseOrders ==
  ASSUME NEW d, NEW U, NEW req, UsePremise(d, U, req)
  PROVE  LET b == BackupOrder(d, req)
             q == ConfigOrder(d, req)
             R == Rewritten(d, req)
             C == Changed(d, req)
         IN /\ b \in Seq(R) /\ Len(b) = Cardinality(R) /\ Len(b) \in Nat
            /\ \A i \in 1..Len(b) : b[i] \in R /\ PlaceIn(b, b[i]) = i
            /\ \A l \in R : PlaceIn(b, l) \in 1..Len(b) /\ b[PlaceIn(b, l)] = l
            /\ q \in Seq(C) /\ Len(q) = Cardinality(C) /\ Len(q) \in Nat
            /\ \A i \in 1..Len(q) : q[i] \in C /\ PlaceIn(q, q[i]) = i
            /\ \A k \in C : PlaceIn(q, k) \in 1..Len(q) /\ q[PlaceIn(q, k)] = k
  <1> DEFINE b == BackupOrder(d, req)
             q == ConfigOrder(d, req)
             R == Rewritten(d, req)
             C == Changed(d, req)
             bk == [l \in R |-> PlaceIn(req.clients, l[1])]
             qk == [k \in C |-> k]
  <1>1. IsFiniteSet(R) /\ IsFiniteSet(C)
    BY RewrittenFacts
  <1>2. \A k \in C : k \in Int
    <2>1. C \subseteq 1..Len(req.clients)
      BY RewrittenFacts
    <2>2. Len(req.clients) \in Nat
      BY RequestFacts DEF IsSelection, UsePremise
    <2> QED
      BY <2>1, <2>2
  <1>3. \A l \in R : PlaceIn(req.clients, l[1]) \in C
    BY RewrittenFacts
  <1>4. bk \in [R -> Int] /\ qk \in [C -> Int]
    BY <1>2, <1>3
  <1>5. b = SortedBy(R, bk) /\ q = SortedBy(C, qk)
    BY DEF BackupOrder, ConfigOrder
  <1> HIDE DEF b, q, R, C, bk, qk
  <1>6. Enumerates(b, R)
    BY <1>1, <1>4, <1>5, OrderFacts, Zenon
  <1>7. Enumerates(q, C)
    BY <1>1, <1>4, <1>5, OrderFacts, Zenon
  <1>8. \A i \in 1..Len(b) : PlaceIn(b, b[i]) = i
    BY <1>6, PlaceInFacts DEF Enumerates
  <1>9. \A i \in 1..Len(q) : PlaceIn(q, q[i]) = i
    BY <1>7, PlaceInFacts DEF Enumerates
  <1>10. \A l \in R : PlaceIn(b, l) \in 1..Len(b) /\ b[PlaceIn(b, l)] = l
    BY <1>6, <1>8 DEF Enumerates
  <1>11. \A k \in C : PlaceIn(q, k) \in 1..Len(q) /\ q[PlaceIn(q, k)] = k
    BY <1>7, <1>9 DEF Enumerates
  <1> QED
    BY <1>6, <1>7, <1>8, <1>9, <1>10, <1>11 DEF b, q, R, C, Enumerates

\* A known layer keeps its sequence, a new one gets a number from the next on.
LEMMA SequenceFacts ==
  ASSUME NEW L \in LedgerBytes, Readable(L), NEW req \in Requests, NEW l
  PROVE  /\ l \in DOMAIN L.entries => SequenceOf(L, req, l) = L.entries[l].sequence
                                      /\ SequenceOf(L, req, l) < L.next
         /\ l \notin DOMAIN L.entries /\ PlaceIn(req.clients, l[1]) \in 1..Len(req.clients)
              => SequenceOf(L, req, l) >= L.next /\ SequenceOf(L, req, l) \in Nat
         /\ L.next \in Nat
  <1> DEFINE p == PlaceIn(req.clients, l[1])
             E == {j \in 1..(p - 1) : LayerOf(req, j) \notin DOMAIN L.entries}
  <1>1. L.next \in Nat
    BY LedgerFacts
  <1>2. ASSUME l \in DOMAIN L.entries
        PROVE  SequenceOf(L, req, l) = L.entries[l].sequence /\ SequenceOf(L, req, l) < L.next
    BY <1>2, LedgerFacts DEF SequenceOf
  <1>3. ASSUME l \notin DOMAIN L.entries, p \in 1..Len(req.clients)
        PROVE  SequenceOf(L, req, l) >= L.next /\ SequenceOf(L, req, l) \in Nat
    <2>1. Len(req.clients) \in Nat
      BY RequestFacts DEF IsSelection
    <2>2. IsFiniteSet(1..(p - 1))
      BY <1>3, <2>1, FS_Interval
    <2>3. IsFiniteSet(E)
      BY <2>2, FS_Subset
    <2>4. Cardinality(E) \in Nat
      BY <2>3, FS_CardinalityType
    <2>5. SequenceOf(L, req, l) = L.next + Cardinality(E)
      BY <1>3 DEF SequenceOf
    <2> QED
      BY <1>1, <2>4, <2>5
  <1> QED
    BY <1>1, <1>2, <1>3

LEMMA EditedFacts ==
  ASSUME NEW b \in ConfigBytes, NEW s \in Scopes, NEW e \in ServerEntries
  PROVE  /\ SetServer(b, s, e) \in ConfigBytes /\ SetServer(b, s, e).rest = b.rest
         /\ SetServer(b, s, e).entry[s] = e
         /\ \A t \in Scopes \ {s} : SetServer(b, s, e).entry[t] = b.entry[t]
  <1>1. b.entry \in [Scopes -> ServerEntries] /\ b.rest \in Nat
    BY DEF ConfigBytes
  <1> DEFINE f == [b.entry EXCEPT ![s] = e]
  <1>2. f \in [Scopes -> ServerEntries] /\ f[s] = e /\ \A t \in Scopes \ {s} : f[t] = b.entry[t]
    BY <1>1
  <1>3. SetServer(b, s, e) = [b EXCEPT !.entry = f]
    BY <1>1 DEF SetServer, ConfigBytes
  <1> HIDE DEF f
  <1>4. [b EXCEPT !.entry = f] \in ConfigBytes /\ [b EXCEPT !.entry = f].rest = b.rest
        /\ [b EXCEPT !.entry = f].entry = f
    BY <1>2 DEF ConfigBytes
  <1> QED
    BY <1>2, <1>3, <1>4

LEMMA SpecFacts ==
  ASSUME NEW d, NEW U, NEW req, UsePremise(d, U, req), NEW k \in 1..Len(req.clients)
  PROVE  /\ SpecFor(d, req, LayerOf(req, k)) \in ServerEntries
         /\ SpecFor(d, req, LayerOf(req, k)).command = req.command
         /\ EditedBytes(d, req, LayerOf(req, k)) \in ConfigBytes
  <1> DEFINE l == LayerOf(req, k)
  <1>1. l \in Keys /\ l[1] = req.clients[k]
    BY AskedFacts DEF UsePremise
  <1>2. d[Config(l[1])].bytes \in ConfigBytes
    BY <1>1, UseReads
  <1>3. l[2] \in Scopes
    BY <1>1, KeyFacts
  <1>4. req.command \in Commands
    BY RequestFacts DEF UsePremise
  <1> HIDE DEF l
  <1>5. d[Config(l[1])].bytes.entry[l[2]].env \in Nat
    BY <1>2, <1>3 DEF ConfigBytes, ServerEntries
  <1>6. SpecFor(d, req, l) \in ServerEntries /\ SpecFor(d, req, l).command = req.command
    BY <1>4, <1>5 DEF SpecFor, ServerEntries
  <1>7. EditedBytes(d, req, l) \in ConfigBytes
    BY <1>2, <1>3, <1>6, EditedFacts DEF EditedBytes
  <1> QED
    BY <1>6, <1>7 DEF l

\* The files a use stages: configurations, on inodes in the order of the
\* operations.
LEMMA UseFiles ==
  ASSUME NEW d, NEW U, NEW req, UsePremise(d, U, req)
  PROVE  /\ \A l \in Rewritten(d, req) :
              /\ NewBackup(d, U, req, l) \in ConfigFiles
              /\ NewBackup(d, U, req, l).id = FreshInode(U, PlaceIn(BackupOrder(d, req), l))
              /\ l \in DOMAIN LedgerOn(d).entries =>
                   NewBackup(d, U, req, l).bytes =
                     SetServer(LedgerOn(d).entries[l].backup.bytes, AskedFor(req, l[1])[2],
                               SpecFor(d, req, AskedFor(req, l[1])))
              /\ l \notin DOMAIN LedgerOn(d).entries =>
                   NewBackup(d, U, req, l).bytes = d[Config(l[1])].bytes
         /\ \A k \in Changed(d, req) :
              /\ NewConfig(d, U, req, k) \in ConfigFiles
              /\ NewConfig(d, U, req, k).id =
                   FreshInode(U, Cardinality(Rewritten(d, req)) + 1 + PlaceIn(ConfigOrder(d, req), k))
              /\ NewConfig(d, U, req, k).bytes = EditedBytes(d, req, LayerOf(req, k))
  <1> DEFINE L == LedgerOn(d)
             b == BackupOrder(d, req)
             q == ConfigOrder(d, req)
             R == Rewritten(d, req)
  <1>1. IsFiniteSet(U) /\ req \in Requests /\ req.kind = "use"
    BY DEF UsePremise
  <1>2. L \in LedgerBytes /\ Readable(L)
    BY UseReads
  <1>3. ASSUME NEW l \in R
        PROVE  /\ NewBackup(d, U, req, l) \in ConfigFiles
               /\ NewBackup(d, U, req, l).id = FreshInode(U, PlaceIn(b, l))
               /\ l \in DOMAIN L.entries =>
                   NewBackup(d, U, req, l).bytes =
                     SetServer(L.entries[l].backup.bytes, AskedFor(req, l[1])[2],
                               SpecFor(d, req, AskedFor(req, l[1])))
               /\ l \notin DOMAIN L.entries => NewBackup(d, U, req, l).bytes = d[Config(l[1])].bytes
    <2> DEFINE k == PlaceIn(req.clients, l[1])
    <2>1. k \in 1..Len(req.clients) /\ req.clients[k] = l[1] /\ AskedFor(req, l[1]) = LayerOf(req, k)
      BY RewrittenFacts
    <2>2. PlaceIn(b, l) \in Nat \ {0}
      BY UseOrders
    <2>3. FreshInode(U, PlaceIn(b, l)) \in Nat \ {0}
      BY <1>1, <2>2, FreshInodeFacts
    <2>4. LayerOf(req, k) \in Keys /\ LayerOf(req, k)[2] \in Scopes
      BY <1>1, <2>1, AskedFacts, KeyFacts
    <2>5. SpecFor(d, req, LayerOf(req, k)) \in ServerEntries
      BY <2>1, SpecFacts
    <2>6. l \in DOMAIN L.entries => L.entries[l].backup.bytes \in ConfigBytes
      BY <1>2, LedgerFacts DEF ConfigFiles
    <2>7. d[Config(l[1])].bytes \in ConfigBytes
      BY <2>1, UseReads
    <2> DEFINE y == IF l \in DOMAIN L.entries
                    THEN SetServer(L.entries[l].backup.bytes, AskedFor(req, l[1])[2],
                                   SpecFor(d, req, AskedFor(req, l[1])))
                    ELSE d[Config(l[1])].bytes
    <2>8. y \in ConfigBytes
      BY <2>1, <2>4, <2>5, <2>6, <2>7, EditedFacts
    <2>9. NewBackup(d, U, req, l) = [id |-> FreshInode(U, PlaceIn(b, l)), bytes |-> y]
      BY DEF NewBackup
    <2>10. l \in DOMAIN L.entries \/ l \notin DOMAIN L.entries
      OBVIOUS
    <2> HIDE DEF b
    <2>11. [id |-> FreshInode(U, PlaceIn(b, l)), bytes |-> y] \in ConfigFiles
      BY <2>3, <2>8 DEF ConfigFiles
    <2> QED
      BY <2>9, <2>11
  <1>4. ASSUME NEW k \in Changed(d, req)
        PROVE  /\ NewConfig(d, U, req, k) \in ConfigFiles
               /\ NewConfig(d, U, req, k).id = FreshInode(U, Cardinality(R) + 1 + PlaceIn(q, k))
               /\ NewConfig(d, U, req, k).bytes = EditedBytes(d, req, LayerOf(req, k))
    <2>1. PlaceIn(q, k) \in Nat \ {0} /\ Cardinality(R) \in Nat
      BY UseOrders
    <2>2. FreshInode(U, Cardinality(R) + 1 + PlaceIn(q, k)) \in Nat \ {0}
      BY <1>1, <2>1, FreshInodeFacts
    <2>3. k \in 1..Len(req.clients)
      BY RewrittenFacts
    <2>4. EditedBytes(d, req, LayerOf(req, k)) \in ConfigBytes
      BY <2>3, SpecFacts
    <2> QED
      BY <2>2, <2>4 DEF NewConfig, ConfigFiles
  <1> QED
    BY <1>3, <1>4

LEMMA UseLedger ==
  ASSUME NEW d, NEW U, NEW req, UsePremise(d, U, req)
  PROVE  LET L == LedgerOn(d)
             A == LedgerAfterUse(d, U, req)
             asked == {LayerOf(req, k) : k \in Changed(d, req)}
         IN /\ A \in LedgerBytes
            /\ DOMAIN A.entries = DOMAIN L.entries \cup asked
            /\ A.next >= L.next
            /\ \A l \in DOMAIN A.entries :
                 /\ A.entries[l].sequence = SequenceOf(L, req, l)
                 /\ A.entries[l].backup = IF l \in Rewritten(d, req) THEN NewBackup(d, U, req, l)
                                          ELSE L.entries[l].backup
                 /\ A.entries[l].expected = IF l \in asked \cup Rewritten(d, req)
                                            THEN NewExpected(d, U, req, l)
                                            ELSE L.entries[l].expected
            /\ \A l \in asked \cup Rewritten(d, req) :
                 /\ PlaceIn(req.clients, l[1]) \in Changed(d, req)
                 /\ Newer(L, l) # {} => Oldest(L, Newer(L, l)) \in Rewritten(d, req)
                 /\ NewExpected(d, U, req, l) \in ConfigFiles
  <1> DEFINE L == LedgerOn(d)
             A == LedgerAfterUse(d, U, req)
             C == Changed(d, req)
             R == Rewritten(d, req)
             asked == {LayerOf(req, k) : k \in C}
             D == DOMAIN L.entries
             E == {k \in 1..Len(req.clients) : LayerOf(req, k) \notin D}
             e == [l \in D \cup asked |->
                    [sequence |-> SequenceOf(L, req, l),
                     backup   |-> IF l \in R THEN NewBackup(d, U, req, l) ELSE L.entries[l].backup,
                     expected |-> IF l \in asked \cup R THEN NewExpected(d, U, req, l)
                                  ELSE L.entries[l].expected]]
  <1>1. A = [next |-> L.next + Cardinality(E), entries |-> e]
    BY DEF LedgerAfterUse
  <1>2. L \in LedgerBytes /\ Readable(L) /\ req \in Requests /\ req.kind = "use"
    BY UseReads DEF UsePremise
  <1>3. Cardinality(E) \in Nat /\ L.next \in Nat
    <2>0. Len(req.clients) \in Nat
      BY <1>2, RequestFacts DEF IsSelection
    <2>1. IsFiniteSet(1..Len(req.clients))
      BY <2>0, FS_Interval
    <2>2. IsFiniteSet(E)
      BY <2>1, FS_Subset
    <2> QED
      BY <1>2, <2>2, FS_CardinalityType, LedgerFacts
  <1>4. \A k \in C : /\ LayerOf(req, k) \in Keys
                     /\ PlaceIn(req.clients, LayerOf(req, k)[1]) = k
    BY <1>2, RewrittenFacts, AskedFacts
  <1>5. \A l \in asked \cup R : PlaceIn(req.clients, l[1]) \in C
    BY <1>4, RewrittenFacts
  <1>6. \A l \in asked \cup R : Newer(L, l) \subseteq R
    <2>1. \A k \in C : Newer(L, LayerOf(req, k)) \subseteq R
      <3> SUFFICES ASSUME NEW k \in C PROVE Newer(L, LayerOf(req, k)) \subseteq R
        OBVIOUS
      <3>1. LayerOf(req, k) \notin D => Newer(L, LayerOf(req, k)) = {}
        BY NewerFacts
      <3>2. LayerOf(req, k) \in D => Newer(L, LayerOf(req, k)) \subseteq R
        BY RewrittenFacts
      <3> QED
        BY <3>1, <3>2
    <2> QED
      BY <2>1, RewrittenFacts
  <1>7. \A l \in asked \cup R : Newer(L, l) # {} => Oldest(L, Newer(L, l)) \in R
    <2> SUFFICES ASSUME NEW l \in asked \cup R, Newer(L, l) # {}
                 PROVE  Oldest(L, Newer(L, l)) \in R
      OBVIOUS
    <2>1. Newer(L, l) \in SUBSET D
      BY NewerFacts
    <2>2. Oldest(L, Newer(L, l)) \in Newer(L, l)
      BY <1>2, <2>1, OldestFacts
    <2> QED
      BY <2>2, <1>6
  <1>8. \A l \in asked \cup R : NewExpected(d, U, req, l) \in ConfigFiles
    BY <1>5, <1>7, UseFiles DEF NewExpected
  <1>9. asked \subseteq Keys /\ D \subseteq Keys
    BY <1>2, <1>4, LedgerFacts
  <1>10. \A l \in D \cup asked :
           /\ SequenceOf(L, req, l) \in Nat
           /\ l \in R \/ l \in D
    <2> SUFFICES ASSUME NEW l \in D \cup asked
                 PROVE  SequenceOf(L, req, l) \in Nat /\ (l \in R \/ l \in D)
      OBVIOUS
    <2>1. CASE l \in D
      BY <2>1, <1>2, SequenceFacts, LedgerFacts
    <2>2. CASE l \notin D
      <3>1. PICK k \in C : l = LayerOf(req, k)
        BY <2>2
      <3>2. PlaceIn(req.clients, l[1]) \in 1..Len(req.clients)
        BY <3>1, <1>4, RewrittenFacts
      <3> QED
        BY <2>2, <3>1, <3>2, <1>2, SequenceFacts, RewrittenFacts
    <2> QED
      BY <2>1, <2>2
  <1>11. \A l \in D : L.entries[l].backup \in ConfigFiles /\ L.entries[l].expected \in ConfigFiles
    BY <1>2, LedgerFacts
  <1>12. \A l \in R : NewBackup(d, U, req, l) \in ConfigFiles
    BY UseFiles
  <1> HIDE DEF L, A, C, R, E, D, asked
  <1>13. e \in [D \cup asked -> LayerEntries]
    <2> SUFFICES ASSUME NEW l \in D \cup asked PROVE e[l] \in LayerEntries
      OBVIOUS
    <2>1. (IF l \in R THEN NewBackup(d, U, req, l) ELSE L.entries[l].backup) \in ConfigFiles
      BY <1>10, <1>11, <1>12
    <2>2. (IF l \in asked \cup R THEN NewExpected(d, U, req, l) ELSE L.entries[l].expected) \in ConfigFiles
      BY <1>8, <1>10, <1>11
    <2> QED
      BY <2>1, <2>2, <1>10 DEF LayerEntries
  <1>14. e \in Recordings
    BY <1>9, <1>13 DEF Recordings
  <1>15. A.next = L.next + Cardinality(E) /\ A.entries = e /\ DOMAIN e = D \cup asked
    BY <1>1
  <1>16. A \in LedgerBytes
    <2> HIDE DEF e
    <2> QED
      BY <1>1, <1>3, <1>14 DEF LedgerBytes
  <1>17. \A l \in D \cup asked :
           /\ e[l].sequence = SequenceOf(L, req, l)
           /\ e[l].backup = IF l \in R THEN NewBackup(d, U, req, l) ELSE L.entries[l].backup
           /\ e[l].expected = IF l \in asked \cup R THEN NewExpected(d, U, req, l)
                              ELSE L.entries[l].expected
    OBVIOUS
  <1>18. A.next >= L.next
    BY <1>3, <1>15
  <1> QED
    BY <1>5, <1>7, <1>8, <1>15, <1>16, <1>17, <1>18 DEF A, L, C, R, D, asked

-----------------------------------------------------------------------------
(* What a plan is, whatever command made it.                               *)

\* Nothing is done yet; what is staged for the ledger's name is a ledger, and
\* a configuration everywhere else.
PlanTyped(ops) ==
  /\ ops \in Seq(Operations)
  /\ \A i \in 1..Len(ops) :
       /\ ops[i].moved = FALSE /\ ops[i].published = FALSE
       /\ ops[i].staged # None =>
            IF ops[i].dest = State THEN ops[i].staged.bytes \in LedgerBytes
                                   ELSE ops[i].staged \in ConfigFiles

\* The staged files have inodes of their own.
PlanFresh(U, ops) ==
  /\ \A i \in 1..Len(ops) : ops[i].staged # None => ops[i].staged.id \notin U
  /\ \A i, j \in 1..Len(ops) :
       ops[i].staged # None /\ ops[j].staged # None /\ ops[i].staged.id = ops[j].staged.id => i = j

\* An operation expects what the last one before it at the same destination
\* leaves there, or what the disk holds.
PlanPriors(d, ops) ==
  \A i \in 1..Len(ops) :
    /\ \A j \in 1..(i - 1) :
         ops[j].dest = ops[i].dest /\ (\A k \in (j + 1)..(i - 1) : ops[k].dest # ops[i].dest)
           => ops[i].prior = ops[j].staged
    /\ (\A j \in 1..(i - 1) : ops[j].dest # ops[i].dest) => ops[i].prior = At(d, ops[i].dest)
    /\ ops[i].prior # None \/ ops[i].staged # None

\* Only a configuration is written more than once, and the ledger is written.
PlanPlaces(ops) ==
  /\ \A i, j \in 1..Len(ops) : ops[i].dest = ops[j].dest => i = j \/ ops[i].dest \in ConfigNames
  /\ ops # <<>> => \E i \in 1..Len(ops) : ops[i].dest = State

\* A backup the new ledger names is staged before it, or is one the old ledger
\* names and the plan leaves alone.
OwnName(L, l) == Backup(l[1], L.entries[l].sequence)

PlanLedger(d, ops) ==
  \A s \in 1..Len(ops) : ops[s].dest = State /\ ops[s].staged # None =>
    \A l \in DOMAIN ops[s].staged.bytes.entries :
      LET A == ops[s].staged.bytes IN
      \/ \E j \in 1..(s - 1) : ops[j].staged = A.entries[l].backup /\ ops[j].dest = OwnName(A, l)
      \/ /\ l \in DOMAIN LedgerOn(d).entries
         /\ A.entries[l].backup = LedgerOn(d).entries[l].backup
         /\ A.entries[l].sequence = LedgerOn(d).entries[l].sequence
         /\ \A j \in 1..Len(ops) : ops[j].dest # OwnName(A, l)

IsPlan(d, U, ops) ==
  /\ PlanTyped(ops) /\ PlanFresh(U, ops) /\ PlanPriors(d, ops) /\ PlanPlaces(ops)
  /\ PlanLedger(d, ops)
  /\ Readable(LedgerOn(d))

-----------------------------------------------------------------------------
(* The plan of a use.                                                      *)

LEMMA UseShape ==
  ASSUME NEW d, NEW U, NEW req, UsePremise(d, U, req), Changed(d, req) # {}
  PROVE  LET ops == UseOperations(d, U, req)
             b == BackupOrder(d, req)
             q == ConfigOrder(d, req)
             state == [id |-> FreshInode(U, Len(b) + 1), bytes |-> LedgerAfterUse(d, U, req)]
         IN /\ ops \in Seq(Operations) /\ Len(ops) = Len(b) + 1 + Len(q)
            /\ \A i \in 1..Len(b) : ops[i] = BackupOperation(d, U, req, b[i])
            /\ ops[Len(b) + 1] = Operation(State, state, At(d, State))
            /\ \A i \in 1..Len(q) : ops[Len(b) + 1 + i] = ConfigOperation(d, U, req, q[i])
            /\ state \in AllFiles
  <1> DEFINE ops == UseOperations(d, U, req)
             b == BackupOrder(d, req)
             q == ConfigOrder(d, req)
             L == LedgerOn(d)
             state == [id |-> FreshInode(U, Len(b) + 1), bytes |-> LedgerAfterUse(d, U, req)]
             x == Operation(State, state, At(d, State))
             B == [i \in 1..Len(b) |-> BackupOperation(d, U, req, b[i])]
             Q == [i \in 1..Len(q) |-> ConfigOperation(d, U, req, q[i])]
  <1>1. ops = Joined(B, x, Q)
    BY DEF UseOperations, InUseOrder, Joined
  <1>2. IsFiniteSet(U) /\ IsDisk(d) /\ req \in Requests /\ req.kind = "use"
    BY DEF UsePremise
  <1>3. L \in LedgerBytes /\ Readable(L)
    BY UseReads
  <1>4. /\ Len(b) \in Nat /\ Len(q) \in Nat
        /\ \A i \in 1..Len(b) : b[i] \in Rewritten(d, req)
        /\ \A i \in 1..Len(q) : q[i] \in Changed(d, req)
    BY UseOrders
  <1>5. state \in AllFiles
    <2>1. FreshInode(U, Len(b) + 1) \in Nat \ {0}
      BY <1>2, <1>4, FreshInodeFacts
    <2>2. LedgerAfterUse(d, U, req) \in AllBytes
      BY UseLedger DEF AllBytes
    <2> QED
      BY <2>1, <2>2 DEF AllFiles
  <1>6. ASSUME NEW l \in Rewritten(d, req)
        PROVE  BackupOperation(d, U, req, l) \in Operations
    <2>1. /\ PlaceIn(req.clients, l[1]) \in 1..Len(req.clients)
          /\ l \in Keys
      BY RewrittenFacts
    <2>2. SequenceOf(L, req, l) \in Nat
      BY <1>2, <1>3, <2>1, SequenceFacts, LedgerFacts
    <2>3. Backup(l[1], SequenceOf(L, req, l)) \in Homes
      BY <2>1, <2>2, KeyFacts, NameFacts
    <2>4. NewBackup(d, U, req, l) \in AllFiles
      BY UseFiles, FileFacts
    <2>5. (IF l \in DOMAIN L.entries THEN L.entries[l].backup ELSE None) \in AllFiles \cup {None}
      BY <1>3, LedgerFacts, FileFacts
    <2> QED
      BY <2>3, <2>4, <2>5, OperationFacts DEF BackupOperation
  <1>7. x \in Operations
    BY <1>2, <1>5, AtFacts, NameFacts, OperationFacts
  <1>8. ASSUME NEW k \in Changed(d, req)
        PROVE  ConfigOperation(d, U, req, k) \in Operations
    <2>1. k \in 1..Len(req.clients)
      BY RewrittenFacts
    <2>2. req.clients[k] \in Clients /\ Config(req.clients[k]) \in DOMAIN d
      BY <1>2, <2>1, AskedFacts, UseReads
    <2>3. Config(req.clients[k]) \in Homes
      BY <2>2, NameFacts
    <2>4. NewConfig(d, U, req, k) \in AllFiles
      BY UseFiles, FileFacts
    <2>5. d[Config(req.clients[k])] \in AllFiles
      BY <1>2, <2>2, AtFacts
    <2> QED
      BY <2>3, <2>4, <2>5, OperationFacts DEF ConfigOperation
  <1>9. /\ B \in Seq(Operations) /\ Len(B) = Len(b) /\ Q \in Seq(Operations) /\ Len(Q) = Len(q)
        /\ \A i \in 1..Len(b) : B[i] = BackupOperation(d, U, req, b[i])
        /\ \A i \in 1..Len(q) : Q[i] = ConfigOperation(d, U, req, q[i])
    BY <1>4, <1>6, <1>8
  <1> HIDE DEF B, Q, x, state, b, q, ops
  <1>10. /\ ops \in Seq(Operations) /\ Len(ops) = Len(B) + 1 + Len(Q)
         /\ \A i \in 1..Len(B) : ops[i] = B[i]
         /\ ops[Len(B) + 1] = x
         /\ \A i \in 1..Len(Q) : ops[Len(B) + 1 + i] = Q[i]
    <2>1. B \in Seq(Operations) /\ x \in Operations /\ Q \in Seq(Operations)
      BY <1>7, <1>9
    <2> HIDE DEF L
    <2>2. IsJoined(Joined(B, x, Q), Operations, B, x, Q)
      BY <2>1, JoinFacts
    <2> QED
      BY <1>1, <2>2 DEF IsJoined
  <1> QED
    BY <1>5, <1>9, <1>10 DEF ops, b, q, state, x

\* Each operation of a use: a backup, the ledger, or a configuration.
UseBackupAt(d, U, req, ops, i) ==
  LET b == BackupOrder(d, req)
      l == b[i]
  IN /\ i \in 1..Len(b) /\ l \in Rewritten(d, req)
     /\ ops[i].dest = Backup(l[1], SequenceOf(LedgerOn(d), req, l))
     /\ ops[i].dest \in BackupNames
     /\ ops[i].staged = NewBackup(d, U, req, l) /\ ops[i].staged \in ConfigFiles
     /\ ops[i].prior = At(d, ops[i].dest)

UseLedgerAt(d, U, req, ops, i) ==
  /\ i = Len(BackupOrder(d, req)) + 1
  /\ ops[i].dest = State /\ ops[i].prior = At(d, State)
  /\ ops[i].staged \in AllFiles /\ ops[i].staged.bytes = LedgerAfterUse(d, U, req)

UseConfigAt(d, U, req, ops, i) ==
  LET b == BackupOrder(d, req)
      q == ConfigOrder(d, req)
      k == q[i - Len(b) - 1]
  IN /\ i - Len(b) - 1 \in 1..Len(q) /\ k \in Changed(d, req)
     /\ ops[i].dest = Config(req.clients[k]) /\ ops[i].dest \in ConfigNames
     /\ ops[i].staged = NewConfig(d, U, req, k) /\ ops[i].staged \in ConfigFiles
     /\ ops[i].prior = At(d, ops[i].dest)

LEMMA UseOperationsFacts ==
  ASSUME NEW d, NEW U, NEW req, UsePremise(d, U, req), Changed(d, req) # {}
  PROVE  LET ops == UseOperations(d, U, req) IN
         /\ ops \in Seq(Operations)
         /\ Len(ops) = Len(BackupOrder(d, req)) + 1 + Len(ConfigOrder(d, req))
         /\ \A i \in 1..Len(ops) :
              /\ ops[i].moved = FALSE /\ ops[i].published = FALSE
              /\ ops[i].staged.id = FreshInode(U, i)
              /\ \/ UseBackupAt(d, U, req, ops, i)
                 \/ UseLedgerAt(d, U, req, ops, i)
                 \/ UseConfigAt(d, U, req, ops, i)
         /\ \A i \in 1..Len(BackupOrder(d, req)) : UseBackupAt(d, U, req, ops, i)
         /\ UseLedgerAt(d, U, req, ops, Len(BackupOrder(d, req)) + 1)
         /\ \A j \in 1..Len(ConfigOrder(d, req)) :
              UseConfigAt(d, U, req, ops, Len(BackupOrder(d, req)) + 1 + j)
  <1> DEFINE ops == UseOperations(d, U, req)
             b == BackupOrder(d, req)
             q == ConfigOrder(d, req)
             L == LedgerOn(d)
             state == [id |-> FreshInode(U, Len(b) + 1), bytes |-> LedgerAfterUse(d, U, req)]
  <1>1. /\ ops \in Seq(Operations) /\ Len(ops) = Len(b) + 1 + Len(q)
        /\ \A i \in 1..Len(b) : ops[i] = BackupOperation(d, U, req, b[i])
        /\ ops[Len(b) + 1] = Operation(State, state, At(d, State))
        /\ \A i \in 1..Len(q) : ops[Len(b) + 1 + i] = ConfigOperation(d, U, req, q[i])
        /\ state \in AllFiles
    BY UseShape
  <1>2. /\ Len(b) \in Nat /\ Len(q) \in Nat /\ Len(b) = Cardinality(Rewritten(d, req))
        /\ \A i \in 1..Len(b) : b[i] \in Rewritten(d, req) /\ PlaceIn(b, b[i]) = i
        /\ \A i \in 1..Len(q) : q[i] \in Changed(d, req) /\ PlaceIn(q, q[i]) = i
    BY UseOrders
  <1>3. IsDisk(d) /\ req \in Requests /\ req.kind = "use" /\ L \in LedgerBytes /\ Readable(L)
    BY UseReads DEF UsePremise
  <1> HIDE DEF ops, b, q, state
  <1>4. ASSUME NEW i \in 1..Len(b)
        PROVE  /\ UseBackupAt(d, U, req, ops, i) /\ ops[i].staged.id = FreshInode(U, i)
               /\ ops[i].moved = FALSE /\ ops[i].published = FALSE
    <2> DEFINE l == b[i]
               k == PlaceIn(req.clients, l[1])
               s == SequenceOf(L, req, l)
    <2>1. l \in Rewritten(d, req) /\ ops[i] = BackupOperation(d, U, req, l) /\ PlaceIn(b, l) = i
      BY <1>1, <1>2
    <2>2. /\ k \in 1..Len(req.clients) /\ l \in Keys /\ req.clients[k] = l[1]
          /\ \/ l \notin DOMAIN L.entries /\ l = LayerOf(req, k)
             \/ l \in DOMAIN L.entries /\ l \in Newer(L, LayerOf(req, k))
      BY <2>1, RewrittenFacts
    <2>3. s \in Nat
      BY <1>3, <2>2, SequenceFacts, LedgerFacts
    <2> HIDE DEF l, k, s
    <2>4. Backup(l[1], s) \in BackupNames
      BY <2>2, <2>3, KeyFacts DEF BackupNames
    <2>5. /\ ops[i].dest = Backup(l[1], s) /\ ops[i].staged = NewBackup(d, U, req, l)
          /\ ops[i].prior = (IF l \in DOMAIN L.entries THEN L.entries[l].backup ELSE None)
          /\ ops[i].moved = FALSE /\ ops[i].published = FALSE
      BY <2>1 DEF BackupOperation, Operation, s
    <2>6. NewBackup(d, U, req, l) \in ConfigFiles /\ NewBackup(d, U, req, l).id = FreshInode(U, i)
      BY <2>1, UseFiles DEF b
    <2>7. CASE l \in DOMAIN L.entries
      <3>1. l \in Newer(L, LayerOf(req, k)) /\ LayerOf(req, k) \in DOMAIN L.entries
        BY <2>2, <2>7, NewerFacts
      <3>2. CanRewriteChain(d, L, LayerOf(req, k))
        BY <3>1, <2>2, UseReads
      <3>3. BackupIntact(d, L, l)
        BY <3>1, <3>2 DEF CanRewriteChain
      <3>4. s = L.entries[l].sequence
        BY <2>7, <1>3, SequenceFacts DEF s
      <3>5. L.entries[l].backup # None
        BY <1>3, <2>7, LedgerFacts, FileFacts
      <3>6. At(d, Backup(l[1], s)) = L.entries[l].backup
        BY <1>3, <3>3, <3>4, <3>5, AtFacts DEF BackupIntact
      <3>7. ops[i].prior = At(d, ops[i].dest)
        BY <2>5, <2>7, <3>6
      <3> QED
        BY <2>1, <2>4, <2>5, <2>6, <3>7 DEF UseBackupAt, l, b, s
    <2>8. CASE l \notin DOMAIN L.entries
      <3>1. l = LayerOf(req, k)
        BY <2>2, <2>8
      <3>2. Backup(l[1], s) \notin DOMAIN d
        BY <3>1, <2>2, <2>8, UseReads DEF s
      <3>3. ops[i].prior = At(d, ops[i].dest)
        BY <2>5, <2>8, <3>2 DEF At
      <3> QED
        BY <2>1, <2>4, <2>5, <2>6, <3>3 DEF UseBackupAt, l, b, s
    <2> QED
      BY <2>7, <2>8
  <1>5. LET i == Len(b) + 1 IN
        /\ UseLedgerAt(d, U, req, ops, i) /\ ops[i].staged.id = FreshInode(U, i)
        /\ ops[i].moved = FALSE /\ ops[i].published = FALSE
    <2>1. state.id = FreshInode(U, Len(b) + 1) /\ state.bytes = LedgerAfterUse(d, U, req)
      BY DEF state
    <2>2. /\ ops[Len(b) + 1].dest = State /\ ops[Len(b) + 1].staged = state
          /\ ops[Len(b) + 1].prior = At(d, State)
          /\ ops[Len(b) + 1].moved = FALSE /\ ops[Len(b) + 1].published = FALSE
      BY <1>1 DEF Operation
    <2> QED
      BY <1>1, <2>1, <2>2 DEF UseLedgerAt, b
  <1>6. ASSUME NEW j \in 1..Len(q)
        PROVE  LET i == Len(b) + 1 + j IN
               /\ UseConfigAt(d, U, req, ops, i) /\ ops[i].staged.id = FreshInode(U, i)
               /\ ops[i].moved = FALSE /\ ops[i].published = FALSE
    <2> DEFINE i == Len(b) + 1 + j
               k == q[j]
    <2>1. k \in Changed(d, req) /\ PlaceIn(q, k) = j /\ i - Len(b) - 1 = j
      BY <1>2
    <2>2. k \in 1..Len(req.clients)
      BY <2>1, RewrittenFacts
    <2>3. req.clients[k] \in Clients /\ Config(req.clients[k]) \in DOMAIN d
      BY <1>3, <2>2, AskedFacts, UseReads
    <2>4. Config(req.clients[k]) \in ConfigNames
      BY <2>3 DEF ConfigNames
    <2>5. ops[i] = ConfigOperation(d, U, req, k)
      BY <1>1
    <2>6. /\ ops[i].dest = Config(req.clients[k]) /\ ops[i].staged = NewConfig(d, U, req, k)
          /\ ops[i].prior = d[Config(req.clients[k])]
          /\ ops[i].moved = FALSE /\ ops[i].published = FALSE
      BY <2>5 DEF ConfigOperation, Operation
    <2>7. NewConfig(d, U, req, k) \in ConfigFiles
          /\ NewConfig(d, U, req, k).id = FreshInode(U, Cardinality(Rewritten(d, req)) + 1 + PlaceIn(q, k))
      BY <2>1, UseFiles DEF q
    <2>8. NewConfig(d, U, req, k).id = FreshInode(U, i)
      BY <2>1, <2>7, <1>2
    <2>9. ops[i].prior = At(d, ops[i].dest)
      BY <2>3, <2>6 DEF At
    <2>10. UseConfigAt(d, U, req, ops, i)
      BY <2>1, <2>4, <2>6, <2>7, <2>9 DEF UseConfigAt, b, q
    <2> QED
      BY <2>6, <2>8, <2>10
  <1>7. ASSUME NEW i \in 1..Len(ops)
        PROVE  i \in 1..Len(b) \/ i = Len(b) + 1 \/ \E j \in 1..Len(q) : i = Len(b) + 1 + j
    <2> DEFINE m == Len(b)
               n == Len(q)
    <2>1. m \in Nat /\ n \in Nat /\ i \in 1..(m + 1 + n)
      BY <1>1, <1>2
    <2> HIDE DEF m, n
    <2>2. i \in 1..m \/ i = m + 1 \/ (i - m - 1 \in 1..n /\ i = m + 1 + (i - m - 1))
      BY <2>1
    <2> QED
      BY <2>2 DEF m, n
  <1>8. \A i \in 1..Len(ops) :
          /\ ops[i].moved = FALSE /\ ops[i].published = FALSE
          /\ ops[i].staged.id = FreshInode(U, i)
          /\ \/ UseBackupAt(d, U, req, ops, i)
             \/ UseLedgerAt(d, U, req, ops, i)
             \/ UseConfigAt(d, U, req, ops, i)
    <2> SUFFICES ASSUME NEW i \in 1..Len(ops)
                 PROVE  /\ ops[i].moved = FALSE /\ ops[i].published = FALSE
                        /\ ops[i].staged.id = FreshInode(U, i)
                        /\ \/ UseBackupAt(d, U, req, ops, i)
                           \/ UseLedgerAt(d, U, req, ops, i)
                           \/ UseConfigAt(d, U, req, ops, i)
      OBVIOUS
    <2>1. CASE i \in 1..Len(b)
      BY <2>1, <1>4
    <2>2. CASE i = Len(b) + 1
      BY <2>2, <1>5
    <2>3. CASE \E j \in 1..Len(q) : i = Len(b) + 1 + j
      BY <2>3, <1>6
    <2> QED
      BY <1>7, <2>1, <2>2, <2>3
  <1> QED
    BY <1>1, <1>4, <1>5, <1>6, <1>8 DEF ops, b, q

LEMMA UseIsTyped ==
  ASSUME NEW d, NEW U, NEW req, UsePremise(d, U, req), Changed(d, req) # {}
  PROVE  PlanTyped(UseOperations(d, U, req)) /\ PlanFresh(U, UseOperations(d, U, req))
  <1> DEFINE ops == UseOperations(d, U, req)
  <1>1. IsFiniteSet(U)
    BY DEF UsePremise
  <1>2. ops \in Seq(Operations)
    BY UseOperationsFacts
  <1>3. ASSUME NEW i \in 1..Len(ops)
        PROVE  /\ ops[i].moved = FALSE /\ ops[i].published = FALSE
               /\ ops[i].staged.id = FreshInode(U, i)
               /\ IF ops[i].dest = State THEN ops[i].staged.bytes \in LedgerBytes
                                         ELSE ops[i].staged \in ConfigFiles
    <2>1. /\ ops[i].moved = FALSE /\ ops[i].published = FALSE
          /\ ops[i].staged.id = FreshInode(U, i)
          /\ \/ UseBackupAt(d, U, req, ops, i)
             \/ UseLedgerAt(d, U, req, ops, i)
             \/ UseConfigAt(d, U, req, ops, i)
      BY UseOperationsFacts
    <2>2. CASE UseBackupAt(d, U, req, ops, i)
      <3>1. ops[i].dest # State
        BY <2>2, NameFacts DEF UseBackupAt
      <3> QED
        BY <2>1, <2>2, <3>1 DEF UseBackupAt
    <2>3. CASE UseLedgerAt(d, U, req, ops, i)
      BY <2>1, <2>3, UseLedger DEF UseLedgerAt
    <2>4. CASE UseConfigAt(d, U, req, ops, i)
      <3>1. ops[i].dest # State
        BY <2>4, NameFacts DEF UseConfigAt
      <3> QED
        BY <2>1, <2>4, <3>1 DEF UseConfigAt
    <2> QED
      BY <2>1, <2>2, <2>3, <2>4
  <1>4. PlanTyped(ops)
    BY <1>2, <1>3 DEF PlanTyped
  <1>5. \A i \in 1..Len(ops) : i \in Nat \ {0}
    BY <1>2
  <1>6. \A i \in 1..Len(ops) : FreshInode(U, i) \notin U
    BY <1>1, <1>5, FreshInodeFacts
  <1>7. \A i, j \in 1..Len(ops) : FreshInode(U, i) = FreshInode(U, j) => i = j
    BY <1>1, <1>5, FreshInodesDiffer
  <1>8. PlanFresh(U, ops)
    <2> HIDE DEF ops
    <2>1. \A i \in 1..Len(ops) : ops[i].staged.id = FreshInode(U, i)
      BY <1>3
    <2>2. \A i \in 1..Len(ops) : ops[i].staged.id \notin U
      BY <2>1, <1>6
    <2>3. \A i, j \in 1..Len(ops) : ops[i].staged.id = ops[j].staged.id => i = j
      BY <2>1, <1>7
    <2> QED
      BY <2>2, <2>3 DEF PlanFresh
  <1> QED
    BY <1>4, <1>8

\* No two operations of a use write the same name.
LEMMA UseWritesOnce ==
  ASSUME NEW d, NEW U, NEW req, UsePremise(d, U, req), Changed(d, req) # {},
         NEW i \in 1..Len(UseOperations(d, U, req)), NEW j \in 1..Len(UseOperations(d, U, req)),
         UseOperations(d, U, req)[i].dest = UseOperations(d, U, req)[j].dest
  PROVE  i = j
  <1> DEFINE ops == UseOperations(d, U, req)
             b == BackupOrder(d, req)
             q == ConfigOrder(d, req)
             L == LedgerOn(d)
  <1>1. /\ \/ UseBackupAt(d, U, req, ops, i)
           \/ UseLedgerAt(d, U, req, ops, i)
           \/ UseConfigAt(d, U, req, ops, i)
        /\ \/ UseBackupAt(d, U, req, ops, j)
           \/ UseLedgerAt(d, U, req, ops, j)
           \/ UseConfigAt(d, U, req, ops, j)
        /\ ops \in Seq(Operations)
    BY UseOperationsFacts
  <1>2. L \in LedgerBytes /\ Readable(L) /\ req \in Requests /\ req.kind = "use"
    BY UseReads DEF UsePremise
  <1>3. i \in Nat /\ j \in Nat /\ Len(b) \in Nat /\ Len(q) \in Nat
    BY <1>1, UseOrders
  <1>4. ops[i].dest = ops[j].dest
    OBVIOUS
  <1> HIDE DEF ops
  <1>5. CASE UseBackupAt(d, U, req, ops, i) /\ UseBackupAt(d, U, req, ops, j)
    <2> DEFINE k == b[i]
               l == b[j]
    <2>1. /\ k \in Rewritten(d, req) /\ l \in Rewritten(d, req)
          /\ ops[i].dest = Backup(k[1], SequenceOf(L, req, k))
          /\ ops[j].dest = Backup(l[1], SequenceOf(L, req, l))
          /\ i \in 1..Len(b) /\ j \in 1..Len(b)
      BY <1>5 DEF UseBackupAt
    <2>2. k[1] = l[1] /\ SequenceOf(L, req, k) = SequenceOf(L, req, l)
      <3>1. Backup(k[1], SequenceOf(L, req, k)) = Backup(l[1], SequenceOf(L, req, l))
        BY <1>4, <2>1
      <3> QED
        BY <3>1, BackupsDiffer
    <2>3. k = l
      <3> DEFINE p == PlaceIn(req.clients, k[1])
      <3>1. /\ \/ k \notin DOMAIN L.entries /\ k = LayerOf(req, p)
               \/ k \in DOMAIN L.entries /\ k \in Newer(L, LayerOf(req, p))
            /\ \/ l \notin DOMAIN L.entries /\ l = LayerOf(req, p)
               \/ l \in DOMAIN L.entries /\ l \in Newer(L, LayerOf(req, p))
        BY <2>1, <2>2, RewrittenFacts
      <3>2. /\ k \in Newer(L, LayerOf(req, p)) => LayerOf(req, p) \in DOMAIN L.entries
            /\ l \in Newer(L, LayerOf(req, p)) => LayerOf(req, p) \in DOMAIN L.entries
        BY NewerFacts
      <3>3. CASE k \in DOMAIN L.entries /\ l \in DOMAIN L.entries
        BY <3>3, <1>2, <2>2, SequenceFacts, LedgerFacts
      <3> QED
        BY <3>1, <3>2, <3>3
    <2>4. i = PlaceIn(b, k) /\ j = PlaceIn(b, l)
      BY <2>1, UseOrders
    <2> QED
      BY <2>3, <2>4
  <1>6. CASE UseConfigAt(d, U, req, ops, i) /\ UseConfigAt(d, U, req, ops, j)
    <2> DEFINE m == i - Len(b) - 1
               n == j - Len(b) - 1
    <2>1. /\ m \in 1..Len(q) /\ n \in 1..Len(q)
          /\ q[m] \in Changed(d, req) /\ q[n] \in Changed(d, req)
          /\ ops[i].dest = Config(req.clients[q[m]]) /\ ops[j].dest = Config(req.clients[q[n]])
      BY <1>6 DEF UseConfigAt
    <2>2. req.clients[q[m]] = req.clients[q[n]]
      <3>1. Config(req.clients[q[m]]) = Config(req.clients[q[n]])
        BY <1>4, <2>1
      <3> QED
        BY <3>1, NameFacts
    <2>3. q[m] \in 1..Len(req.clients) /\ q[n] \in 1..Len(req.clients)
      BY <2>1, RewrittenFacts
    <2>4. q[m] = q[n]
      BY <1>2, <2>2, <2>3, RequestFacts DEF IsSelection
    <2>5. m = PlaceIn(q, q[m]) /\ n = PlaceIn(q, q[n])
      <3> HIDE DEF m, n
      <3> QED
        BY <2>1, UseOrders
    <2>6. m = n
      BY <2>4, <2>5
    <2> QED
      BY <1>3, <2>6
  <1>7. CASE UseLedgerAt(d, U, req, ops, i) /\ UseLedgerAt(d, U, req, ops, j)
    BY <1>7 DEF UseLedgerAt
  <1>8. /\ UseBackupAt(d, U, req, ops, i) => \E c, n : ops[i].dest = Backup(c, n)
        /\ UseBackupAt(d, U, req, ops, j) => \E c, n : ops[j].dest = Backup(c, n)
        /\ UseConfigAt(d, U, req, ops, i) => \E c : ops[i].dest = Config(c)
        /\ UseConfigAt(d, U, req, ops, j) => \E c : ops[j].dest = Config(c)
        /\ UseLedgerAt(d, U, req, ops, i) => ops[i].dest = State
        /\ UseLedgerAt(d, U, req, ops, j) => ops[j].dest = State
    BY DEF UseBackupAt, UseConfigAt, UseLedgerAt
  <1>9. \A c, e, n : Config(c) # Backup(e, n) /\ Config(c) # State /\ Backup(e, n) # State
    BY NameFacts
  <1> QED
    BY <1>1, <1>4, <1>5, <1>6, <1>7, <1>8, <1>9

LEMMA UseIsPlan ==
  ASSUME NEW d, NEW U, NEW req, UsePremise(d, U, req), Changed(d, req) # {}
  PROVE  IsPlan(d, U, UseOperations(d, U, req))
  <1> DEFINE ops == UseOperations(d, U, req)
             b == BackupOrder(d, req)
             L == LedgerOn(d)
             A == LedgerAfterUse(d, U, req)
  <1>1. ops \in Seq(Operations)
        /\ \A i \in 1..Len(ops) :
             /\ \/ UseBackupAt(d, U, req, ops, i)
                \/ UseLedgerAt(d, U, req, ops, i)
                \/ UseConfigAt(d, U, req, ops, i)
             /\ ops[i].staged \in AllFiles
             /\ ops[i].prior = At(d, ops[i].dest)
    <2>1. /\ ops \in Seq(Operations)
          /\ \A i \in 1..Len(ops) : \/ UseBackupAt(d, U, req, ops, i)
                                    \/ UseLedgerAt(d, U, req, ops, i)
                                    \/ UseConfigAt(d, U, req, ops, i)
      BY UseOperationsFacts
    <2> HIDE DEF ops
    <2> SUFFICES ASSUME NEW i \in 1..Len(ops)
                 PROVE  ops[i].staged \in AllFiles /\ ops[i].prior = At(d, ops[i].dest)
      BY <2>1
    <2> QED
      BY <2>1, FileFacts DEF UseBackupAt, UseLedgerAt, UseConfigAt
  <1>2. /\ \A i \in 1..Len(b) : UseBackupAt(d, U, req, ops, i)
        /\ Len(ops) = Len(b) + 1 + Len(ConfigOrder(d, req))
        /\ UseLedgerAt(d, U, req, ops, Len(b) + 1)
        /\ Len(b) \in Nat /\ Len(ConfigOrder(d, req)) \in Nat
    <2>1. /\ \A i \in 1..Len(b) : UseBackupAt(d, U, req, ops, i)
          /\ Len(ops) = Len(b) + 1 + Len(ConfigOrder(d, req))
          /\ UseLedgerAt(d, U, req, ops, Len(b) + 1)
      BY UseOperationsFacts
    <2>2. Len(b) \in Nat /\ Len(ConfigOrder(d, req)) \in Nat
      BY UseOrders
    <2> QED
      BY <2>1, <2>2
  <1>3. \A i, j \in 1..Len(ops) : ops[i].dest = ops[j].dest => i = j
    BY UseWritesOnce
  <1>4. L \in LedgerBytes /\ Readable(L)
    BY UseReads
  <1> HIDE DEF ops
  <1>5. PlanPriors(d, ops)
    <2>1. \A i \in 1..Len(ops) : ops[i].staged # None
      BY <1>1, FileFacts
    <2>2. \A i \in 1..Len(ops) : \A j \in 1..(i - 1) : j \in 1..Len(ops) /\ i # j
      BY <1>1
    <2>3. \A i \in 1..Len(ops) : \A j \in 1..(i - 1) : ops[j].dest # ops[i].dest
      BY <1>3, <2>2
    <2> QED
      BY <1>1, <2>1, <2>3 DEF PlanPriors
  <1>6. PlanPlaces(ops)
    <2>1. Len(b) + 1 \in 1..Len(ops) /\ ops[Len(b) + 1].dest = State
      BY <1>2 DEF UseLedgerAt
    <2> QED
      BY <1>3, <2>1 DEF PlanPlaces
  <1>7. PlanLedger(d, ops)
    <2> SUFFICES ASSUME NEW s \in 1..Len(ops), ops[s].dest = State, ops[s].staged # None,
                        NEW l \in DOMAIN ops[s].staged.bytes.entries
                 PROVE  LET B == ops[s].staged.bytes IN
                        \/ \E j \in 1..(s - 1) : /\ ops[j].staged = B.entries[l].backup
                                                 /\ ops[j].dest = OwnName(B, l)
                        \/ /\ l \in DOMAIN L.entries
                           /\ B.entries[l].backup = L.entries[l].backup
                           /\ B.entries[l].sequence = L.entries[l].sequence
                           /\ \A j \in 1..Len(ops) : ops[j].dest # OwnName(B, l)
      BY DEF PlanLedger
    <2>1. s = Len(b) + 1
      <3>1. Len(b) + 1 \in 1..Len(ops) /\ ops[Len(b) + 1].dest = State
        BY <1>2 DEF UseLedgerAt
      <3> QED
        BY <1>3, <3>1
    <2>2. ops[s].staged.bytes = A
      BY <1>2, <2>1 DEF UseLedgerAt
    <2>3. /\ l \in DOMAIN A.entries
          /\ A.entries[l].sequence = SequenceOf(L, req, l)
          /\ A.entries[l].backup = IF l \in Rewritten(d, req) THEN NewBackup(d, U, req, l)
                                   ELSE L.entries[l].backup
          /\ l \in DOMAIN L.entries \/ l \in {LayerOf(req, k) : k \in Changed(d, req)}
      BY <2>2, UseLedger
    <2> HIDE DEF A
    <2>4. CASE l \in Rewritten(d, req)
      <3> DEFINE j == PlaceIn(b, l)
      <3>1. j \in 1..Len(b) /\ b[j] = l
        BY <2>4, UseOrders
      <3>2. UseBackupAt(d, U, req, ops, j)
        BY <1>2, <3>1
      <3>3. ops[j].dest = OwnName(A, l) /\ ops[j].staged = A.entries[l].backup
        BY <2>3, <2>4, <3>1, <3>2 DEF UseBackupAt, OwnName
      <3>4. j \in 1..(s - 1)
        BY <1>2, <2>1, <3>1
      <3> QED
        BY <2>2, <3>3, <3>4
    <2>5. CASE l \notin Rewritten(d, req)
      <3>1. l \in DOMAIN L.entries
        BY <2>3, <2>5, RewrittenFacts
      <3>2. A.entries[l].sequence = L.entries[l].sequence
        BY <1>4, <2>3, <3>1, SequenceFacts DEF UsePremise
      <3>3. ASSUME NEW j \in 1..Len(ops), ops[j].dest = OwnName(A, l) PROVE FALSE
        <4>1. CASE UseBackupAt(d, U, req, ops, j)
          <5> DEFINE m == b[j]
                     p == PlaceIn(req.clients, m[1])
          <5>1. m \in Rewritten(d, req) /\ ops[j].dest = Backup(m[1], SequenceOf(L, req, m))
            BY <4>1 DEF UseBackupAt
          <5>2. m[1] = l[1] /\ SequenceOf(L, req, m) = L.entries[l].sequence
            <6>1. Backup(m[1], SequenceOf(L, req, m)) = Backup(l[1], L.entries[l].sequence)
              BY <3>2, <3>3, <5>1 DEF OwnName
            <6> QED
              BY <6>1, BackupsDiffer
          <5>3. p \in 1..Len(req.clients)
            BY <5>1, RewrittenFacts
          <5>4. m \in DOMAIN L.entries
            <6> HIDE DEF m
            <6>1. SequenceOf(L, req, m) < L.next /\ L.next \in Nat /\ SequenceOf(L, req, m) \in Nat
              BY <1>4, <3>1, <5>2, LedgerFacts
            <6>2. m \notin DOMAIN L.entries => SequenceOf(L, req, m) >= L.next
              BY <1>4, <5>3, SequenceFacts DEF UsePremise
            <6> QED
              BY <6>1, <6>2
          <5>5. m = l
            BY <1>4, <3>1, <5>2, <5>4, SequenceFacts, LedgerFacts DEF UsePremise
          <5> QED
            BY <2>5, <5>1, <5>5
        <4>2. CASE UseLedgerAt(d, U, req, ops, j)
          BY <3>3, <4>2, HomesDiffer DEF UseLedgerAt, OwnName
        <4>3. CASE UseConfigAt(d, U, req, ops, j)
          BY <3>3, <4>3, HomesDiffer DEF UseConfigAt, OwnName
        <4> QED
          BY <1>1, <4>1, <4>2, <4>3
      <3> QED
        BY <2>2, <2>3, <2>5, <3>1, <3>2, <3>3
    <2> QED
      BY <2>4, <2>5
  <1>8. PlanTyped(ops) /\ PlanFresh(U, ops)
    BY UseIsTyped DEF ops
  <1> QED
    BY <1>4, <1>5, <1>6, <1>7, <1>8 DEF IsPlan, ops

-----------------------------------------------------------------------------
(* The plan of a revert.                                                   *)

RevertPremise(d, U, req) ==
  /\ IsDisk(d) /\ IsFiniteSet(U)
  /\ req \in Requests /\ req.kind = "revert" /\ CanRevert(d, LedgerOn(d), req)

LEMMA SelectedFacts ==
  ASSUME NEW d, NEW U, NEW req, RevertPremise(d, U, req)
  PROVE  LET L == LedgerOn(d)
             s == Selected(L, req)
         IN /\ L \in LedgerBytes /\ Readable(L) /\ State \in DOMAIN d
            /\ Enumerates(s, Selection(L, req))
            /\ \A i \in 1..Len(s) :
                 /\ s[i] \in DOMAIN L.entries /\ s[i] \in Keys
                 /\ Config(s[i][1]) \in DOMAIN d
                 /\ BackupIntact(d, L, s[i])
                 /\ IF Above(s, i) = {}
                    THEN d[Config(s[i][1])] = L.entries[s[i]].expected
                    ELSE L.entries[s[LastOf(Above(s, i))]].backup.bytes
                           = L.entries[s[i]].expected.bytes
            /\ \A i, j \in 1..Len(s) : i < j => L.entries[s[j]].sequence < L.entries[s[i]].sequence
  <1> DEFINE L == LedgerOn(d)
             s == Selected(L, req)
             S == Selection(L, req)
             key == [l \in S |-> -L.entries[l].sequence]
  <1>1. IsDisk(d) /\ CanRevert(d, L, req)
    BY DEF RevertPremise
  <1>2. L \in LedgerBytes /\ Readable(L) /\ State \in DOMAIN d
    BY <1>1, LedgerOnFacts DEF CanRevert
  <1>3. S \subseteq DOMAIN L.entries /\ DOMAIN L.entries \subseteq Keys
    BY <1>2, LedgerFacts DEF Selection
  <1>4. IsFiniteSet(S)
    <2>1. S \subseteq Keys
      BY <1>3
    <2> QED
      BY <2>1, KeysFinite
  <1>5. \A l \in S : L.entries[l].sequence \in Nat
    BY <1>2, <1>3, LedgerFacts
  <1>6. key \in [S -> Int]
    BY <1>5
  <1>7. s = SortedBy(S, key)
    BY DEF Selected
  <1> HIDE DEF s, key, S
  <1>8. Enumerates(s, S) /\ \A i, j \in 1..Len(s) : i < j => key[s[i]] <= key[s[j]]
    BY <1>4, <1>6, <1>7, OrderFacts, Zenon
  <1>9. \A i \in 1..Len(s) : s[i] \in S /\ s[i] \in DOMAIN L.entries /\ s[i] \in Keys
    BY <1>3, <1>8 DEF Enumerates
  <1>10. \A i \in 1..Len(s) :
                 /\ Config(s[i][1]) \in DOMAIN d
                 /\ BackupIntact(d, L, s[i])
                 /\ IF Above(s, i) = {}
                    THEN d[Config(s[i][1])] = L.entries[s[i]].expected
                    ELSE L.entries[s[LastOf(Above(s, i))]].backup.bytes
                           = L.entries[s[i]].expected.bytes
    BY <1>1 DEF CanRevert, s
  <1>11. ASSUME NEW i \in 1..Len(s), NEW j \in 1..Len(s), i < j
         PROVE  L.entries[s[j]].sequence < L.entries[s[i]].sequence
    <2>1. key[s[i]] <= key[s[j]] /\ s[i] \in S /\ s[j] \in S
      BY <1>8, <1>9, <1>11
    <2>2. key[s[i]] = -L.entries[s[i]].sequence /\ key[s[j]] = -L.entries[s[j]].sequence
      BY <2>1 DEF key
    <2>3. s[i] # s[j]
      BY <1>8, <1>11 DEF Enumerates
    <2>4. L.entries[s[i]].sequence # L.entries[s[j]].sequence
      BY <1>2, <1>9, <2>3, LedgerFacts
    <2>5. L.entries[s[i]].sequence \in Nat /\ L.entries[s[j]].sequence \in Nat
      BY <1>5, <2>1
    <2> QED
      BY <2>1, <2>2, <2>4, <2>5
  <1> QED
    BY <1>2, <1>8, <1>9, <1>10, <1>11 DEF s, S

\* The layer reverted right before another one of the same client.
LEMMA AboveFacts ==
  ASSUME NEW s, NEW i \in Nat, Above(s, i) # {}
  PROVE  /\ LastOf(Above(s, i)) \in 1..(i - 1) /\ s[LastOf(Above(s, i))][1] = s[i][1]
         /\ \A j \in 1..(i - 1) : s[j][1] = s[i][1] => j <= LastOf(Above(s, i))
  <1> DEFINE D == Above(s, i)
  <1>1. D \in SUBSET Nat /\ D # {} /\ \A j \in D : j <= i
    BY DEF Above
  <1>2. LastOf(D) \in D /\ \A j \in D : j <= LastOf(D)
    BY <1>1, FiniteSetHasMaximum, Zenon
  <1> QED
    BY <1>2 DEF Above

LEMMA RestoredFacts ==
  ASSUME NEW d, NEW U, NEW req, RevertPremise(d, U, req),
         NEW i \in 1..Len(Selected(LedgerOn(d), req))
  PROVE  /\ Restored(d, U, req, i) \in ConfigFiles
         /\ Restored(d, U, req, i).id = FreshInode(U, i)
         /\ Restored(d, U, req, i).bytes
              = LedgerOn(d).entries[Selected(LedgerOn(d), req)[i]].backup.bytes
  <1> DEFINE L == LedgerOn(d)
             l == Selected(L, req)[i]
  <1>1. L \in LedgerBytes /\ Readable(L) /\ l \in DOMAIN L.entries
    BY SelectedFacts
  <1>2. L.entries[l].backup \in ConfigFiles
    BY <1>1, LedgerFacts
  <1>3. i \in Nat \ {0}
    BY SelectedFacts DEF Enumerates
  <1>4. FreshInode(U, i) \in Nat \ {0}
    BY <1>3, FreshInodeFacts DEF RevertPremise
  <1>5. Restored(d, U, req, i) = [id |-> FreshInode(U, i), bytes |-> L.entries[l].backup.bytes]
    BY DEF Restored
  <1> HIDE DEF l, L
  <1> QED
    BY <1>2, <1>4, <1>5 DEF ConfigFiles, l, L

\* The ledger after a revert has the other layers, with their backups.
LEMMA RevertLedger ==
  ASSUME NEW d, NEW U, NEW req, RevertPremise(d, U, req)
  PROVE  LET L == LedgerOn(d)
             A == LedgerAfterRevert(d, U, req)
         IN /\ A \in LedgerBytes /\ A.next = L.next
            /\ DOMAIN A.entries = DOMAIN L.entries \ Selection(L, req)
            /\ \A k \in DOMAIN A.entries :
                 /\ A.entries[k].sequence = L.entries[k].sequence
                 /\ A.entries[k].backup = L.entries[k].backup
  <1> DEFINE L == LedgerOn(d)
             A == LedgerAfterRevert(d, U, req)
             s == Selected(L, req)
             left0 == DOMAIN L.entries \ ToSet(s)
             below(l) == {k \in left0 : l \in Newer(L, k)}
             heirs(k) == {i \in 1..Len(s) : k \in below(s[i]) /\ Newest(L, below(s[i])) = k}
             e == [k \in left0 |->
                     IF heirs(k) = {} THEN L.entries[k]
                     ELSE [L.entries[k] EXCEPT !.expected = Restored(d, U, req, LastOf(heirs(k)))]]
  <1>1. A = [next |-> L.next, entries |-> e]
    BY DEF LedgerAfterRevert
  <1>2. L \in LedgerBytes /\ Readable(L) /\ Enumerates(s, Selection(L, req))
    BY SelectedFacts
  <1>3. ToSet(s) = Selection(L, req)
    BY <1>2 DEF Enumerates, ToSet
  <1>4. \A k \in left0 : L.entries[k] \in LayerEntries
    BY <1>2, LedgerFacts
  <1>5. ASSUME NEW k \in left0, heirs(k) # {}
        PROVE  Restored(d, U, req, LastOf(heirs(k))) \in ConfigFiles
    <2>1. Len(s) \in Nat
      BY <1>2 DEF Enumerates
    <2>2. heirs(k) \in SUBSET Nat /\ \A i \in heirs(k) : i <= Len(s)
      BY <2>1
    <2> HIDE DEF heirs
    <2>3. LastOf(heirs(k)) \in heirs(k)
      BY <1>5, <2>1, <2>2, FiniteSetHasMaximum, Zenon
    <2>4. LastOf(heirs(k)) \in 1..Len(s)
      BY <2>3 DEF heirs
    <2> QED
      BY <2>4, RestoredFacts
  <1> HIDE DEF heirs
  <1>6. \A k \in left0 : /\ e[k] \in LayerEntries
                         /\ e[k].sequence = L.entries[k].sequence
                         /\ e[k].backup = L.entries[k].backup
    <2> SUFFICES ASSUME NEW k \in left0
                 PROVE  /\ e[k] \in LayerEntries
                        /\ e[k].sequence = L.entries[k].sequence
                        /\ e[k].backup = L.entries[k].backup
      OBVIOUS
    <2>1. CASE heirs(k) = {}
      BY <2>1, <1>4
    <2>2. CASE heirs(k) # {}
      <3> DEFINE r == Restored(d, U, req, LastOf(heirs(k)))
      <3>1. r \in ConfigFiles
        BY <2>2, <1>5
      <3>2. e[k] = [L.entries[k] EXCEPT !.expected = r]
        BY <2>2
      <3> HIDE DEF e, r
      <3> QED
        BY <1>4, <3>1, <3>2 DEF LayerEntries
    <2> QED
      BY <2>1, <2>2
  <1>7. DOMAIN e = left0 /\ left0 \subseteq Keys
    BY <1>2, LedgerFacts
  <1>8. e \in [left0 -> LayerEntries]
    BY <1>6
  <1>9. e \in Recordings
    BY <1>7, <1>8 DEF Recordings
  <1>10. L.next \in Nat
    BY <1>2, LedgerFacts
  <1>11. A.next = L.next /\ A.entries = e
    BY <1>1
  <1> HIDE DEF e
  <1>12. A \in LedgerBytes
    BY <1>1, <1>9, <1>10 DEF LedgerBytes
  <1>13. left0 = DOMAIN L.entries \ Selection(L, req)
    BY <1>3
  <1> HIDE DEF A, left0
  <1> QED
    BY <1>6, <1>7, <1>11, <1>12, <1>13 DEF A

-----------------------------------------------------------------------------
(* Each operation of a revert: a configuration, the ledger, or a backup.   *)

RevertConfigAt(d, U, req, ops, i) ==
  LET s == Selected(LedgerOn(d), req) IN
  /\ i \in 1..Len(s)
  /\ ops[i].dest = Config(s[i][1]) /\ ops[i].dest \in ConfigNames
  /\ ops[i].staged = Restored(d, U, req, i) /\ ops[i].staged \in ConfigFiles
  /\ ops[i].staged.id = FreshInode(U, i)
  /\ ops[i].prior = IF Above(s, i) = {} THEN At(d, ops[i].dest)
                    ELSE Restored(d, U, req, LastOf(Above(s, i)))

RevertLedgerAt(d, U, req, ops, i) ==
  /\ i = Len(Selected(LedgerOn(d), req)) + 1
  /\ ops[i].dest = State /\ ops[i].prior = At(d, State) /\ ops[i].prior # None
  /\ IF DOMAIN LedgerAfterRevert(d, U, req).entries = {}
     THEN ops[i].staged = None
     ELSE /\ ops[i].staged.bytes = LedgerAfterRevert(d, U, req)
          /\ ops[i].staged.id = FreshInode(U, i)

RevertBackupAt(d, U, req, ops, i) ==
  LET s == Selected(LedgerOn(d), req)
      l == s[i - Len(s) - 1]
  IN /\ i - Len(s) - 1 \in 1..Len(s)
     /\ ops[i].dest = OwnName(LedgerOn(d), l) /\ ops[i].dest \in BackupNames
     /\ ops[i].staged = None
     /\ ops[i].prior = LedgerOn(d).entries[l].backup
     /\ ops[i].prior = At(d, ops[i].dest) /\ ops[i].prior # None

LEMMA RevertOperationsFacts ==
  ASSUME NEW d, NEW U, NEW req, RevertPremise(d, U, req), Selected(LedgerOn(d), req) # <<>>
  PROVE  LET ops == RevertOperations(d, U, req)
             m == Len(Selected(LedgerOn(d), req))
         IN
         /\ ops \in Seq(Operations) /\ Len(ops) = m + 1 + m
         /\ \A i \in 1..Len(ops) :
              /\ ops[i].moved = FALSE /\ ops[i].published = FALSE
              /\ \/ RevertConfigAt(d, U, req, ops, i)
                 \/ RevertLedgerAt(d, U, req, ops, i)
                 \/ RevertBackupAt(d, U, req, ops, i)
         /\ \A i \in 1..m : RevertConfigAt(d, U, req, ops, i)
         /\ RevertLedgerAt(d, U, req, ops, m + 1)
         /\ \A j \in 1..m : RevertBackupAt(d, U, req, ops, m + 1 + j)
  <1> DEFINE ops == RevertOperations(d, U, req)
             L == LedgerOn(d)
             s == Selected(L, req)
             m == Len(s)
             A == LedgerAfterRevert(d, U, req)
             state == IF DOMAIN A.entries = {} THEN None
                      ELSE [id |-> FreshInode(U, m + 1), bytes |-> A]
             x == Operation(State, state, d[State])
             C == [i \in 1..m |-> RestoreOperation(d, U, req, i)]
             R == [i \in 1..m |-> RemoveOperation(d, s[i])]
  <1>1. ops = Joined(C, x, R)
    BY DEF RevertOperations, Joined
  <1>2. /\ L \in LedgerBytes /\ Readable(L) /\ State \in DOMAIN d /\ m \in Nat
        /\ \A i \in 1..m : /\ s[i] \in DOMAIN L.entries /\ s[i] \in Keys
                           /\ Config(s[i][1]) \in DOMAIN d
                           /\ BackupIntact(d, L, s[i])
    <2>1. m \in Nat
      BY SelectedFacts DEF Enumerates
    <2> QED
      BY <2>1, SelectedFacts
  <1>3. IsDisk(d) /\ IsFiniteSet(U)
    BY DEF RevertPremise
  <1>4. state \in AllFiles \cup {None}
    <2>1. A \in AllBytes
      BY RevertLedger DEF AllBytes
    <2>2. FreshInode(U, m + 1) \in Nat \ {0}
      BY <1>2, <1>3, FreshInodeFacts
    <2> QED
      BY <2>1, <2>2 DEF AllFiles
  <1>5. d[State] \in AllFiles /\ d[State] = At(d, State) /\ d[State] # None
    BY <1>2, <1>3, AtFacts, FileFacts
  <1>6. x \in Operations
    BY <1>4, <1>5, NameFacts, OperationFacts
  <1> HIDE DEF s, m, L, A
  <1>7. ASSUME NEW i \in 1..m
        PROVE  /\ C[i] \in Operations /\ C[i].moved = FALSE /\ C[i].published = FALSE
               /\ C[i].dest = Config(s[i][1]) /\ C[i].dest \in ConfigNames
               /\ C[i].staged = Restored(d, U, req, i) /\ C[i].staged \in ConfigFiles
               /\ C[i].staged.id = FreshInode(U, i)
               /\ C[i].prior = IF Above(s, i) = {} THEN At(d, C[i].dest)
                               ELSE Restored(d, U, req, LastOf(Above(s, i)))
    <2>1. Restored(d, U, req, i) \in ConfigFiles /\ Restored(d, U, req, i).id = FreshInode(U, i)
      BY RestoredFacts DEF s, m, L
    <2>2. Config(s[i][1]) \in ConfigNames /\ Config(s[i][1]) \in Homes
      BY <1>2, KeyFacts DEF ConfigNames, Homes
    <2> DEFINE p == IF Above(s, i) = {} THEN d[Config(s[i][1])]
                    ELSE Restored(d, U, req, LastOf(Above(s, i)))
    <2>3. C[i] = Operation(Config(s[i][1]), Restored(d, U, req, i), p)
      BY DEF RestoreOperation, s, L
    <2>4. p \in AllFiles
      <3>1. CASE Above(s, i) = {}
        BY <3>1, <1>2, <1>3, AtFacts
      <3>2. CASE Above(s, i) # {}
        <4>1. i \in Nat
          BY <1>2
        <4>2. LastOf(Above(s, i)) \in 1..(i - 1)
          BY <3>2, <4>1, AboveFacts
        <4>3. LastOf(Above(s, i)) \in 1..m
          BY <1>2, <4>2
        <4>4. Restored(d, U, req, LastOf(Above(s, i))) \in ConfigFiles
          BY <4>3, RestoredFacts DEF s, m, L
        <4> QED
          BY <3>2, <4>4, FileFacts
      <3> QED
        BY <3>1, <3>2
    <2>5. d[Config(s[i][1])] = At(d, Config(s[i][1]))
      BY <1>2, <1>3, AtFacts
    <2>6. Restored(d, U, req, i) \in AllFiles
      BY <2>1, FileFacts
    <2> HIDE DEF C, p
    <2>7. C[i] \in Operations
      BY <2>2, <2>3, <2>4, <2>6 DEF Operation, Operations
    <2>8. /\ C[i].moved = FALSE /\ C[i].published = FALSE /\ C[i].dest = Config(s[i][1])
          /\ C[i].staged = Restored(d, U, req, i) /\ C[i].prior = p
      BY <2>3 DEF Operation
    <2> QED
      BY <2>1, <2>2, <2>5, <2>7, <2>8 DEF p
  <1>8. ASSUME NEW i \in 1..m
        PROVE  /\ R[i] \in Operations /\ R[i].moved = FALSE /\ R[i].published = FALSE
               /\ R[i].dest = OwnName(L, s[i]) /\ R[i].dest \in BackupNames
               /\ R[i].staged = None
               /\ R[i].prior = L.entries[s[i]].backup
               /\ R[i].prior = At(d, R[i].dest) /\ R[i].prior # None
    <2> DEFINE f == L.entries[s[i]].backup
    <2>1. s[i] \in DOMAIN L.entries /\ s[i] \in Keys /\ BackupIntact(d, L, s[i])
      BY <1>2
    <2>2. f \in AllFiles /\ f # None /\ L.entries[s[i]].sequence \in Nat
      BY <1>2, <2>1, LedgerFacts, FileFacts
    <2>3. At(d, OwnName(L, s[i])) = f
      BY <1>3, <2>1, <2>2, AtFacts DEF OwnName, BackupIntact
    <2>4. OwnName(L, s[i]) \in BackupNames /\ OwnName(L, s[i]) \in Homes
      BY <2>1, <2>2, KeyFacts DEF OwnName, BackupNames, Homes
    <2>5. R[i] = Operation(OwnName(L, s[i]), None, f)
      BY DEF RemoveOperation, OwnName, L
    <2> HIDE DEF R, f
    <2>6. R[i] \in Operations
      BY <2>2, <2>4, <2>5 DEF Operation, Operations
    <2>7. /\ R[i].moved = FALSE /\ R[i].published = FALSE /\ R[i].dest = OwnName(L, s[i])
          /\ R[i].staged = None /\ R[i].prior = f
      BY <2>5 DEF Operation
    <2> QED
      BY <2>2, <2>3, <2>4, <2>6, <2>7 DEF f
  <1>9. C \in Seq(Operations) /\ Len(C) = m /\ R \in Seq(Operations) /\ Len(R) = m
    <2>1. \A i \in 1..m : C[i] \in Operations /\ R[i] \in Operations
      BY <1>7, <1>8
    <2>2. C \in [1..m -> Operations] /\ R \in [1..m -> Operations]
      BY <2>1
    <2> HIDE DEF C, R
    <2> QED
      BY <1>2, <2>2
  <1> HIDE DEF C, R, x, ops, state
  <1>10. /\ ops \in Seq(Operations) /\ Len(ops) = m + 1 + m
         /\ \A i \in 1..m : ops[i] = C[i]
         /\ ops[m + 1] = x
         /\ \A i \in 1..m : ops[m + 1 + i] = R[i]
    <2>0. C \in Seq(Operations) /\ x \in Operations /\ R \in Seq(Operations)
      BY <1>6, <1>9
    <2>1. IsJoined(Joined(C, x, R), Operations, C, x, R)
      BY <2>0, JoinFacts
    <2> QED
      BY <1>1, <1>9, <2>1 DEF IsJoined
  <1>11. ASSUME NEW i \in 1..m
         PROVE  RevertConfigAt(d, U, req, ops, i) /\ ops[i].moved = FALSE /\ ops[i].published = FALSE
    <2>1. ops[i] = C[i]
      BY <1>10
    <2> QED
      BY <1>7, <2>1 DEF RevertConfigAt, s, m, L
  <1>12. RevertLedgerAt(d, U, req, ops, m + 1)
         /\ ops[m + 1].moved = FALSE /\ ops[m + 1].published = FALSE
    <2>1. /\ ops[m + 1].dest = State /\ ops[m + 1].staged = state /\ ops[m + 1].prior = At(d, State)
          /\ ops[m + 1].moved = FALSE /\ ops[m + 1].published = FALSE
      BY <1>5, <1>10 DEF x, Operation
    <2>2. IF DOMAIN A.entries = {} THEN state = None
          ELSE state.bytes = A /\ state.id = FreshInode(U, m + 1)
      BY DEF state
    <2> QED
      BY <1>5, <2>1, <2>2 DEF RevertLedgerAt, s, m, L, A
  <1>13. ASSUME NEW j \in 1..m
         PROVE  /\ RevertBackupAt(d, U, req, ops, m + 1 + j)
                /\ ops[m + 1 + j].moved = FALSE /\ ops[m + 1 + j].published = FALSE
    <2>1. ops[m + 1 + j] = R[j] /\ (m + 1 + j) - m - 1 = j
      BY <1>2, <1>10
    <2> DEFINE i == m + 1 + j
    <2>2. ops[i] = R[j] /\ i - m - 1 = j
      BY <2>1
    <2> HIDE DEF i
    <2>3. RevertBackupAt(d, U, req, ops, i)
      BY <1>8, <2>2 DEF RevertBackupAt, s, m, L
    <2> QED
      BY <1>8, <2>1, <2>3 DEF i
  <1>14. \A i \in 1..Len(ops) :
              /\ ops[i].moved = FALSE /\ ops[i].published = FALSE
              /\ \/ RevertConfigAt(d, U, req, ops, i)
                 \/ RevertLedgerAt(d, U, req, ops, i)
                 \/ RevertBackupAt(d, U, req, ops, i)
    <2> SUFFICES ASSUME NEW i \in 1..Len(ops)
                 PROVE  /\ ops[i].moved = FALSE /\ ops[i].published = FALSE
                        /\ \/ RevertConfigAt(d, U, req, ops, i)
                           \/ RevertLedgerAt(d, U, req, ops, i)
                           \/ RevertBackupAt(d, U, req, ops, i)
      OBVIOUS
    <2>1. i \in 1..m \/ i = m + 1 \/ \E j \in 1..m : i = m + 1 + j
      <3>1. i \in 1..(m + 1 + m)
        BY <1>10
      <3>2. i \in 1..m \/ i = m + 1 \/ (i - m - 1 \in 1..m /\ i = m + 1 + (i - m - 1))
        BY <1>2, <3>1
      <3> QED
        BY <3>2
    <2> QED
      BY <2>1, <1>11, <1>12, <1>13
  <1> QED
    BY <1>10, <1>11, <1>12, <1>13, <1>14 DEF ops, m, s, L

LEMMA RevertIsPlan ==
  ASSUME NEW d, NEW U, NEW req, RevertPremise(d, U, req), Selected(LedgerOn(d), req) # <<>>
  PROVE  IsPlan(d, U, RevertOperations(d, U, req))
  <1> DEFINE ops == RevertOperations(d, U, req)
             L == LedgerOn(d)
             s == Selected(L, req)
             m == Len(s)
             A == LedgerAfterRevert(d, U, req)
  <1>1. ops \in Seq(Operations) /\ Len(ops) = m + 1 + m
    BY RevertOperationsFacts
  <1>2. \A i \in 1..Len(ops) :
              /\ ops[i].moved = FALSE /\ ops[i].published = FALSE
              /\ \/ RevertConfigAt(d, U, req, ops, i)
                 \/ RevertLedgerAt(d, U, req, ops, i)
                 \/ RevertBackupAt(d, U, req, ops, i)
    BY RevertOperationsFacts
  <1>3. RevertLedgerAt(d, U, req, ops, m + 1)
    BY RevertOperationsFacts
  <1>4. /\ L \in LedgerBytes /\ Readable(L) /\ m \in Nat /\ Enumerates(s, Selection(L, req))
        /\ \A i \in 1..m : s[i] \in DOMAIN L.entries /\ s[i] \in Selection(L, req)
    BY SelectedFacts DEF Enumerates
  <1>5. IsDisk(d) /\ IsFiniteSet(U)
    BY DEF RevertPremise
  <1> HIDE DEF ops
  <1>6. /\ \A i : RevertConfigAt(d, U, req, ops, i) =>
              /\ i \in 1..m /\ ops[i].dest = Config(s[i][1]) /\ ops[i].dest \in ConfigNames
              /\ ops[i].dest # State /\ ops[i].dest \notin BackupNames
              /\ ops[i].staged \in ConfigFiles /\ ops[i].staged # None
        /\ \A i : RevertLedgerAt(d, U, req, ops, i) =>
              /\ i = m + 1 /\ ops[i].dest = State /\ ops[i].prior = At(d, State) /\ ops[i].prior # None
              /\ ops[i].dest \notin ConfigNames /\ ops[i].dest \notin BackupNames
        /\ \A i : RevertBackupAt(d, U, req, ops, i) =>
              /\ i - m - 1 \in 1..m /\ ops[i].dest = OwnName(L, s[i - m - 1])
              /\ ops[i].dest \in BackupNames /\ ops[i].dest # State /\ ops[i].dest \notin ConfigNames
              /\ ops[i].staged = None /\ ops[i].prior # None /\ ops[i].prior = At(d, ops[i].dest)
    <2>1. /\ \A p \in ConfigNames : p # State /\ p \notin BackupNames
          /\ \A p \in BackupNames : p # State /\ p \notin ConfigNames
          /\ State \notin ConfigNames /\ State \notin BackupNames
      BY HomesDiffer DEF ConfigNames, BackupNames
    <2>2. \A f \in ConfigFiles : f # None
      BY FileFacts
    <2>3. \A i : RevertConfigAt(d, U, req, ops, i) =>
              /\ i \in 1..m /\ ops[i].dest = Config(s[i][1]) /\ ops[i].dest \in ConfigNames
              /\ ops[i].dest # State /\ ops[i].dest \notin BackupNames
              /\ ops[i].staged \in ConfigFiles /\ ops[i].staged # None
      BY <2>1, <2>2 DEF RevertConfigAt
    <2>4. \A i : RevertLedgerAt(d, U, req, ops, i) =>
              /\ i = m + 1 /\ ops[i].dest = State /\ ops[i].prior = At(d, State) /\ ops[i].prior # None
              /\ ops[i].dest \notin ConfigNames /\ ops[i].dest \notin BackupNames
      BY <2>1 DEF RevertLedgerAt
    <2>5. \A i : RevertBackupAt(d, U, req, ops, i) =>
              /\ i - m - 1 \in 1..m /\ ops[i].dest = OwnName(L, s[i - m - 1])
              /\ ops[i].dest \in BackupNames /\ ops[i].dest # State /\ ops[i].dest \notin ConfigNames
              /\ ops[i].staged = None /\ ops[i].prior # None /\ ops[i].prior = At(d, ops[i].dest)
      BY <2>1 DEF RevertBackupAt
    <2> QED
      BY <2>3, <2>4, <2>5
  <1>7. PlanTyped(ops)
    <2>1. ASSUME NEW i \in 1..Len(ops), ops[i].staged # None
          PROVE  IF ops[i].dest = State THEN ops[i].staged.bytes \in LedgerBytes
                                        ELSE ops[i].staged \in ConfigFiles
      <3>1. CASE RevertLedgerAt(d, U, req, ops, i)
        BY <2>1, <3>1, RevertLedger DEF RevertLedgerAt
      <3> QED
        BY <1>2, <1>6, <2>1, <3>1
    <2> QED
      BY <1>1, <1>2, <2>1 DEF PlanTyped
  <1>8. PlanFresh(U, ops)
    <2>1. ASSUME NEW i \in 1..Len(ops), ops[i].staged # None
          PROVE  ops[i].staged.id = FreshInode(U, i) /\ i \in Nat \ {0}
      <3>1. i \in Nat \ {0}
        BY <1>1
      <3>2. CASE RevertConfigAt(d, U, req, ops, i)
        BY <3>1, <3>2 DEF RevertConfigAt
      <3>3. CASE RevertLedgerAt(d, U, req, ops, i)
        BY <2>1, <3>1, <3>3 DEF RevertLedgerAt
      <3> QED
        BY <1>2, <1>6, <2>1, <3>2, <3>3
    <2>2. ASSUME NEW i \in 1..Len(ops), ops[i].staged # None
          PROVE  ops[i].staged.id \notin U
      BY <1>5, <2>1, <2>2, FreshInodeFacts
    <2>3. ASSUME NEW i \in 1..Len(ops), NEW j \in 1..Len(ops),
                 ops[i].staged # None, ops[j].staged # None, ops[i].staged.id = ops[j].staged.id
          PROVE  i = j
      <3>1. FreshInode(U, i) = FreshInode(U, j) /\ i \in Nat \ {0} /\ j \in Nat \ {0}
        BY <2>1, <2>3
      <3> QED
        BY <1>5, <3>1, FreshInodesDiffer
    <2> QED
      BY <2>2, <2>3 DEF PlanFresh
  <1>9. PlanPlaces(ops)
    <2>1. m + 1 \in 1..Len(ops) /\ ops[m + 1].dest = State
      BY <1>1, <1>3, <1>4 DEF RevertLedgerAt
    <2>2. ASSUME NEW i \in 1..Len(ops), NEW j \in 1..Len(ops), ops[i].dest = ops[j].dest,
                 ops[i].dest \notin ConfigNames
          PROVE  i = j
      <3>1. CASE RevertLedgerAt(d, U, req, ops, i)
        BY <3>1, <2>2, <1>2, <1>6
      <3>2. CASE RevertBackupAt(d, U, req, ops, i)
        <4>1. RevertBackupAt(d, U, req, ops, j)
          BY <3>2, <2>2, <1>2, <1>6
        <4> DEFINE x == i - m - 1
                   y == j - m - 1
        <4>2. x \in 1..m /\ y \in 1..m /\ OwnName(L, s[x]) = OwnName(L, s[y])
          BY <2>2, <3>2, <4>1, <1>6
        <4> HIDE DEF x, y
        <4>3. s[x][1] = s[y][1] /\ L.entries[s[x]].sequence = L.entries[s[y]].sequence
          BY <4>2, BackupsDiffer DEF OwnName
        <4>4. s[x] = s[y]
          BY <1>4, <4>2, <4>3, LedgerFacts
        <4>5. x = y
          BY <1>4, <4>2, <4>4 DEF Enumerates
        <4> QED
          BY <1>1, <1>4, <4>5 DEF x, y
      <3> QED
        BY <1>2, <1>6, <2>2, <3>1, <3>2
    <2> QED
      BY <2>1, <2>2 DEF PlanPlaces
  <1>10. PlanPriors(d, ops)
    <2> SUFFICES ASSUME NEW i \in 1..Len(ops)
                 PROVE  /\ \A j \in 1..(i - 1) :
                             ops[j].dest = ops[i].dest
                             /\ (\A k \in (j + 1)..(i - 1) : ops[k].dest # ops[i].dest)
                               => ops[i].prior = ops[j].staged
                        /\ (\A j \in 1..(i - 1) : ops[j].dest # ops[i].dest)
                             => ops[i].prior = At(d, ops[i].dest)
                        /\ ops[i].prior # None \/ ops[i].staged # None
      BY DEF PlanPriors
    <2>1. \A j \in 1..(i - 1) : j \in 1..Len(ops) /\ j # i
      BY <1>1
    <2>2. CASE ops[i].dest \notin ConfigNames
      <3>1. \A j \in 1..(i - 1) : ops[j].dest # ops[i].dest
        BY <1>9, <2>1, <2>2 DEF PlanPlaces
      <3>2. ops[i].prior = At(d, ops[i].dest) /\ ops[i].prior # None
        BY <1>2, <1>6, <2>2
      <3> QED
        BY <3>1, <3>2
    <2>3. CASE ops[i].dest \in ConfigNames
      <3>1. RevertConfigAt(d, U, req, ops, i)
        BY <1>2, <1>6, <2>3
      <3>2. /\ i \in 1..m /\ ops[i].dest = Config(s[i][1]) /\ ops[i].staged # None
            /\ ops[i].prior = IF Above(s, i) = {} THEN At(d, ops[i].dest)
                              ELSE Restored(d, U, req, LastOf(Above(s, i)))
        BY <3>1, <1>6 DEF RevertConfigAt
      <3>3. \A j \in 1..(i - 1) : j \in 1..m
        BY <1>4, <3>2
      <3>4. \A j \in 1..(i - 1) : RevertConfigAt(d, U, req, ops, j)
        BY <3>3, RevertOperationsFacts DEF ops
      <3>5. \A j \in 1..(i - 1) : /\ ops[j].dest = Config(s[j][1])
                                  /\ ops[j].staged = Restored(d, U, req, j)
        BY <3>4 DEF RevertConfigAt
      <3>6. \A j \in 1..(i - 1) : ops[j].dest = ops[i].dest <=> s[j][1] = s[i][1]
        BY <3>2, <3>5, NameFacts
      <3>7. CASE Above(s, i) = {}
        <4>1. \A j \in 1..(i - 1) : ops[j].dest # ops[i].dest
          BY <3>6, <3>7 DEF Above
        <4> QED
          BY <3>2, <3>7, <4>1
      <3>8. CASE Above(s, i) # {}
        <4> DEFINE x == LastOf(Above(s, i))
        <4>1. /\ x \in 1..(i - 1) /\ s[x][1] = s[i][1]
              /\ \A j \in 1..(i - 1) : s[j][1] = s[i][1] => j <= x
          BY <1>4, <3>2, <3>8, AboveFacts
        <4> HIDE DEF x
        <4>2. ops[x].dest = ops[i].dest /\ ops[x].staged = Restored(d, U, req, x)
          BY <3>5, <3>6, <4>1
        <4>3. ASSUME NEW j \in 1..(i - 1), ops[j].dest = ops[i].dest,
                     \A k \in (j + 1)..(i - 1) : ops[k].dest # ops[i].dest
              PROVE  j = x
          <5>1. j <= x
            BY <3>6, <4>1, <4>3
          <5>2. ~(x \in (j + 1)..(i - 1))
            BY <4>2, <4>3
          <5> QED
            BY <1>4, <3>2, <4>1, <5>1, <5>2
        <4>4. ops[i].prior = Restored(d, U, req, x)
          BY <3>2, <3>8 DEF x
        <4> QED
          BY <3>2, <4>1, <4>2, <4>3, <4>4
      <3> QED
        BY <3>7, <3>8
    <2> QED
      BY <2>2, <2>3
  <1>11. PlanLedger(d, ops)
    <2> SUFFICES ASSUME NEW p \in 1..Len(ops), ops[p].dest = State, ops[p].staged # None,
                        NEW l \in DOMAIN ops[p].staged.bytes.entries
                 PROVE  LET B == ops[p].staged.bytes IN
                        /\ l \in DOMAIN L.entries
                        /\ B.entries[l].backup = L.entries[l].backup
                        /\ B.entries[l].sequence = L.entries[l].sequence
                        /\ \A j \in 1..Len(ops) : ops[j].dest # OwnName(B, l)
      BY DEF PlanLedger
    <2>1. RevertLedgerAt(d, U, req, ops, p)
      BY <1>2, <1>6
    <2>2. ops[p].staged.bytes = A
      BY <2>1 DEF RevertLedgerAt
    <2>3. /\ l \in DOMAIN L.entries \ Selection(L, req)
          /\ A.entries[l].sequence = L.entries[l].sequence
          /\ A.entries[l].backup = L.entries[l].backup
      BY <2>2, RevertLedger
    <2> HIDE DEF A
    <2>4. OwnName(A, l) = OwnName(L, l)
      BY <2>3 DEF OwnName
    <2>5. OwnName(L, l) \in BackupNames
      <3>1. l[1] \in Clients /\ L.entries[l].sequence \in Nat
        BY <1>4, <2>3, LedgerFacts, KeyFacts
      <3> QED
        BY <3>1 DEF OwnName, BackupNames
    <2>6. ASSUME NEW j \in 1..Len(ops), ops[j].dest = OwnName(L, l) PROVE FALSE
      <3>1. RevertBackupAt(d, U, req, ops, j)
        BY <1>2, <1>6, <2>5, <2>6
      <3> DEFINE x == j - m - 1
      <3>2. x \in 1..m /\ OwnName(L, s[x]) = OwnName(L, l)
        BY <2>6, <3>1, <1>6
      <3> HIDE DEF x
      <3>3. s[x][1] = l[1] /\ L.entries[s[x]].sequence = L.entries[l].sequence
        BY <3>2, BackupsDiffer DEF OwnName
      <3>4. s[x] = l
        BY <1>4, <2>3, <3>2, <3>3, LedgerFacts
      <3> QED
        BY <1>4, <2>3, <3>2, <3>4
    <2> QED
      BY <2>2, <2>3, <2>4, <2>6
  <1> QED
    BY <1>4, <1>7, <1>8, <1>9, <1>10, <1>11 DEF IsPlan, ops

\* What a command starts with is a plan, or nothing to do.
LEMMA PlannedIsPlan ==
  ASSUME NEW req \in Requests, IsDisk(disk), IsFiniteSet(Inodes), Plannable(req)
  PROVE  IsPlan(disk, Inodes, Planned(req)) \/ Planned(req) = <<>>
  <1>1. CASE req.kind = "use"
    <2>1. UsePremise(disk, Inodes, req)
      BY <1>1 DEF UsePremise, Plannable
    <2>2. Planned(req) = UseOperations(disk, Inodes, req)
      BY <1>1 DEF Planned
    <2>3. Changed(disk, req) = {} => Planned(req) = <<>>
      BY <2>2 DEF UseOperations
    <2> QED
      BY <2>1, <2>2, <2>3, UseIsPlan
  <1>2. CASE req.kind # "use"
    <2>1. RevertPremise(disk, Inodes, req)
      BY <1>2, RequestFacts DEF RevertPremise, Plannable
    <2>2. Planned(req) = RevertOperations(disk, Inodes, req)
      BY <1>2 DEF Planned
    <2>3. Selected(LedgerOn(disk), req) = <<>> => Planned(req) = <<>>
      BY <2>2 DEF RevertOperations
    <2> QED
      BY <2>1, <2>2, <2>3, RevertIsPlan
  <1> QED
    BY <1>1, <1>2

-----------------------------------------------------------------------------
(* Running commands.                                                       *)

Forwards  == {"take", "move", "publish", "verify", "finish"}
Backwards == {"undo", "displace", "restore", "discard"}
Phases    == Forwards \cup Backwards \cup Answers
Disks     == UNION {[D -> AllFiles] : D \in SUBSET Names}

Transactions == [phase : Phases, req : Requests, ops : Seq(Operations), at : Nat,
                 lock : BOOLEAN, errors : BOOLEAN, before : Disks, touched : SUBSET Names]

\* Two plans that differ in what was done of them only.
SameOps(o, p) ==
  /\ Len(p) = Len(o)
  /\ \A i \in 1..Len(o) : p[i].dest = o[i].dest /\ p[i].staged = o[i].staged /\ p[i].prior = o[i].prior

\* What no step of a running command changes.
Carries(t, u) ==
  /\ u \in Transactions
  /\ u.req = t.req /\ u.before = t.before /\ u.lock = t.lock /\ u.touched = t.touched
  /\ SameOps(t.ops, u.ops)

SameFlags(t, u) ==
  \A i \in 1..Len(t.ops) :
    u.ops[i].moved = t.ops[i].moved /\ u.ops[i].published = t.ops[i].published

Reflags(t, u, m, p) ==
  /\ \A i \in 1..Len(t.ops) : i # t.at =>
       u.ops[i].moved = t.ops[i].moved /\ u.ops[i].published = t.ops[i].published
  /\ u.ops[t.at].moved = m /\ u.ops[t.at].published = p

\* Where a step goes on.
Fails(t, u)     == u.phase = "undo" /\ u.at = Len(t.ops) /\ u.errors = t.errors
Stays(t, u, ph) == u.phase = ph /\ u.at = t.at /\ u.errors = t.errors
Proceeds(t, u)  == /\ u.errors = t.errors
                   /\ IF t.at < Len(t.ops) THEN u.phase = "take" /\ u.at = t.at + 1
                                           ELSE u.phase = "verify" /\ u.at = 1
Descends(t, u)  == u.phase = "undo" /\ u.at = t.at - 1 /\ u.errors = t.errors
GivesUp(t, u)   == u.phase = "undo" /\ u.at = t.at - 1 /\ u.errors = TRUE

\* What a rename and a removal do to the disk.
Renames(d, e, from, to) ==
  /\ from \in DOMAIN d /\ IsDisk(e) /\ DOMAIN e = (DOMAIN d \ {from}) \cup {to}
  /\ \A p : At(e, p) = IF p = to THEN At(d, from) ELSE IF p = from THEN None ELSE At(d, p)

Removes(d, e, S) ==
  /\ IsDisk(e) /\ DOMAIN e = DOMAIN d \ S
  /\ \A p : At(e, p) = IF p \in S THEN None ELSE At(d, p)

LEMMA SameOpsItself ==
  ASSUME NEW t \in Transactions, NEW u \in Transactions, u.ops = t.ops
  PROVE  SameOps(t.ops, u.ops) /\ SameFlags(t, u)
  BY DEF SameOps, SameFlags

LEMMA GotoFacts ==
  ASSUME tx \in Transactions, NEW ph \in Phases
  PROVE  Carries(tx, Goto(ph)) /\ SameFlags(tx, Goto(ph)) /\ Stays(tx, Goto(ph), ph)
  <1>1. Goto(ph) = [tx EXCEPT !.phase = ph]
    BY DEF Goto
  <1>2. /\ Goto(ph) \in Transactions /\ Goto(ph).phase = ph /\ Goto(ph).at = tx.at
        /\ Goto(ph).errors = tx.errors
        /\ Goto(ph).ops = tx.ops /\ Goto(ph).req = tx.req /\ Goto(ph).before = tx.before
        /\ Goto(ph).lock = tx.lock /\ Goto(ph).touched = tx.touched
    BY <1>1 DEF Transactions
  <1> QED
    BY <1>2, SameOpsItself DEF Carries, Stays

LEMMA GoesFacts ==
  ASSUME NEW t \in Transactions, NEW ph \in Phases, NEW u, u = [t EXCEPT !.phase = ph]
  PROVE  /\ Carries(t, u) /\ SameFlags(t, u) /\ Stays(t, u, ph)
         /\ u.ops = t.ops /\ u.at = t.at /\ u.phase = ph
  <1>1. /\ u \in Transactions /\ u.phase = ph /\ u.at = t.at /\ u.errors = t.errors
        /\ u.ops = t.ops /\ u.req = t.req /\ u.before = t.before
        /\ u.lock = t.lock /\ u.touched = t.touched
    BY DEF Transactions
  <1> QED
    BY <1>1, SameOpsItself DEF Carries, Stays

LEMMA FailNowFacts ==
  ASSUME NEW t \in Transactions
  PROVE  Carries(t, FailNow(t)) /\ SameFlags(t, FailNow(t)) /\ Fails(t, FailNow(t))
         /\ FailNow(t).ops = t.ops
  <1> DEFINE u == FailNow(t)
  <1>1. u = [t EXCEPT !.phase = "undo", !.at = Len(t.ops)]
    BY DEF FailNow
  <1>2. Len(t.ops) \in Nat /\ "undo" \in Phases
    BY DEF Transactions, Phases, Backwards
  <1> HIDE DEF u
  <1>3. /\ u \in Transactions /\ u.phase = "undo" /\ u.at = Len(t.ops) /\ u.errors = t.errors
        /\ u.ops = t.ops /\ u.req = t.req /\ u.before = t.before
        /\ u.lock = t.lock /\ u.touched = t.touched
    BY <1>1, <1>2 DEF Transactions
  <1> QED
    BY <1>3, SameOpsItself DEF Carries, Fails, u

LEMMA AdvanceFacts ==
  ASSUME NEW t \in Transactions
  PROVE  Carries(t, Advance(t)) /\ SameFlags(t, Advance(t)) /\ Proceeds(t, Advance(t))
         /\ Advance(t).ops = t.ops
  <1> DEFINE u == Advance(t)
             go == t.at < Len(t.ops)
             ph == IF go THEN "take" ELSE "verify"
             a == IF go THEN t.at + 1 ELSE 1
  <1>1. u = [t EXCEPT !.phase = ph, !.at = a]
    BY DEF Advance
  <1>2. a \in Nat /\ ph \in Phases
    BY DEF Transactions, Phases, Forwards
  <1>3. /\ go => ph = "take" /\ a = t.at + 1
        /\ ~go => ph = "verify" /\ a = 1
    OBVIOUS
  <1> HIDE DEF u, ph, a
  <1>4. /\ u \in Transactions /\ u.phase = ph /\ u.at = a /\ u.errors = t.errors
        /\ u.ops = t.ops /\ u.req = t.req /\ u.before = t.before
        /\ u.lock = t.lock /\ u.touched = t.touched
    BY <1>1, <1>2 DEF Transactions
  <1>5. Proceeds(t, u)
    BY <1>3, <1>4 DEF Proceeds
  <1> QED
    BY <1>4, <1>5, SameOpsItself DEF Carries, u

LEMMA BelowFacts ==
  ASSUME NEW t \in Transactions, t.at > 0
  PROVE  /\ Carries(t, Below(t)) /\ SameFlags(t, Below(t)) /\ Descends(t, Below(t))
         /\ Below(t).ops = t.ops
         /\ Carries(t, GiveUpOn(t)) /\ SameFlags(t, GiveUpOn(t)) /\ GivesUp(t, GiveUpOn(t))
  <1> DEFINE u == Below(t)
             v == GiveUpOn(t)
  <1>1. u = [t EXCEPT !.phase = "undo", !.at = t.at - 1] /\ v = [u EXCEPT !.errors = TRUE]
    BY DEF Below, GiveUpOn
  <1>2. t.at - 1 \in Nat /\ "undo" \in Phases
    BY DEF Transactions, Phases, Backwards
  <1> HIDE DEF u, v
  <1>3. /\ u \in Transactions /\ u.phase = "undo" /\ u.at = t.at - 1 /\ u.errors = t.errors
        /\ u.ops = t.ops /\ u.req = t.req /\ u.before = t.before
        /\ u.lock = t.lock /\ u.touched = t.touched
    BY <1>1, <1>2 DEF Transactions
  <1>4. /\ v \in Transactions /\ v.phase = "undo" /\ v.at = t.at - 1 /\ v.errors = TRUE
        /\ v.ops = t.ops /\ v.req = t.req /\ v.before = t.before
        /\ v.lock = t.lock /\ v.touched = t.touched
    BY <1>1, <1>3 DEF Transactions
  <1> QED
    BY <1>3, <1>4, SameOpsItself DEF Carries, Descends, GivesUp, u, v

LEMMA FlaggedFacts ==
  ASSUME tx \in Transactions, tx.at \in 1..Len(tx.ops), NEW v \in BOOLEAN
  PROVE  LET m == Flagged("moved", v)
             p == Flagged("published", v)
         IN /\ Carries(tx, m) /\ Stays(tx, m, tx.phase) /\ Len(m.ops) = Len(tx.ops)
            /\ Reflags(tx, m, v, tx.ops[tx.at].published)
            /\ Carries(tx, p) /\ Stays(tx, p, tx.phase) /\ Len(p.ops) = Len(tx.ops)
            /\ Reflags(tx, p, tx.ops[tx.at].moved, v)
  <1> DEFINE o == tx.ops
             a == tx.at
             om == [o EXCEPT ![a].moved = v]
             op == [o EXCEPT ![a].published = v]
  <1>1. o \in Seq(Operations) /\ a \in 1..Len(o) /\ Len(o) \in Nat
    BY DEF Transactions
  <1>2. Flagged("moved", v) = [tx EXCEPT !.ops = om] /\ Flagged("published", v) = [tx EXCEPT !.ops = op]
    BY DEF Flagged
  <1>3. o[a] \in Operations
    BY <1>1
  <1> DEFINE am == [o[a] EXCEPT !.moved = v]
             ap == [o[a] EXCEPT !.published = v]
  <1>4. /\ am \in Operations /\ am.moved = v /\ am.published = o[a].published
        /\ am.dest = o[a].dest /\ am.staged = o[a].staged /\ am.prior = o[a].prior
        /\ ap \in Operations /\ ap.published = v /\ ap.moved = o[a].moved
        /\ ap.dest = o[a].dest /\ ap.staged = o[a].staged /\ ap.prior = o[a].prior
    BY <1>3 DEF Operations
  <1>5. om = [o EXCEPT ![a] = am] /\ op = [o EXCEPT ![a] = ap]
    OBVIOUS
  <1> HIDE DEF am, ap, om, op, o, a
  <1>6. /\ om \in Seq(Operations) /\ Len(om) = Len(o) /\ om[a] = am
        /\ \A i \in 1..Len(o) : i # a => om[i] = o[i]
        /\ op \in Seq(Operations) /\ Len(op) = Len(o) /\ op[a] = ap
        /\ \A i \in 1..Len(o) : i # a => op[i] = o[i]
    BY <1>1, <1>4, <1>5
  <1>7. SameOps(o, om) /\ SameOps(o, op)
    BY <1>4, <1>6 DEF SameOps
  <1> DEFINE m == [tx EXCEPT !.ops = om]
             p == [tx EXCEPT !.ops = op]
  <1>8. /\ m \in Transactions /\ m.ops = om /\ m.phase = tx.phase /\ m.at = tx.at
        /\ m.errors = tx.errors /\ m.req = tx.req /\ m.before = tx.before
        /\ m.lock = tx.lock /\ m.touched = tx.touched
        /\ p \in Transactions /\ p.ops = op /\ p.phase = tx.phase /\ p.at = tx.at
        /\ p.errors = tx.errors /\ p.req = tx.req /\ p.before = tx.before
        /\ p.lock = tx.lock /\ p.touched = tx.touched
    BY <1>6 DEF Transactions
  <1> HIDE DEF m, p
  <1>9. Carries(tx, m) /\ Stays(tx, m, tx.phase) /\ Carries(tx, p) /\ Stays(tx, p, tx.phase)
    BY <1>7, <1>8 DEF Carries, Stays, o
  <1>10. Reflags(tx, m, v, tx.ops[tx.at].published) /\ Reflags(tx, p, tx.ops[tx.at].moved, v)
    BY <1>4, <1>6, <1>8 DEF Reflags, o, a
  <1>11. Len(m.ops) = Len(tx.ops) /\ Len(p.ops) = Len(tx.ops)
    BY <1>6, <1>8 DEF o
  <1> QED
    BY <1>2, <1>9, <1>10, <1>11 DEF m, p

-----------------------------------------------------------------------------
(* What holds of a running command t and the disk d.                       *)

Done(o)   == o.moved = (o.prior # None) /\ o.published = (o.staged # None)
Active(o) == o.moved \/ o.published

Over        == {"finish", "ok", "unfinished"}
Onward(t)   == t.phase \in Forwards \cup {"ok", "unfinished"}
Settled(t)  == t.phase \in {"failed", "refused", "incomplete"}
Pending(t, i) == \/ t.phase \in {"undo", "displace"} /\ i <= t.at
                 \/ t.phase \in {"restore", "discard"} /\ i < t.at

\* Where a command is in its operations.
Placing(t) ==
  LET n == Len(t.ops) IN
  /\ t.phase \in Forwards \cup {"displace", "restore", "discard"} => t.at \in 1..n
  /\ t.phase = "undo" => t.at \in 0..n /\ n # 0
  /\ t.phase \in Answers => t.at \in 0..(n + 1)

\* Which operations were done, going forward and going back.
Progress(t) ==
  LET n == Len(t.ops)
      o == t.ops
      a == t.at
  IN
  /\ \A i \in 1..n : (o[i].moved => o[i].prior # None) /\ (o[i].published => o[i].staged # None)
  /\ Onward(t) => t.errors = FALSE
  /\ t.phase \in {"take", "move", "publish"} =>
       \A i \in 1..n : (i < a => Done(o[i])) /\ (i > a => ~Active(o[i]))
  /\ t.phase \in {"take", "move"} => ~Active(o[a])
  /\ t.phase = "move" => o[a].prior # None
  /\ t.phase = "publish" =>
       /\ ~o[a].published /\ o[a].staged # None
       /\ o[a].moved = (o[a].prior # None)
  /\ t.phase \in Over \cup {"verify"} => \A i \in 1..n : Done(o[i])
  /\ ~Onward(t) =>
       \A i \in 1..n : i <= a /\ Active(o[i]) =>
         /\ \A j \in 1..n : j < i => Done(o[j])
         /\ o[i].published => o[i].moved = (o[i].prior # None)
  /\ ~Onward(t) /\ ~t.errors => \A i \in 1..n : i > a => ~Active(o[i])
  /\ t.phase = "displace" => o[a].published
  /\ t.phase = "restore" => o[a].moved /\ ~o[a].published
  /\ t.phase = "discard" => ~Active(o[a])
  /\ Settled(t) => n = 0 \/ a = 0
  /\ t.phase \in {"failed", "refused"} => t.errors = FALSE

\* The artifacts on the disk are those the flags tell of.
Leftovers(t, d, s) ==
  LET n == Len(t.ops)
      o == t.ops
  IN \A i \in Nat :
  /\ At(d, Stage(i)) # None =>
       /\ i \in 1..n
       /\ o[i].staged # None /\ ~o[i].published
       /\ t.phase \notin {"failed", "refused"}
  /\ At(d, Aside(i)) # None =>
       /\ i \in 1..n
       /\ Onward(t) \/ s => o[i].moved
       /\ t.phase = "finish" => i >= t.at
       /\ t.phase # "ok"
  /\ At(d, Displaced(i)) # None =>
       /\ i \in 1..n
       /\ ~Onward(t) /\ ~Pending(t, i)
       /\ ~t.errors /\ s => t.phase \in {"restore", "discard"} /\ i = t.at

\* Names that others left alone hold what they held, or what the last
\* operation done there put there.
Exactly(t, d, s) ==
  LET n == Len(t.ops)
      o == t.ops
  IN Onward(t) \/ (s /\ ~t.errors) =>
  \A p \in Homes : p \notin t.touched =>
    /\ (\A i \in 1..n : o[i].dest = p => ~Active(o[i])) => At(d, p) = At(t.before, p)
    /\ \A i \in 1..n :
         o[i].dest = p /\ Active(o[i]) /\ (\A j \in 1..n : j > i /\ o[j].dest = p => ~Active(o[j])) =>
           At(d, p) = IF o[i].published THEN IF Onward(t) THEN o[i].staged ELSE At(d, p)
                      ELSE None

ExactInv ==
  IF tx = Idle THEN \A p \in ArtifactNames : At(disk, p) = None
  ELSE Placing(tx) /\ Progress(tx) /\ Leftovers(tx, disk, synced) /\ Exactly(tx, disk, synced)

-----------------------------------------------------------------------------
(* Files that were there when the command began, until it finishes.        *)

Conserved(t, d, sp) ==
  \A p \in Homes :
    /\ At(t.before, p) # None
    /\ t.phase \in Over => \A i \in 1..Len(t.ops) : t.ops[i].dest # p
    => \/ At(t.before, p) \in sp
       \/ At(d, p) = At(t.before, p)
       \/ \E j \in 1..Len(t.ops) : /\ t.ops[j].dest = p
                                   /\ At(t.before, p) \in {At(d, Aside(j)), At(d, Displaced(j))}

\* A stage holds what was staged, or others wrote it.
Stages(t, d, sp) ==
  \A i \in 1..Len(t.ops) :
    \/ At(d, Stage(i)) \in {None, t.ops[i].staged}
    \/ At(d, Stage(i)).bytes \in OtherBytes /\ t.ops[i].staged \in sp

\* What was published last at a name is there, unless others took it away.
LastFor(t, i) == \A j \in 1..Len(t.ops) : j > i => t.ops[j].dest # t.ops[i].dest

Placed(t, d, sp) ==
  \A i \in 1..Len(t.ops) :
    t.ops[i].published /\ LastFor(t, i) /\ (Onward(t) \/ Pending(t, i)) =>
      t.ops[i].staged \in sp \/ At(d, t.ops[i].dest) = t.ops[i].staged

\* The ledger is the old one until it is moved, the new one once published.
OldOrNew(t, d) ==
  \A i \in 1..Len(t.ops) : t.ops[i].dest = State =>
    \/ At(d, State) = None
    \/ At(d, State).bytes \in OtherBytes
    \/ At(d, State) = At(t.before, State) /\ (Onward(t) => ~t.ops[i].moved)
    \/ At(d, State) = t.ops[i].staged /\ t.ops[i].published /\ (Onward(t) \/ Pending(t, i))

Backed(d, lf, sp) ==
  Readable(LedgerOn(d)) =>
    \A l \in DOMAIN LedgerOn(d).entries :
      \/ LedgerOn(d).entries[l].backup \in lf \cup sp
      \/ At(d, OwnName(LedgerOn(d), l)) = LedgerOn(d).entries[l].backup

\* No error made a rename look undone, or left the ledger where its rollback
\* should have taken it back.
LedgerSound == synced /\ State \notin abandoned

BackedInv ==
  /\ tx # Idle => /\ Conserved(tx, disk, spoilt)
                  /\ Stages(tx, disk, spoilt) /\ Placed(tx, disk, spoilt)
  /\ LedgerSound =>
       /\ tx # Idle => OldOrNew(tx, disk) /\ Backed(tx.before, left, spoilt)
       /\ tx = Idle \/ Len(tx.ops) = 0 => Backed(disk, left, spoilt)

-----------------------------------------------------------------------------
(* The steps of a running command, by what they do to it and to the disk.  *)

Now(t) == t.ops[t.at]

Continues(t, u, e) == Carries(t, u) /\ IsDisk(e)

TakeStep(t, d, u, e) ==
  /\ t.phase = "take" /\ e = d /\ SameFlags(t, u)
  /\ \/ Now(t).prior = None /\ Stays(t, u, "publish")
     \/ Now(t).prior # None /\ Stays(t, u, "move")

StopStep(t, d, u, e) ==
  t.phase \in {"take", "move", "publish", "verify"} /\ e = d /\ SameFlags(t, u) /\ Fails(t, u)

MoveStep(t, d, u, e) ==
  /\ t.phase = "move" /\ Renames(d, e, Now(t).dest, Aside(t.at))
  /\ Reflags(t, u, TRUE, Now(t).published)
  /\ \/ Fails(t, u)
     \/ At(d, Now(t).dest) = Now(t).prior /\ Now(t).staged = None /\ Proceeds(t, u)
     \/ At(d, Now(t).dest) = Now(t).prior /\ Now(t).staged # None /\ Stays(t, u, "publish")

PublishStep(t, d, u, e) ==
  /\ t.phase = "publish" /\ At(d, Now(t).dest) = None
  /\ Renames(d, e, Stage(t.at), Now(t).dest)
  /\ Reflags(t, u, Now(t).moved, TRUE)
  /\ \/ Fails(t, u)
     \/ At(d, Stage(t.at)) = Now(t).staged /\ Proceeds(t, u)

\* A rename that the command takes for one that failed.
MoveUnseen(t, d, u, e) ==
  /\ t.phase = "move" /\ Renames(d, e, Now(t).dest, Aside(t.at))
  /\ SameFlags(t, u) /\ Fails(t, u)

PublishUnseen(t, d, u, e) ==
  /\ t.phase = "publish" /\ At(d, Now(t).dest) = None
  /\ Renames(d, e, Stage(t.at), Now(t).dest)
  /\ SameFlags(t, u) /\ Fails(t, u)

VerifyStep(t, d, u, e) ==
  /\ t.phase = "verify" /\ e = d /\ SameFlags(t, u) /\ u.errors = t.errors
  /\ \/ t.at < Len(t.ops) /\ u.phase = "verify" /\ u.at = t.at + 1
     \/ u.phase = "finish" /\ u.at = 1

FinishStep(t, d, u, e) ==
  /\ t.phase = "finish" /\ SameFlags(t, u) /\ u.errors = t.errors
  /\ \/ e = d /\ Stays(t, u, "unfinished")
     \/ /\ IF Now(t).moved
           THEN At(d, Aside(t.at)) = Now(t).prior /\ Removes(d, e, {Aside(t.at)})
           ELSE e = d
        /\ \/ t.at = Len(t.ops) /\ Stays(t, u, "ok")
           \/ t.at < Len(t.ops) /\ u.phase = "finish" /\ u.at = t.at + 1

UndoStep(t, d, u, e) ==
  /\ t.phase = "undo" /\ t.at > 0 /\ e = d /\ SameFlags(t, u)
  /\ \/ Now(t).published /\ Holds(d, Now(t).dest, Now(t).staged) /\ Stays(t, u, "displace")
     \/ Now(t).published /\ ~Holds(d, Now(t).dest, Now(t).staged) /\ GivesUp(t, u)
     \/ ~Now(t).published /\ Now(t).moved /\ Stays(t, u, "restore")
     \/ ~Active(Now(t)) /\ Descends(t, u)

DisplaceStep(t, d, u, e) ==
  /\ t.phase = "displace" /\ Renames(d, e, Now(t).dest, Displaced(t.at))
  /\ \/ /\ At(d, Now(t).dest) = Now(t).staged /\ Reflags(t, u, Now(t).moved, FALSE)
        /\ Stays(t, u, IF Now(t).moved THEN "restore" ELSE "discard")
     \/ SameFlags(t, u) /\ GivesUp(t, u)

RestoreStep(t, d, u, e) ==
  /\ t.phase = "restore" /\ Renames(d, e, Aside(t.at), Now(t).dest)
  /\ At(d, Now(t).dest) = None /\ At(d, Aside(t.at)) = Now(t).prior
  /\ \/ /\ Reflags(t, u, FALSE, Now(t).published)
        /\ \/ Stays(t, u, "discard")
           \/ At(d, Displaced(t.at)) = None /\ Descends(t, u)
     \/ SameFlags(t, u) /\ GivesUp(t, u)

DiscardStep(t, d, u, e) ==
  /\ t.phase = "discard" /\ At(d, Displaced(t.at)) = Now(t).staged
  /\ Removes(d, e, {Displaced(t.at)}) /\ SameFlags(t, u) /\ Descends(t, u)

GivesUpNow(t, u) ==
  /\ t.phase \in {"undo", "displace", "restore", "discard"}
  /\ t.phase = "undo" => t.at > 0 /\ Now(t).published
  /\ SameFlags(t, u) /\ GivesUp(t, u)

GiveUpStep(t, d, u, e) == GivesUpNow(t, u) /\ e = d

\* A rollback gives up on an operation whose file is still in its place.
Abandons(t, d, u, e) ==
  /\ GiveUpStep(t, d, u, e) /\ t.phase \in {"undo", "displace"}
  /\ Holds(d, Now(t).dest, Now(t).staged)

\* A rollback is at an operation it undoes.
Undoing(t) == \/ t.phase \in {"displace", "restore"}
              \/ t.phase = "undo" /\ t.at > 0

CleanStep(t, d, u, e) ==
  /\ t.phase = "undo" /\ t.at = 0 /\ SameFlags(t, u)
  /\ \E S \in SUBSET StageNames :
       /\ Removes(d, e, S)
       /\ \A i \in Nat : Stage(i) \in S => i \in 1..Len(t.ops) /\ At(d, Stage(i)) = t.ops[i].staged
  /\ \/ /\ Stays(t, u, "failed") /\ t.errors = FALSE
        /\ \A i \in 1..Len(t.ops) : At(e, Stage(i)) = None
     \/ Stays(t, u, "incomplete")

RunStep(t, d, u, e) ==
  \/ TakeStep(t, d, u, e) \/ StopStep(t, d, u, e) \/ MoveStep(t, d, u, e)
  \/ PublishStep(t, d, u, e) \/ VerifyStep(t, d, u, e) \/ FinishStep(t, d, u, e)
  \/ UndoStep(t, d, u, e) \/ DisplaceStep(t, d, u, e) \/ RestoreStep(t, d, u, e)
  \/ DiscardStep(t, d, u, e) \/ GiveUpStep(t, d, u, e) \/ CleanStep(t, d, u, e)

UnseenStep(t, d, u, e) ==
  \/ MoveUnseen(t, d, u, e) \/ PublishUnseen(t, d, u, e)
  \/ DisplaceStep(t, d, u, e) \/ RestoreStep(t, d, u, e)

Running1(t) == t \in Transactions /\ Placing(t) /\ IsDisk(t.before)

TypeInv ==
  /\ IsDisk(disk) /\ IsFiniteSet(left) /\ left \subseteq AllFiles
  /\ work \in 0..MaxWork /\ faults \in 0..work /\ synced \in BOOLEAN
  /\ adopted \subseteq Clients /\ version \in [Clients -> ConfigBytes] /\ abandoned \subseteq Homes
  /\ tx = Idle \/ Running1(tx)

LEMMA RunningFacts ==
  ASSUME NEW t, Running1(t)
  PROVE  /\ t # Idle /\ t \in Transactions /\ Len(t.ops) \in Nat /\ t.at \in Nat
         /\ IsDisk(t.before) /\ t.phase \in Phases /\ t.errors \in BOOLEAN
         /\ t.touched \subseteq Names
         /\ \A i \in 1..Len(t.ops) : t.ops[i] \in Operations
  <1>1. t \in Transactions /\ IsDisk(t.before)
    BY DEF Running1
  <1>2. "idle" \notin Phases
    BY DEF Phases, Forwards, Backwards, Answers
  <1>3. t.phase \in Phases /\ Idle.phase = "idle"
    BY <1>1 DEF Transactions, Idle
  <1> QED
    BY <1>1, <1>2, <1>3 DEF Transactions

LEMMA NowFacts ==
  ASSUME NEW t, Running1(t), t.at \in 1..Len(t.ops)
  PROVE  /\ Now(t) \in Operations /\ Now(t).dest \in Homes /\ Now(t).dest \in Names
         /\ Now(t).staged \in AllFiles \cup {None} /\ Now(t).prior \in AllFiles \cup {None}
         /\ Now(t).moved \in BOOLEAN /\ Now(t).published \in BOOLEAN
         /\ Aside(t.at) \in Names /\ Stage(t.at) \in Names /\ Displaced(t.at) \in Names
         /\ Aside(t.at) # Now(t).dest /\ Stage(t.at) # Now(t).dest /\ Displaced(t.at) # Now(t).dest
  <1>1. Now(t) \in Operations /\ t.at \in Nat
    BY RunningFacts DEF Now
  <1>2. Now(t).dest \in Homes
    BY <1>1 DEF Operations
  <1> QED
    BY <1>1, <1>2, NameFacts DEF Operations, Names

LEMMA RenameMakes ==
  ASSUME NEW d, IsDisk(d), NEW from \in DOMAIN d, NEW to \in Names, from # to
  PROVE  Renames(d, Renamed(d, from, to), from, to) /\ IsDisk(Renamed(d, from, to))
  BY RenamedFacts DEF Renames

LEMMA RemoveMakes ==
  ASSUME NEW d, IsDisk(d), NEW S
  PROVE  Removes(d, Without(d, S), S) /\ IsDisk(Without(d, S))
  BY WithoutFacts DEF Removes

-----------------------------------------------------------------------------
(* Each action of a running command is one of these steps.                 *)

Quiet == left' = left /\ work' = work /\ history' = history

\* In the phases of an operation there is one.
LEMMA AtWork ==
  ASSUME TypeInv, tx # Idle,
         tx.phase \in Forwards \cup {"displace", "restore", "discard"} \/ (tx.phase = "undo" /\ tx.at > 0)
  PROVE  /\ Running1(tx) /\ tx \in Transactions /\ tx.at \in 1..Len(tx.ops) /\ IsDisk(disk)
         /\ Now(tx) = Op /\ tx.ops[tx.at] = Op
  <1>1. Running1(tx) /\ IsDisk(disk) /\ Len(tx.ops) \in Nat /\ tx.at \in Nat /\ tx \in Transactions
    BY RunningFacts DEF TypeInv
  <1>2. tx.at \in 1..Len(tx.ops)
    BY <1>1 DEF Running1, Placing
  <1> QED
    BY <1>1, <1>2 DEF Now, Op

LEMMA IdlePhase == Idle.phase = "idle"
  BY DEF Idle

LEMMA TakeSteps ==
  ASSUME TypeInv, Take
  PROVE  Continues(tx, tx', disk') /\ RunStep(tx, disk, tx', disk') /\ Quiet
  <1>1. tx.phase = "take" /\ tx # Idle /\ disk' = disk /\ Quiet
    BY IdlePhase DEF Take, Quiet
  <1>2. Running1(tx) /\ tx \in Transactions /\ IsDisk(disk) /\ Now(tx) = Op
    BY <1>1, AtWork DEF Forwards
  <1>3. "publish" \in Phases /\ "move" \in Phases
    BY DEF Phases, Forwards
  <1>4. \/ tx' = FailNow(tx)
        \/ Op.prior = None /\ tx' = Goto("publish")
        \/ Op.prior # None /\ tx' = Goto("move")
    BY DEF Take
  <1>5. CASE tx' = FailNow(tx)
    BY <1>1, <1>2, <1>5, FailNowFacts DEF RunStep, StopStep, Continues
  <1>6. CASE Op.prior = None /\ tx' = Goto("publish")
    BY <1>1, <1>2, <1>3, <1>6, GotoFacts DEF RunStep, TakeStep, Continues
  <1>7. CASE Op.prior # None /\ tx' = Goto("move")
    BY <1>1, <1>2, <1>3, <1>7, GotoFacts DEF RunStep, TakeStep, Continues
  <1> QED
    BY <1>4, <1>5, <1>6, <1>7

\* Flags change before the phase does.
LEMMA ReflagsThenGoes ==
  ASSUME NEW t \in Transactions, t.at \in 1..Len(t.ops), NEW m \in Transactions, NEW u,
         NEW v, NEW w,
         Carries(t, m), Stays(t, m, t.phase), Reflags(t, m, v, w), Len(m.ops) = Len(t.ops),
         Carries(m, u), SameFlags(m, u)
  PROVE  /\ Carries(t, u) /\ Reflags(t, u, v, w)
         /\ Fails(m, u) => Fails(t, u)
         /\ Proceeds(m, u) => Proceeds(t, u)
         /\ Descends(m, u) => Descends(t, u)
         /\ \A ph : Stays(m, u, ph) => Stays(t, u, ph)
  <1>1. SameOps(t.ops, u.ops)
    BY DEF Carries, SameOps
  <1>2. Carries(t, u)
    BY <1>1 DEF Carries
  <1>3. Reflags(t, u, v, w)
    BY DEF Reflags, SameFlags
  <1> QED
    BY <1>2, <1>3 DEF Fails, Proceeds, Descends, Stays

LEMMA MoveSteps ==
  ASSUME TypeInv, Move
  PROVE  Continues(tx, tx', disk') /\ RunStep(tx, disk, tx', disk') /\ Quiet
  <1>1. tx.phase = "move" /\ tx # Idle /\ Quiet
    BY IdlePhase DEF Move, Quiet, history
  <1>2. /\ Running1(tx) /\ tx \in Transactions /\ IsDisk(disk) /\ Now(tx) = Op /\ tx.ops[tx.at] = Op
        /\ tx.at \in 1..Len(tx.ops)
    BY <1>1, AtWork DEF Forwards
  <1>3. CASE Op.dest \notin DOMAIN disk
    <2>1. tx' = FailNow(tx) /\ disk' = disk
      BY <1>3 DEF Move
    <2> QED
      BY <1>1, <1>2, <2>1, FailNowFacts DEF RunStep, StopStep, Continues
  <1>4. CASE Op.dest \in DOMAIN disk
    <2> DEFINE m == Flagged("moved", TRUE)
    <2>1. /\ disk' = Renamed(disk, Op.dest, Aside(tx.at))
          /\ tx' = IF disk[Op.dest] # Op.prior THEN FailNow(m)
                   ELSE IF Op.staged = None THEN Advance(m)
                   ELSE [m EXCEPT !.phase = "publish"]
      BY <1>4 DEF Move
    <2>2. Renames(disk, disk', Op.dest, Aside(tx.at)) /\ IsDisk(disk')
      <3>1. Aside(tx.at) \in Names /\ Aside(tx.at) # Op.dest
        BY <1>2, NowFacts
      <3>2. Renames(disk, disk', Op.dest, Aside(tx.at))
        BY <1>2, <1>4, <2>1, <3>1, RenameMakes
      <3> QED
        BY <3>2 DEF Renames
    <2>3. disk[Op.dest] = At(disk, Op.dest)
      BY <1>2, <1>4, AtFacts
    <2>4. /\ Carries(tx, m) /\ Stays(tx, m, "move") /\ Len(m.ops) = Len(tx.ops)
          /\ Reflags(tx, m, TRUE, Op.published) /\ m \in Transactions
      BY <1>1, <1>2, FlaggedFacts DEF Carries
    <2> HIDE DEF m
    <2>5. CASE tx' = FailNow(m)
      <3>1. Carries(m, tx') /\ SameFlags(m, tx') /\ Fails(m, tx')
        BY <2>4, <2>5, FailNowFacts
      <3>2. Carries(tx, tx') /\ Reflags(tx, tx', TRUE, Op.published) /\ Fails(tx, tx')
        BY <1>1, <1>2, <2>4, <3>1, ReflagsThenGoes
      <3>3. MoveStep(tx, disk, tx', disk')
        BY <1>1, <1>2, <2>2, <3>2 DEF MoveStep
      <3> QED
        BY <1>1, <2>2, <3>2, <3>3 DEF RunStep, Continues
    <2>6. CASE disk[Op.dest] = Op.prior /\ Op.staged = None /\ tx' = Advance(m)
      <3>1. Carries(m, tx') /\ SameFlags(m, tx') /\ Proceeds(m, tx')
        BY <2>4, <2>6, AdvanceFacts
      <3>2. Carries(tx, tx') /\ Reflags(tx, tx', TRUE, Op.published) /\ Proceeds(tx, tx')
        BY <1>1, <1>2, <2>4, <3>1, ReflagsThenGoes
      <3>3. MoveStep(tx, disk, tx', disk')
        BY <1>1, <1>2, <2>2, <2>3, <2>6, <3>2 DEF MoveStep
      <3> QED
        BY <1>1, <2>2, <3>2, <3>3 DEF RunStep, Continues
    <2>7. CASE disk[Op.dest] = Op.prior /\ Op.staged # None /\ tx' = [m EXCEPT !.phase = "publish"]
      <3>1. "publish" \in Phases
        BY DEF Phases, Forwards
      <3>2. Carries(m, tx') /\ SameFlags(m, tx') /\ Stays(m, tx', "publish")
        BY <2>4, <2>7, <3>1, GoesFacts
      <3>3. Carries(tx, tx') /\ Reflags(tx, tx', TRUE, Op.published) /\ Stays(tx, tx', "publish")
        BY <1>1, <1>2, <2>4, <3>2, ReflagsThenGoes
      <3>4. MoveStep(tx, disk, tx', disk')
        BY <1>1, <1>2, <2>2, <2>3, <2>7, <3>3 DEF MoveStep
      <3> QED
        BY <1>1, <2>2, <3>3, <3>4 DEF RunStep, Continues
    <2> QED
      BY <2>1, <2>5, <2>6, <2>7
  <1> QED
    BY <1>3, <1>4

LEMMA PublishSteps ==
  ASSUME TypeInv, Publish
  PROVE  Continues(tx, tx', disk') /\ RunStep(tx, disk, tx', disk') /\ Quiet
  <1>1. tx.phase = "publish" /\ tx # Idle /\ Quiet
    BY IdlePhase DEF Publish, Quiet, history
  <1>2. /\ Running1(tx) /\ tx \in Transactions /\ IsDisk(disk) /\ Now(tx) = Op /\ tx.ops[tx.at] = Op
        /\ tx.at \in 1..Len(tx.ops)
    BY <1>1, AtWork DEF Forwards
  <1>3. CASE ~CanPublish
    <2>1. tx' = FailNow(tx) /\ disk' = disk
      BY <1>3 DEF Publish
    <2> QED
      BY <1>1, <1>2, <2>1, FailNowFacts DEF RunStep, StopStep, Continues
  <1>4. CASE CanPublish
    <2> DEFINE m == Flagged("published", TRUE)
    <2>1. /\ disk' = Renamed(disk, Stage(tx.at), Op.dest)
          /\ tx' = IF disk[Stage(tx.at)] = Op.staged THEN Advance(m) ELSE FailNow(m)
      BY <1>4 DEF Publish
    <2>2. Op.dest \notin DOMAIN disk /\ Stage(tx.at) \in DOMAIN disk
      BY <1>4 DEF CanPublish
    <2>3. Renames(disk, disk', Stage(tx.at), Op.dest) /\ IsDisk(disk')
      <3>1. Op.dest \in Names /\ Stage(tx.at) # Op.dest
        BY <1>2, NowFacts
      <3>2. Renames(disk, disk', Stage(tx.at), Op.dest)
        BY <1>2, <2>1, <2>2, <3>1, RenameMakes
      <3> QED
        BY <3>2 DEF Renames
    <2>4. disk[Stage(tx.at)] = At(disk, Stage(tx.at)) /\ At(disk, Op.dest) = None
      BY <1>2, <2>2, AtFacts
    <2>5. /\ Carries(tx, m) /\ Stays(tx, m, "publish") /\ Len(m.ops) = Len(tx.ops)
          /\ Reflags(tx, m, Op.moved, TRUE) /\ m \in Transactions
      BY <1>1, <1>2, FlaggedFacts DEF Carries
    <2> HIDE DEF m
    <2>6. CASE tx' = FailNow(m)
      <3>1. Carries(m, tx') /\ SameFlags(m, tx') /\ Fails(m, tx')
        BY <2>5, <2>6, FailNowFacts
      <3>2. Carries(tx, tx') /\ Reflags(tx, tx', Op.moved, TRUE) /\ Fails(tx, tx')
        BY <1>1, <1>2, <2>5, <3>1, ReflagsThenGoes
      <3>3. PublishStep(tx, disk, tx', disk')
        BY <1>1, <1>2, <2>3, <2>4, <3>2 DEF PublishStep
      <3> QED
        BY <1>1, <2>3, <3>2, <3>3 DEF RunStep, Continues
    <2>7. CASE disk[Stage(tx.at)] = Op.staged /\ tx' = Advance(m)
      <3>1. Carries(m, tx') /\ SameFlags(m, tx') /\ Proceeds(m, tx')
        BY <2>5, <2>7, AdvanceFacts
      <3>2. Carries(tx, tx') /\ Reflags(tx, tx', Op.moved, TRUE) /\ Proceeds(tx, tx')
        BY <1>1, <1>2, <2>5, <3>1, ReflagsThenGoes
      <3>3. PublishStep(tx, disk, tx', disk')
        BY <1>1, <1>2, <2>3, <2>4, <2>7, <3>2 DEF PublishStep
      <3> QED
        BY <1>1, <2>3, <3>2, <3>3 DEF RunStep, Continues
    <2> QED
      BY <2>1, <2>6, <2>7
  <1> QED
    BY <1>3, <1>4

LEMMA VerifySteps ==
  ASSUME TypeInv, VerifyCommitted
  PROVE  /\ Continues(tx, tx', disk') /\ RunStep(tx, disk, tx', disk')
         /\ left' = left /\ work' = work /\ version' = version /\ spoilt' = spoilt
         /\ faults' = faults /\ synced' = synced /\ abandoned' = abandoned
  <1>1. tx.phase = "verify" /\ tx # Idle /\ disk' = disk
    BY IdlePhase DEF VerifyCommitted
  <1>2. Running1(tx) /\ tx \in Transactions /\ IsDisk(disk) /\ tx.at \in Nat /\ Len(tx.ops) \in Nat
    BY <1>1, AtWork, RunningFacts DEF Forwards
  <1>3. \/ tx' = FailNow(tx)
        \/ tx.at < Len(tx.ops) /\ tx' = [tx EXCEPT !.at = @ + 1]
        \/ tx' = [tx EXCEPT !.phase = "finish", !.at = 1]
    BY DEF VerifyCommitted
  <1>4. CASE tx' = FailNow(tx)
    BY <1>1, <1>2, <1>4, FailNowFacts DEF RunStep, StopStep, Continues, VerifyCommitted
  <1>5. CASE tx.at < Len(tx.ops) /\ tx' = [tx EXCEPT !.at = @ + 1]
    <2>1. /\ tx' \in Transactions /\ tx'.phase = "verify" /\ tx'.at = tx.at + 1
          /\ tx'.errors = tx.errors
          /\ tx'.ops = tx.ops /\ tx'.req = tx.req /\ tx'.before = tx.before
          /\ tx'.lock = tx.lock /\ tx'.touched = tx.touched
      BY <1>1, <1>2, <1>5 DEF Transactions
    <2>2. Carries(tx, tx') /\ SameFlags(tx, tx')
      BY <1>2, <2>1, SameOpsItself DEF Carries
    <2> QED
      BY <1>1, <1>2, <1>5, <2>1, <2>2 DEF RunStep, VerifyStep, Continues, VerifyCommitted
  <1>6. CASE tx' = [tx EXCEPT !.phase = "finish", !.at = 1]
    <2>1. "finish" \in Phases
      BY DEF Phases, Forwards
    <2>2. /\ tx' \in Transactions /\ tx'.phase = "finish" /\ tx'.at = 1
          /\ tx'.errors = tx.errors
          /\ tx'.ops = tx.ops /\ tx'.req = tx.req /\ tx'.before = tx.before
          /\ tx'.lock = tx.lock /\ tx'.touched = tx.touched
      BY <1>2, <1>6, <2>1 DEF Transactions
    <2>3. Carries(tx, tx') /\ SameFlags(tx, tx')
      BY <1>2, <2>2, SameOpsItself DEF Carries
    <2> QED
      BY <1>1, <1>2, <2>2, <2>3 DEF RunStep, VerifyStep, Continues, VerifyCommitted
  <1> QED
    BY <1>3, <1>4, <1>5, <1>6

LEMMA FinishSteps ==
  ASSUME TypeInv, Finish
  PROVE  Continues(tx, tx', disk') /\ RunStep(tx, disk, tx', disk') /\ Quiet
  <1>1. tx.phase = "finish" /\ tx # Idle /\ Quiet
    BY IdlePhase DEF Finish, Quiet, history
  <1>2. /\ Running1(tx) /\ tx \in Transactions /\ IsDisk(disk) /\ Now(tx) = Op
        /\ tx.at \in Nat /\ Len(tx.ops) \in Nat /\ tx.at \in 1..Len(tx.ops)
    BY <1>1, AtWork, RunningFacts DEF Forwards
  <1> DEFINE intact == Op.moved => Holds(disk, Aside(tx.at), Op.prior)
  <1>3. /\ disk' = IF Op.moved /\ intact THEN Without(disk, {Aside(tx.at)}) ELSE disk
        /\ tx' = IF ~intact THEN Goto("unfinished")
                 ELSE IF tx.at = Len(tx.ops) THEN Goto("ok")
                 ELSE [tx EXCEPT !.at = @ + 1]
    BY DEF Finish
  <1>4. IsDisk(disk')
    BY <1>2, <1>3, WithoutFacts
  <1>5. "unfinished" \in Phases /\ "ok" \in Phases
    BY DEF Phases, Answers
  <1>6. CASE ~intact
    <2>1. tx' = Goto("unfinished") /\ disk' = disk
      BY <1>3, <1>6
    <2>2. Carries(tx, tx') /\ SameFlags(tx, tx') /\ Stays(tx, tx', "unfinished")
      BY <1>2, <1>5, <2>1, GotoFacts
    <2> QED
      BY <1>1, <1>4, <2>1, <2>2 DEF RunStep, FinishStep, Continues, Stays
  <1>7. CASE intact
    <2> DEFINE e == disk'
    <2>1. IF Now(tx).moved
          THEN At(disk, Aside(tx.at)) = Now(tx).prior /\ Removes(disk, disk', {Aside(tx.at)})
          ELSE disk' = disk
      <3>1. CASE Op.moved
        <4>1. disk' = Without(disk, {Aside(tx.at)}) /\ Holds(disk, Aside(tx.at), Op.prior)
          BY <1>3, <1>7, <3>1
        <4> QED
          BY <1>2, <3>1, <4>1, RemoveMakes DEF At, Holds
      <3>2. CASE ~Op.moved
        BY <1>2, <1>3, <3>2
      <3> QED
        BY <3>1, <3>2
    <2>2. CASE tx.at = Len(tx.ops)
      <3>1. tx' = Goto("ok")
        BY <1>3, <1>7, <2>2
      <3>2. Carries(tx, tx') /\ SameFlags(tx, tx') /\ Stays(tx, tx', "ok")
        BY <1>2, <1>5, <3>1, GotoFacts
      <3> QED
        BY <1>1, <1>4, <2>1, <2>2, <3>2 DEF RunStep, FinishStep, Continues, Stays
    <2>3. CASE tx.at # Len(tx.ops)
      <3>1. tx' = [tx EXCEPT !.at = @ + 1] /\ tx.at < Len(tx.ops)
        BY <1>2, <1>3, <1>7, <2>3
      <3>2. /\ tx' \in Transactions /\ tx'.phase = "finish" /\ tx'.at = tx.at + 1
            /\ tx'.errors = tx.errors
            /\ tx'.ops = tx.ops /\ tx'.req = tx.req /\ tx'.before = tx.before
            /\ tx'.lock = tx.lock /\ tx'.touched = tx.touched
        BY <1>1, <1>2, <3>1 DEF Transactions
      <3>3. Carries(tx, tx') /\ SameFlags(tx, tx')
        BY <1>2, <3>2, SameOpsItself DEF Carries
      <3> QED
        BY <1>1, <1>4, <2>1, <3>1, <3>2, <3>3 DEF RunStep, FinishStep, Continues
    <2> QED
      BY <2>2, <2>3
  <1> QED
    BY <1>6, <1>7

LEMMA UndoSteps ==
  ASSUME TypeInv, Undo
  PROVE  Continues(tx, tx', disk') /\ RunStep(tx, disk, tx', disk') /\ Quiet
  <1>1. tx.phase = "undo" /\ tx.at > 0 /\ tx # Idle /\ disk' = disk /\ Quiet
    BY IdlePhase DEF Undo, Quiet
  <1>2. Running1(tx) /\ tx \in Transactions /\ IsDisk(disk) /\ Now(tx) = Op
    BY <1>1, AtWork
  <1>3. "displace" \in Phases /\ "restore" \in Phases
    BY DEF Phases, Backwards
  <1>4. \/ Op.published /\ Holds(disk, Op.dest, Op.staged) /\ tx' = Goto("displace")
        \/ Op.published /\ ~Holds(disk, Op.dest, Op.staged) /\ tx' = GiveUpOn(tx)
        \/ ~Op.published /\ Op.moved /\ tx' = Goto("restore")
        \/ ~Op.published /\ ~Op.moved /\ tx' = Below(tx)
    BY DEF Undo
  <1>5. CASE Op.published /\ Holds(disk, Op.dest, Op.staged) /\ tx' = Goto("displace")
    BY <1>1, <1>2, <1>3, <1>5, GotoFacts DEF RunStep, UndoStep, Continues
  <1>6. CASE Op.published /\ ~Holds(disk, Op.dest, Op.staged) /\ tx' = GiveUpOn(tx)
    BY <1>1, <1>2, <1>6, BelowFacts DEF RunStep, UndoStep, Continues
  <1>7. CASE ~Op.published /\ Op.moved /\ tx' = Goto("restore")
    BY <1>1, <1>2, <1>3, <1>7, GotoFacts DEF RunStep, UndoStep, Continues
  <1>8. CASE ~Op.published /\ ~Op.moved /\ tx' = Below(tx)
    BY <1>1, <1>2, <1>8, BelowFacts DEF RunStep, UndoStep, Continues, Active
  <1> QED
    BY <1>4, <1>5, <1>6, <1>7, <1>8

LEMMA GiveUpSteps ==
  ASSUME TypeInv, tx.phase \in {"displace", "restore", "discard"},
         tx' = GiveUpOn(tx), disk' = disk
  PROVE  Continues(tx, tx', disk') /\ RunStep(tx, disk, tx', disk')
  <1>1. tx # Idle
    BY IdlePhase
  <1>2. Running1(tx) /\ tx \in Transactions /\ IsDisk(disk) /\ tx.at \in 1..Len(tx.ops)
    BY <1>1, AtWork
  <1>3. tx.at > 0
    BY <1>2, RunningFacts
  <1>4. Carries(tx, tx') /\ SameFlags(tx, tx') /\ GivesUp(tx, tx')
    BY <1>2, <1>3, BelowFacts
  <1> QED
    BY <1>2, <1>4 DEF RunStep, GiveUpStep, GivesUpNow, Continues

LEMMA DisplaceSteps ==
  ASSUME TypeInv, Displace
  PROVE  Continues(tx, tx', disk') /\ RunStep(tx, disk, tx', disk') /\ Quiet
  <1>1. tx.phase = "displace" /\ tx # Idle /\ Quiet
    BY IdlePhase DEF Displace, Quiet, history
  <1>2. /\ Running1(tx) /\ tx \in Transactions /\ IsDisk(disk) /\ Now(tx) = Op /\ tx.ops[tx.at] = Op
        /\ tx.at \in 1..Len(tx.ops) /\ tx.at \in Nat
    BY <1>1, AtWork, RunningFacts
  <1>3. CASE Op.dest \notin DOMAIN disk
    <2>1. tx' = GiveUpOn(tx) /\ disk' = disk
      BY <1>3 DEF Displace
    <2> QED
      BY <1>1, <2>1, GiveUpSteps
  <1>4. CASE Op.dest \in DOMAIN disk
    <2> DEFINE m == Flagged("published", FALSE)
               ph == IF Op.moved THEN "restore" ELSE "discard"
    <2>1. /\ disk' = Renamed(disk, Op.dest, Displaced(tx.at))
          /\ tx' = IF disk[Op.dest] = Op.staged THEN [m EXCEPT !.phase = ph] ELSE GiveUpOn(tx)
      BY <1>4 DEF Displace
    <2>2. Renames(disk, disk', Op.dest, Displaced(tx.at)) /\ IsDisk(disk')
      <3>1. Displaced(tx.at) \in Names /\ Displaced(tx.at) # Op.dest
        BY <1>2, NowFacts
      <3>2. Renames(disk, disk', Op.dest, Displaced(tx.at))
        BY <1>2, <1>4, <2>1, <3>1, RenameMakes
      <3> QED
        BY <3>2 DEF Renames
    <2>3. disk[Op.dest] = At(disk, Op.dest)
      BY <1>2, <1>4, AtFacts
    <2>4. /\ Carries(tx, m) /\ Stays(tx, m, "displace") /\ Len(m.ops) = Len(tx.ops)
          /\ Reflags(tx, m, Op.moved, FALSE) /\ m \in Transactions
      BY <1>1, <1>2, FlaggedFacts DEF Carries
    <2>5. ph \in Phases /\ ph = IF Op.moved THEN "restore" ELSE "discard"
      BY DEF Phases, Backwards
    <2> HIDE DEF m, ph
    <2>6. CASE disk[Op.dest] = Op.staged
      <3>1. tx' = [m EXCEPT !.phase = ph]
        BY <2>1, <2>6
      <3>2. Carries(m, tx') /\ SameFlags(m, tx') /\ Stays(m, tx', ph)
        BY <2>4, <2>5, <3>1, GoesFacts
      <3>3. Carries(tx, tx') /\ Reflags(tx, tx', Op.moved, FALSE) /\ Stays(tx, tx', ph)
        BY <1>1, <1>2, <2>4, <3>2, ReflagsThenGoes
      <3>4. DisplaceStep(tx, disk, tx', disk')
        BY <1>1, <1>2, <2>2, <2>3, <2>5, <2>6, <3>3 DEF DisplaceStep
      <3> QED
        BY <1>1, <2>2, <3>3, <3>4 DEF RunStep, Continues
    <2>7. CASE disk[Op.dest] # Op.staged
      <3>1. tx' = GiveUpOn(tx) /\ tx.at > 0
        BY <1>2, <2>1, <2>7
      <3>2. Carries(tx, tx') /\ SameFlags(tx, tx') /\ GivesUp(tx, tx')
        BY <1>2, <3>1, BelowFacts
      <3>3. DisplaceStep(tx, disk, tx', disk')
        BY <1>1, <1>2, <2>2, <3>2 DEF DisplaceStep
      <3> QED
        BY <1>1, <2>2, <3>2, <3>3 DEF RunStep, Continues
    <2> QED
      BY <2>6, <2>7
  <1> QED
    BY <1>3, <1>4

LEMMA RestoreSteps ==
  ASSUME TypeInv, Restore
  PROVE  Continues(tx, tx', disk') /\ RunStep(tx, disk, tx', disk') /\ Quiet
  <1>1. tx.phase = "restore" /\ tx # Idle /\ Quiet
    BY IdlePhase DEF Restore, Quiet, history
  <1>2. /\ Running1(tx) /\ tx \in Transactions /\ IsDisk(disk) /\ Now(tx) = Op /\ tx.ops[tx.at] = Op
        /\ tx.at \in 1..Len(tx.ops) /\ tx.at > 0
    BY <1>1, AtWork, RunningFacts
  <1>3. CASE ~CanRestore
    <2>1. tx' = GiveUpOn(tx) /\ disk' = disk
      BY <1>3 DEF Restore
    <2> QED
      BY <1>1, <2>1, GiveUpSteps
  <1>4. CASE CanRestore
    <2> DEFINE m == Flagged("moved", FALSE)
    <2>1. /\ disk' = Renamed(disk, Aside(tx.at), Op.dest)
          /\ tx' = IF Displaced(tx.at) \in DOMAIN disk THEN [m EXCEPT !.phase = "discard"] ELSE Below(m)
      BY <1>4 DEF Restore
    <2>2. /\ Aside(tx.at) \in DOMAIN disk /\ disk[Aside(tx.at)] = Op.prior
          /\ Op.dest \notin DOMAIN disk
      BY <1>4 DEF CanRestore, Holds
    <2>3. Renames(disk, disk', Aside(tx.at), Op.dest) /\ IsDisk(disk')
      <3>1. Op.dest \in Names /\ Aside(tx.at) # Op.dest
        BY <1>2, NowFacts
      <3>2. Renames(disk, disk', Aside(tx.at), Op.dest)
        BY <1>2, <2>1, <2>2, <3>1, RenameMakes
      <3> QED
        BY <3>2 DEF Renames
    <2>4. /\ At(disk, Aside(tx.at)) = Op.prior /\ At(disk, Op.dest) = None
          /\ Displaced(tx.at) \notin DOMAIN disk => At(disk, Displaced(tx.at)) = None
      BY <2>2 DEF At
    <2>5. /\ Carries(tx, m) /\ Stays(tx, m, "restore") /\ Len(m.ops) = Len(tx.ops)
          /\ Reflags(tx, m, FALSE, Op.published) /\ m \in Transactions
      BY <1>1, <1>2, FlaggedFacts DEF Carries
    <2>6. m.at > 0
      BY <1>2, <2>5 DEF Stays
    <2> HIDE DEF m
    <2>7. CASE tx' = [m EXCEPT !.phase = "discard"]
      <3>1. "discard" \in Phases
        BY DEF Phases, Backwards
      <3>2. Carries(m, tx') /\ SameFlags(m, tx') /\ Stays(m, tx', "discard")
        BY <2>5, <2>7, <3>1, GoesFacts
      <3>3. Carries(tx, tx') /\ Reflags(tx, tx', FALSE, Op.published) /\ Stays(tx, tx', "discard")
        BY <1>1, <1>2, <2>5, <3>2, ReflagsThenGoes
      <3>4. RestoreStep(tx, disk, tx', disk')
        BY <1>1, <1>2, <2>3, <2>4, <3>3 DEF RestoreStep
      <3> QED
        BY <1>1, <2>3, <3>3, <3>4 DEF RunStep, Continues
    <2>8. CASE Displaced(tx.at) \notin DOMAIN disk /\ tx' = Below(m)
      <3>1. Carries(m, tx') /\ SameFlags(m, tx') /\ Descends(m, tx')
        BY <2>5, <2>6, <2>8, BelowFacts
      <3>2. Carries(tx, tx') /\ Reflags(tx, tx', FALSE, Op.published) /\ Descends(tx, tx')
        BY <1>1, <1>2, <2>5, <3>1, ReflagsThenGoes
      <3>3. RestoreStep(tx, disk, tx', disk')
        BY <1>1, <1>2, <2>3, <2>4, <2>8, <3>2 DEF RestoreStep
      <3> QED
        BY <1>1, <2>3, <3>2, <3>3 DEF RunStep, Continues
    <2> QED
      BY <2>1, <2>7, <2>8
  <1> QED
    BY <1>3, <1>4

LEMMA DiscardSteps ==
  ASSUME TypeInv, Discard
  PROVE  Continues(tx, tx', disk') /\ RunStep(tx, disk, tx', disk') /\ Quiet
  <1>1. tx.phase = "discard" /\ tx # Idle /\ Quiet
    BY IdlePhase DEF Discard, Quiet, history
  <1>2. /\ Running1(tx) /\ tx \in Transactions /\ IsDisk(disk) /\ Now(tx) = Op
        /\ tx.at \in 1..Len(tx.ops) /\ tx.at \in Nat
    BY <1>1, AtWork, RunningFacts
  <1>3. CASE ~Holds(disk, Displaced(tx.at), Op.staged)
    <2>1. tx' = GiveUpOn(tx) /\ disk' = disk
      BY <1>3 DEF Discard
    <2> QED
      BY <1>1, <2>1, GiveUpSteps
  <1>4. CASE Holds(disk, Displaced(tx.at), Op.staged)
    <2>1. disk' = Without(disk, {Displaced(tx.at)}) /\ tx' = Below(tx)
      BY <1>4 DEF Discard
    <2>2. Removes(disk, disk', {Displaced(tx.at)}) /\ IsDisk(disk')
      BY <1>2, <2>1, RemoveMakes
    <2>3. At(disk, Displaced(tx.at)) = Op.staged
      BY <1>4 DEF At, Holds
    <2>4. Carries(tx, tx') /\ SameFlags(tx, tx') /\ Descends(tx, tx')
      BY <1>2, <2>1, BelowFacts
    <2> QED
      BY <1>1, <1>2, <2>2, <2>3, <2>4 DEF RunStep, DiscardStep, Continues
  <1> QED
    BY <1>3, <1>4

LEMMA OwnedFacts ==
  ASSUME Running1(tx)
  PROVE  /\ OwnedStages \in SUBSET StageNames
         /\ \A i \in Nat : Stage(i) \in OwnedStages =>
              i \in 1..Len(tx.ops) /\ At(disk, Stage(i)) = tx.ops[i].staged
  <1>1. Len(tx.ops) \in Nat
    BY RunningFacts
  <1>2. \A i \in 1..Len(tx.ops) : Stage(i) \in StageNames
    BY <1>1 DEF StageNames
  <1>3. ASSUME NEW i \in Nat, Stage(i) \in OwnedStages
        PROVE  i \in 1..Len(tx.ops) /\ At(disk, Stage(i)) = tx.ops[i].staged
    <2>1. Stage(i) \in StagesLeft /\ disk[Stage(i)] = tx.ops[Stage(i)[2]].staged
      BY <1>3 DEF OwnedStages
    <2>2. Stage(i)[2] = i
      BY NamesDiffer
    <2>3. PICK j \in 1..Len(tx.ops) : Stage(i) = Stage(j)
      BY <2>1 DEF StagesLeft
    <2>4. i = j
      BY <2>3, NameFacts
    <2> QED
      BY <2>1, <2>2, <2>4 DEF At, StagesLeft
  <1> QED
    BY <1>2, <1>3 DEF OwnedStages, StagesLeft

LEMMA CleanSteps ==
  ASSUME TypeInv, Clean
  PROVE  Continues(tx, tx', disk') /\ RunStep(tx, disk, tx', disk') /\ Quiet
  <1>1. tx.phase = "undo" /\ tx.at = 0 /\ tx # Idle /\ Quiet
    BY IdlePhase DEF Clean, Quiet, history
  <1>2. Running1(tx) /\ tx \in Transactions /\ IsDisk(disk)
    BY <1>1, RunningFacts DEF TypeInv
  <1> DEFINE stages == StagesLeft
             owned  == OwnedStages
             ph == IF tx.errors \/ owned # stages THEN "incomplete" ELSE "failed"
  <1>3. disk' = Without(disk, owned) /\ tx' = Goto(ph)
    BY DEF Clean
  <1>4. Removes(disk, disk', owned) /\ IsDisk(disk')
    BY <1>2, <1>3, RemoveMakes
  <1>5. ph \in Phases
    BY DEF Phases, Answers
  <1>6. Len(tx.ops) \in Nat
    BY <1>2, RunningFacts
  <1>7. owned \in SUBSET StageNames
    BY <1>2, OwnedFacts
  <1>8. ASSUME NEW i \in Nat, Stage(i) \in owned
        PROVE  i \in 1..Len(tx.ops) /\ At(disk, Stage(i)) = tx.ops[i].staged
    BY <1>2, <1>8, OwnedFacts
  <1>9. ph = "failed" => tx.errors = FALSE /\ \A i \in 1..Len(tx.ops) : At(disk', Stage(i)) = None
    <2> SUFFICES ASSUME ph = "failed" 
                 PROVE tx.errors = FALSE /\ \A i \in 1..Len(tx.ops) : At(disk', Stage(i)) = None
      OBVIOUS
    <2>1. ~tx.errors /\ owned = stages
      OBVIOUS
    <2>2. tx.errors = FALSE
      BY <1>2, <2>1, RunningFacts
    <2>3. ASSUME NEW i \in 1..Len(tx.ops) PROVE At(disk', Stage(i)) = None
      <3>1. At(disk', Stage(i)) = IF Stage(i) \in owned THEN None ELSE At(disk, Stage(i))
        BY <1>4 DEF Removes
      <3>2. Stage(i) \notin owned => Stage(i) \notin DOMAIN disk
        BY <2>1 DEF StagesLeft
      <3> QED
        BY <3>1, <3>2 DEF At
    <2> QED
      BY <2>2, <2>3
  <1>10. ph \in {"failed", "incomplete"}
    OBVIOUS
  <1>11. Carries(tx, tx') /\ SameFlags(tx, tx') /\ Stays(tx, tx', ph)
    BY <1>2, <1>3, <1>5, GotoFacts
  <1> HIDE DEF owned, stages, ph
  <1>12. \E S \in SUBSET StageNames :
           /\ Removes(disk, disk', S)
           /\ \A i \in Nat : Stage(i) \in S => i \in 1..Len(tx.ops) /\ At(disk, Stage(i)) = tx.ops[i].staged
    BY <1>4, <1>7, <1>8
  <1> QED
    BY <1>1, <1>4, <1>9, <1>10, <1>11, <1>12 DEF RunStep, CleanStep, Continues

\* The renames that are taken for failures.
LEMMA SyncSteps ==
  ASSUME TypeInv, SyncFails
  PROVE  /\ Continues(tx, tx', disk') /\ UnseenStep(tx, disk, tx', disk')
         /\ left' = left /\ version' = version /\ adopted' = adopted /\ spoilt' = spoilt
         /\ synced' = FALSE /\ abandoned' = abandoned /\ Fault
  <1>1. /\ left' = left /\ version' = version /\ adopted' = adopted /\ spoilt' = spoilt
        /\ synced' = FALSE /\ abandoned' = abandoned /\ Fault
    BY DEF SyncFails
  <1>2. tx.phase \in {"move", "publish", "displace", "restore"} /\ tx # Idle
    BY IdlePhase DEF SyncFails
  <1>3. /\ Running1(tx) /\ tx \in Transactions /\ IsDisk(disk) /\ Now(tx) = Op /\ tx.ops[tx.at] = Op
        /\ tx.at \in 1..Len(tx.ops) /\ tx.at > 0
    BY <1>2, AtWork, RunningFacts DEF Forwards
  <1>4. /\ Op.dest \in Names /\ Aside(tx.at) \in Names /\ Displaced(tx.at) \in Names
        /\ Aside(tx.at) # Op.dest /\ Stage(tx.at) # Op.dest /\ Displaced(tx.at) # Op.dest
    BY <1>3, NowFacts
  <1>5. /\ Carries(tx, FailNow(tx)) /\ SameFlags(tx, FailNow(tx)) /\ Fails(tx, FailNow(tx))
        /\ Carries(tx, GiveUpOn(tx)) /\ SameFlags(tx, GiveUpOn(tx)) /\ GivesUp(tx, GiveUpOn(tx))
    BY <1>3, FailNowFacts, BelowFacts
  <1>6. CASE /\ tx.phase = "move" /\ Op.dest \in DOMAIN disk
             /\ disk' = Renamed(disk, Op.dest, Aside(tx.at))
             /\ tx' = FailNow(tx)
    <2>1. Renames(disk, disk', Op.dest, Aside(tx.at))
      BY <1>3, <1>4, <1>6, RenameMakes
    <2> QED
      BY <1>1, <1>3, <1>5, <1>6, <2>1 DEF Continues, UnseenStep, MoveUnseen, Renames
  <1>7. CASE /\ tx.phase = "publish" /\ CanPublish
             /\ disk' = Renamed(disk, Stage(tx.at), Op.dest)
             /\ tx' = FailNow(tx)
    <2>1. Op.dest \notin DOMAIN disk /\ Stage(tx.at) \in DOMAIN disk
      BY <1>7 DEF CanPublish
    <2>2. Renames(disk, disk', Stage(tx.at), Op.dest) /\ At(disk, Op.dest) = None
      BY <1>3, <1>4, <1>7, <2>1, RenameMakes DEF At
    <2> QED
      BY <1>1, <1>3, <1>5, <1>7, <2>2 DEF Continues, UnseenStep, PublishUnseen, Renames
  <1>8. CASE /\ tx.phase = "displace" /\ Op.dest \in DOMAIN disk
             /\ disk' = Renamed(disk, Op.dest, Displaced(tx.at))
             /\ tx' = GiveUpOn(tx)
    <2>1. Renames(disk, disk', Op.dest, Displaced(tx.at))
      BY <1>3, <1>4, <1>8, RenameMakes
    <2> QED
      BY <1>1, <1>3, <1>5, <1>8, <2>1 DEF Continues, UnseenStep, DisplaceStep, Renames
  <1>9. CASE /\ tx.phase = "restore" /\ CanRestore
             /\ disk' = Renamed(disk, Aside(tx.at), Op.dest)
             /\ tx' = GiveUpOn(tx)
    <2>1. Op.dest \notin DOMAIN disk /\ Aside(tx.at) \in DOMAIN disk /\ disk[Aside(tx.at)] = Op.prior
      BY <1>9 DEF CanRestore, Holds
    <2>2. /\ Renames(disk, disk', Aside(tx.at), Op.dest)
          /\ At(disk, Op.dest) = None /\ At(disk, Aside(tx.at)) = Op.prior
      BY <1>3, <1>4, <1>9, <2>1, RenameMakes DEF At
    <2> QED
      BY <1>1, <1>3, <1>5, <1>9, <2>2 DEF Continues, UnseenStep, RestoreStep, Renames
  <1> QED
    BY <1>6, <1>7, <1>8, <1>9 DEF SyncFails

\* A call of the file system fails: the command goes on as it does where a
\* file is not the one it expects, and what it leaves in its place it abandons.
LEMMA ErrorSteps ==
  ASSUME TypeInv, CommitFails \/ RollbackFails \/ CleanupFails
  PROVE  /\ Continues(tx, tx', disk') /\ RunStep(tx, disk, tx', disk')
         /\ left' = left /\ version' = version /\ adopted' = adopted /\ spoilt' = spoilt
         /\ synced' = synced /\ Fault
         /\ abandoned \subseteq abandoned' /\ abandoned' \subseteq abandoned \cup Homes
         /\ Undoing(tx) => Now(tx).dest \in abandoned'
         /\ Abandons(tx, disk, tx', disk') => Now(tx).dest \in abandoned'
         /\ tx.phase = "verify" => tx'.phase = "undo"
  <1>1. /\ left' = left /\ version' = version /\ adopted' = adopted /\ spoilt' = spoilt
        /\ synced' = synced /\ Fault
    BY DEF CommitFails, RollbackFails, CleanupFails
  <1>2. tx # Idle
    BY IdlePhase DEF CommitFails, RollbackFails, CleanupFails
  <1>3. Running1(tx) /\ tx \in Transactions /\ IsDisk(disk)
    BY <1>2, RunningFacts DEF TypeInv
  <1>4. ASSUME CommitFails
        PROVE  /\ Continues(tx, tx', disk') /\ RunStep(tx, disk, tx', disk') /\ tx.phase \in Forwards
               /\ tx.phase = "verify" => tx'.phase = "undo"
    <2>0. tx.phase = "verify" => tx'.phase = "undo"
      <3>1. tx.phase = "verify" => tx' = FailNow(tx)
        BY <1>4 DEF CommitFails
      <3> QED
        BY <1>3, <3>1, FailNowFacts DEF Fails
    <2>1. tx.phase \in {"take", "move", "publish", "verify"} /\ tx.phase \in Forwards
      BY <1>4 DEF CommitFails, Forwards
    <2>2. tx.at \in 1..Len(tx.ops) /\ Now(tx) = Op /\ tx.ops[tx.at] = Op
      BY <1>2, <2>1, AtWork
    <2>3. /\ Op.dest \in Names /\ Aside(tx.at) \in Names
          /\ Aside(tx.at) # Op.dest /\ Stage(tx.at) # Op.dest
      BY <1>3, <2>2, NowFacts
    <2>4. CASE tx' = FailNow(tx) /\ disk' = disk
      BY <1>3, <2>0, <2>1, <2>2, <2>4, FailNowFacts DEF RunStep, StopStep, Continues
    <2>5. CASE /\ tx.phase = "move" /\ Op.dest \in DOMAIN disk
               /\ disk' = Renamed(disk, Op.dest, Aside(tx.at))
               /\ tx' = FailNow(Flagged("moved", TRUE))
      <3> DEFINE m == Flagged("moved", TRUE)
      <3>1. Renames(disk, disk', Op.dest, Aside(tx.at)) /\ IsDisk(disk')
        <4>1. Renames(disk, disk', Op.dest, Aside(tx.at))
          BY <1>3, <2>3, <2>5, RenameMakes
        <4> QED
          BY <4>1 DEF Renames
      <3>2. /\ Carries(tx, m) /\ Stays(tx, m, "move") /\ Len(m.ops) = Len(tx.ops)
            /\ Reflags(tx, m, TRUE, Op.published) /\ m \in Transactions
        BY <1>3, <2>2, <2>5, FlaggedFacts DEF Carries
      <3>3. tx' = FailNow(m)
        BY <2>5
      <3> HIDE DEF m
      <3>4. Carries(m, tx') /\ SameFlags(m, tx') /\ Fails(m, tx')
        BY <3>2, <3>3, FailNowFacts
      <3>5. Carries(tx, tx') /\ Reflags(tx, tx', TRUE, Op.published) /\ Fails(tx, tx')
        BY <1>3, <2>2, <2>5, <3>2, <3>4, ReflagsThenGoes
      <3>6. MoveStep(tx, disk, tx', disk')
        BY <2>2, <2>5, <3>1, <3>5 DEF MoveStep
      <3> QED
        BY <2>0, <2>1, <3>1, <3>5, <3>6 DEF RunStep, Continues
    <2>6. CASE /\ tx.phase = "publish" /\ CanPublish
               /\ disk' = Renamed(disk, Stage(tx.at), Op.dest)
               /\ tx' = FailNow(Flagged("published", TRUE))
      <3> DEFINE m == Flagged("published", TRUE)
      <3>1. Op.dest \notin DOMAIN disk /\ Stage(tx.at) \in DOMAIN disk
        BY <2>6 DEF CanPublish
      <3>2. /\ Renames(disk, disk', Stage(tx.at), Op.dest) /\ IsDisk(disk')
            /\ At(disk, Op.dest) = None
        <4>1. Renames(disk, disk', Stage(tx.at), Op.dest)
          BY <1>3, <2>3, <2>6, <3>1, RenameMakes
        <4> QED
          BY <3>1, <4>1 DEF Renames, At
      <3>3. /\ Carries(tx, m) /\ Stays(tx, m, "publish") /\ Len(m.ops) = Len(tx.ops)
            /\ Reflags(tx, m, Op.moved, TRUE) /\ m \in Transactions
        BY <1>3, <2>2, <2>6, FlaggedFacts DEF Carries
      <3>4. tx' = FailNow(m)
        BY <2>6
      <3> HIDE DEF m
      <3>5. Carries(m, tx') /\ SameFlags(m, tx') /\ Fails(m, tx')
        BY <3>3, <3>4, FailNowFacts
      <3>6. Carries(tx, tx') /\ Reflags(tx, tx', Op.moved, TRUE) /\ Fails(tx, tx')
        BY <1>3, <2>2, <2>6, <3>3, <3>5, ReflagsThenGoes
      <3>7. PublishStep(tx, disk, tx', disk')
        BY <2>2, <2>6, <3>2, <3>6 DEF PublishStep
      <3> QED
        BY <2>0, <2>1, <3>2, <3>6, <3>7 DEF RunStep, Continues
    <2> QED
      BY <1>4, <2>4, <2>5, <2>6 DEF CommitFails
  <1>5. ASSUME RollbackFails
        PROVE  /\ Continues(tx, tx', disk') /\ RunStep(tx, disk, tx', disk')
               /\ Now(tx).dest \in Homes /\ abandoned' = abandoned \cup {Now(tx).dest}
               /\ tx.phase # "verify"
    <2>1. /\ tx' = GiveUpOn(tx) /\ abandoned' = abandoned \cup {Op.dest}
          /\ \/ tx.phase = "undo" /\ tx.at > 0 /\ Op.published
             \/ tx.phase \in {"displace", "restore"}
      BY <1>5 DEF RollbackFails
    <2>2. tx.at \in 1..Len(tx.ops) /\ Now(tx) = Op /\ tx.ops[tx.at] = Op /\ tx.at > 0
      BY <1>2, <1>3, <2>1, AtWork, RunningFacts
    <2>3. /\ Op.dest \in Names /\ Aside(tx.at) \in Names /\ Displaced(tx.at) \in Names /\ Op.dest \in Homes
          /\ Aside(tx.at) # Op.dest /\ Displaced(tx.at) # Op.dest
      BY <1>3, <2>2, NowFacts
    <2>4. Carries(tx, tx') /\ SameFlags(tx, tx') /\ GivesUp(tx, tx')
      BY <1>3, <2>1, <2>2, BelowFacts
    <2>5. CASE disk' = disk
      BY <1>3, <2>1, <2>2, <2>3, <2>4, <2>5 DEF RunStep, GiveUpStep, GivesUpNow, Continues
    <2>6. CASE /\ tx.phase = "displace" /\ Op.dest \in DOMAIN disk
               /\ disk' = Renamed(disk, Op.dest, Displaced(tx.at))
      <3>1. Renames(disk, disk', Op.dest, Displaced(tx.at)) /\ IsDisk(disk')
        <4>1. Renames(disk, disk', Op.dest, Displaced(tx.at))
          BY <1>3, <2>3, <2>6, RenameMakes
        <4> QED
          BY <4>1 DEF Renames
      <3>2. DisplaceStep(tx, disk, tx', disk')
        BY <2>2, <2>4, <2>6, <3>1 DEF DisplaceStep
      <3> QED
        BY <2>1, <2>2, <2>3, <2>4, <3>1, <3>2 DEF RunStep, Continues
    <2>7. CASE /\ tx.phase = "restore" /\ CanRestore
               /\ disk' = Renamed(disk, Aside(tx.at), Op.dest)
      <3>1. Op.dest \notin DOMAIN disk /\ Aside(tx.at) \in DOMAIN disk /\ disk[Aside(tx.at)] = Op.prior
        BY <2>7 DEF CanRestore, Holds
      <3>2. /\ Renames(disk, disk', Aside(tx.at), Op.dest) /\ IsDisk(disk')
            /\ At(disk, Op.dest) = None /\ At(disk, Aside(tx.at)) = Op.prior
        <4>1. Renames(disk, disk', Aside(tx.at), Op.dest)
          BY <1>3, <2>3, <2>7, <3>1, RenameMakes
        <4> QED
          BY <3>1, <4>1 DEF At, Renames
      <3>3. RestoreStep(tx, disk, tx', disk')
        BY <2>2, <2>4, <2>7, <3>2 DEF RestoreStep
      <3> QED
        BY <2>1, <2>2, <2>3, <2>4, <3>2, <3>3 DEF RunStep, Continues
    <2> QED
      BY <1>5, <2>5, <2>6, <2>7 DEF RollbackFails
  <1>6. ASSUME CleanupFails
        PROVE  /\ Continues(tx, tx', disk') /\ RunStep(tx, disk, tx', disk')
               /\ \/ tx.phase \in {"discard", "finish"}
                  \/ tx.phase = "undo" /\ tx.at = 0
    <2>1. CASE tx.phase = "discard" /\ tx' = GiveUpOn(tx) /\ disk' = disk
      <3>1. Continues(tx, tx', disk') /\ RunStep(tx, disk, tx', disk')
        BY <2>1, GiveUpSteps
      <3> QED
        BY <2>1, <3>1
    <2>2. CASE /\ tx.phase = "undo" /\ tx.at = 0 /\ tx' = Goto("incomplete")
               /\ \E p \in OwnedStages : disk' = Without(disk, OwnedStages \ {p})
      <3>1. PICK p \in OwnedStages : disk' = Without(disk, OwnedStages \ {p})
        BY <2>2
      <3> DEFINE S == OwnedStages \ {p}
      <3>2. Removes(disk, disk', S) /\ IsDisk(disk')
        BY <1>3, <3>1, RemoveMakes
      <3>3. /\ S \in SUBSET StageNames
            /\ \A i \in Nat : Stage(i) \in S => i \in 1..Len(tx.ops) /\ At(disk, Stage(i)) = tx.ops[i].staged
        BY <1>3, OwnedFacts
      <3>4. "incomplete" \in Phases
        BY DEF Phases, Answers
      <3>5. Carries(tx, tx') /\ SameFlags(tx, tx') /\ Stays(tx, tx', "incomplete")
        BY <1>3, <2>2, <3>4, GotoFacts
      <3> HIDE DEF S
      <3>6. CleanStep(tx, disk, tx', disk')
        BY <2>2, <3>2, <3>3, <3>5 DEF CleanStep
      <3> QED
        BY <2>2, <3>2, <3>5, <3>6 DEF RunStep, Continues
    <2>3. CASE tx.phase = "finish" /\ tx' = Goto("unfinished") /\ disk' = disk
      <3>1. "unfinished" \in Phases
        BY DEF Phases, Answers
      <3>2. Carries(tx, tx') /\ SameFlags(tx, tx') /\ Stays(tx, tx', "unfinished")
        BY <1>3, <2>3, <3>1, GotoFacts
      <3>3. tx'.errors = tx.errors
        BY <3>2 DEF Stays
      <3>4. FinishStep(tx, disk, tx', disk')
        BY <2>3, <3>2, <3>3 DEF FinishStep
      <3> QED
        BY <1>3, <2>3, <3>2, <3>4 DEF RunStep, Continues
    <2> QED
      BY <1>6, <2>1, <2>2, <2>3 DEF CleanupFails
  <1>7. CASE CommitFails
    <2>1. abandoned' = abandoned
      BY <1>7 DEF CommitFails
    <2>2. ~Abandons(tx, disk, tx', disk') /\ ~Undoing(tx)
      BY <1>4, <1>7 DEF Abandons, Undoing, Forwards
    <2> QED
      BY <1>1, <1>4, <1>7, <2>1, <2>2
  <1>8. CASE RollbackFails
    BY <1>1, <1>5, <1>8
  <1>9. CASE CleanupFails
    <2>1. abandoned' = abandoned
      BY <1>9 DEF CleanupFails
    <2>2. ~Abandons(tx, disk, tx', disk') /\ ~Undoing(tx) /\ tx.phase # "verify"
      BY <1>6, <1>9 DEF Abandons, Undoing, GiveUpStep, GivesUpNow
    <2> QED
      BY <1>1, <1>6, <1>9, <2>1, <2>2
  <1> QED
    BY <1>7, <1>8, <1>9

\* Left to itself a command gives up only where its file is gone.
LEMMA WorksLeaveNothing ==
  ASSUME TypeInv,
         \/ Take \/ Move \/ Publish \/ VerifyCommitted \/ Finish
         \/ Undo \/ Displace \/ Restore \/ Discard \/ Clean
  PROVE  ~Abandons(tx, disk, tx', disk')
  <1> SUFFICES ASSUME Abandons(tx, disk, tx', disk') PROVE FALSE
    OBVIOUS
  <1>1. /\ tx.phase \in {"undo", "displace"} /\ disk' = disk /\ tx'.phase = "undo"
        /\ tx.phase = "undo" => tx.at > 0 /\ Now(tx).published
        /\ Holds(disk, Now(tx).dest, Now(tx).staged) /\ tx # Idle
    BY IdlePhase DEF Abandons, GiveUpStep, GivesUpNow, GivesUp
  <1>2. Now(tx) = Op /\ tx \in Transactions
    BY <1>1, AtWork
  <1>3. CASE Undo
    <2>1. tx' = Goto("displace")
      BY <1>1, <1>2, <1>3 DEF Undo
    <2>2. tx'.phase = "displace"
      BY <1>2, <2>1 DEF Goto, Transactions
    <2> QED
      BY <1>1, <2>2
  <1>4. CASE Displace
    <2>1. tx' = [Flagged("published", FALSE) EXCEPT !.phase = IF Op.moved THEN "restore" ELSE "discard"]
      BY <1>1, <1>2, <1>4 DEF Displace, Holds
    <2>2. tx'.phase \in {"restore", "discard"}
      BY <1>2, <2>1 DEF Flagged, Transactions
    <2> QED
      BY <1>1, <2>2
  <1>5. CASE Clean
    <2>1. tx.phase = "undo" /\ tx.at = 0
      BY <1>5 DEF Clean
    <2> QED
      BY <1>1, <2>1
  <1> QED
    BY <1>1, <1>3, <1>4, <1>5 DEF Take, Move, Publish, VerifyCommitted, Finish, Restore, Discard

-----------------------------------------------------------------------------
(* A command begins.                                                       *)

Lays(d, e, ops) ==
  /\ IsDisk(e)
  /\ \A p : p \notin StageNames => At(e, p) = At(d, p)
  /\ \A i \in Nat : At(d, Stage(i)) = None =>
       At(e, Stage(i)) = IF i \in 1..Len(ops) THEN ops[i].staged ELSE None

Starts(t, u, ph, req, ops) ==
  /\ u.phase = ph /\ u.req = req /\ u.ops = ops /\ u.at = 1 /\ u.lock = TRUE
  /\ u.errors = FALSE /\ u.before = disk /\ u.touched = {}

LEMMA StartedFacts ==
  ASSUME IsDisk(disk), NEW req \in Requests, NEW ph \in Phases, NEW ops \in Seq(Operations),
         IF ops = <<>> THEN ph \in Answers ELSE ph = "take"
  PROVE  /\ Running1(Started(req, ph, ops))
         /\ Starts(tx, Started(req, ph, ops), ph, req, ops)
  <1> DEFINE u == Started(req, ph, ops)
  <1>1. disk \in Disks
    BY DEF IsDisk, Disks
  <1>2. /\ u \in Transactions /\ u.before = disk /\ Starts(tx, u, ph, req, ops)
    BY <1>1 DEF Started, Transactions, Starts
  <1>3. Len(ops) \in Nat /\ (ops # <<>> => Len(ops) > 0) /\ (ops = <<>> => Len(ops) = 0)
    OBVIOUS
  <1> HIDE DEF u
  <1>4. Placing(u)
    BY <1>2, <1>3 DEF Placing, Starts, Answers, Forwards
  <1> QED
    BY <1>2, <1>4 DEF Running1, u

LEMMA LayingFacts ==
  ASSUME IsDisk(disk), NEW ops \in Seq(Operations), PlanFresh(Inodes, ops), NEW e,
         e = [p \in DOMAIN disk \cup {Stage(i) : i \in {i \in 1..Len(ops) : ops[i].staged # None}} |->
                IF p \in DOMAIN disk THEN disk[p] ELSE ops[p[2]].staged]
  PROVE  Lays(disk, e, ops)
  <1> DEFINE staged == {i \in 1..Len(ops) : ops[i].staged # None}
             laid == {Stage(i) : i \in staged}
  <1>1. /\ DOMAIN e = DOMAIN disk \cup laid
        /\ \A p \in DOMAIN e : e[p] = IF p \in DOMAIN disk THEN disk[p] ELSE ops[p[2]].staged
    OBVIOUS
  <1>2. \A i \in staged : i \in 1..Len(ops) /\ i \in Nat /\ ops[i] \in Operations
                          /\ ops[i].staged \in AllFiles
    <2> SUFFICES ASSUME NEW i \in staged
                 PROVE  i \in 1..Len(ops) /\ i \in Nat /\ ops[i] \in Operations
                        /\ ops[i].staged \in AllFiles
      OBVIOUS
    <2>1. i \in 1..Len(ops) /\ ops[i].staged # None
      OBVIOUS
    <2>2. i \in Nat /\ ops[i] \in Operations
      BY <2>1
    <2> QED
      BY <2>1, <2>2 DEF Operations
  <1>3. IsFiniteSet(laid)
    <2> DEFINE g == [i \in staged |-> Stage(i)]
    <2>1. IsFiniteSet(staged)
      <3>1. IsFiniteSet(1..Len(ops))
        BY FS_Interval
      <3> QED
        BY <3>1, FS_Subset
    <2>2. g \in Surjection(staged, laid)
      BY DEF Surjection
    <2> QED
      BY <2>1, <2>2, FS_Surjection
  <1>4. laid \subseteq StageNames
    BY <1>2 DEF StageNames
  <1>5. \A i \in staged : Stage(i)[2] = i
    BY NamesDiffer
  <1> HIDE DEF laid, staged
  <1>6. ASSUME NEW p \in DOMAIN e, p \notin DOMAIN disk
        PROVE  \E i \in staged : p = Stage(i) /\ e[p] = ops[i].staged
    <2>1. PICK i \in staged : p = Stage(i)
      BY <1>1, <1>6 DEF laid
    <2> QED
      BY <1>1, <1>5, <1>6, <2>1
  <1>7. IsDisk(e)
    <2>1. IsFiniteSet(DOMAIN e)
      BY <1>1, <1>3, FS_Union DEF IsDisk
    <2>2. DOMAIN e \subseteq Names
      BY <1>1, <1>4 DEF IsDisk, Names, ArtifactNames
    <2>3. \A p \in DOMAIN e : e[p] \in AllFiles
      BY <1>1, <1>2, <1>6 DEF IsDisk
    <2>4. e \in [DOMAIN e -> AllFiles]
      BY <2>3
    <2>5. \A p \in DOMAIN disk : disk[p].id \in Inodes
      BY DEF Inodes, Files
    <2>6. \A i \in staged : ops[i].staged.id \notin Inodes
      BY <1>2 DEF PlanFresh, staged
    <2>7. ASSUME NEW p \in DOMAIN e, NEW q \in DOMAIN e, e[p].id = e[q].id PROVE p = q
      <3>1. CASE p \in DOMAIN disk /\ q \in DOMAIN disk
        BY <1>1, <2>7, <3>1 DEF IsDisk
      <3>2. CASE p \in DOMAIN disk /\ q \notin DOMAIN disk
        <4>1. PICK i \in staged : q = Stage(i) /\ e[q] = ops[i].staged
          BY <1>6, <3>2
        <4> QED
          BY <1>1, <2>5, <2>6, <2>7, <3>2, <4>1
      <3>3. CASE p \notin DOMAIN disk /\ q \in DOMAIN disk
        <4>1. PICK i \in staged : p = Stage(i) /\ e[p] = ops[i].staged
          BY <1>6, <3>3
        <4> QED
          BY <1>1, <2>5, <2>6, <2>7, <3>3, <4>1
      <3>4. CASE p \notin DOMAIN disk /\ q \notin DOMAIN disk
        <4>1. PICK i \in staged : p = Stage(i) /\ e[p] = ops[i].staged
          BY <1>6, <3>4
        <4>2. PICK j \in staged : q = Stage(j) /\ e[q] = ops[j].staged
          BY <1>6, <3>4
        <4>3. i = j
          BY <1>2, <2>7, <4>1, <4>2 DEF PlanFresh, staged
        <4> QED
          BY <4>1, <4>2, <4>3
      <3> QED
        BY <3>1, <3>2, <3>3, <3>4
    <2> QED
      BY <2>1, <2>2, <2>4, <2>7 DEF IsDisk
  <1>8. ASSUME NEW p, p \notin StageNames PROVE At(e, p) = At(disk, p)
    BY <1>1, <1>4, <1>8 DEF At
  <1>9. ASSUME NEW i \in Nat, At(disk, Stage(i)) = None
        PROVE  At(e, Stage(i)) = IF i \in 1..Len(ops) THEN ops[i].staged ELSE None
    <2>1. Stage(i) \notin DOMAIN disk
      BY <1>9, AtFacts
    <2>2. CASE i \in staged
      <3>1. Stage(i) \in DOMAIN e
        BY <1>1, <2>2 DEF laid
      <3> QED
        BY <1>1, <1>2, <1>5, <2>1, <2>2, <3>1 DEF At
    <2>3. CASE i \notin staged
      <3>1. Stage(i) \notin laid
        <4>1. \A j \in staged : Stage(i) = Stage(j) => i = j
          BY NameFacts
        <4> QED
          BY <2>3, <4>1 DEF laid
      <3> QED
        BY <1>1, <2>1, <2>3, <3>1 DEF At, staged
    <2> QED
      BY <2>2, <2>3
  <1> QED
    BY <1>7, <1>8, <1>9 DEF Lays

LEMMA InodesAreFinite ==
  ASSUME TypeInv
  PROVE  IsFiniteSet(Inodes) /\ IsFiniteSet(Files(disk) \cup left)
  <1>1. IsFiniteSet(Files(disk) \cup left)
    BY FilesFinite, FS_Union DEF TypeInv
  <1> QED
    BY <1>1, InodesFinite DEF Inodes

LEMMA BeginSteps ==
  ASSUME TypeInv, NEW req \in Requests, Begin(req)
  PROVE  /\ tx = Idle /\ Running1(tx')
         /\ \/ /\ Planned(req) = <<>> /\ disk' = disk
               /\ Starts(tx, tx', "ok", req, <<>>)
            \/ /\ IsPlan(disk, Inodes, Planned(req)) /\ Planned(req) # <<>>
               /\ Planned(req) \in Seq(Operations)
               /\ Plannable(req)
               /\ Starts(tx, tx', "take", req, Planned(req))
               /\ Lays(disk, disk', Planned(req))
         /\ work' = work + 1 /\ work < MaxWork /\ left' = left /\ history' = history
  <1> DEFINE ops == Planned(req)
  <1>1. /\ tx = Idle /\ work < MaxWork /\ Plannable(req)
        /\ tx' = Started(req, IF ops = <<>> THEN "ok" ELSE "take", ops)
        /\ disk' = [p \in DOMAIN disk \cup {Stage(i) : i \in {i \in 1..Len(ops) : ops[i].staged # None}} |->
                     IF p \in DOMAIN disk THEN disk[p] ELSE ops[p[2]].staged]
        /\ work' = work + 1 /\ left' = left /\ history' = history
    BY DEF Begin
  <1>2. IsDisk(disk) /\ IsFiniteSet(Inodes)
    BY InodesAreFinite DEF TypeInv
  <1>3. IsPlan(disk, Inodes, ops) \/ ops = <<>>
    BY <1>1, <1>2, PlannedIsPlan
  <1>4. ops \in Seq(Operations)
    <2>1. IsPlan(disk, Inodes, ops) => PlanTyped(ops)
      BY DEF IsPlan
    <2>2. PlanTyped(ops) => ops \in Seq(Operations)
      BY DEF PlanTyped
    <2>3. <<>> \in Seq(Operations)
      OBVIOUS
    <2> QED
      BY <1>3, <2>1, <2>2, <2>3, Zenon
  <1>5. "ok" \in Phases /\ "take" \in Phases /\ "ok" \in Answers
    BY DEF Phases, Forwards, Answers
  <1> HIDE DEF ops
  <1>6. CASE ops = <<>>
    <2>1. Len(ops) = 0 /\ 1..0 = {}
      BY <1>6
    <2>2. DOMAIN disk \cup {Stage(i) : i \in {i \in 1..Len(ops) : ops[i].staged # None}} = DOMAIN disk
      BY <2>1
    <2>3. disk' = disk
      BY <1>1, <1>2, <2>2 DEF IsDisk
    <2>4. Running1(tx') /\ Starts(tx, tx', "ok", req, <<>>)
      BY <1>1, <1>2, <1>4, <1>5, <1>6, StartedFacts
    <2> QED
      BY <1>1, <1>6, <2>3, <2>4 DEF ops
  <1>7. CASE ops # <<>>
    <2>1. Running1(tx') /\ Starts(tx, tx', "take", req, ops)
      BY <1>1, <1>2, <1>4, <1>5, <1>7, StartedFacts
    <2>2. PlanFresh(Inodes, ops)
      BY <1>3, <1>7 DEF IsPlan
    <2>3. Lays(disk, disk', ops)
      BY <1>1, <1>2, <1>4, <2>2, LayingFacts
    <2> QED
      BY <1>1, <1>3, <1>4, <1>7, <2>1, <2>3 DEF ops
  <1> QED
    BY <1>6, <1>7

LEMMA RefuseSteps ==
  ASSUME TypeInv, NEW req \in Requests, Refuse(req) \/ StagingFails(req)
  PROVE  /\ tx = Idle /\ Running1(tx') /\ disk' = disk
         /\ \/ Starts(tx, tx', "refused", req, <<>>)
            \/ Starts(tx, tx', "failed", req, <<>>)
         /\ left' = left /\ version' = version /\ adopted' = adopted /\ spoilt' = spoilt
         /\ synced' = synced /\ abandoned' = abandoned
         /\ \/ work' = work + 1 /\ work < MaxWork /\ faults' = faults
            \/ work' = work + 1 + FaultCost /\ work + 1 + FaultCost <= MaxWork /\ faults' = faults + 1
  <1>1. "refused" \in Phases /\ "failed" \in Phases /\ "refused" \in Answers /\ "failed" \in Answers
    BY DEF Phases, Answers
  <1>2. <<>> \in Seq(Operations) /\ IsDisk(disk)
    BY DEF TypeInv
  <1>3. CASE Refuse(req)
    BY <1>1, <1>2, <1>3, StartedFacts DEF Refuse, history
  <1>4. CASE StagingFails(req)
    BY <1>1, <1>2, <1>4, StartedFacts DEF StagingFails
  <1> QED
    BY <1>3, <1>4

-----------------------------------------------------------------------------
(* A command is over.                                                      *)

Departs(d, e, lf, mf) ==
  /\ IsDisk(e)
  /\ \A p \in Homes : At(e, p) = At(d, p)
  /\ \A p \in ArtifactNames : At(e, p) = None
  /\ \A p \in ArtifactNames : At(d, p) # None => At(d, p) \in mf
  /\ lf \subseteq mf /\ IsFiniteSet(mf) /\ mf \subseteq AllFiles
  /\ \A f \in mf : f \in lf \/ \E p \in ArtifactNames : At(d, p) = f /\ f # None

LEMMA DepartFacts ==
  ASSUME TypeInv, Depart
  PROVE  /\ tx' = Idle /\ Departs(disk, disk', left, left')
         /\ adopted' = IF Recorded THEN adopted \cup NewlyAdopted ELSE adopted
  <1>1. /\ tx' = Idle
        /\ left' = left \cup {disk[p] : p \in Artifacts(disk)}
        /\ disk' = Without(disk, Artifacts(disk))
        /\ adopted' = IF Recorded THEN adopted \cup NewlyAdopted ELSE adopted
    BY DEF Depart
  <1>2. IsDisk(disk) /\ IsFiniteSet(left) /\ left \subseteq AllFiles
    BY DEF TypeInv
  <1>3. /\ IsDisk(disk')
        /\ \A p : At(disk', p) = IF p \in Artifacts(disk) THEN None ELSE At(disk, p)
    <2> DEFINE A == Artifacts(disk)
    <2> HIDE DEF A
    <2>1. IsDisk(Without(disk, A)) /\ \A p : At(Without(disk, A), p) = IF p \in A THEN None ELSE At(disk, p)
      BY <1>2, WithoutFacts
    <2>2. disk' = Without(disk, A)
      BY <1>1 DEF A
    <2> QED
      BY <2>1, <2>2 DEF A
  <1>4. \A p : p \in Artifacts(disk) <=> p \in DOMAIN disk /\ IsArtifact(p)
    BY DEF Artifacts
  <1>5. \A p \in Homes : At(disk', p) = At(disk, p)
    BY <1>3, <1>4, NameFacts
  <1>6. ASSUME NEW p \in ArtifactNames
        PROVE  At(disk', p) = None /\ (At(disk, p) # None => At(disk, p) \in left')
    <2>1. IsArtifact(p)
      BY NameFacts
    <2> QED
      BY <1>1, <1>3, <1>4, <2>1 DEF At
  <1>7. Artifacts(disk) \subseteq ArtifactNames
    <2>1. \A p \in Names : IsArtifact(p) => p \in ArtifactNames
      BY NameFacts DEF Names
    <2> QED
      BY <1>2, <1>4, <2>1 DEF IsDisk
  <1> DEFINE F == {disk[p] : p \in Artifacts(disk)}
  <1>8. IsFiniteSet(F) /\ F \subseteq AllFiles
    <2> DEFINE g == [p \in Artifacts(disk) |-> disk[p]]
    <2>1. g \in Surjection(Artifacts(disk), F)
      BY DEF Surjection
    <2>2. IsFiniteSet(Artifacts(disk))
      BY <1>2, FS_Subset DEF IsDisk, Artifacts
    <2>3. F \subseteq AllFiles
      BY <1>2 DEF IsDisk, Artifacts
    <2> QED
      BY <2>1, <2>2, <2>3, FS_Surjection
  <1>9. \A f \in F : \E p \in ArtifactNames : At(disk, p) = f /\ f # None
    BY <1>2, <1>4, <1>7, <1>8, FileFacts DEF At
  <1>10. IsFiniteSet(left') /\ left' \subseteq AllFiles /\ left \subseteq left'
    BY <1>1, <1>2, <1>8, FS_Union
  <1>11. \A f \in left' : f \in left \/ \E p \in ArtifactNames : At(disk, p) = f /\ f # None
    BY <1>1, <1>9
  <1> QED
    BY <1>1, <1>3, <1>5, <1>6, <1>10, <1>11 DEF Departs

-----------------------------------------------------------------------------
(* Other programs write.                                                   *)

Touches(t, u, p) ==
  IF t = Idle THEN u = Idle
  ELSE /\ Running1(u)
       /\ u.phase = t.phase /\ u.req = t.req /\ u.ops = t.ops /\ u.at = t.at /\ u.lock = t.lock
       /\ u.errors = t.errors /\ u.before = t.before /\ u.touched = t.touched \cup {p}

LEMMA TouchedFacts ==
  ASSUME TypeInv, NEW p \in Names
  PROVE  Touches(tx, Touched(p), p)
  <1>1. CASE tx = Idle
    BY <1>1 DEF Touched, Touches
  <1>2. CASE tx # Idle
    <2> DEFINE u == Touched(p)
    <2>1. u = [tx EXCEPT !.touched = @ \cup {p}]
      BY <1>2 DEF Touched
    <2>2. tx \in Transactions /\ Placing(tx) /\ IsDisk(tx.before)
      BY <1>2 DEF TypeInv, Running1
    <2>3. /\ u.phase = tx.phase /\ u.req = tx.req /\ u.ops = tx.ops /\ u.at = tx.at
          /\ u.lock = tx.lock /\ u.errors = tx.errors /\ u.before = tx.before
          /\ u.touched = tx.touched \cup {p} /\ u \in Transactions
      BY <2>1, <2>2 DEF Transactions
    <2> HIDE DEF u
    <2>4. Running1(u)
      BY <2>2, <2>3 DEF Running1, Placing
    <2> QED
      BY <1>2, <2>3, <2>4 DEF Touches, u
  <1> QED
    BY <1>1, <1>2

\* The ways of writing, all but those of configurations alike.
Edits(d, e, c, f, vs, ws) ==
  /\ IsDisk(e)
  /\ f \in ConfigFiles /\ f.id \notin Inodes /\ f.bytes.rest = faults + 1
  /\ \A q : At(e, q) = IF q = Config(c) THEN f ELSE At(d, q)
  /\ ws \in [Clients -> ConfigBytes]
  /\ ws[c] = f.bytes /\ \A x \in Clients : x # c => ws[x] = vs[x]

Ruins(d, e, p) ==
  /\ IsDisk(e) /\ p \in Names /\ At(d, p) # None
  /\ \A q : q # p => At(e, q) = At(d, q)
  /\ \/ At(e, p) = None
     \/ p \notin ConfigNames /\ At(e, p) \in AllFiles /\ At(e, p).bytes \in OtherBytes

LEMMA EditSteps ==
  ASSUME TypeInv, NEW c \in Clients, Edit(c)
  PROVE  /\ \E f : Edits(disk, disk', c, f, version, version')
         /\ Touches(tx, tx', Config(c))
         /\ spoilt \subseteq spoilt'
         /\ At(disk, Config(c)) # None => At(disk, Config(c)) \in spoilt'
         /\ Fault /\ left' = left /\ adopted' = adopted /\ synced' = synced /\ abandoned' = abandoned
  <1> DEFINE there == Config(c) \in DOMAIN disk
             old == IF there /\ Parses(disk[Config(c)].bytes) THEN disk[Config(c)].bytes ELSE Original
             tag == faults + 1
             Changes1 == {{}} \cup {{s} : s \in {s \in Scopes : old.entry[s] # NoEntry}}
  <1>1. PICK changed \in Changes1 :
          LET new == [rest |-> tag,
                      entry |-> [s \in Scopes |-> IF s \in changed
                                                  THEN [old.entry[s] EXCEPT !.env = tag]
                                                  ELSE old.entry[s]]]
          IN /\ disk' = With(disk, Config(c), [id |-> FreshInode(Inodes, 1), bytes |-> new])
             /\ version' = [version EXCEPT ![c] = new]
             /\ spoilt' = IF there THEN spoilt \cup {disk[Config(c)]} ELSE spoilt
    BY DEF Edit
  <1> DEFINE new == [rest |-> tag,
                     entry |-> [s \in Scopes |-> IF s \in changed
                                                 THEN [old.entry[s] EXCEPT !.env = tag]
                                                 ELSE old.entry[s]]]
             f == [id |-> FreshInode(Inodes, 1), bytes |-> new]
  <1>2. /\ disk' = With(disk, Config(c), f)
        /\ version' = [version EXCEPT ![c] = new]
        /\ spoilt' = IF there THEN spoilt \cup {disk[Config(c)]} ELSE spoilt
    BY <1>1
  <1>3. /\ Fault /\ left' = left /\ adopted' = adopted /\ synced' = synced /\ abandoned' = abandoned
        /\ tx' = Touched(Config(c))
    BY DEF Edit
  <1>4. IsDisk(disk) /\ version \in [Clients -> ConfigBytes] /\ tag \in Nat
    BY SwapBoundsAssumption DEF TypeInv
  <1>5. old \in ConfigBytes
    <2>1. Original \in ConfigBytes
      BY DEF Original, ConfigBytes, ServerEntries, NoEntry
    <2>2. there => disk[Config(c)].bytes \in AllBytes
      BY <1>4, AtFacts, FileFacts
    <2> QED
      BY <2>1, <2>2, LedgerTypes
  <1>6. new \in ConfigBytes /\ new.rest = tag
    <2>1. old.entry \in [Scopes -> ServerEntries]
      BY <1>5 DEF ConfigBytes
    <2> HIDE DEF old, tag
    <2>2. \A s \in Scopes : [old.entry[s] EXCEPT !.env = tag] \in ServerEntries
      BY <1>4, <2>1 DEF ServerEntries
    <2> QED
      BY <1>4, <2>1, <2>2 DEF ConfigBytes
  <1> HIDE DEF new
  <1>7. FreshInode(Inodes, 1) \in Nat \ {0} /\ FreshInode(Inodes, 1) \notin Inodes
    BY InodesAreFinite, FreshInodeFacts
  <1>8. f \in ConfigFiles /\ f.id \notin Inodes /\ f.bytes = new /\ f \in AllFiles
    BY <1>6, <1>7, FileFacts DEF ConfigFiles
  <1>9. Config(c) \in Names
    BY NameFacts DEF Names
  <1>10. \A q \in DOMAIN disk : disk[q].id \in Inodes
    BY DEF Inodes, Files
  <1> HIDE DEF f
  <1>11. IsDisk(disk') /\ \A q : At(disk', q) = IF q = Config(c) THEN f ELSE At(disk, q)
    <2>1. /\ IsDisk(With(disk, Config(c), f))
          /\ \A q : At(With(disk, Config(c), f), q) = IF q = Config(c) THEN f ELSE At(disk, q)
      <3> DEFINE x == Config(c)
      <3>1. x \in Names /\ \A q \in DOMAIN disk : disk[q].id = f.id => q = x
        BY <1>8, <1>9, <1>10
      <3> HIDE DEF x
      <3>2. /\ IsDisk(With(disk, x, f))
            /\ \A q : At(With(disk, x, f), q) = IF q = x THEN f ELSE At(disk, q)
        BY <1>4, <1>8, <3>1, WithFacts
      <3> QED
        BY <3>2 DEF x
    <2> QED
      BY <1>2, <2>1
  <1>12. /\ version' \in [Clients -> ConfigBytes] /\ version'[c] = new
         /\ \A x \in Clients : x # c => version'[x] = version[x]
    BY <1>2, <1>4, <1>6
  <1>13. Edits(disk, disk', c, f, version, version')
    BY <1>6, <1>8, <1>11, <1>12 DEF Edits
  <1>14. At(disk, Config(c)) # None => At(disk, Config(c)) \in spoilt'
    BY <1>2 DEF At
  <1>15. Touches(tx, tx', Config(c))
    BY <1>3, <1>9, TouchedFacts
  <1> QED
    BY <1>2, <1>3, <1>13, <1>14, <1>15

LEMMA RuinSteps ==
  ASSUME TypeInv, NEW p \in DOMAIN disk, Delete(p) \/ Replace(p)
  PROVE  /\ Ruins(disk, disk', p)
         /\ Touches(tx, tx', p)
         /\ spoilt \subseteq spoilt' /\ At(disk, p) \in spoilt'
         /\ Fault /\ left' = left /\ adopted' = adopted /\ synced' = synced /\ abandoned' = abandoned /\ version' = version
  <1>1. IsDisk(disk) /\ p \in Names /\ faults + 1 \in Nat
    BY SwapBoundsAssumption DEF TypeInv, IsDisk
  <1>2. disk[p] = At(disk, p) /\ At(disk, p) # None
    BY <1>1, AtFacts
  <1>3. CASE Delete(p)
    <2>1. disk' = Without(disk, {p}) /\ tx' = Touched(p) /\ spoilt' = spoilt \cup {disk[p]}
          /\ Fault /\ left' = left /\ adopted' = adopted /\ synced' = synced /\ abandoned' = abandoned /\ version' = version
      BY <1>3 DEF Delete
    <2>2. IsDisk(disk') /\ \A q : At(disk', q) = IF q \in {p} THEN None ELSE At(disk, q)
      <3>1. /\ IsDisk(Without(disk, {p}))
            /\ \A q : At(Without(disk, {p}), q) = IF q \in {p} THEN None ELSE At(disk, q)
        BY <1>1, WithoutFacts
      <3> QED
        BY <2>1, <3>1
    <2> QED
      BY <1>1, <1>2, <2>1, <2>2, TouchedFacts DEF Ruins
  <1>4. CASE Replace(p)
    <2> DEFINE f == [id |-> FreshInode(Inodes, 1), bytes |-> [other |-> faults + 1]]
    <2>1. /\ disk' = With(disk, p, f)
          /\ tx' = Touched(p) /\ spoilt' = spoilt \cup {disk[p]} /\ p[1] # "config"
          /\ Fault /\ left' = left /\ adopted' = adopted /\ synced' = synced /\ abandoned' = abandoned /\ version' = version
      BY <1>4 DEF Replace
    <2>2. FreshInode(Inodes, 1) \in Nat \ {0} /\ FreshInode(Inodes, 1) \notin Inodes
      BY InodesAreFinite, FreshInodeFacts
    <2>3. [other |-> faults + 1] \in OtherBytes
      BY <1>1 DEF OtherBytes
    <2>4. f \in AllFiles /\ f.bytes \in OtherBytes /\ f.id \notin Inodes
      BY <2>2, <2>3 DEF AllFiles, AllBytes
    <2>5. \A q \in DOMAIN disk : disk[q].id \in Inodes
      BY DEF Inodes, Files
    <2> HIDE DEF f
    <2>6. IsDisk(disk') /\ \A q : At(disk', q) = IF q = p THEN f ELSE At(disk, q)
      <3>1. /\ IsDisk(With(disk, p, f))
            /\ \A q : At(With(disk, p, f), q) = IF q = p THEN f ELSE At(disk, q)
        <4>1. \A q \in DOMAIN disk : disk[q].id = f.id => q = p
          BY <2>4, <2>5
        <4> QED
          BY <1>1, <2>4, <4>1, WithFacts
      <3> QED
        BY <2>1, <3>1
    <2>7. p \notin ConfigNames
      BY <2>1, NamesDiffer DEF ConfigNames
    <2> QED
      BY <1>1, <1>2, <2>1, <2>4, <2>6, <2>7, TouchedFacts DEF Ruins
  <1> QED
    BY <1>3, <1>4

LEMMA LockSteps ==
  ASSUME TypeInv, ReplaceLock
  PROVE  /\ tx # Idle /\ Running1(tx')
         /\ tx'.phase = tx.phase /\ tx'.req = tx.req /\ tx'.ops = tx.ops /\ tx'.at = tx.at
         /\ tx'.errors = tx.errors /\ tx'.before = tx.before /\ tx'.touched = tx.touched
         /\ disk' = disk /\ left' = left /\ version' = version /\ adopted' = adopted
         /\ spoilt' = spoilt /\ synced' = synced /\ abandoned' = abandoned /\ Fault
  <1>1. tx # Idle
    BY IdlePhase DEF ReplaceLock, Running
  <1>2. tx \in Transactions /\ Placing(tx) /\ IsDisk(tx.before)
    BY <1>1 DEF TypeInv, Running1
  <1>3. tx' = [tx EXCEPT !.lock = FALSE]
    BY DEF ReplaceLock
  <1>4. /\ tx'.phase = tx.phase /\ tx'.req = tx.req /\ tx'.ops = tx.ops /\ tx'.at = tx.at
        /\ tx'.errors = tx.errors /\ tx'.before = tx.before /\ tx'.touched = tx.touched
        /\ tx' \in Transactions
    BY <1>2, <1>3 DEF Transactions
  <1>5. Running1(tx')
    BY <1>2, <1>4 DEF Running1, Placing
  <1> QED
    BY <1>1, <1>4, <1>5 DEF ReplaceLock

-----------------------------------------------------------------------------
(* Typing.                                                                 *)

LEMMA InitTypes ==
  ASSUME Init
  PROVE  TypeInv /\ DOMAIN disk = ConfigNames
  <1> DEFINE n == Cardinality(Clients)
             num(p) == CHOOSE i \in 1..n : SetToSeq(Clients)[i] = p[2]
  <1>1. /\ disk = [p \in {Config(c) : c \in Clients} |-> [id |-> num(p), bytes |-> Original]]
        /\ left = {} /\ tx = Idle /\ work = 0 /\ version = [c \in Clients |-> Original]
        /\ adopted = {} /\ spoilt = {} /\ faults = 0 /\ synced = TRUE /\ abandoned = {}
    BY DEF Init
  <1>2. IsFiniteSet(Clients) /\ n \in Nat
    BY KeysFinite, FS_CardinalityType
  <1>3. Original \in ConfigBytes
    BY DEF Original, ConfigBytes, ServerEntries, NoEntry
  <1>4. ASSUME NEW c \in Clients
        PROVE  num(Config(c)) \in 1..n /\ SetToSeq(Clients)[num(Config(c))] = c
    <2>1. \E i \in 1..n : SetToSeq(Clients)[i] = c
      BY <1>2, SetToSeqFacts
    <2>2. Config(c)[2] = c
      BY NamesDiffer
    <2> QED
      BY <2>1, <2>2
  <1> HIDE DEF num
  <1>5. DOMAIN disk = ConfigNames
    BY <1>1 DEF ConfigNames
  <1>6. \A c \in Clients : disk[Config(c)] = [id |-> num(Config(c)), bytes |-> Original]
    BY <1>1
  <1>7. IsFiniteSet(ConfigNames)
    <2> DEFINE g == [c \in Clients |-> Config(c)]
    <2>1. g \in Surjection(Clients, ConfigNames)
      BY DEF Surjection, ConfigNames
    <2> QED
      BY <1>2, <2>1, FS_Surjection
  <1>8. ASSUME NEW p \in DOMAIN disk PROVE disk[p] \in AllFiles
    <2>1. PICK c \in Clients : p = Config(c)
      BY <1>5 DEF ConfigNames
    <2>2. num(Config(c)) \in Nat \ {0}
      BY <1>2, <1>4
    <2>3. disk[p] = [id |-> num(Config(c)), bytes |-> Original]
      BY <1>6, <2>1
    <2>4. Original \in AllBytes
      BY <1>3 DEF AllBytes
    <2> QED
      BY <2>2, <2>3, <2>4 DEF AllFiles
  <1>9. ASSUME NEW p \in DOMAIN disk, NEW q \in DOMAIN disk, disk[p].id = disk[q].id PROVE p = q
    <2>1. PICK c \in Clients : p = Config(c)
      BY <1>5 DEF ConfigNames
    <2>2. PICK e \in Clients : q = Config(e)
      BY <1>5 DEF ConfigNames
    <2>3. num(Config(c)) = num(Config(e))
      <3>1. disk[p] = [id |-> num(Config(c)), bytes |-> Original]
        BY <1>6, <2>1
      <3>2. disk[q] = [id |-> num(Config(e)), bytes |-> Original]
        BY <1>6, <2>2
      <3>3. disk[p].id = num(Config(c)) /\ disk[q].id = num(Config(e))
        BY <3>1, <3>2
      <3> QED
        BY <1>9, <3>3
    <2> QED
      BY <1>4, <2>1, <2>2, <2>3
  <1>10. IsDisk(disk)
    <2>1. ConfigNames \subseteq Names
      BY DEF Names, Homes
    <2>2. disk \in [DOMAIN disk -> AllFiles]
      BY <1>1, <1>8
    <2> QED
      BY <1>5, <1>7, <1>9, <2>1, <2>2 DEF IsDisk
  <1>11. /\ IsFiniteSet(left) /\ left \subseteq AllFiles
         /\ work \in 0..MaxWork /\ faults \in 0..work /\ synced \in BOOLEAN
         /\ adopted \subseteq Clients /\ version \in [Clients -> ConfigBytes] /\ abandoned \subseteq Homes
    BY <1>1, <1>3, FS_EmptySet, SwapBoundsAssumption
  <1> QED
    BY <1>1, <1>5, <1>10, <1>11 DEF TypeInv

LEMMA PlacingGoesOn ==
  ASSUME NEW t, Running1(t), NEW d, NEW u, NEW e, Continues(t, u, e),
         RunStep(t, d, u, e) \/ UnseenStep(t, d, u, e)
  PROVE  Running1(u)
  <1>1. /\ u \in Transactions /\ u.before = t.before /\ Len(u.ops) = Len(t.ops)
        /\ IsDisk(t.before) /\ Placing(t) /\ Len(t.ops) \in Nat /\ t.at \in Nat
    BY RunningFacts DEF Continues, Carries, SameOps, Running1
  <1> DEFINE n == Len(t.ops)
  <1>2. Placing(u)
    <2> USE DEF Placing, Forwards, Answers
    <2>1. CASE TakeStep(t, d, u, e)
      BY <1>1, <2>1 DEF TakeStep, Stays
    <2>2. CASE StopStep(t, d, u, e)
      BY <1>1, <2>2 DEF StopStep, Fails
    <2>3. CASE MoveStep(t, d, u, e)
      BY <1>1, <2>3 DEF MoveStep, Fails, Proceeds, Stays
    <2>4. CASE PublishStep(t, d, u, e)
      BY <1>1, <2>4 DEF PublishStep, Fails, Proceeds
    <2>5. CASE VerifyStep(t, d, u, e)
      BY <1>1, <2>5 DEF VerifyStep
    <2>6. CASE FinishStep(t, d, u, e)
      BY <1>1, <2>6 DEF FinishStep, Stays
    <2>7. CASE UndoStep(t, d, u, e)
      BY <1>1, <2>7 DEF UndoStep, Stays, GivesUp, Descends
    <2>8. CASE DisplaceStep(t, d, u, e)
      <3>1. t.at \in 1..n
        BY <1>1, <2>8 DEF DisplaceStep
      <3>2. \/ u.phase \in {"restore", "discard"} /\ u.at = t.at
            \/ u.phase = "undo" /\ u.at = t.at - 1
        BY <2>8 DEF DisplaceStep, Stays, GivesUp
      <3> QED
        BY <1>1, <3>1, <3>2
    <2>9. CASE RestoreStep(t, d, u, e)
      <3>1. t.at \in 1..n
        BY <1>1, <2>9 DEF RestoreStep
      <3>2. \/ u.phase = "discard" /\ u.at = t.at
            \/ u.phase = "undo" /\ u.at = t.at - 1
        BY <2>9 DEF RestoreStep, Stays, GivesUp, Descends
      <3> QED
        BY <1>1, <3>1, <3>2
    <2>10. CASE DiscardStep(t, d, u, e)
      BY <1>1, <2>10 DEF DiscardStep, Descends
    <2>11. CASE GiveUpStep(t, d, u, e)
      BY <1>1, <2>11 DEF GiveUpStep, GivesUpNow, GivesUp
    <2>12. CASE CleanStep(t, d, u, e)
      BY <1>1, <2>12 DEF CleanStep, Stays
    <2>13. CASE MoveUnseen(t, d, u, e)
      BY <1>1, <2>13 DEF MoveUnseen, Fails
    <2>14. CASE PublishUnseen(t, d, u, e)
      BY <1>1, <2>14 DEF PublishUnseen, Fails
    <2> QED
      BY <2>1, <2>2, <2>3, <2>4, <2>5, <2>6, <2>7, <2>8, <2>9, <2>10, <2>11, <2>12, <2>13, <2>14
         DEF RunStep, UnseenStep
  <1> QED
    BY <1>1, <1>2 DEF Running1

\* What a command does by itself.
Works == \/ Take \/ Move \/ Publish \/ VerifyCommitted \/ Finish
         \/ Undo \/ Displace \/ Restore \/ Discard \/ Clean

LEMMA WorkSteps ==
  ASSUME TypeInv, Works
  PROVE  /\ tx # Idle /\ Running1(tx) /\ Running1(tx') /\ IsDisk(disk) /\ IsDisk(disk')
         /\ Carries(tx, tx') /\ RunStep(tx, disk, tx', disk')
         /\ left' = left /\ work' = work /\ version' = version /\ spoilt' = spoilt
         /\ faults' = faults /\ synced' = synced /\ abandoned' = abandoned
         /\ adopted' = adopted \/ VerifyCommitted
         /\ ~Abandons(tx, disk, tx', disk')
  <1>0. ~Abandons(tx, disk, tx', disk')
    BY WorksLeaveNothing DEF Works
  <1>1. tx # Idle
    BY IdlePhase DEF Works, Take, Move, Publish, VerifyCommitted, Finish, Undo, Displace, Restore,
                     Discard, Clean
  <1>2. Running1(tx) /\ IsDisk(disk)
    BY <1>1 DEF TypeInv
  <1>3. CASE VerifyCommitted
    <2>1. Continues(tx, tx', disk') /\ RunStep(tx, disk, tx', disk')
      BY <1>3, VerifySteps
    <2>2. Running1(tx') /\ Carries(tx, tx') /\ IsDisk(disk')
      BY <1>2, <2>1, PlacingGoesOn DEF Continues
    <2> QED
      BY <1>0, <1>1, <1>2, <1>3, <2>1, <2>2, VerifySteps
  <1>4. CASE \/ Take \/ Move \/ Publish \/ Finish
             \/ Undo \/ Displace \/ Restore \/ Discard \/ Clean
    <2>1. Continues(tx, tx', disk') /\ RunStep(tx, disk, tx', disk') /\ Quiet
      BY <1>4, TakeSteps, MoveSteps, PublishSteps, FinishSteps, UndoSteps, DisplaceSteps,
         RestoreSteps, DiscardSteps, CleanSteps
    <2>2. Running1(tx') /\ Carries(tx, tx') /\ IsDisk(disk')
      BY <1>2, <2>1, PlacingGoesOn DEF Continues
    <2> QED
      BY <1>0, <1>1, <1>2, <2>1, <2>2 DEF Quiet, history
  <1> QED
    BY <1>3, <1>4 DEF Works

\* What a command does where a call of the file system fails.
Errs == CommitFails \/ RollbackFails \/ CleanupFails

LEMMA ErrsSteps ==
  ASSUME TypeInv, Errs
  PROVE  /\ tx # Idle /\ Running1(tx) /\ Running1(tx') /\ IsDisk(disk) /\ IsDisk(disk')
         /\ Carries(tx, tx') /\ RunStep(tx, disk, tx', disk')
         /\ left' = left /\ version' = version /\ adopted' = adopted /\ spoilt' = spoilt
         /\ synced' = synced /\ Fault
         /\ abandoned \subseteq abandoned' /\ abandoned' \subseteq abandoned \cup Homes
         /\ Undoing(tx) => Now(tx).dest \in abandoned'
         /\ Abandons(tx, disk, tx', disk') => Now(tx).dest \in abandoned'
         /\ tx.phase = "verify" => tx'.phase = "undo"
  <1>1. tx # Idle
    BY IdlePhase DEF Errs, CommitFails, RollbackFails, CleanupFails
  <1>2. Running1(tx) /\ IsDisk(disk)
    BY <1>1 DEF TypeInv
  <1>3. Continues(tx, tx', disk') /\ RunStep(tx, disk, tx', disk')
    BY ErrorSteps DEF Errs
  <1>4. Running1(tx') /\ Carries(tx, tx') /\ IsDisk(disk')
    BY <1>2, <1>3, PlacingGoesOn DEF Continues
  <1> QED
    BY <1>1, <1>2, <1>3, <1>4, ErrorSteps DEF Errs

LEMMA UnseenSteps ==
  ASSUME TypeInv, SyncFails
  PROVE  /\ tx # Idle /\ Running1(tx) /\ Running1(tx') /\ IsDisk(disk) /\ IsDisk(disk')
         /\ Carries(tx, tx') /\ UnseenStep(tx, disk, tx', disk')
         /\ left' = left /\ version' = version /\ adopted' = adopted /\ spoilt' = spoilt
         /\ synced' = FALSE /\ abandoned' = abandoned /\ Fault
  <1>1. tx # Idle
    BY IdlePhase DEF SyncFails
  <1>2. Running1(tx) /\ IsDisk(disk)
    BY <1>1 DEF TypeInv
  <1>3. Continues(tx, tx', disk') /\ UnseenStep(tx, disk, tx', disk')
    BY SyncSteps
  <1>4. Running1(tx') /\ Carries(tx, tx') /\ IsDisk(disk')
    BY <1>2, <1>3, PlacingGoesOn DEF Continues
  <1> QED
    BY <1>1, <1>2, <1>3, <1>4, SyncSteps

LEMMA NewlyAdoptedTypes ==
  ASSUME TypeInv, tx # Idle
  PROVE  NewlyAdopted \subseteq Clients
  <1>1. tx.req \in Requests
    BY DEF TypeInv, Running1, Transactions
  <1>2. tx.req.clients \in Seq(Clients)
    BY <1>1, RequestFacts DEF IsSelection
  <1> QED
    BY <1>2 DEF NewlyAdopted, ToSet

LEMMA FaultTypes ==
  ASSUME TypeInv, Fault
  PROVE  work' \in 0..MaxWork /\ faults' \in 0..work'
  BY SwapBoundsAssumption DEF TypeInv, Fault

LEMMA DepartTypes ==
  ASSUME TypeInv, Depart, tx # Idle
  PROVE  /\ IsDisk(disk') /\ IsFiniteSet(left') /\ left' \subseteq AllFiles
         /\ adopted' \subseteq Clients /\ tx' = Idle
  <1>1. Departs(disk, disk', left, left') /\ tx' = Idle
        /\ adopted' = IF Recorded THEN adopted \cup NewlyAdopted ELSE adopted
    BY DepartFacts
  <1>2. adopted' \subseteq Clients
    BY <1>1, NewlyAdoptedTypes DEF TypeInv
  <1> QED
    BY <1>1, <1>2 DEF Departs

LEMMA TypeStep ==
  ASSUME TypeInv, [Next]_vars
  PROVE  TypeInv'
  <1>1. /\ IsDisk(disk) /\ IsFiniteSet(left) /\ left \subseteq AllFiles
        /\ work \in 0..MaxWork /\ faults \in 0..work /\ synced \in BOOLEAN
        /\ adopted \subseteq Clients /\ version \in [Clients -> ConfigBytes] /\ abandoned \subseteq Homes
        /\ tx = Idle \/ Running1(tx)
    BY DEF TypeInv
  <1>2. ASSUME NEW req \in Requests, Begin(req) PROVE TypeInv'
    <2>1. Running1(tx') /\ work' = work + 1 /\ work < MaxWork /\ left' = left /\ history' = history
      BY <1>2, BeginSteps
    <2>2. IsDisk(disk')
      <3>1. disk' = disk \/ Lays(disk, disk', Planned(req))
        BY <1>2, BeginSteps
      <3> QED
        BY <1>1, <3>1 DEF Lays
    <2>3. work' \in 0..MaxWork /\ faults' \in 0..work'
      BY <1>1, <2>1, SwapBoundsAssumption DEF history
    <2> QED
      BY <1>1, <2>1, <2>2, <2>3 DEF TypeInv, history
  <1>3. ASSUME NEW req \in Requests, Refuse(req) \/ StagingFails(req) PROVE TypeInv'
    <2>1. /\ Running1(tx') /\ disk' = disk
          /\ left' = left /\ version' = version /\ adopted' = adopted /\ synced' = synced /\ abandoned' = abandoned
          /\ \/ work' = work + 1 /\ work < MaxWork /\ faults' = faults
             \/ work' = work + 1 + FaultCost /\ work + 1 + FaultCost <= MaxWork /\ faults' = faults + 1
      BY <1>3, RefuseSteps
    <2>2. work' \in 0..MaxWork /\ faults' \in 0..work'
      BY <1>1, <2>1, SwapBoundsAssumption
    <2> QED
      BY <1>1, <2>1, <2>2 DEF TypeInv
  <1>4. CASE Works
    <2>1. /\ Running1(tx') /\ IsDisk(disk')
          /\ left' = left /\ work' = work /\ version' = version
          /\ faults' = faults /\ synced' = synced /\ abandoned' = abandoned
      BY <1>4, WorkSteps
    <2>2. adopted' \subseteq Clients
      <3>1. tx # Idle /\ (adopted' = adopted \/ VerifyCommitted)
        BY <1>4, WorkSteps
      <3>2. VerifyCommitted => adopted' = adopted \/ adopted' = adopted \cup NewlyAdopted
        BY DEF VerifyCommitted
      <3> QED
        BY <1>1, <3>1, <3>2, NewlyAdoptedTypes
    <2> QED
      BY <1>1, <2>1, <2>2 DEF TypeInv
  <1>5. CASE Return
    <2>1. tx # Idle /\ Depart
      BY <1>5, IdlePhase DEF Return, Answers
    <2>2. work' = work /\ version' = version /\ faults' = faults /\ synced' = synced /\ abandoned' = abandoned
      BY <1>5 DEF Return
    <2> QED
      BY <1>1, <2>1, <2>2, DepartTypes DEF TypeInv
  <1>6. CASE Die
    <2>1. tx # Idle /\ Depart /\ Fault
      BY <1>6, IdlePhase DEF Die, Running
    <2>2. version' = version /\ synced' = synced /\ abandoned' = abandoned
      BY <1>6 DEF Die
    <2> QED
      BY <1>1, <2>1, <2>2, DepartTypes, FaultTypes DEF TypeInv
  <1>7. ASSUME NEW c \in Clients, Edit(c) PROVE TypeInv'
    <2>1. PICK f : Edits(disk, disk', c, f, version, version')
      BY <1>7, EditSteps
    <2>2. /\ Touches(tx, tx', Config(c)) /\ Fault
          /\ left' = left /\ adopted' = adopted /\ synced' = synced /\ abandoned' = abandoned
      BY <1>7, EditSteps
    <2>3. tx' = Idle \/ Running1(tx')
      BY <2>2 DEF Touches
    <2> QED
      BY <1>1, <2>1, <2>2, <2>3, FaultTypes DEF TypeInv, Edits
  <1>8. ASSUME NEW p \in DOMAIN disk, Delete(p) \/ Replace(p) PROVE TypeInv'
    <2>1. /\ Ruins(disk, disk', p) /\ Touches(tx, tx', p) /\ Fault
          /\ left' = left /\ adopted' = adopted /\ synced' = synced /\ abandoned' = abandoned /\ version' = version
      BY <1>8, RuinSteps
    <2>2. tx' = Idle \/ Running1(tx')
      BY <2>1 DEF Touches
    <2> QED
      BY <1>1, <2>1, <2>2, FaultTypes DEF TypeInv, Ruins
  <1>9. CASE ReplaceLock
    <2>1. /\ Running1(tx') /\ disk' = disk /\ left' = left /\ version' = version
          /\ adopted' = adopted /\ synced' = synced /\ abandoned' = abandoned /\ Fault
      BY <1>9, LockSteps
    <2> QED
      BY <1>1, <2>1, FaultTypes DEF TypeInv
  <1>10. CASE SyncFails
    <2>1. /\ Running1(tx') /\ IsDisk(disk') /\ left' = left /\ version' = version
          /\ adopted' = adopted /\ synced' = FALSE /\ abandoned' = abandoned /\ Fault
      BY <1>10, UnseenSteps
    <2> QED
      BY <1>1, <2>1, FaultTypes DEF TypeInv
  <1>11. CASE Errs
    <2>1. /\ Running1(tx') /\ IsDisk(disk') /\ left' = left /\ version' = version
          /\ adopted' = adopted /\ synced' = synced /\ Fault /\ abandoned' \subseteq abandoned \cup Homes
      BY <1>11, ErrsSteps
    <2> QED
      BY <1>1, <2>1, FaultTypes DEF TypeInv
  <1>12. CASE UNCHANGED vars
    BY <1>1, <1>12 DEF vars, TypeInv
  <1> QED
    BY <1>2, <1>3, <1>4, <1>5, <1>6, <1>7, <1>8, <1>9, <1>10, <1>11, <1>12 DEF Next, Works, Errs

\* The types of every variable, bytes of files and plans included.
THEOREM SwapTypes == Spec => []TypeInv
  <1>1. Init => TypeInv
    BY InitTypes
  <1>2. TypeInv /\ [Next]_vars => TypeInv'
    BY TypeStep
  <1> QED
    BY <1>1, <1>2, PTL DEF Spec

\* Type correctness: every name holds a file, no file has two names, and a
\* running command is at one of its operations.
THEOREM SwapTypeOK == Spec => []TypeOK
  <1>1. TypeInv => TypeOK
    <2> SUFFICES ASSUME TypeInv PROVE TypeOK
      OBVIOUS
    <2>1. \A p \in DOMAIN disk : DOMAIN disk[p] = {"id", "bytes"} /\ disk[p].id \in Nat \ {0}
      <3>1. \A p \in DOMAIN disk : disk[p] \in AllFiles
        BY DEF TypeInv, IsDisk
      <3> QED
        BY <3>1, FileFacts
    <2>2. \A p, q \in DOMAIN disk : disk[p].id = disk[q].id => p = q
      BY DEF TypeInv, IsDisk
    <2>3. /\ work \in 0..MaxWork /\ faults \in 0..MaxWork /\ synced \in BOOLEAN
          /\ adopted \subseteq Clients /\ \A p \in abandoned : ~IsArtifact(p)
      <3>1. \A p \in Homes : ~IsArtifact(p)
        BY NameFacts
      <3> QED
        BY <3>1, SwapBoundsAssumption DEF TypeInv
    <2>4. ASSUME tx # Idle
          PROVE  /\ tx.at \in 0..(Len(tx.ops) + 1)
                 /\ tx.lock \in BOOLEAN /\ tx.errors \in BOOLEAN
                 /\ Running => Len(tx.ops) > 0
      <3>1. tx \in Transactions /\ Placing(tx)
        BY <2>4 DEF TypeInv, Running1
      <3>2. tx.lock \in BOOLEAN /\ tx.errors \in BOOLEAN /\ Len(tx.ops) \in Nat /\ tx.phase \in Phases
        BY <3>1 DEF Transactions
      <3> QED
        BY <3>1, <3>2 DEF Placing, Running, Phases, Forwards, Backwards, Answers
    <2> QED
      BY <2>1, <2>2, <2>3, <2>4 DEF TypeOK
  <1> QED
    BY <1>1, SwapTypes, PTL

-----------------------------------------------------------------------------
(* The plan of a running command stays as it was made.                     *)

PlanShapes(ops) ==
  \A i \in 1..Len(ops) : ops[i].staged # None =>
    IF ops[i].dest = State THEN ops[i].staged.bytes \in LedgerBytes
                           ELSE ops[i].staged \in ConfigFiles

IdsOf(F) == {f.id : f \in F}

Static(t, lf) ==
  \/ t.ops = <<>>
  \/ /\ PlanShapes(t.ops)
     /\ PlanFresh(IdsOf(Files(t.before) \cup lf), t.ops)
     /\ PlanPriors(t.before, t.ops)
     /\ PlanPlaces(t.ops)
     /\ PlanLedger(t.before, t.ops)
     /\ Readable(LedgerOn(t.before))

LEMMA SamePlan ==
  ASSUME NEW o, NEW p, SameOps(o, p), Len(o) \in Nat, o # <<>>, p # <<>>, NEW d, NEW U
  PROVE  /\ PlanShapes(o) => PlanShapes(p)
         /\ PlanFresh(U, o) => PlanFresh(U, p)
         /\ PlanPriors(d, o) => PlanPriors(d, p)
         /\ PlanPlaces(o) => PlanPlaces(p)
         /\ PlanLedger(d, o) => PlanLedger(d, p)
  <1>1. Len(p) = Len(o)
    BY DEF SameOps
  <1>2. \A i \in 1..Len(o) : p[i].dest = o[i].dest /\ p[i].staged = o[i].staged /\ p[i].prior = o[i].prior
    BY DEF SameOps
  <1>3. PlanShapes(o) => PlanShapes(p)
    BY <1>1, <1>2 DEF PlanShapes
  <1>4. PlanFresh(U, o) => PlanFresh(U, p)
    BY <1>1, <1>2 DEF PlanFresh
  <1>5. ASSUME PlanPriors(d, o) PROVE PlanPriors(d, p)
    <2> SUFFICES ASSUME NEW i \in 1..Len(o)
                 PROVE  /\ \A j \in 1..(i - 1) :
                             p[j].dest = p[i].dest /\ (\A k \in (j + 1)..(i - 1) : p[k].dest # p[i].dest)
                               => p[i].prior = p[j].staged
                        /\ (\A j \in 1..(i - 1) : p[j].dest # p[i].dest) => p[i].prior = At(d, p[i].dest)
                        /\ p[i].prior # None \/ p[i].staged # None
      BY <1>1 DEF PlanPriors
    <2>1. \A j \in 1..(i - 1) : j \in 1..Len(o)
      OBVIOUS
    <2>2. ASSUME NEW j \in 1..(i - 1), p[j].dest = p[i].dest,
                 \A k \in (j + 1)..(i - 1) : p[k].dest # p[i].dest
          PROVE  p[i].prior = p[j].staged
      <3>1. o[j].dest = o[i].dest
        BY <1>2, <2>1, <2>2
      <3>2. \A k \in (j + 1)..(i - 1) : o[k].dest # o[i].dest
        BY <1>2, <2>1, <2>2
      <3>3. o[i].prior = o[j].staged
        BY <1>5, <3>1, <3>2 DEF PlanPriors
      <3> QED
        BY <1>2, <2>1, <3>3
    <2>3. ASSUME \A j \in 1..(i - 1) : p[j].dest # p[i].dest
          PROVE  p[i].prior = At(d, p[i].dest)
      <3>1. \A j \in 1..(i - 1) : o[j].dest # o[i].dest
        BY <1>2, <2>1, <2>3
      <3>2. o[i].prior = At(d, o[i].dest)
        BY <1>5, <3>1 DEF PlanPriors
      <3> QED
        BY <1>2, <3>2
    <2>4. p[i].prior # None \/ p[i].staged # None
      BY <1>2, <1>5 DEF PlanPriors
    <2> QED
      BY <2>2, <2>3, <2>4
  <1>6. PlanPlaces(o) => PlanPlaces(p)
    BY <1>1, <1>2 DEF PlanPlaces
  <1>7. ASSUME PlanLedger(d, o) PROVE PlanLedger(d, p)
    <2> SUFFICES ASSUME NEW s \in 1..Len(o), p[s].dest = State, p[s].staged # None,
                        NEW l \in DOMAIN p[s].staged.bytes.entries
                 PROVE  LET A == p[s].staged.bytes IN
                        \/ \E j \in 1..(s - 1) : p[j].staged = A.entries[l].backup /\ p[j].dest = OwnName(A, l)
                        \/ /\ l \in DOMAIN LedgerOn(d).entries
                           /\ A.entries[l].backup = LedgerOn(d).entries[l].backup
                           /\ A.entries[l].sequence = LedgerOn(d).entries[l].sequence
                           /\ \A j \in 1..Len(p) : p[j].dest # OwnName(A, l)
      BY <1>1 DEF PlanLedger
    <2> DEFINE A == p[s].staged.bytes
    <2>1. o[s].dest = State /\ o[s].staged # None /\ A = o[s].staged.bytes
      BY <1>2
    <2> HIDE DEF A
    <2>2. l \in DOMAIN A.entries
      BY DEF A
    <2>3. \/ \E j \in 1..(s - 1) : o[j].staged = A.entries[l].backup /\ o[j].dest = OwnName(A, l)
          \/ /\ l \in DOMAIN LedgerOn(d).entries
             /\ A.entries[l].backup = LedgerOn(d).entries[l].backup
             /\ A.entries[l].sequence = LedgerOn(d).entries[l].sequence
             /\ \A j \in 1..Len(o) : o[j].dest # OwnName(A, l)
      BY <1>7, <2>1, <2>2 DEF PlanLedger
    <2>4. \A j \in 1..(s - 1) : j \in 1..Len(o)
      OBVIOUS
    <2> QED
      BY <1>1, <1>2, <2>3, <2>4 DEF A
  <1> QED
    BY <1>3, <1>4, <1>5, <1>6, <1>7

LEMMA StaticGoesOn ==
  ASSUME NEW t \in Transactions, NEW u, Carries(t, u), NEW lf, Static(t, lf)
  PROVE  Static(u, lf)
  <1>1. /\ u \in Transactions /\ u.before = t.before /\ SameOps(t.ops, u.ops)
    BY DEF Carries
  <1>2. Len(u.ops) = Len(t.ops) /\ Len(t.ops) \in Nat
    BY <1>1 DEF SameOps, Transactions
  <1>3. CASE t.ops = <<>>
    <2>1. Len(u.ops) = 0 /\ u.ops \in Seq(Operations)
      BY <1>1, <1>2, <1>3 DEF Transactions
    <2>2. u.ops = <<>>
      BY <2>1
    <2> QED
      BY <2>2 DEF Static
  <1>4. CASE t.ops # <<>>
    <2>1. Len(t.ops) # 0
      <3>1. t.ops \in Seq(Operations)
        BY DEF Transactions
      <3> QED
        BY <1>4, <3>1
    <2>2. u.ops # <<>>
      BY <1>2, <2>1
    <2> QED
      BY <1>1, <1>2, <1>4, <2>2, SamePlan DEF Static
  <1> QED
    BY <1>3, <1>4

LEMMA PlanIsStatic ==
  ASSUME NEW t, NEW lf, IsPlan(t.before, IdsOf(Files(t.before) \cup lf), t.ops) \/ t.ops = <<>>
  PROVE  Static(t, lf)
  BY DEF Static, IsPlan, PlanTyped, PlanShapes

StaticInv == tx # Idle => Static(tx, left)

LEMMA StaticStep ==
  ASSUME TypeInv, StaticInv, [Next]_vars
  PROVE  StaticInv'
  <1>1. ASSUME NEW req \in Requests, Begin(req) PROVE StaticInv'
    <2>1. left' = left /\ tx'.before = disk
      BY <1>1, BeginSteps DEF Starts
    <2>2. IsPlan(disk, Inodes, tx'.ops) \/ tx'.ops = <<>>
      BY <1>1, BeginSteps DEF Starts
    <2>3. Inodes = IdsOf(Files(disk) \cup left)
      BY DEF Inodes, IdsOf
    <2> QED
      BY <2>1, <2>2, <2>3, PlanIsStatic DEF StaticInv
  <1>2. ASSUME NEW req \in Requests, Refuse(req) \/ StagingFails(req) PROVE StaticInv'
    BY <1>2, RefuseSteps DEF StaticInv, Starts, Static
  <1>3. CASE Works
    BY <1>3, WorkSteps, StaticGoesOn DEF StaticInv, Running1
  <1>4. CASE Return \/ Die
    BY <1>4 DEF StaticInv, Return, Die, Depart
  <1>5. ASSUME NEW c \in Clients, Edit(c) PROVE StaticInv'
    <2>1. Touches(tx, tx', Config(c)) /\ left' = left
      BY <1>5, EditSteps
    <2> QED
      BY <2>1 DEF StaticInv, Static, Touches
  <1>6. ASSUME NEW p \in DOMAIN disk, Delete(p) \/ Replace(p) PROVE StaticInv'
    <2>1. Touches(tx, tx', p) /\ left' = left
      BY <1>6, RuinSteps
    <2> QED
      BY <2>1 DEF StaticInv, Static, Touches
  <1>7. CASE ReplaceLock
    BY <1>7, LockSteps DEF StaticInv, Static
  <1>8. CASE SyncFails
    BY <1>8, UnseenSteps, StaticGoesOn DEF StaticInv, Running1
  <1>9. CASE Errs
    BY <1>9, ErrsSteps, StaticGoesOn DEF StaticInv, Running1
  <1>10. CASE UNCHANGED vars
    BY <1>10 DEF vars, StaticInv
  <1> QED
    BY <1>1, <1>2, <1>3, <1>4, <1>5, <1>6, <1>7, <1>8, <1>9, <1>10 DEF Next, Works, Errs

-----------------------------------------------------------------------------
(* Which operations were done, from step to step.                          *)

\* An operation of u is that of t with the same flags.
Unmoved(t, u, i) ==
  /\ u.ops[i].dest = t.ops[i].dest /\ u.ops[i].staged = t.ops[i].staged
  /\ u.ops[i].prior = t.ops[i].prior
  /\ u.ops[i].moved = t.ops[i].moved /\ u.ops[i].published = t.ops[i].published
  /\ Done(u.ops[i]) <=> Done(t.ops[i])
  /\ Active(u.ops[i]) <=> Active(t.ops[i])

LEMMA FlagsKept ==
  ASSUME NEW t, NEW u, Carries(t, u), SameFlags(t, u)
  PROVE  /\ Len(u.ops) = Len(t.ops) /\ \A i \in 1..Len(t.ops) : Unmoved(t, u, i)
         /\ u.before = t.before /\ u.touched = t.touched
  BY DEF Carries, SameOps, SameFlags, Unmoved, Done, Active

\* The premises of the steps of a running command.
Steps(t, u) == Running1(t) /\ Running1(u) /\ Carries(t, u)

LEMMA ProgressTake ==
  ASSUME NEW t, NEW u, NEW d, NEW e, Steps(t, u), Progress(t), PlanPriors(t.before, t.ops),
         TakeStep(t, d, u, e)
  PROVE  Progress(u)
  <1> DEFINE n == Len(t.ops)
  <1>1. Len(u.ops) = n /\ \A i \in 1..n : Unmoved(t, u, i)
    BY FlagsKept DEF TakeStep, Steps
  <1>2. n \in Nat /\ t.at \in 1..n
    BY RunningFacts DEF Steps, Running1, Placing, TakeStep, Forwards
  <1>3. t.phase = "take" /\ u.at = t.at /\ u.errors = t.errors
        /\ \/ u.phase = "publish" /\ t.ops[t.at].prior = None
           \/ u.phase = "move" /\ t.ops[t.at].prior # None
    BY DEF TakeStep, Stays, Now
  <1>4. t.ops[t.at].prior # None \/ t.ops[t.at].staged # None
    BY <1>2 DEF PlanPriors
  <1>5. t.ops[t.at].moved \in BOOLEAN
    BY <1>2, NowFacts DEF Steps, Now
  <1> QED
    BY <1>1, <1>2, <1>3, <1>4, <1>5 DEF Progress, Unmoved, Onward, Forwards, Over, Settled, Active

LEMMA ProgressStop ==
  ASSUME NEW t, NEW u, NEW d, NEW e, Steps(t, u), Progress(t),
         StopStep(t, d, u, e) \/ MoveUnseen(t, d, u, e) \/ PublishUnseen(t, d, u, e)
  PROVE  Progress(u)
  <1> DEFINE n == Len(t.ops)
  <1>1. Len(u.ops) = n /\ \A i \in 1..n : Unmoved(t, u, i)
    BY FlagsKept DEF StopStep, MoveUnseen, PublishUnseen, Steps
  <1>2. n \in Nat /\ t.at \in 1..n
    BY RunningFacts DEF Steps, Running1, Placing, StopStep, MoveUnseen, PublishUnseen, Forwards
  <1>3. t.phase \in {"take", "move", "publish", "verify"} /\ u.phase = "undo" /\ u.at = n
        /\ u.errors = t.errors
    BY DEF StopStep, MoveUnseen, PublishUnseen, Fails
  <1>4. Onward(t) /\ ~Onward(u) /\ t.errors = FALSE
    BY <1>3 DEF Onward, Forwards, Progress
  <1>5. \A i \in 1..n : Active(t.ops[i]) => \A j \in 1..n : j < i => Done(t.ops[j])
    BY <1>2, <1>3 DEF Progress, Over, Active
  <1>6. \A i \in 1..n : t.ops[i].published => t.ops[i].moved = (t.ops[i].prior # None)
    BY <1>2, <1>3 DEF Progress, Over, Done, Active
  <1>7. \A i \in 1..n : (t.ops[i].moved => t.ops[i].prior # None) /\ (t.ops[i].published => t.ops[i].staged # None)
    BY DEF Progress
  <1>8. \A i \in 1..n : ~(i > u.at)
    BY <1>2, <1>3
  <1> QED
    BY <1>1, <1>3, <1>4, <1>5, <1>6, <1>7, <1>8 DEF Progress, Unmoved, Over, Settled

LEMMA ProgressMove ==
  ASSUME NEW t, NEW u, NEW d, NEW e, Steps(t, u), Progress(t), MoveStep(t, d, u, e)
  PROVE  Progress(u)
  <1> DEFINE n == Len(t.ops)
             a == t.at
  <1>1. /\ Len(u.ops) = n /\ \A i \in 1..n : i # a => Unmoved(t, u, i)
        /\ u.ops[a].moved = TRUE /\ u.ops[a].published = t.ops[a].published
        /\ \A i \in 1..n : u.ops[i].staged = t.ops[i].staged /\ u.ops[i].prior = t.ops[i].prior
    <2>1. Carries(t, u) /\ Reflags(t, u, TRUE, t.ops[a].published)
      BY DEF MoveStep, Steps, Now
    <2> QED
      BY <2>1 DEF Carries, SameOps, Reflags, Unmoved, Done, Active
  <1>2. n \in Nat /\ a \in 1..n /\ a \in Nat
    BY RunningFacts DEF Steps, Running1, Placing, MoveStep, Forwards
  <1>3. t.phase = "move" /\ Onward(t) /\ t.errors = FALSE
    BY DEF MoveStep, Onward, Forwards, Progress
  <1>4. /\ \A i \in 1..n : (i < a => Done(t.ops[i])) /\ (i > a => ~Active(t.ops[i]))
        /\ ~Active(t.ops[a]) /\ t.ops[a].prior # None
        /\ \A i \in 1..n : (t.ops[i].moved => t.ops[i].prior # None) /\ (t.ops[i].published => t.ops[i].staged # None)
    BY <1>3 DEF Progress
  <1>5. u.ops[a].moved /\ u.ops[a].published = FALSE /\ u.ops[a].prior # None
    <2>1. t.ops[a].published \in BOOLEAN
      BY <1>2, NowFacts DEF Steps, Now
    <2> QED
      BY <1>1, <1>2, <1>4, <2>1 DEF Active
  <1>6. \A i \in 1..n : (u.ops[i].moved => u.ops[i].prior # None) /\ (u.ops[i].published => u.ops[i].staged # None)
    BY <1>1, <1>4, <1>5 DEF Unmoved
  <1>7. \A i \in 1..n : (i < a => Done(u.ops[i])) /\ (i > a => ~Active(u.ops[i]))
    BY <1>1, <1>2, <1>4 DEF Unmoved
  <1>8. CASE Fails(t, u)
    <2>1. u.phase = "undo" /\ u.at = n /\ u.errors = FALSE
      BY <1>3, <1>8 DEF Fails
    <2>2. \A i \in 1..n : Active(u.ops[i]) => \A j \in 1..n : j < i => Done(u.ops[j])
      BY <1>2, <1>7
    <2>3. \A i \in 1..n : u.ops[i].published => u.ops[i].moved = (u.ops[i].prior # None)
      BY <1>2, <1>5, <1>7 DEF Done, Active
    <2>4. \A i \in 1..n : ~(i > u.at)
      BY <1>2, <2>1
    <2> QED
      BY <1>1, <1>6, <2>1, <2>2, <2>3, <2>4 DEF Progress, Onward, Forwards, Over, Settled
  <1>9. CASE t.ops[a].staged = None /\ Proceeds(t, u)
    <2>1. Done(u.ops[a])
      BY <1>1, <1>2, <1>5, <1>9 DEF Done
    <2>2. u.errors = FALSE /\ (IF a < n THEN u.phase = "take" /\ u.at = a + 1 ELSE u.phase = "verify" /\ u.at = 1)
      BY <1>3, <1>9 DEF Proceeds
    <2> QED
      BY <1>1, <1>2, <1>6, <1>7, <2>1, <2>2 DEF Progress, Onward, Forwards, Over, Settled
  <1>10. CASE t.ops[a].staged # None /\ Stays(t, u, "publish")
    <2>1. u.errors = FALSE /\ u.phase = "publish" /\ u.at = a /\ u.ops[a].staged # None
      BY <1>1, <1>2, <1>3, <1>10 DEF Stays
    <2> QED
      BY <1>1, <1>2, <1>5, <1>6, <1>7, <2>1 DEF Progress, Onward, Forwards, Over, Settled
  <1> QED
    BY <1>8, <1>9, <1>10 DEF MoveStep, Now

LEMMA ProgressPublish ==
  ASSUME NEW t, NEW u, NEW d, NEW e, Steps(t, u), Progress(t), PublishStep(t, d, u, e)
  PROVE  Progress(u)
  <1> DEFINE n == Len(t.ops)
             a == t.at
  <1>1. /\ Len(u.ops) = n /\ \A i \in 1..n : i # a => Unmoved(t, u, i)
        /\ u.ops[a].moved = t.ops[a].moved /\ u.ops[a].published = TRUE
        /\ \A i \in 1..n : u.ops[i].staged = t.ops[i].staged /\ u.ops[i].prior = t.ops[i].prior
    <2>1. Carries(t, u) /\ Reflags(t, u, t.ops[a].moved, TRUE)
      BY DEF PublishStep, Steps, Now
    <2> QED
      BY <2>1 DEF Carries, SameOps, Reflags, Unmoved, Done, Active
  <1>2. n \in Nat /\ a \in 1..n /\ a \in Nat
    BY RunningFacts DEF Steps, Running1, Placing, PublishStep, Forwards
  <1>3. t.phase = "publish" /\ Onward(t) /\ t.errors = FALSE
    BY DEF PublishStep, Onward, Forwards, Progress
  <1>4. /\ \A i \in 1..n : (i < a => Done(t.ops[i])) /\ (i > a => ~Active(t.ops[i]))
        /\ t.ops[a].staged # None /\ t.ops[a].moved = (t.ops[a].prior # None)
        /\ \A i \in 1..n : (t.ops[i].moved => t.ops[i].prior # None) /\ (t.ops[i].published => t.ops[i].staged # None)
    BY <1>3 DEF Progress
  <1>5. Done(u.ops[a])
    BY <1>1, <1>2, <1>4 DEF Done
  <1>6. \A i \in 1..n : (u.ops[i].moved => u.ops[i].prior # None) /\ (u.ops[i].published => u.ops[i].staged # None)
    BY <1>1, <1>2, <1>4, <1>5 DEF Unmoved, Done
  <1>7. \A i \in 1..n : (i <= a => Done(u.ops[i])) /\ (i > a => ~Active(u.ops[i]))
    BY <1>1, <1>2, <1>4, <1>5 DEF Unmoved
  <1>8. CASE Fails(t, u)
    <2>1. u.phase = "undo" /\ u.at = n /\ u.errors = FALSE
      BY <1>3, <1>8 DEF Fails
    <2>2. \A i \in 1..n : Active(u.ops[i]) => \A j \in 1..n : j < i => Done(u.ops[j])
      BY <1>2, <1>7
    <2>3. \A i \in 1..n : u.ops[i].published => u.ops[i].moved = (u.ops[i].prior # None)
      BY <1>2, <1>7 DEF Done, Active
    <2>4. \A i \in 1..n : ~(i > u.at)
      BY <1>2, <2>1
    <2> QED
      BY <1>1, <1>6, <2>1, <2>2, <2>3, <2>4 DEF Progress, Onward, Forwards, Over, Settled
  <1>9. CASE Proceeds(t, u)
    <2>1. CASE a < n
      <3>1. u.errors = FALSE /\ u.phase = "take" /\ u.at = a + 1
        BY <1>3, <1>9, <2>1 DEF Proceeds
      <3>2. \A i \in 1..n : (i < u.at => i <= a) /\ (i > u.at => i > a)
        BY <1>2, <3>1
      <3>3. u.at \in 1..n /\ u.at > a
        BY <1>2, <2>1, <3>1
      <3> QED
        BY <1>1, <1>6, <1>7, <3>1, <3>2, <3>3 DEF Progress, Onward, Forwards, Over, Settled
    <2>2. CASE ~(a < n)
      <3>1. u.errors = FALSE /\ u.phase = "verify" /\ u.at = 1
        BY <1>3, <1>9, <2>2 DEF Proceeds
      <3>2. \A i \in 1..n : Done(u.ops[i])
        BY <1>2, <1>7, <2>2
      <3> QED
        BY <1>1, <1>6, <3>1, <3>2 DEF Progress, Onward, Forwards, Over, Settled
    <2> QED
      BY <2>1, <2>2
  <1> QED
    BY <1>8, <1>9 DEF PublishStep

LEMMA ProgressVerify ==
  ASSUME NEW t, NEW u, NEW d, NEW e, Steps(t, u), Progress(t),
         VerifyStep(t, d, u, e) \/ FinishStep(t, d, u, e)
  PROVE  Progress(u)
  <1> DEFINE n == Len(t.ops)
  <1>1. Len(u.ops) = n /\ \A i \in 1..n : Unmoved(t, u, i)
    BY FlagsKept DEF VerifyStep, FinishStep, Steps
  <1>2. t.phase \in {"verify", "finish"} /\ u.phase \in {"verify", "finish", "ok", "unfinished"}
        /\ u.errors = t.errors
    BY DEF VerifyStep, FinishStep, Stays
  <1>3. Onward(t) /\ t.errors = FALSE /\ \A i \in 1..n : Done(t.ops[i])
    BY <1>2 DEF Progress, Onward, Forwards, Over
  <1>4. \A i \in 1..n : (t.ops[i].moved => t.ops[i].prior # None) /\ (t.ops[i].published => t.ops[i].staged # None)
    BY DEF Progress
  <1> QED
    BY <1>1, <1>2, <1>3, <1>4 DEF Progress, Unmoved, Onward, Forwards, Over, Settled

LEMMA ProgressUndo ==
  ASSUME NEW t, NEW u, NEW d, NEW e, Steps(t, u), Progress(t),
         UndoStep(t, d, u, e) \/ GivesUpNow(t, u) \/ DiscardStep(t, d, u, e)
  PROVE  Progress(u)
  <1> DEFINE n == Len(t.ops)
             a == t.at
  <1>1. Len(u.ops) = n /\ \A i \in 1..n : Unmoved(t, u, i)
    BY FlagsKept DEF UndoStep, GivesUpNow, DiscardStep, Steps
  <1>2. n \in Nat /\ a \in 1..n /\ a \in Nat
    BY RunningFacts DEF Steps, Running1, Placing, UndoStep, GivesUpNow, DiscardStep
  <1>3. ~Onward(t) /\ t.phase \in {"undo", "displace", "restore", "discard"} /\ ~Onward(u)
    BY DEF UndoStep, GivesUpNow, DiscardStep, Stays, GivesUp, Descends, Onward, Forwards
  <1>4. /\ \A i \in 1..n : (t.ops[i].moved => t.ops[i].prior # None) /\ (t.ops[i].published => t.ops[i].staged # None)
        /\ \A i \in 1..n : i <= a /\ Active(t.ops[i]) =>
             /\ \A j \in 1..n : j < i => Done(t.ops[j])
             /\ t.ops[i].published => t.ops[i].moved = (t.ops[i].prior # None)
        /\ ~t.errors => \A i \in 1..n : i > a => ~Active(t.ops[i])
    BY <1>3 DEF Progress
  <1>5. \/ u.phase = "displace" /\ u.at = a /\ u.errors = t.errors /\ t.ops[a].published
        \/ u.phase = "restore" /\ u.at = a /\ u.errors = t.errors /\ t.ops[a].moved /\ ~t.ops[a].published
        \/ u.phase = "undo" /\ u.at = a - 1 /\ u.errors = t.errors /\ ~Active(t.ops[a])
        \/ u.phase = "undo" /\ u.at = a - 1 /\ u.errors = TRUE
    BY DEF UndoStep, GivesUpNow, DiscardStep, Stays, GivesUp, Descends, Now, Progress
  <1>6. \A i \in 1..n : i <= u.at => i <= a
    BY <1>2, <1>5
  <1>7. \A i \in 1..n : i > a - 1 => i > a \/ i = a
    BY <1>2
  <1>8. \A i \in 1..n : (u.ops[i].moved => u.ops[i].prior # None) /\ (u.ops[i].published => u.ops[i].staged # None)
    BY <1>1, <1>4 DEF Unmoved
  <1>9. \A i \in 1..n : i <= u.at /\ Active(u.ops[i]) =>
             /\ \A j \in 1..n : j < i => Done(u.ops[j])
             /\ u.ops[i].published => u.ops[i].moved = (u.ops[i].prior # None)
    BY <1>1, <1>4, <1>6 DEF Unmoved
  <1>10. ~u.errors => \A i \in 1..n : i > u.at => ~Active(u.ops[i])
    <2>1. CASE u.at = a /\ u.errors = t.errors
      BY <1>1, <1>4, <2>1 DEF Unmoved
    <2>2. CASE u.at = a - 1 /\ u.errors = t.errors /\ ~Active(t.ops[a])
      BY <1>1, <1>2, <1>4, <1>7, <2>2 DEF Unmoved
    <2> QED
      BY <1>5, <2>1, <2>2
  <1>11. /\ u.phase = "displace" => u.ops[u.at].published
         /\ u.phase = "restore" => u.ops[u.at].moved /\ ~u.ops[u.at].published
    BY <1>1, <1>2, <1>5 DEF Unmoved
  <1>12. u.phase \in {"undo", "displace", "restore"}
    BY <1>5
  <1> QED
    BY <1>1, <1>3, <1>8, <1>9, <1>10, <1>11, <1>12 DEF Progress, Over, Settled

LEMMA ProgressDisplace ==
  ASSUME NEW t, NEW u, NEW d, NEW e, Steps(t, u), Progress(t), DisplaceStep(t, d, u, e)
  PROVE  Progress(u)
  <1> DEFINE n == Len(t.ops)
             a == t.at
  <1>1. CASE SameFlags(t, u) /\ GivesUp(t, u)
    <2>1. GivesUpNow(t, u)
      BY <1>1 DEF GivesUpNow, DisplaceStep
    <2> QED
      BY <2>1, ProgressUndo
  <1>2. CASE Reflags(t, u, t.ops[a].moved, FALSE) /\ Stays(t, u, IF t.ops[a].moved THEN "restore" ELSE "discard")
    <2>1. /\ Len(u.ops) = n /\ \A i \in 1..n : i # a => Unmoved(t, u, i)
          /\ u.ops[a].moved = t.ops[a].moved /\ u.ops[a].published = FALSE
          /\ \A i \in 1..n : u.ops[i].staged = t.ops[i].staged /\ u.ops[i].prior = t.ops[i].prior
      <3>1. Carries(t, u) /\ Reflags(t, u, t.ops[a].moved, FALSE)
        BY <1>2 DEF Steps
      <3> QED
        BY <3>1 DEF Carries, SameOps, Reflags, Unmoved, Done, Active
    <2>2. n \in Nat /\ a \in 1..n /\ a \in Nat
      BY RunningFacts DEF Steps, Running1, Placing, DisplaceStep
    <2>3. t.phase = "displace" /\ ~Onward(t)
      BY DEF DisplaceStep, Onward, Forwards
    <2>4. /\ \A i \in 1..n : (t.ops[i].moved => t.ops[i].prior # None) /\ (t.ops[i].published => t.ops[i].staged # None)
          /\ \A i \in 1..n : i <= a /\ Active(t.ops[i]) =>
               /\ \A j \in 1..n : j < i => Done(t.ops[j])
               /\ t.ops[i].published => t.ops[i].moved = (t.ops[i].prior # None)
          /\ ~t.errors => \A i \in 1..n : i > a => ~Active(t.ops[i])
          /\ t.ops[a].published
      BY <2>3 DEF Progress
    <2>5. \A j \in 1..n : j < a => Done(u.ops[j])
      BY <2>1, <2>2, <2>4 DEF Unmoved, Active
    <2>6. u.at = a /\ u.errors = t.errors /\ u.phase = IF t.ops[a].moved THEN "restore" ELSE "discard"
      BY <1>2 DEF Stays
    <2>7. \A i \in 1..n : (u.ops[i].moved => u.ops[i].prior # None) /\ (u.ops[i].published => u.ops[i].staged # None)
      BY <2>1, <2>2, <2>4 DEF Unmoved
    <2>8. \A i \in 1..n : i <= a =>
             /\ \A j \in 1..n : j < i => Done(u.ops[j])
             /\ u.ops[i].published => u.ops[i].moved = (u.ops[i].prior # None)
      <3> SUFFICES ASSUME NEW i \in 1..n, i <= a
                   PROVE  /\ \A j \in 1..n : j < i => Done(u.ops[j])
                          /\ u.ops[i].published => u.ops[i].moved = (u.ops[i].prior # None)
        OBVIOUS
      <3>1. \A j \in 1..n : j < i => j < a
        BY <2>2
      <3>2. i # a => Done(u.ops[i])
        BY <2>2, <2>5
      <3> QED
        BY <2>1, <2>5, <3>1, <3>2 DEF Done
    <2>9. ~t.errors => \A i \in 1..n : i > a => ~Active(u.ops[i])
      BY <2>1, <2>2, <2>4 DEF Unmoved
    <2>10. ~t.ops[a].moved => ~Active(u.ops[a])
      BY <2>1 DEF Active
    <2> QED
      BY <2>1, <2>3, <2>6, <2>7, <2>8, <2>9, <2>10 DEF Progress, Onward, Forwards, Over, Settled
  <1> QED
    BY <1>1, <1>2 DEF DisplaceStep, Now

LEMMA ProgressRestore ==
  ASSUME NEW t, NEW u, NEW d, NEW e, Steps(t, u), Progress(t), RestoreStep(t, d, u, e)
  PROVE  Progress(u)
  <1> DEFINE n == Len(t.ops)
             a == t.at
  <1>1. CASE SameFlags(t, u) /\ GivesUp(t, u)
    <2>1. GivesUpNow(t, u)
      BY <1>1 DEF GivesUpNow, RestoreStep
    <2> QED
      BY <2>1, ProgressUndo
  <1>2. CASE Reflags(t, u, FALSE, t.ops[a].published) /\ (Stays(t, u, "discard") \/ Descends(t, u))
    <2>1. /\ Len(u.ops) = n /\ \A i \in 1..n : i # a => Unmoved(t, u, i)
          /\ u.ops[a].moved = FALSE /\ u.ops[a].published = t.ops[a].published
          /\ \A i \in 1..n : u.ops[i].staged = t.ops[i].staged /\ u.ops[i].prior = t.ops[i].prior
      <3>1. Carries(t, u) /\ Reflags(t, u, FALSE, t.ops[a].published)
        BY <1>2 DEF Steps
      <3> QED
        BY <3>1 DEF Carries, SameOps, Reflags, Unmoved, Done, Active
    <2>2. n \in Nat /\ a \in 1..n /\ a \in Nat
      BY RunningFacts DEF Steps, Running1, Placing, RestoreStep
    <2>3. t.phase = "restore" /\ ~Onward(t)
      BY DEF RestoreStep, Onward, Forwards
    <2>4. /\ \A i \in 1..n : (t.ops[i].moved => t.ops[i].prior # None) /\ (t.ops[i].published => t.ops[i].staged # None)
          /\ \A i \in 1..n : i <= a /\ Active(t.ops[i]) =>
               /\ \A j \in 1..n : j < i => Done(t.ops[j])
               /\ t.ops[i].published => t.ops[i].moved = (t.ops[i].prior # None)
          /\ ~t.errors => \A i \in 1..n : i > a => ~Active(t.ops[i])
          /\ t.ops[a].moved /\ ~t.ops[a].published
      BY <2>3 DEF Progress
    <2>5. \A j \in 1..n : j < a => Done(u.ops[j])
      BY <2>1, <2>2, <2>4 DEF Unmoved, Active
    <2>6. /\ u.errors = t.errors
          /\ \/ u.phase = "discard" /\ u.at = a
             \/ u.phase = "undo" /\ u.at = a - 1
      BY <1>2 DEF Stays, Descends
    <2>7. \A i \in 1..n : (u.ops[i].moved => u.ops[i].prior # None) /\ (u.ops[i].published => u.ops[i].staged # None)
      BY <2>1, <2>2, <2>4 DEF Unmoved
    <2>8. ~Active(u.ops[a])
      BY <2>1, <2>4 DEF Active
    <2>9. \A i \in 1..n : i <= u.at =>
             /\ \A j \in 1..n : j < i => Done(u.ops[j])
             /\ u.ops[i].published => u.ops[i].moved = (u.ops[i].prior # None)
      <3> SUFFICES ASSUME NEW i \in 1..n, i <= u.at
                   PROVE  /\ \A j \in 1..n : j < i => Done(u.ops[j])
                          /\ u.ops[i].published => u.ops[i].moved = (u.ops[i].prior # None)
        OBVIOUS
      <3>1. i <= a /\ \A j \in 1..n : j < i => j < a
        BY <2>2, <2>6
      <3>2. i # a => Done(u.ops[i])
        BY <2>2, <2>5, <3>1
      <3> QED
        BY <2>5, <2>8, <3>1, <3>2 DEF Done, Active
    <2>10. ~t.errors => \A i \in 1..n : i > u.at => ~Active(u.ops[i])
      <3>1. \A i \in 1..n : i > u.at => i = a \/ i > a
        BY <2>2, <2>6
      <3>2. ~t.errors => \A i \in 1..n : i > a => ~Active(u.ops[i])
        BY <2>1, <2>2, <2>4 DEF Unmoved
      <3> QED
        BY <2>8, <3>1, <3>2
    <2> QED
      BY <2>1, <2>3, <2>6, <2>7, <2>8, <2>9, <2>10 DEF Progress, Onward, Forwards, Over, Settled
  <1> QED
    BY <1>1, <1>2 DEF RestoreStep, Now

LEMMA ProgressClean ==
  ASSUME NEW t, NEW u, NEW d, NEW e, Steps(t, u), Progress(t), CleanStep(t, d, u, e)
  PROVE  Progress(u)
  <1> DEFINE n == Len(t.ops)
  <1>1. Len(u.ops) = n /\ \A i \in 1..n : Unmoved(t, u, i)
    BY FlagsKept DEF CleanStep, Steps
  <1>2. /\ t.phase = "undo" /\ t.at = 0 /\ u.phase \in {"failed", "incomplete"} /\ u.at = 0
        /\ u.errors = t.errors /\ (u.phase = "failed" => t.errors = FALSE)
    BY DEF CleanStep, Stays
  <1>3. ~Onward(t) /\ ~Onward(u)
    BY <1>2 DEF Onward, Forwards
  <1>4. /\ \A i \in 1..n : (t.ops[i].moved => t.ops[i].prior # None) /\ (t.ops[i].published => t.ops[i].staged # None)
        /\ ~t.errors => \A i \in 1..n : i > 0 => ~Active(t.ops[i])
    BY <1>2, <1>3 DEF Progress
  <1>5. n \in Nat /\ \A i \in 1..n : ~(i <= 0)
    BY RunningFacts DEF Steps
  <1> QED
    BY <1>1, <1>2, <1>3, <1>4, <1>5 DEF Progress, Unmoved, Over, Settled

LEMMA ProgressStep ==
  ASSUME NEW t, NEW u, NEW d, NEW e, Steps(t, u), Progress(t), PlanPriors(t.before, t.ops),
         RunStep(t, d, u, e) \/ UnseenStep(t, d, u, e)
  PROVE  Progress(u)
  BY ProgressTake, ProgressStop, ProgressMove, ProgressPublish, ProgressVerify, ProgressUndo,
     ProgressDisplace, ProgressRestore, ProgressClean DEF RunStep, UnseenStep, GiveUpStep

-----------------------------------------------------------------------------
(* What the renames show of the disk.                                      *)

ShowsMove(d, e, x, a) ==
  /\ \A i : At(e, Stage(i)) = At(d, Stage(i)) /\ At(e, Displaced(i)) = At(d, Displaced(i))
  /\ \A i : At(e, Aside(i)) = IF i = a THEN At(d, x) ELSE At(d, Aside(i))
  /\ \A p \in Homes : At(e, p) = IF p = x THEN None ELSE At(d, p)

LEMMA MoveShows ==
  ASSUME NEW d, NEW e, NEW x \in Homes, NEW a, Renames(d, e, x, Aside(a))
  PROVE  ShowsMove(d, e, x, a)
  <1> USE NamesDiffer
  <1>1. \A p : At(e, p) = IF p = Aside(a) THEN At(d, x) ELSE IF p = x THEN None ELSE At(d, p)
    BY DEF Renames
  <1>2. x[1] \notin {"stage", "aside", "displaced"} /\ \A p \in Homes : p[1] # "aside"
    BY DEF Homes, ConfigNames, BackupNames
  <1>3. \A i : Stage(i) # Aside(a) /\ Displaced(i) # Aside(a) /\ (Aside(i) = Aside(a) => i = a)
    BY NameFacts
  <1>4. \A i : Stage(i) # x /\ Displaced(i) # x /\ Aside(i) # x
    BY <1>2
  <1>5. \A p \in Homes : p # Aside(a)
    BY <1>2
  <1> QED
    BY <1>1, <1>3, <1>4, <1>5 DEF ShowsMove

ShowsPublish(d, e, x, a) ==
  /\ \A i : At(e, Aside(i)) = At(d, Aside(i)) /\ At(e, Displaced(i)) = At(d, Displaced(i))
  /\ \A i : At(e, Stage(i)) = IF i = a THEN None ELSE At(d, Stage(i))
  /\ \A p \in Homes : At(e, p) = IF p = x THEN At(d, Stage(a)) ELSE At(d, p)

LEMMA PublishShows ==
  ASSUME NEW d, NEW e, NEW x \in Homes, NEW a, Renames(d, e, Stage(a), x)
  PROVE  ShowsPublish(d, e, x, a)
  <1> USE NamesDiffer
  <1>1. \A p : At(e, p) = IF p = x THEN At(d, Stage(a)) ELSE IF p = Stage(a) THEN None ELSE At(d, p)
    BY DEF Renames
  <1>2. x[1] \notin {"stage", "aside", "displaced"} /\ \A p \in Homes : p[1] # "stage"
    BY DEF Homes, ConfigNames, BackupNames
  <1>3. \A i : Aside(i) # Stage(a) /\ Displaced(i) # Stage(a) /\ (Stage(i) = Stage(a) => i = a)
    BY NameFacts
  <1>4. \A i : Stage(i) # x /\ Displaced(i) # x /\ Aside(i) # x
    BY <1>2
  <1>5. \A p \in Homes : p # Stage(a)
    BY <1>2
  <1> QED
    BY <1>1, <1>3, <1>4, <1>5 DEF ShowsPublish

ShowsDisplace(d, e, x, a) ==
  /\ \A i : At(e, Stage(i)) = At(d, Stage(i)) /\ At(e, Aside(i)) = At(d, Aside(i))
  /\ \A i : At(e, Displaced(i)) = IF i = a THEN At(d, x) ELSE At(d, Displaced(i))
  /\ \A p \in Homes : At(e, p) = IF p = x THEN None ELSE At(d, p)

LEMMA DisplaceShows ==
  ASSUME NEW d, NEW e, NEW x \in Homes, NEW a, Renames(d, e, x, Displaced(a))
  PROVE  ShowsDisplace(d, e, x, a)
  <1> USE NamesDiffer
  <1>1. \A p : At(e, p) = IF p = Displaced(a) THEN At(d, x) ELSE IF p = x THEN None ELSE At(d, p)
    BY DEF Renames
  <1>2. x[1] \notin {"stage", "aside", "displaced"} /\ \A p \in Homes : p[1] # "displaced"
    BY DEF Homes, ConfigNames, BackupNames
  <1>3. \A i : Stage(i) # Displaced(a) /\ Aside(i) # Displaced(a) /\ (Displaced(i) = Displaced(a) => i = a)
    BY NameFacts
  <1>4. \A i : Stage(i) # x /\ Displaced(i) # x /\ Aside(i) # x
    BY <1>2
  <1>5. \A p \in Homes : p # Displaced(a)
    BY <1>2
  <1> QED
    BY <1>1, <1>3, <1>4, <1>5 DEF ShowsDisplace

ShowsRestore(d, e, x, a) ==
  /\ \A i : At(e, Stage(i)) = At(d, Stage(i)) /\ At(e, Displaced(i)) = At(d, Displaced(i))
  /\ \A i : At(e, Aside(i)) = IF i = a THEN None ELSE At(d, Aside(i))
  /\ \A p \in Homes : At(e, p) = IF p = x THEN At(d, Aside(a)) ELSE At(d, p)

LEMMA RestoreShows ==
  ASSUME NEW d, NEW e, NEW x \in Homes, NEW a, Renames(d, e, Aside(a), x)
  PROVE  ShowsRestore(d, e, x, a)
  <1> USE NamesDiffer
  <1>1. \A p : At(e, p) = IF p = x THEN At(d, Aside(a)) ELSE IF p = Aside(a) THEN None ELSE At(d, p)
    BY DEF Renames
  <1>2. x[1] \notin {"stage", "aside", "displaced"} /\ \A p \in Homes : p[1] # "aside"
    BY DEF Homes, ConfigNames, BackupNames
  <1>3. \A i : Stage(i) # Aside(a) /\ Displaced(i) # Aside(a) /\ (Aside(i) = Aside(a) => i = a)
    BY NameFacts
  <1>4. \A i : Stage(i) # x /\ Displaced(i) # x /\ Aside(i) # x
    BY <1>2
  <1>5. \A p \in Homes : p # Aside(a)
    BY <1>2
  <1> QED
    BY <1>1, <1>3, <1>4, <1>5 DEF ShowsRestore

\* What removing an artifact shows.
LEMMA RemoveShows ==
  ASSUME NEW d, NEW e, NEW S, Removes(d, e, S), S \subseteq ArtifactNames
  PROVE  /\ \A p \in Homes : At(e, p) = At(d, p)
         /\ \A p : At(e, p) = At(d, p) \/ (At(e, p) = None /\ p \in S)
         /\ \A p \in S : At(e, p) = None
         /\ \A i : Aside(i) \notin S => At(e, Aside(i)) = At(d, Aside(i))
         /\ \A i : Displaced(i) \notin S => At(e, Displaced(i)) = At(d, Displaced(i))
         /\ \A i : Stage(i) \notin S => At(e, Stage(i)) = At(d, Stage(i))
  <1>1. \A p : At(e, p) = IF p \in S THEN None ELSE At(d, p)
    BY DEF Removes
  <1>2. \A p \in Homes : p \notin S
    BY NameFacts
  <1> QED
    BY <1>1, <1>2

-----------------------------------------------------------------------------
(* Artifacts, from step to step.                                           *)

\* The clauses of Leftovers for one place.
Leftover(t, d, s, i) ==
  LET n == Len(t.ops)
      o == t.ops
  IN
  /\ At(d, Stage(i)) # None =>
       /\ i \in 1..n
       /\ o[i].staged # None /\ ~o[i].published
       /\ t.phase \notin {"failed", "refused"}
  /\ At(d, Aside(i)) # None =>
       /\ i \in 1..n
       /\ Onward(t) \/ s => o[i].moved
       /\ t.phase = "finish" => i >= t.at
       /\ t.phase # "ok"
  /\ At(d, Displaced(i)) # None =>
       /\ i \in 1..n
       /\ ~Onward(t) /\ ~Pending(t, i)
       /\ ~t.errors /\ s => t.phase \in {"restore", "discard"} /\ i = t.at

LEMMA LeftoversEach == ASSUME NEW t, NEW d, NEW s
  PROVE  Leftovers(t, d, s) <=> \A i \in Nat : Leftover(t, d, s, i)
  BY DEF Leftovers, Leftover

LEMMA LeftoverQuiet ==
  ASSUME NEW t, NEW u, NEW d, NEW e, NEW s \in BOOLEAN, Steps(t, u), Progress(t),
         NEW i \in Nat, Leftover(t, d, s, i),
         TakeStep(t, d, u, e) \/ StopStep(t, d, u, e) \/ VerifyStep(t, d, u, e)
           \/ UndoStep(t, d, u, e) \/ GiveUpStep(t, d, u, e)
  PROVE  Leftover(u, e, s, i)
  <1> DEFINE n == Len(t.ops)
  <1>1. Len(u.ops) = n /\ \A j \in 1..n : Unmoved(t, u, j)
    BY FlagsKept DEF TakeStep, StopStep, VerifyStep, UndoStep, GiveUpStep, GivesUpNow, Steps
  <1>2. e = d /\ n \in Nat /\ t.at \in Nat
    BY RunningFacts DEF TakeStep, StopStep, VerifyStep, UndoStep, GiveUpStep, GivesUpNow, Steps
  <1>3. u.phase \in {"publish", "move", "undo", "verify", "finish", "displace", "restore"}
        /\ (u.phase = "finish" => u.at = 1)
        /\ (Onward(u) => Onward(t))
    BY DEF TakeStep, StopStep, VerifyStep, UndoStep, GiveUpStep, GivesUpNow, Stays, Fails, GivesUp, Descends, Onward, Forwards
  <1>4. CASE Onward(t)
    BY <1>1, <1>2, <1>3, <1>4 DEF Leftover, Unmoved
  <1>5. CASE ~Onward(t)
    <2>1. UndoStep(t, d, u, e) \/ GiveUpStep(t, d, u, e)
      BY <1>5 DEF Onward, Forwards, TakeStep, StopStep, VerifyStep
    <2>2. \/ t.phase = "undo" /\ u.phase \in {"displace", "restore"} /\ u.at = t.at /\ u.errors = t.errors
          \/ t.phase = "undo" /\ u.phase = "undo" /\ u.at = t.at - 1 /\ u.errors = t.errors
          \/ /\ t.phase \in {"undo", "displace", "restore", "discard"}
             /\ u.phase = "undo" /\ u.at = t.at - 1 /\ u.errors = TRUE
      BY <2>1 DEF UndoStep, GiveUpStep, GivesUpNow, Stays, GivesUp, Descends
    <2>3. Pending(u, i) => Pending(t, i)
      BY <1>2, <2>2 DEF Pending
    <2>4. ~Onward(u)
      BY <2>2 DEF Onward, Forwards
    <2>5. At(d, Displaced(i)) # None => ~(~u.errors /\ s)
      BY <2>2 DEF Leftover
    <2> QED
      BY <1>1, <1>2, <1>3, <1>5, <2>2, <2>3, <2>4, <2>5 DEF Leftover, Unmoved
  <1> QED
    BY <1>4, <1>5

LEMMA LeftoverMove ==
  ASSUME NEW t, NEW u, NEW d, NEW e, NEW s \in BOOLEAN, Steps(t, u), Progress(t),
         NEW i \in Nat, Leftover(t, d, s, i), MoveStep(t, d, u, e)
  PROVE  Leftover(u, e, s, i)
  <1> DEFINE n == Len(t.ops)
             a == t.at
  <1>1. /\ Len(u.ops) = n
        /\ \A j \in 1..n : /\ u.ops[j].staged = t.ops[j].staged
                           /\ u.ops[j].published = t.ops[j].published
                           /\ (j # a => u.ops[j].moved = t.ops[j].moved)
        /\ u.ops[a].moved = TRUE
    BY DEF MoveStep, Steps, Carries, SameOps, Reflags, Now
  <1>2. a \in 1..n /\ Now(t).dest \in Homes
    <2>1. a \in 1..n
      BY DEF Steps, Running1, Placing, MoveStep, Forwards
    <2> QED
      BY <2>1, NowFacts DEF Steps
  <1>3. /\ At(e, Stage(i)) = At(d, Stage(i)) /\ At(e, Displaced(i)) = At(d, Displaced(i))
        /\ i # a => At(e, Aside(i)) = At(d, Aside(i))
    <2>1. ShowsMove(d, e, Now(t).dest, a)
      BY <1>2, MoveShows DEF MoveStep
    <2> QED
      BY <2>1 DEF ShowsMove
  <1>4. Onward(t) /\ u.phase \in {"undo", "take", "verify", "publish"}
    BY DEF MoveStep, Fails, Proceeds, Stays, Onward, Forwards
  <1> QED
    BY <1>1, <1>2, <1>3, <1>4 DEF Leftover

LEMMA LeftoverPublish ==
  ASSUME NEW t, NEW u, NEW d, NEW e, NEW s \in BOOLEAN, Steps(t, u), Progress(t),
         NEW i \in Nat, Leftover(t, d, s, i), PublishStep(t, d, u, e)
  PROVE  Leftover(u, e, s, i)
  <1> DEFINE n == Len(t.ops)
             a == t.at
  <1>1. /\ Len(u.ops) = n
        /\ \A j \in 1..n : /\ u.ops[j].staged = t.ops[j].staged
                           /\ u.ops[j].moved = t.ops[j].moved
                           /\ (j # a => u.ops[j].published = t.ops[j].published)
    BY DEF PublishStep, Steps, Carries, SameOps, Reflags, Now
  <1>2. a \in 1..n /\ Now(t).dest \in Homes
    <2>1. a \in 1..n
      BY DEF Steps, Running1, Placing, PublishStep, Forwards
    <2> QED
      BY <2>1, NowFacts DEF Steps
  <1>3. /\ At(e, Aside(i)) = At(d, Aside(i)) /\ At(e, Displaced(i)) = At(d, Displaced(i))
        /\ At(e, Stage(i)) = IF i = a THEN None ELSE At(d, Stage(i))
    <2>1. ShowsPublish(d, e, Now(t).dest, a)
      BY <1>2, PublishShows DEF PublishStep
    <2> QED
      BY <2>1 DEF ShowsPublish
  <1>4. Onward(t) /\ u.phase \in {"undo", "take", "verify"}
    BY DEF PublishStep, Fails, Proceeds, Onward, Forwards
  <1> QED
    BY <1>1, <1>2, <1>3, <1>4 DEF Leftover

LEMMA LeftoverFinish ==
  ASSUME NEW t, NEW u, NEW d, NEW e, NEW s \in BOOLEAN, Steps(t, u), Progress(t),
         NEW i \in Nat, Leftover(t, d, s, i), FinishStep(t, d, u, e)
  PROVE  Leftover(u, e, s, i)
  <1> DEFINE n == Len(t.ops)
             a == t.at
  <1>1. Len(u.ops) = n /\ \A j \in 1..n : Unmoved(t, u, j)
    BY FlagsKept DEF FinishStep, Steps
  <1>2. a \in 1..n /\ n \in Nat /\ a \in Nat
    BY RunningFacts DEF Steps, Running1, Placing, FinishStep, Forwards
  <1>3. Onward(t) /\ Onward(u) /\ t.phase = "finish"
    BY DEF FinishStep, Stays, Onward, Forwards
  <1>4. CASE e = d /\ Stays(t, u, "unfinished")
    BY <1>1, <1>3, <1>4 DEF Leftover, Unmoved, Stays
  <1>5. CASE /\ IF Now(t).moved
                THEN At(d, Aside(t.at)) = Now(t).prior /\ Removes(d, e, {Aside(t.at)})
                ELSE e = d
             /\ \/ t.at = Len(t.ops) /\ Stays(t, u, "ok")
                \/ t.at < Len(t.ops) /\ u.phase = "finish" /\ u.at = t.at + 1
    <2>1. /\ At(e, Stage(i)) = At(d, Stage(i)) /\ At(e, Displaced(i)) = At(d, Displaced(i))
          /\ At(e, Aside(i)) # None => At(e, Aside(i)) = At(d, Aside(i)) /\ i # a
      <3>1. CASE Now(t).moved
        <4>1. Removes(d, e, {Aside(a)}) /\ {Aside(a)} \subseteq ArtifactNames
          BY <1>2, <1>5, <3>1, NameFacts
        <4>2. Stage(i) \notin {Aside(a)} /\ Displaced(i) \notin {Aside(a)} /\ Aside(a) \in {Aside(a)}
              /\ (i # a => Aside(i) \notin {Aside(a)})
          BY NameFacts
        <4> QED
          BY <4>1, <4>2, RemoveShows
      <3>2. CASE ~Now(t).moved
        BY <1>2, <1>3, <1>5, <3>2 DEF Leftover, Now
      <3> QED
        BY <3>1, <3>2
    <2>2. At(e, Aside(i)) # None => i \in 1..n /\ i > a
      BY <1>2, <1>3, <2>1 DEF Leftover
    <2> QED
      BY <1>1, <1>2, <1>3, <1>5, <2>1, <2>2 DEF Leftover, Unmoved, Stays
  <1> QED
    BY <1>4, <1>5 DEF FinishStep

LEMMA LeftoverDisplace ==
  ASSUME NEW t, NEW u, NEW d, NEW e, NEW s \in BOOLEAN, NEW r \in BOOLEAN, r => s,
         Steps(t, u), Progress(t),
         NEW i \in Nat, Leftover(t, d, s, i), DisplaceStep(t, d, u, e)
  PROVE  Leftover(u, e, r, i)
  <1> DEFINE n == Len(t.ops)
             a == t.at
  <1>1. /\ Len(u.ops) = n
        /\ \A j \in 1..n : /\ u.ops[j].staged = t.ops[j].staged
                           /\ u.ops[j].moved = t.ops[j].moved
                           /\ (j # a => u.ops[j].published = t.ops[j].published)
    BY DEF DisplaceStep, Steps, Carries, SameOps, Reflags, SameFlags, Now
  <1>2. a \in 1..n /\ a \in Nat /\ Now(t).dest \in Homes
    <2>1. a \in 1..n
      BY DEF Steps, Running1, Placing, DisplaceStep
    <2> QED
      BY <2>1, NowFacts DEF Steps
  <1>3. /\ At(e, Stage(i)) = At(d, Stage(i)) /\ At(e, Aside(i)) = At(d, Aside(i))
        /\ i # a => At(e, Displaced(i)) = At(d, Displaced(i))
    <2>1. ShowsDisplace(d, e, Now(t).dest, a)
      BY <1>2, DisplaceShows DEF DisplaceStep
    <2> QED
      BY <2>1 DEF ShowsDisplace
  <1>4. ~Onward(t) /\ ~Onward(u) /\ t.phase = "displace" /\ t.ops[a].published
    BY DEF DisplaceStep, GivesUp, Stays, Onward, Forwards, Progress
  <1>5. \/ u.phase \in {"restore", "discard"} /\ u.at = a /\ u.errors = t.errors
        \/ u.phase = "undo" /\ u.at = a - 1 /\ u.errors = TRUE
    BY DEF DisplaceStep, GivesUp, Stays
  <1>6. At(d, Stage(i)) # None => i # a
    BY <1>4 DEF Leftover
  <1>7. ~Pending(u, a) /\ (Pending(u, i) => Pending(t, i))
    BY <1>2, <1>4, <1>5 DEF Pending
  <1>8. At(d, Displaced(i)) # None => ~(~t.errors /\ s)
    BY <1>4 DEF Leftover
  <1>9. At(e, Stage(i)) # None =>
          /\ i \in 1..n /\ u.ops[i].staged # None /\ ~u.ops[i].published
          /\ u.phase \notin {"failed", "refused"}
    BY <1>1, <1>3, <1>5, <1>6 DEF Leftover
  <1>10. At(e, Aside(i)) # None =>
          /\ i \in 1..n /\ (Onward(u) \/ r => u.ops[i].moved)
          /\ (u.phase = "finish" => i >= u.at) /\ u.phase # "ok"
    BY <1>1, <1>3, <1>4, <1>5 DEF Leftover
  <1>11. At(e, Displaced(i)) # None =>
          /\ i \in 1..n /\ ~Pending(u, i)
          /\ (~u.errors /\ r => u.phase \in {"restore", "discard"} /\ i = u.at)
    BY <1>1, <1>2, <1>3, <1>5, <1>7, <1>8 DEF Leftover
  <1> QED
    BY <1>1, <1>4, <1>9, <1>10, <1>11 DEF Leftover

LEMMA LeftoverRestore ==
  ASSUME NEW t, NEW u, NEW d, NEW e, NEW s \in BOOLEAN, NEW r \in BOOLEAN, r => s,
         Steps(t, u), Progress(t),
         NEW i \in Nat, Leftover(t, d, s, i), RestoreStep(t, d, u, e)
  PROVE  Leftover(u, e, r, i)
  <1> DEFINE n == Len(t.ops)
             a == t.at
  <1>1. /\ Len(u.ops) = n
        /\ \A j \in 1..n : /\ u.ops[j].staged = t.ops[j].staged
                           /\ u.ops[j].published = t.ops[j].published
                           /\ (j # a => u.ops[j].moved = t.ops[j].moved)
    BY DEF RestoreStep, Steps, Carries, SameOps, Reflags, SameFlags, Now
  <1>2. a \in 1..n /\ a \in Nat /\ Now(t).dest \in Homes
    <2>1. a \in 1..n
      BY DEF Steps, Running1, Placing, RestoreStep
    <2> QED
      BY <2>1, NowFacts DEF Steps
  <1>3. /\ At(e, Stage(i)) = At(d, Stage(i)) /\ At(e, Displaced(i)) = At(d, Displaced(i))
        /\ At(e, Aside(i)) = IF i = a THEN None ELSE At(d, Aside(i))
    <2>1. ShowsRestore(d, e, Now(t).dest, a)
      BY <1>2, RestoreShows DEF RestoreStep
    <2> QED
      BY <2>1 DEF ShowsRestore
  <1>4. ~Onward(t) /\ ~Onward(u) /\ t.phase = "restore"
    BY DEF RestoreStep, GivesUp, Stays, Descends, Onward, Forwards
  <1>5. \/ u.phase = "discard" /\ u.at = a /\ u.errors = t.errors
        \/ u.phase = "undo" /\ u.at = a - 1 /\ u.errors = t.errors /\ At(d, Displaced(a)) = None
        \/ u.phase = "undo" /\ u.at = a - 1 /\ u.errors = TRUE
    BY DEF RestoreStep, GivesUp, Stays, Descends
  <1>6. Pending(u, i) => Pending(t, i)
    BY <1>2, <1>4, <1>5 DEF Pending
  <1>7. At(d, Displaced(i)) # None /\ ~t.errors /\ s => i = a
    BY <1>4 DEF Leftover
  <1>8. At(e, Stage(i)) # None =>
          /\ i \in 1..n /\ u.ops[i].staged # None /\ ~u.ops[i].published
          /\ u.phase \notin {"failed", "refused"}
    BY <1>1, <1>3, <1>5 DEF Leftover
  <1>9. At(e, Aside(i)) # None =>
          /\ i \in 1..n /\ (Onward(u) \/ r => u.ops[i].moved)
          /\ (u.phase = "finish" => i >= u.at) /\ u.phase # "ok"
    BY <1>1, <1>3, <1>4, <1>5 DEF Leftover
  <1>10. At(e, Displaced(i)) # None =>
          /\ i \in 1..n /\ ~Pending(u, i)
          /\ (~u.errors /\ r => u.phase \in {"restore", "discard"} /\ i = u.at)
    BY <1>1, <1>3, <1>5, <1>6, <1>7 DEF Leftover
  <1> QED
    BY <1>1, <1>4, <1>8, <1>9, <1>10 DEF Leftover

LEMMA LeftoverDiscard ==
  ASSUME NEW t, NEW u, NEW d, NEW e, NEW s \in BOOLEAN, Steps(t, u), Progress(t),
         NEW i \in Nat, Leftover(t, d, s, i), DiscardStep(t, d, u, e)
  PROVE  Leftover(u, e, s, i)
  <1> DEFINE n == Len(t.ops)
             a == t.at
  <1>1. Len(u.ops) = n /\ \A j \in 1..n : Unmoved(t, u, j)
    BY FlagsKept DEF DiscardStep, Steps
  <1>2. a \in 1..n /\ n \in Nat /\ a \in Nat
    BY RunningFacts DEF Steps, Running1, Placing, DiscardStep
  <1>3. /\ At(e, Stage(i)) = At(d, Stage(i)) /\ At(e, Aside(i)) = At(d, Aside(i))
        /\ At(e, Displaced(i)) # None => At(e, Displaced(i)) = At(d, Displaced(i)) /\ i # a
    <2>1. Removes(d, e, {Displaced(a)}) /\ {Displaced(a)} \subseteq ArtifactNames
      BY <1>2, NameFacts DEF DiscardStep
    <2>2. Stage(i) \notin {Displaced(a)} /\ Aside(i) \notin {Displaced(a)} /\ Displaced(a) \in {Displaced(a)}
          /\ (i # a => Displaced(i) \notin {Displaced(a)})
      BY NameFacts
    <2> QED
      BY <2>1, <2>2, RemoveShows
  <1>4. ~Onward(t) /\ ~Onward(u) /\ t.phase = "discard" /\ u.phase = "undo" /\ u.at = a - 1
        /\ u.errors = t.errors
    BY DEF DiscardStep, Descends, Onward, Forwards
  <1>5. Pending(u, i) => Pending(t, i)
    BY <1>2, <1>4 DEF Pending
  <1> QED
    BY <1>1, <1>2, <1>3, <1>4, <1>5 DEF Leftover, Unmoved

LEMMA LeftoverClean ==
  ASSUME NEW t, NEW u, NEW d, NEW e, NEW s \in BOOLEAN, Steps(t, u), Progress(t),
         NEW i \in Nat, Leftover(t, d, s, i), CleanStep(t, d, u, e)
  PROVE  Leftover(u, e, s, i)
  <1> DEFINE n == Len(t.ops)
  <1>1. Len(u.ops) = n /\ \A j \in 1..n : Unmoved(t, u, j)
    BY FlagsKept DEF CleanStep, Steps
  <1>2. PICK S \in SUBSET StageNames :
          /\ Removes(d, e, S)
          /\ \A j \in Nat : Stage(j) \in S => j \in 1..n /\ At(d, Stage(j)) = t.ops[j].staged
    BY DEF CleanStep
  <1>3. /\ At(e, Aside(i)) = At(d, Aside(i)) /\ At(e, Displaced(i)) = At(d, Displaced(i))
        /\ At(e, Stage(i)) # None => At(e, Stage(i)) = At(d, Stage(i))
    <2>1. S \subseteq ArtifactNames
      BY DEF ArtifactNames
    <2>2. Aside(i) \notin S /\ Displaced(i) \notin S
      BY NameFacts DEF StageNames
    <2> QED
      BY <1>2, <2>1, <2>2, RemoveShows
  <1>4. /\ ~Onward(t) /\ ~Onward(u) /\ t.phase = "undo" /\ u.phase \in {"failed", "incomplete"}
        /\ u.errors = t.errors
    BY DEF CleanStep, Stays, Onward, Forwards
  <1>5. ~Pending(u, i) /\ u.phase # "refused" /\ u.phase # "finish" /\ u.phase # "ok"
    BY <1>4 DEF Pending
  <1>6. u.phase = "failed" => \A j \in 1..n : At(e, Stage(j)) = None
    BY DEF CleanStep, Stays
  <1> QED
    BY <1>1, <1>3, <1>4, <1>5, <1>6 DEF Leftover, Unmoved

LEMMA LeftoverUnseen ==
  ASSUME NEW t, NEW u, NEW d, NEW e, NEW s \in BOOLEAN, NEW r \in BOOLEAN, ~r, Steps(t, u), Progress(t),
         NEW i \in Nat, Leftover(t, d, s, i), MoveUnseen(t, d, u, e) \/ PublishUnseen(t, d, u, e)
  PROVE  Leftover(u, e, r, i)
  <1> DEFINE n == Len(t.ops)
             a == t.at
  <1>1. Len(u.ops) = n /\ \A j \in 1..n : Unmoved(t, u, j)
    BY FlagsKept DEF MoveUnseen, PublishUnseen, Steps
  <1>2. a \in 1..n /\ Now(t).dest \in Homes
    <2>1. a \in 1..n
      BY DEF Steps, Running1, Placing, MoveUnseen, PublishUnseen, Forwards
    <2> QED
      BY <2>1, NowFacts DEF Steps
  <1>3. ShowsMove(d, e, Now(t).dest, a) \/ ShowsPublish(d, e, Now(t).dest, a)
    BY <1>2, MoveShows, PublishShows DEF MoveUnseen, PublishUnseen
  <1>4. /\ At(e, Stage(i)) # None => At(d, Stage(i)) # None
        /\ At(e, Aside(i)) # None => At(d, Aside(i)) # None \/ i = a
        /\ At(e, Displaced(i)) = At(d, Displaced(i))
    BY <1>3 DEF ShowsMove, ShowsPublish
  <1>5. Onward(t) /\ ~Onward(u) /\ u.phase = "undo"
    BY DEF MoveUnseen, PublishUnseen, Fails, Onward, Forwards
  <1> QED
    BY <1>1, <1>2, <1>4, <1>5 DEF Leftover, Unmoved

LEMMA LeftoversStep ==
  ASSUME NEW t, NEW u, NEW d, NEW e, NEW s \in BOOLEAN, Steps(t, u), Progress(t), Leftovers(t, d, s)
  PROVE  /\ RunStep(t, d, u, e) => Leftovers(u, e, s)
         /\ UnseenStep(t, d, u, e) => Leftovers(u, e, FALSE)
  <1>1. ASSUME NEW i \in Nat, RunStep(t, d, u, e) PROVE Leftover(u, e, s, i)
    <2>1. Leftover(t, d, s, i)
      BY LeftoversEach
    <2> QED
      BY <1>1, <2>1, LeftoverQuiet, LeftoverMove, LeftoverPublish, LeftoverFinish, LeftoverDisplace,
         LeftoverRestore, LeftoverDiscard, LeftoverClean DEF RunStep
  <1>2. ASSUME NEW i \in Nat, UnseenStep(t, d, u, e), NEW r \in BOOLEAN, ~r
        PROVE  Leftover(u, e, r, i)
    <2>1. Leftover(t, d, s, i)
      BY LeftoversEach
    <2>2. r => s
      BY <1>2
    <2>3. MoveUnseen(t, d, u, e) \/ PublishUnseen(t, d, u, e) => Leftover(u, e, r, i)
      BY <1>2, <2>1, LeftoverUnseen
    <2>4. DisplaceStep(t, d, u, e) => Leftover(u, e, r, i)
      BY <2>1, <2>2, LeftoverDisplace
    <2>5. RestoreStep(t, d, u, e) => Leftover(u, e, r, i)
      BY <2>1, <2>2, LeftoverRestore
    <2> QED
      BY <1>2, <2>3, <2>4, <2>5 DEF UnseenStep
  <1>3. ASSUME UnseenStep(t, d, u, e), NEW r \in BOOLEAN, ~r
        PROVE  Leftovers(u, e, r)
    BY <1>2, <1>3, LeftoversEach
  <1> QED
    BY <1>1, <1>3, LeftoversEach

-----------------------------------------------------------------------------
(* Untouched names, from step to step.                                     *)

\* The clauses of Exactly for one name.
ExactAt(t, d, p) ==
  LET n == Len(t.ops)
      o == t.ops
  IN
  /\ (\A i \in 1..n : o[i].dest = p => ~Active(o[i])) => At(d, p) = At(t.before, p)
  /\ \A i \in 1..n :
       o[i].dest = p /\ Active(o[i]) /\ (\A j \in 1..n : j > i /\ o[j].dest = p => ~Active(o[j])) =>
         At(d, p) = IF o[i].published THEN IF Onward(t) THEN o[i].staged ELSE At(d, p)
                    ELSE None

LEMMA ExactlyEach == ASSUME NEW t, NEW d, NEW s
  PROVE  Exactly(t, d, s) <=>
           (Onward(t) \/ (s /\ ~t.errors) => \A p \in Homes : p \notin t.touched => ExactAt(t, d, p))
  BY DEF Exactly, ExactAt

LEMMA ExactStays ==
  ASSUME NEW t, NEW u, NEW d, NEW e, NEW p, Len(u.ops) = Len(t.ops),
         \A i \in 1..Len(t.ops) : /\ u.ops[i].dest = t.ops[i].dest
                                  /\ t.ops[i].dest = p => Unmoved(t, u, i),
         u.before = t.before, At(e, p) = At(d, p), Onward(u) => Onward(t), ExactAt(t, d, p)
  PROVE  ExactAt(u, e, p)
  <1> DEFINE n == Len(t.ops)
  <1>1. ASSUME \A i \in 1..n : u.ops[i].dest = p => ~Active(u.ops[i])
        PROVE  At(e, p) = At(u.before, p)
    <2>1. \A i \in 1..n : t.ops[i].dest = p => ~Active(t.ops[i])
      BY <1>1 DEF Unmoved
    <2> QED
      BY <2>1 DEF ExactAt
  <1>2. ASSUME NEW i \in 1..n, u.ops[i].dest = p, Active(u.ops[i]),
               \A j \in 1..n : j > i /\ u.ops[j].dest = p => ~Active(u.ops[j])
        PROVE  At(e, p) = IF u.ops[i].published THEN IF Onward(u) THEN u.ops[i].staged ELSE At(e, p)
                          ELSE None
    <2>1. t.ops[i].dest = p /\ Active(t.ops[i]) /\ u.ops[i].published = t.ops[i].published
          /\ u.ops[i].staged = t.ops[i].staged
      BY <1>2 DEF Unmoved
    <2>2. \A j \in 1..n : j > i /\ t.ops[j].dest = p => ~Active(t.ops[j])
      BY <1>2 DEF Unmoved
    <2>3. At(d, p) = IF t.ops[i].published THEN IF Onward(t) THEN t.ops[i].staged ELSE At(d, p)
                     ELSE None
      BY <2>1, <2>2 DEF ExactAt
    <2> QED
      BY <2>1, <2>3
  <1> QED
    BY <1>1, <1>2 DEF ExactAt

LEMMA ExactlyQuiet ==
  ASSUME NEW t, NEW u, NEW d, NEW e, NEW s \in BOOLEAN, Steps(t, u), SameFlags(t, u), Exactly(t, d, s),
         \A p \in Homes : At(e, p) = At(d, p),
         Onward(u) => Onward(t), t.errors => u.errors \/ Onward(t)
  PROVE  Exactly(u, e, s)
  <1>1. /\ Len(u.ops) = Len(t.ops) /\ \A i \in 1..Len(t.ops) : Unmoved(t, u, i)
        /\ u.before = t.before /\ u.touched = t.touched
    BY FlagsKept DEF Steps
  <1>2. SUFFICES ASSUME Onward(u) \/ (s /\ ~u.errors), NEW p \in Homes, p \notin u.touched
                 PROVE  ExactAt(u, e, p)
    BY ExactlyEach
  <1>3. ExactAt(t, d, p)
    BY <1>1, <1>2, ExactlyEach
  <1>4. \A i \in 1..Len(t.ops) : u.ops[i].dest = t.ops[i].dest
    BY <1>1 DEF Unmoved
  <1> QED
    BY <1>1, <1>2, <1>3, <1>4, ExactStays

LEMMA ExactlyMove ==
  ASSUME NEW t, NEW u, NEW d, NEW e, NEW s \in BOOLEAN, Steps(t, u), Progress(t), Exactly(t, d, s),
         MoveStep(t, d, u, e)
  PROVE  Exactly(u, e, s)
  <1> DEFINE n == Len(t.ops)
             a == t.at
             x == Now(t).dest
  <1>1. a \in 1..n /\ n \in Nat /\ x \in Homes
    <2>1. a \in 1..n
      BY DEF Steps, Running1, Placing, MoveStep, Forwards
    <2> QED
      BY <2>1, NowFacts, RunningFacts DEF Steps
  <1>2. /\ Len(u.ops) = n /\ \A i \in 1..n : i # a => Unmoved(t, u, i)
        /\ u.ops[a].moved = TRUE /\ u.ops[a].published = t.ops[a].published
        /\ \A i \in 1..n : u.ops[i].dest = t.ops[i].dest
        /\ u.before = t.before /\ u.touched = t.touched
    BY DEF MoveStep, Steps, Now, Carries, SameOps, Reflags, Unmoved, Done, Active
  <1>3. Onward(t) /\ ~t.ops[a].published /\ \A i \in 1..n : i > a => ~Active(t.ops[i])
    BY DEF MoveStep, Onward, Forwards, Progress, Active
  <1>4. \A p \in Homes : At(e, p) = IF p = x THEN None ELSE At(d, p)
    <2>1. ShowsMove(d, e, x, a)
      BY <1>1, MoveShows DEF MoveStep
    <2> QED
      BY <2>1 DEF ShowsMove
  <1>5. SUFFICES ASSUME NEW p \in Homes, p \notin u.touched
                 PROVE  ExactAt(u, e, p)
    BY ExactlyEach
  <1>6. CASE p # x
    <2>1. ExactAt(t, d, p)
      BY <1>2, <1>3, <1>5, ExactlyEach
    <2>2. \A i \in 1..n : t.ops[i].dest = p => Unmoved(t, u, i)
      BY <1>2, <1>6 DEF Now
    <2>3. At(e, p) = At(d, p)
      BY <1>4, <1>6
    <2> QED
      BY <1>2, <1>3, <2>1, <2>2, <2>3, ExactStays
  <1>7. CASE p = x
    <2>1. Active(u.ops[a]) /\ u.ops[a].dest = p /\ ~u.ops[a].published
      BY <1>1, <1>2, <1>3, <1>7 DEF Active, Now
    <2>2. \A i \in 1..n : i > a => ~Active(u.ops[i])
      BY <1>1, <1>2, <1>3 DEF Unmoved
    <2>3. \A i \in 1..n : i < a \/ i = a \/ i > a
      BY <1>1
    <2>4. At(e, p) = None
      BY <1>4, <1>7
    <2> QED
      BY <1>1, <1>2, <2>1, <2>2, <2>3, <2>4 DEF ExactAt
  <1> QED
    BY <1>6, <1>7

LEMMA ExactlyPublish ==
  ASSUME NEW t, NEW u, NEW d, NEW e, NEW s \in BOOLEAN, Steps(t, u), Progress(t), Exactly(t, d, s),
         PublishStep(t, d, u, e)
  PROVE  Exactly(u, e, s)
  <1> DEFINE n == Len(t.ops)
             a == t.at
             x == Now(t).dest
  <1>1. a \in 1..n /\ n \in Nat /\ x \in Homes
    <2>1. a \in 1..n
      BY DEF Steps, Running1, Placing, PublishStep, Forwards
    <2> QED
      BY <2>1, NowFacts, RunningFacts DEF Steps
  <1>2. /\ Len(u.ops) = n /\ \A i \in 1..n : i # a => Unmoved(t, u, i)
        /\ u.ops[a].moved = t.ops[a].moved /\ u.ops[a].published = TRUE
        /\ \A i \in 1..n : u.ops[i].dest = t.ops[i].dest /\ u.ops[i].staged = t.ops[i].staged
        /\ u.before = t.before /\ u.touched = t.touched
    BY DEF PublishStep, Steps, Now, Carries, SameOps, Reflags, Unmoved, Done, Active
  <1>3. Onward(t) /\ \A i \in 1..n : i > a => ~Active(t.ops[i])
    BY DEF PublishStep, Onward, Forwards, Progress, Active
  <1>4. \A p \in Homes : At(e, p) = IF p = x THEN At(d, Stage(a)) ELSE At(d, p)
    <2>1. ShowsPublish(d, e, x, a)
      BY <1>1, PublishShows DEF PublishStep
    <2> QED
      BY <2>1 DEF ShowsPublish
  <1>5. Onward(u) => At(d, Stage(a)) = Now(t).staged
    BY DEF PublishStep, Fails, Onward, Forwards
  <1>6. SUFFICES ASSUME NEW p \in Homes, p \notin u.touched
                 PROVE  ExactAt(u, e, p)
    BY ExactlyEach
  <1>7. CASE p # x
    <2>1. ExactAt(t, d, p)
      BY <1>2, <1>3, <1>6, ExactlyEach
    <2>2. \A i \in 1..n : t.ops[i].dest = p => Unmoved(t, u, i)
      BY <1>2, <1>7 DEF Now
    <2>3. At(e, p) = At(d, p)
      BY <1>4, <1>7
    <2> QED
      BY <1>2, <1>3, <2>1, <2>2, <2>3, ExactStays
  <1>8. CASE p = x
    <2>1. Active(u.ops[a]) /\ u.ops[a].dest = p /\ u.ops[a].published /\ u.ops[a].staged = Now(t).staged
      BY <1>1, <1>2, <1>3, <1>8 DEF Active, Now
    <2>2. \A i \in 1..n : i > a => ~Active(u.ops[i])
      BY <1>1, <1>2, <1>3 DEF Unmoved
    <2>3. \A i \in 1..n : i < a \/ i = a \/ i > a
      BY <1>1
    <2>4. At(e, p) = At(d, Stage(a))
      BY <1>4, <1>8
    <2> QED
      BY <1>1, <1>2, <1>5, <2>1, <2>2, <2>3, <2>4 DEF ExactAt
  <1> QED
    BY <1>7, <1>8

\* An operation on a name that is the first one there, or follows another.
PriorFollows(d, ops, a) ==
  /\ (\A j \in 1..Len(ops) : j < a => ops[j].dest # ops[a].dest) => ops[a].prior = At(d, ops[a].dest)
  /\ \A i \in 1..Len(ops) :
       i < a /\ ops[i].dest = ops[a].dest
             /\ (\A k \in 1..Len(ops) : i < k /\ k < a => ops[k].dest # ops[a].dest)
         => ops[a].prior = ops[i].staged
  /\ \A i \in 1..Len(ops) : Done(ops[i]) => Active(ops[i])

LEMMA PriorsHold ==
  ASSUME NEW d, NEW ops, PlanPriors(d, ops), NEW a \in 1..Len(ops), Len(ops) \in Nat
  PROVE  PriorFollows(d, ops, a)
  <1>1. ASSUME \A j \in 1..Len(ops) : j < a => ops[j].dest # ops[a].dest
        PROVE  ops[a].prior = At(d, ops[a].dest)
    <2>1. \A j \in 1..(a - 1) : ops[j].dest # ops[a].dest
      BY <1>1
    <2> QED
      BY <2>1 DEF PlanPriors
  <1>2. ASSUME NEW i \in 1..Len(ops), i < a, ops[i].dest = ops[a].dest,
               \A k \in 1..Len(ops) : i < k /\ k < a => ops[k].dest # ops[a].dest
        PROVE  ops[a].prior = ops[i].staged
    <2>1. i \in 1..(a - 1) /\ \A k \in (i + 1)..(a - 1) : ops[k].dest # ops[a].dest
      BY <1>2
    <2> QED
      BY <1>2, <2>1 DEF PlanPriors
  <1>3. \A i \in 1..Len(ops) : Done(ops[i]) => Active(ops[i])
    <2>1. \A i \in 1..Len(ops) : ops[i].prior # None \/ ops[i].staged # None
      BY DEF PlanPriors
    <2> QED
      BY <2>1 DEF Done, Active
  <1> QED
    BY <1>1, <1>2, <1>3 DEF PriorFollows

\* Taking back the last operation on a name puts back what it found there.
LEMMA ExactTakenBack ==
  ASSUME NEW t, NEW u, NEW e, Running1(t), Running1(u), SameOps(t.ops, u.ops), u.before = t.before,
         PlanPriors(t.before, t.ops), NEW a \in 1..Len(t.ops),
         ~Onward(u), ~Active(u.ops[a]), At(e, t.ops[a].dest) = t.ops[a].prior,
         \A j \in 1..Len(t.ops) : j < a => Done(u.ops[j]),
         \A j \in 1..Len(t.ops) : j > a => ~Active(u.ops[j])
  PROVE  ExactAt(u, e, t.ops[a].dest)
  <1> DEFINE n == Len(t.ops)
             p == t.ops[a].dest
  <1>1. Len(u.ops) = n /\ n \in Nat
        /\ \A i \in 1..n : /\ u.ops[i].dest = t.ops[i].dest /\ u.ops[i].staged = t.ops[i].staged
                           /\ u.ops[i].prior = t.ops[i].prior
    BY RunningFacts DEF SameOps
  <1>2. /\ (\A j \in 1..n : j < a => t.ops[j].dest # p) => t.ops[a].prior = At(t.before, p)
        /\ \A i \in 1..n :
              i < a /\ t.ops[i].dest = p /\ (\A k \in 1..n : i < k /\ k < a => t.ops[k].dest # p)
                => t.ops[a].prior = t.ops[i].staged
    <2>1. PriorFollows(t.before, t.ops, a)
      BY <1>1, PriorsHold
    <2> QED
      BY <2>1 DEF PriorFollows
  <1>3. \A i \in 1..n : Done(u.ops[i]) => Active(u.ops[i])
    <2>1. \A i \in 1..n : t.ops[i].prior # None \/ t.ops[i].staged # None
      BY DEF PlanPriors
    <2> QED
      BY <1>1, <2>1 DEF Done, Active
  <1>4. ASSUME \A i \in 1..n : u.ops[i].dest = p => ~Active(u.ops[i])
        PROVE  At(e, p) = At(u.before, p)
    <2>1. \A j \in 1..n : j < a => t.ops[j].dest # p
      BY <1>1, <1>3, <1>4
    <2> QED
      BY <1>2, <2>1
  <1>5. ASSUME NEW i \in 1..n, u.ops[i].dest = p, Active(u.ops[i]),
               \A j \in 1..n : j > i /\ u.ops[j].dest = p => ~Active(u.ops[j])
        PROVE  At(e, p) = IF u.ops[i].published THEN IF Onward(u) THEN u.ops[i].staged ELSE At(e, p)
                          ELSE None
    <2>1. i < a
      <3>1. i # a /\ ~(i > a)
        BY <1>5
      <3> QED
        BY <1>1, <3>1
    <2>2. \A k \in 1..n : i < k /\ k < a => t.ops[k].dest # p
      BY <1>1, <1>3, <1>5
    <2>3. t.ops[a].prior = u.ops[i].staged
      BY <1>1, <1>2, <1>5, <2>1, <2>2
    <2>4. Done(u.ops[i])
      BY <2>1
    <2>5. ~u.ops[i].published => u.ops[i].staged = None
      <3>1. u.ops[i].published \in BOOLEAN
        <4>1. u.ops[i] \in Operations
          BY <1>1, RunningFacts
        <4> QED
          BY <4>1 DEF Operations
      <3> QED
        BY <2>4, <3>1 DEF Done
    <2> QED
      BY <2>3, <2>5
  <1> QED
    BY <1>1, <1>4, <1>5 DEF ExactAt

LEMMA ExactlyDisplace ==
  ASSUME NEW t, NEW u, NEW d, NEW e, NEW s \in BOOLEAN, Steps(t, u), Progress(t), Exactly(t, d, s),
         PlanPriors(t.before, t.ops), DisplaceStep(t, d, u, e)
  PROVE  Exactly(u, e, s)
  <1> DEFINE n == Len(t.ops)
             a == t.at
             x == Now(t).dest
  <1>1. a \in 1..n /\ n \in Nat /\ x \in Homes /\ t.ops[a].moved \in BOOLEAN
    <2>1. a \in 1..n
      BY DEF Steps, Running1, Placing, DisplaceStep
    <2> QED
      BY <2>1, NowFacts, RunningFacts DEF Steps, Now
  <1>2. t.phase = "displace" /\ ~Onward(t) /\ ~Onward(u)
    BY DEF DisplaceStep, GivesUp, Stays, Onward, Forwards
  <1>3. SUFFICES ASSUME s, ~u.errors, NEW p \in Homes, p \notin u.touched
                 PROVE  ExactAt(u, e, p)
    BY <1>2, ExactlyEach
  <1>4. /\ Reflags(t, u, t.ops[a].moved, FALSE) /\ u.errors = t.errors
    BY <1>3 DEF DisplaceStep, GivesUp, Stays, Now
  <1>5. /\ Len(u.ops) = n /\ \A i \in 1..n : i # a => Unmoved(t, u, i)
        /\ u.ops[a].moved = t.ops[a].moved /\ u.ops[a].published = FALSE
        /\ \A i \in 1..n : u.ops[i].dest = t.ops[i].dest
        /\ u.before = t.before /\ u.touched = t.touched /\ SameOps(t.ops, u.ops)
    BY <1>4 DEF Steps, Carries, SameOps, Reflags, Unmoved, Done, Active
  <1>6. \A q \in Homes : At(e, q) = IF q = x THEN None ELSE At(d, q)
    <2>1. ShowsDisplace(d, e, x, a)
      BY <1>1, DisplaceShows DEF DisplaceStep
    <2> QED
      BY <2>1 DEF ShowsDisplace
  <1>7. ExactAt(t, d, p)
    BY <1>3, <1>4, <1>5, ExactlyEach
  <1>8. CASE p # x
    <2>1. \A i \in 1..n : t.ops[i].dest = p => Unmoved(t, u, i)
      BY <1>5, <1>8 DEF Now
    <2>2. At(e, p) = At(d, p)
      BY <1>6, <1>8
    <2> QED
      BY <1>2, <1>5, <1>7, <2>1, <2>2, ExactStays
  <1>9. CASE p = x
    <2>1. At(e, p) = None /\ p = t.ops[a].dest
      BY <1>6, <1>9 DEF Now
    <2>2. t.ops[a].published
      BY <1>2 DEF Progress
    <2>3. /\ t.ops[a].moved = (t.ops[a].prior # None)
          /\ \A j \in 1..n : j < a => Done(t.ops[j])
          /\ \A j \in 1..n : j > a => ~Active(t.ops[j])
      BY <1>1, <1>2, <1>3, <1>4, <2>2 DEF Progress, Active
    <2>4. /\ \A j \in 1..n : j < a => Done(u.ops[j])
          /\ \A j \in 1..n : j > a => ~Active(u.ops[j])
      BY <1>1, <1>5, <2>3 DEF Unmoved
    <2>5. CASE t.ops[a].moved
      <3>1. Active(u.ops[a]) /\ u.ops[a].dest = p /\ ~u.ops[a].published
        BY <1>1, <1>5, <2>1, <2>5 DEF Active
      <3>2. \A i \in 1..n : i < a \/ i = a \/ i > a
        BY <1>1
      <3> QED
        BY <1>1, <1>5, <2>1, <2>4, <3>1, <3>2 DEF ExactAt
    <2>6. CASE ~t.ops[a].moved
      <3>1. ~Active(u.ops[a]) /\ t.ops[a].prior = None
        BY <1>1, <1>5, <2>3, <2>6 DEF Active
      <3> QED
        BY <1>1, <1>2, <1>5, <2>1, <2>4, <3>1, ExactTakenBack DEF Steps
    <2> QED
      BY <2>5, <2>6
  <1> QED
    BY <1>8, <1>9

LEMMA ExactlyRestore ==
  ASSUME NEW t, NEW u, NEW d, NEW e, NEW s \in BOOLEAN, Steps(t, u), Progress(t), Exactly(t, d, s),
         PlanPriors(t.before, t.ops), RestoreStep(t, d, u, e)
  PROVE  Exactly(u, e, s)
  <1> DEFINE n == Len(t.ops)
             a == t.at
             x == Now(t).dest
  <1>1. a \in 1..n /\ n \in Nat /\ x \in Homes
    <2>1. a \in 1..n
      BY DEF Steps, Running1, Placing, RestoreStep
    <2> QED
      BY <2>1, NowFacts, RunningFacts DEF Steps, Now
  <1>2. t.phase = "restore" /\ ~Onward(t) /\ ~Onward(u)
    BY DEF RestoreStep, GivesUp, Stays, Descends, Onward, Forwards
  <1>3. SUFFICES ASSUME s, ~u.errors, NEW p \in Homes, p \notin u.touched
                 PROVE  ExactAt(u, e, p)
    BY <1>2, ExactlyEach
  <1>4. /\ Reflags(t, u, FALSE, t.ops[a].published) /\ u.errors = t.errors
    BY <1>3 DEF RestoreStep, GivesUp, Stays, Descends, Now
  <1>5. /\ Len(u.ops) = n /\ \A i \in 1..n : i # a => Unmoved(t, u, i)
        /\ u.ops[a].moved = FALSE /\ u.ops[a].published = t.ops[a].published
        /\ \A i \in 1..n : u.ops[i].dest = t.ops[i].dest
        /\ u.before = t.before /\ u.touched = t.touched /\ SameOps(t.ops, u.ops)
    BY <1>4 DEF Steps, Carries, SameOps, Reflags, Unmoved, Done, Active
  <1>6. \A q \in Homes : At(e, q) = IF q = x THEN At(d, Aside(a)) ELSE At(d, q)
    <2>1. ShowsRestore(d, e, x, a)
      BY <1>1, RestoreShows DEF RestoreStep
    <2> QED
      BY <2>1 DEF ShowsRestore
  <1>7. ExactAt(t, d, p)
    BY <1>3, <1>4, <1>5, ExactlyEach
  <1>8. CASE p # x
    <2>1. \A i \in 1..n : t.ops[i].dest = p => Unmoved(t, u, i)
      BY <1>5, <1>8 DEF Now
    <2>2. At(e, p) = At(d, p)
      BY <1>6, <1>8
    <2> QED
      BY <1>2, <1>5, <1>7, <2>1, <2>2, ExactStays
  <1>9. CASE p = x
    <2>1. At(e, p) = t.ops[a].prior /\ p = t.ops[a].dest
      BY <1>6, <1>9 DEF Now, RestoreStep
    <2>2. t.ops[a].moved /\ ~t.ops[a].published
      BY <1>2 DEF Progress
    <2>3. /\ \A j \in 1..n : j < a => Done(t.ops[j])
          /\ \A j \in 1..n : j > a => ~Active(t.ops[j])
      BY <1>1, <1>2, <1>3, <1>4, <2>2 DEF Progress, Active
    <2>4. /\ \A j \in 1..n : j < a => Done(u.ops[j])
          /\ \A j \in 1..n : j > a => ~Active(u.ops[j])
      BY <1>1, <1>5, <2>3 DEF Unmoved
    <2>5. ~Active(u.ops[a])
      BY <1>5, <2>2 DEF Active
    <2> QED
      BY <1>1, <1>2, <1>5, <2>1, <2>4, <2>5, ExactTakenBack DEF Steps
  <1> QED
    BY <1>8, <1>9

LEMMA ExactlyStep ==
  ASSUME NEW t, NEW u, NEW d, NEW e, NEW s \in BOOLEAN, Steps(t, u), Progress(t), Exactly(t, d, s),
         PlanPriors(t.before, t.ops)
  PROVE  /\ RunStep(t, d, u, e) => Exactly(u, e, s)
         /\ UnseenStep(t, d, u, e) => Exactly(u, e, FALSE)
  <1>1. ASSUME TakeStep(t, d, u, e) \/ StopStep(t, d, u, e) \/ VerifyStep(t, d, u, e) PROVE Exactly(u, e, s)
    <2>1. e = d /\ SameFlags(t, u) /\ Onward(t)
      BY <1>1 DEF TakeStep, StopStep, VerifyStep, Onward, Forwards
    <2> QED
      BY <1>1, <2>1, ExactlyQuiet
  <1>2. ASSUME UndoStep(t, d, u, e) \/ GiveUpStep(t, d, u, e) PROVE Exactly(u, e, s)
    <2>1. e = d /\ SameFlags(t, u) /\ ~Onward(u) /\ (t.errors => u.errors)
      BY <1>2 DEF UndoStep, GiveUpStep, GivesUpNow, Stays, GivesUp, Descends, Onward, Forwards
    <2> QED
      BY <2>1, ExactlyQuiet
  <1>3. ASSUME FinishStep(t, d, u, e) PROVE Exactly(u, e, s)
    <2>1. SameFlags(t, u) /\ Onward(t)
      BY <1>3 DEF FinishStep, Onward, Forwards
    <2>2. \A p \in Homes : At(e, p) = At(d, p)
      <3>1. e = d \/ Removes(d, e, {Aside(t.at)})
        BY <1>3 DEF FinishStep
      <3>2. {Aside(t.at)} \subseteq ArtifactNames
        BY RunningFacts, NameFacts DEF Steps
      <3> QED
        BY <3>1, <3>2, RemoveShows
    <2> QED
      BY <2>1, <2>2, ExactlyQuiet
  <1>4. ASSUME DiscardStep(t, d, u, e) PROVE Exactly(u, e, s)
    <2>1. SameFlags(t, u) /\ ~Onward(u) /\ u.errors = t.errors
      BY <1>4 DEF DiscardStep, Descends, Onward, Forwards
    <2>2. \A p \in Homes : At(e, p) = At(d, p)
      <3>1. Removes(d, e, {Displaced(t.at)}) /\ {Displaced(t.at)} \subseteq ArtifactNames
        BY <1>4, RunningFacts, NameFacts DEF Steps, DiscardStep
      <3> QED
        BY <3>1, RemoveShows
    <2> QED
      BY <2>1, <2>2, ExactlyQuiet
  <1>5. ASSUME CleanStep(t, d, u, e) PROVE Exactly(u, e, s)
    <2>1. SameFlags(t, u) /\ ~Onward(u) /\ u.errors = t.errors
      BY <1>5 DEF CleanStep, Stays, Onward, Forwards
    <2>2. \A p \in Homes : At(e, p) = At(d, p)
      <3>1. PICK S \in SUBSET StageNames : Removes(d, e, S)
        BY <1>5 DEF CleanStep
      <3>2. S \subseteq ArtifactNames
        BY DEF ArtifactNames
      <3> QED
        BY <3>1, <3>2, RemoveShows
    <2> QED
      BY <2>1, <2>2, ExactlyQuiet
  <1>6. RunStep(t, d, u, e) => Exactly(u, e, s)
    BY <1>1, <1>2, <1>3, <1>4, <1>5, ExactlyMove, ExactlyPublish, ExactlyDisplace, ExactlyRestore
       DEF RunStep
  <1>7. ASSUME UnseenStep(t, d, u, e) PROVE Exactly(u, e, FALSE)
    <2>1. ~Onward(u)
      BY <1>7 DEF UnseenStep, MoveUnseen, PublishUnseen, DisplaceStep, RestoreStep, Fails, Stays, Descends,
                 GivesUp, Onward, Forwards
    <2> QED
      BY <2>1 DEF Exactly
  <1> QED
    BY <1>6, <1>7

-----------------------------------------------------------------------------
(* The invariant behind AllOrNothing.                                      *)

\* A command that has done nothing yet.
LEMMA ExactBegins ==
  ASSUME NEW u, NEW d, NEW e, NEW s \in BOOLEAN, Running1(u),
         \A p \in ArtifactNames : At(d, p) = None,
         u.at = 1, u.errors = FALSE, u.before = d,
         \A i \in 1..Len(u.ops) : u.ops[i].moved = FALSE /\ u.ops[i].published = FALSE,
         \/ u.phase = "take" /\ Lays(d, e, u.ops)
         \/ u.phase \in {"ok", "refused", "failed"} /\ Len(u.ops) = 0 /\ e = d
  PROVE  Placing(u) /\ Progress(u) /\ Leftovers(u, e, s) /\ Exactly(u, e, s)
  <1> DEFINE n == Len(u.ops)
  <1>1. n \in Nat /\ Placing(u) /\ \A i \in 1..n : ~Active(u.ops[i])
    BY RunningFacts DEF Running1, Active
  <1>2. Progress(u)
    <2>1. \A i \in 1..n : ~(i < 1) /\ ~(i \in 1..0)
      OBVIOUS
    <2>2. CASE u.phase = "take"
      <3>1. n # 0
        BY <1>1, <2>2 DEF Placing, Forwards
      <3> QED
        BY <1>1, <2>1, <2>2, <3>1 DEF Progress, Onward, Forwards, Over, Settled
    <2>3. CASE u.phase \in {"ok", "refused", "failed"} /\ n = 0
      <3>1. \A i \in 1..n : FALSE
        BY <2>3
      <3> QED
        BY <2>3, <3>1 DEF Progress, Onward, Forwards, Over, Settled
    <2> QED
      BY <2>2, <2>3
  <1>3. \A p \in Homes : At(e, p) = At(d, p)
    <2>1. \A p \in Homes : p \notin StageNames
      BY NameFacts DEF ArtifactNames
    <2> QED
      BY <2>1 DEF Lays
  <1>4. Exactly(u, e, s)
    BY <1>1, <1>3 DEF Exactly
  <1>5. \A i \in Nat : At(d, Stage(i)) = None /\ At(d, Aside(i)) = None /\ At(d, Displaced(i)) = None
    BY NameFacts
  <1>6. \A i \in Nat : At(e, Aside(i)) = None /\ At(e, Displaced(i)) = None
    <2>1. \A i \in Nat : Aside(i) \notin StageNames /\ Displaced(i) \notin StageNames
      BY NameFacts DEF StageNames
    <2> QED
      BY <1>5, <2>1 DEF Lays
  <1>7. \A i \in Nat : At(e, Stage(i)) # None =>
          u.phase = "take" /\ i \in 1..n /\ u.ops[i].staged # None
    BY <1>5 DEF Lays
  <1>8. Leftovers(u, e, s)
    BY <1>6, <1>7 DEF Leftovers
  <1> QED
    BY <1>1, <1>2, <1>4, <1>8

\* Others wrote the name p, which the command takes note of.
LEMMA ExactTouched ==
  ASSUME NEW t, NEW u, NEW d, NEW e, NEW s, NEW p, t # Idle, Touches(t, u, p),
         Placing(t), Progress(t), Leftovers(t, d, s), Exactly(t, d, s),
         \A q : q # p => At(e, q) = At(d, q),
         At(d, p) = None => At(e, p) = None \/ p \in Homes
  PROVE  Placing(u) /\ Progress(u) /\ Leftovers(u, e, s) /\ Exactly(u, e, s)
  <1>1. /\ u.phase = t.phase /\ u.ops = t.ops /\ u.at = t.at /\ u.errors = t.errors
        /\ u.before = t.before /\ u.touched = t.touched \cup {p}
    BY DEF Touches
  <1>2. Placing(u)
    BY <1>1 DEF Placing
  <1>3. Progress(u)
    BY <1>1 DEF Progress, Onward, Settled
  <1>4. \A i \in Nat : /\ At(e, Stage(i)) # None => At(d, Stage(i)) # None
                       /\ At(e, Aside(i)) # None => At(d, Aside(i)) # None
                       /\ At(e, Displaced(i)) # None => At(d, Displaced(i)) # None
    <2>1. \A q \in ArtifactNames : At(e, q) # None => At(d, q) # None
      BY NameFacts
    <2> QED
      BY <2>1, NameFacts
  <1>5. Leftovers(u, e, s)
    <2>1. ASSUME NEW i \in Nat PROVE Leftover(u, e, s, i)
      BY <1>1, <1>4, LeftoversEach DEF Leftover, Onward, Pending
    <2> QED
      BY <2>1, LeftoversEach
  <1>6. Exactly(u, e, s)
    <2>1. \A q \in Homes : q \notin u.touched => q \notin t.touched /\ At(e, q) = At(d, q)
      BY <1>1
    <2>2. \A q \in Homes : q \notin u.touched /\ ExactAt(t, d, q) => ExactAt(u, e, q)
      BY <1>1, <2>1 DEF ExactAt, Onward
    <2> QED
      BY <1>1, <2>1, <2>2, ExactlyEach DEF Onward
  <1> QED
    BY <1>2, <1>3, <1>5, <1>6

LEMMA ExactStep ==
  ASSUME TypeInv, StaticInv, ExactInv, [Next]_vars
  PROVE  ExactInv'
  <1>1. ASSUME NEW req \in Requests, Begin(req) PROVE ExactInv'
    <2>1. tx = Idle /\ Running1(tx') /\ tx'.at = 1 /\ tx'.errors = FALSE /\ tx'.before = disk
      BY <1>1, BeginSteps DEF Starts
    <2>2. \/ tx'.phase = "take" /\ Lays(disk, disk', tx'.ops) /\ PlanTyped(tx'.ops)
          \/ tx'.phase = "ok" /\ tx'.ops = <<>> /\ disk' = disk
      BY <1>1, BeginSteps DEF Starts, IsPlan
    <2>3. \A i \in 1..Len(tx'.ops) : tx'.ops[i].moved = FALSE /\ tx'.ops[i].published = FALSE
      BY <2>2 DEF PlanTyped
    <2>4. tx' # Idle /\ synced' = synced /\ synced \in BOOLEAN
      BY <1>1, <2>1, RunningFacts, BeginSteps DEF history, TypeInv
    <2>5. \A p \in ArtifactNames : At(disk, p) = None
      BY <2>1 DEF ExactInv
    <2>6. Placing(tx') /\ Progress(tx') /\ Leftovers(tx', disk', synced) /\ Exactly(tx', disk', synced)
      BY <2>1, <2>2, <2>3, <2>4, <2>5, ExactBegins
    <2> QED
      BY <2>4, <2>6 DEF ExactInv
  <1>2. ASSUME NEW req \in Requests, Refuse(req) \/ StagingFails(req) PROVE ExactInv'
    <2>1. /\ tx = Idle /\ Running1(tx') /\ disk' = disk /\ synced' = synced
          /\ tx'.at = 1 /\ tx'.errors = FALSE /\ tx'.before = disk
          /\ tx'.ops = <<>> /\ tx'.phase \in {"refused", "failed"}
      BY <1>2, RefuseSteps DEF Starts
    <2>2. tx' # Idle /\ synced \in BOOLEAN
      BY <2>1, RunningFacts DEF TypeInv
    <2>3. \A p \in ArtifactNames : At(disk, p) = None
      BY <2>1 DEF ExactInv
    <2>4. Len(tx'.ops) = 0 /\ \A i \in 1..Len(tx'.ops) : tx'.ops[i].moved = FALSE /\ tx'.ops[i].published = FALSE
      BY <2>1
    <2>5. Placing(tx') /\ Progress(tx') /\ Leftovers(tx', disk', synced) /\ Exactly(tx', disk', synced)
      BY <2>1, <2>2, <2>3, <2>4, ExactBegins
    <2> QED
      BY <2>1, <2>2, <2>5 DEF ExactInv
  <1>3. ASSUME tx # Idle, Running1(tx), Running1(tx'), Carries(tx, tx'),
               \/ RunStep(tx, disk, tx', disk') /\ synced' = synced
               \/ UnseenStep(tx, disk, tx', disk') /\ synced' = FALSE
        PROVE  ExactInv'
    <2>1. Steps(tx, tx') /\ synced \in BOOLEAN /\ tx' # Idle
      BY <1>3, RunningFacts DEF Steps, TypeInv
    <2>2. Placing(tx) /\ Progress(tx) /\ Leftovers(tx, disk, synced) /\ Exactly(tx, disk, synced)
      BY <1>3 DEF ExactInv
    <2>3. PlanPriors(tx.before, tx.ops)
      <3>1. tx.ops = <<>> => Len(tx.ops) = 0
        OBVIOUS
      <3>2. tx.ops = <<>> => PlanPriors(tx.before, tx.ops)
        BY <3>1 DEF PlanPriors
      <3> QED
        BY <1>3, <3>2 DEF StaticInv, Static
    <2>4. Placing(tx')
      BY <1>3 DEF Running1
    <2>5. Progress(tx')
      BY <1>3, <2>1, <2>2, <2>3, ProgressStep
    <2>6. Leftovers(tx', disk', synced')
      BY <1>3, <2>1, <2>2, LeftoversStep
    <2>7. Exactly(tx', disk', synced')
      BY <1>3, <2>1, <2>2, <2>3, ExactlyStep
    <2> QED
      BY <2>1, <2>4, <2>5, <2>6, <2>7 DEF ExactInv
  <1>4. CASE Works
    BY <1>3, <1>4, WorkSteps
  <1>5. CASE Return \/ Die
    <2>1. Depart
      BY <1>5 DEF Return, Die
    <2>2. tx' = Idle /\ \A p \in ArtifactNames : At(disk', p) = None
      BY <2>1, DepartFacts DEF Departs
    <2> QED
      BY <2>2 DEF ExactInv
  <1>6. ASSUME NEW p \in Names, Touches(tx, tx', p), synced' = synced,
               \A q : q # p => At(disk', q) = At(disk, q),
               At(disk, p) = None => At(disk', p) = None \/ p \in Homes
        PROVE  ExactInv'
    <2>1. CASE tx = Idle
      <3>1. tx' = Idle
        BY <1>6, <2>1 DEF Touches
      <3>2. \A q \in ArtifactNames : At(disk, q) = None
        BY <2>1 DEF ExactInv
      <3>3. \A q \in ArtifactNames : q \notin Homes
        BY NameFacts
      <3>4. \A q \in ArtifactNames : At(disk', q) = None
        BY <1>6, <3>2, <3>3
      <3> QED
        BY <3>1, <3>4 DEF ExactInv
    <2>2. CASE tx # Idle
      <3>1. tx' # Idle
        BY <1>6, <2>2, RunningFacts DEF Touches
      <3>2. Placing(tx') /\ Progress(tx') /\ Leftovers(tx', disk', synced) /\ Exactly(tx', disk', synced)
        BY <1>6, <2>2, ExactTouched DEF ExactInv
      <3> QED
        BY <1>6, <3>1, <3>2 DEF ExactInv
    <2> QED
      BY <2>1, <2>2
  <1>7. ASSUME NEW c \in Clients, Edit(c) PROVE ExactInv'
    <2>1. PICK f : Edits(disk, disk', c, f, version, version')
      BY <1>7, EditSteps
    <2>2. Touches(tx, tx', Config(c)) /\ synced' = synced
      BY <1>7, EditSteps
    <2>3. Config(c) \in Names /\ Config(c) \in Homes
      BY NameFacts DEF Names
    <2>4. \A q : q # Config(c) => At(disk', q) = At(disk, q)
      BY <2>1 DEF Edits
    <2> QED
      BY <1>6, <2>2, <2>3, <2>4
  <1>8. ASSUME NEW p \in DOMAIN disk, Delete(p) \/ Replace(p) PROVE ExactInv'
    BY <1>6, <1>8, RuinSteps DEF Ruins
  <1>9. CASE ReplaceLock
    <2>1. /\ tx # Idle /\ Running1(tx')
          /\ tx'.phase = tx.phase /\ tx'.ops = tx.ops /\ tx'.at = tx.at
          /\ tx'.errors = tx.errors /\ tx'.before = tx.before /\ tx'.touched = tx.touched
          /\ disk' = disk /\ synced' = synced
      BY <1>9, LockSteps
    <2>2. Placing(tx) /\ Progress(tx) /\ Leftovers(tx, disk, synced) /\ Exactly(tx, disk, synced)
      BY <2>1 DEF ExactInv
    <2>3. Progress(tx')
      BY <2>1, <2>2 DEF Progress, Onward, Settled
    <2>4. Leftovers(tx', disk, synced)
      BY <2>1, <2>2 DEF Leftovers, Onward, Pending
    <2>5. Exactly(tx', disk, synced)
      BY <2>1, <2>2 DEF Exactly, Onward
    <2>6. tx' # Idle /\ Placing(tx')
      BY <2>1, RunningFacts DEF Running1
    <2> QED
      BY <2>1, <2>3, <2>4, <2>5, <2>6 DEF ExactInv
  <1>10. CASE SyncFails
    BY <1>3, <1>10, UnseenSteps
  <1>11. CASE Errs
    BY <1>3, <1>11, ErrsSteps
  <1>12. CASE UNCHANGED vars
    BY <1>12 DEF vars, ExactInv
  <1> QED
    BY <1>1, <1>2, <1>4, <1>5, <1>7, <1>8, <1>9, <1>10, <1>11, <1>12 DEF Next, Works, Errs

LEMMA ExactInit ==
  ASSUME Init
  PROVE  ExactInv
  <1>1. tx = Idle /\ DOMAIN disk = ConfigNames
    BY InitTypes DEF Init
  <1>2. \A p \in ArtifactNames : p \notin ConfigNames
    BY NameFacts DEF Homes
  <1> QED
    BY <1>1, <1>2 DEF ExactInv, At

SwapInv == TypeInv /\ StaticInv /\ ExactInv

\* While a command runs: its plan stays as it was made, its flags say which
\* renames were done, and each untouched name holds what they say.
THEOREM SwapInvariant == Spec => []SwapInv
  <1>1. Init => SwapInv
    BY InitTypes, ExactInit DEF SwapInv, StaticInv, Init
  <1>2. SwapInv /\ [Next]_vars => SwapInv'
    BY TypeStep, StaticStep, ExactStep DEF SwapInv
  <1> QED
    BY <1>1, <1>2, PTL DEF Spec

LEMMA NoArtifacts ==
  ASSUME IsDisk(disk), \A i \in Nat : /\ At(disk, Stage(i)) = None /\ At(disk, Aside(i)) = None
                                      /\ At(disk, Displaced(i)) = None
  PROVE  Artifacts(disk) = {}
  <1> SUFFICES ASSUME NEW p \in DOMAIN disk, IsArtifact(p) PROVE FALSE
    BY DEF Artifacts
  <1>1. p \in Names /\ At(disk, p) # None
    BY AtFacts DEF IsDisk
  <1>2. p \in ArtifactNames
    BY <1>1, NameFacts DEF Names
  <1>3. \E i \in Nat : p = Stage(i) \/ p = Aside(i) \/ p = Displaced(i)
    BY <1>2 DEF ArtifactNames, StageNames, AsideNames, DisplacedNames
  <1> QED
    BY <1>1, <1>3

\* A command that answers success has put everything where it belongs; one
\* that answers failure without a doubt has put everything back.
THEOREM SwapAllOrNothing == Spec => []AllOrNothing
  <1>1. SwapInv => AllOrNothing
    <2> SUFFICES ASSUME SwapInv, tx # Idle PROVE AllOrNothing
      BY DEF AllOrNothing, Idle
    <2> DEFINE n == Len(tx.ops)
    <2>1. Running1(tx) /\ IsDisk(disk) /\ Progress(tx) /\ Leftovers(tx, disk, synced) /\ Exactly(tx, disk, synced)
      BY DEF SwapInv, TypeInv, ExactInv
    <2>2. /\ n \in Nat /\ \A i \in 1..n : /\ tx.ops[i].dest \in Homes
                                          /\ tx.ops[i].published \in BOOLEAN /\ tx.ops[i].moved \in BOOLEAN
      BY <2>1, RunningFacts DEF Operations
    <2>3. ASSUME tx.phase = "ok" PROVE NewIsThere
      <3>1. Onward(tx) /\ \A i \in 1..n : Done(tx.ops[i])
        BY <2>1, <2>3 DEF Progress, Onward, Over
      <3>2. PlanPriors(tx.before, tx.ops)
        <4>1. tx.ops = <<>> => Len(tx.ops) = 0
          OBVIOUS
        <4>2. tx.ops = <<>> => PlanPriors(tx.before, tx.ops)
          BY <4>1 DEF PlanPriors
        <4> QED
          BY <4>2 DEF SwapInv, StaticInv, Static
      <3>3. ASSUME NEW i \in 1..n, tx.ops[i].dest \in Dests, IsLastFor(i)
            PROVE  At(disk, tx.ops[i].dest) = tx.ops[i].staged
        <4>1. tx.ops[i].dest \in Homes /\ tx.ops[i].dest \notin tx.touched
          BY <2>2, <3>3 DEF Dests
        <4>2. Active(tx.ops[i])
          BY <3>1, <3>2 DEF PlanPriors, Done, Active
        <4>3. \A j \in 1..n : j > i /\ tx.ops[j].dest = tx.ops[i].dest => ~Active(tx.ops[j])
          <5>1. \A j \in 1..n : j > i => j \in (i + 1)..n
            BY <2>2
          <5> QED
            BY <3>3, <5>1 DEF IsLastFor
        <4>4. ExactAt(tx, disk, tx.ops[i].dest)
          BY <2>1, <3>1, <4>1, ExactlyEach
        <4>5. At(disk, tx.ops[i].dest) = IF tx.ops[i].published THEN tx.ops[i].staged ELSE None
          BY <3>1, <4>2, <4>3, <4>4 DEF ExactAt
        <4>6. ~tx.ops[i].published => tx.ops[i].staged = None
          BY <3>1, <2>2 DEF Done
        <4> QED
          BY <4>5, <4>6
      <3>4. \A i \in Nat : At(disk, Stage(i)) = None /\ At(disk, Aside(i)) = None /\ At(disk, Displaced(i)) = None
        <4>1. \A i \in 1..n : tx.ops[i].staged # None => tx.ops[i].published
          BY <3>1, <2>2 DEF Done
        <4> QED
          BY <2>1, <2>3, <3>1, <4>1 DEF Leftovers
      <3> QED
        BY <2>1, <3>3, <3>4, NoArtifacts DEF NewIsThere
    <2>4. ASSUME tx.phase \in {"failed", "refused"}, synced PROVE OldIsThere
      <3>1. ~Onward(tx) /\ ~tx.errors /\ (n = 0 \/ tx.at = 0)
        BY <2>1, <2>4 DEF Progress, Onward, Forwards, Settled
      <3>2. \A i \in 1..n : ~Active(tx.ops[i])
        <4>1. \A i \in 1..n : i > tx.at => ~Active(tx.ops[i])
          BY <2>1, <3>1 DEF Progress
        <4> QED
          BY <2>2, <3>1, <4>1
      <3>3. \A p \in Dests : At(disk, p) = At(tx.before, p)
        <4>1. \A p \in Dests : p \in Homes /\ p \notin tx.touched
          BY <2>2 DEF Dests
        <4> QED
          BY <2>1, <2>4, <3>1, <3>2, <4>1 DEF Exactly
      <3>4. \A i \in Nat : At(disk, Stage(i)) = None /\ At(disk, Aside(i)) = None /\ At(disk, Displaced(i)) = None
        BY <2>1, <2>4, <3>1, <3>2 DEF Leftovers, Active
      <3> QED
        BY <2>1, <3>3, <3>4, NoArtifacts DEF OldIsThere
    <2> QED
      BY <2>3, <2>4 DEF AllOrNothing
  <1> QED
    BY <1>1, SwapInvariant, PTL

-----------------------------------------------------------------------------
(* No file of the time before the command is lost by it.                   *)

\* The file f of the name p is there, or where an operation on p put it.
There(ops, d, f, p) ==
  \/ At(d, p) = f
  \/ \E j \in 1..Len(ops) : ops[j].dest = p /\ (At(d, Aside(j)) = f \/ At(d, Displaced(j)) = f)

LEMMA ConservedThere == ASSUME NEW t, NEW d, NEW sp
  PROVE  Conserved(t, d, sp) <=>
           \A p \in Homes :
             /\ At(t.before, p) # None
             /\ t.phase \in Over => \A i \in 1..Len(t.ops) : t.ops[i].dest # p
             => At(t.before, p) \in sp \/ There(t.ops, d, At(t.before, p), p)
  BY DEF Conserved, There

LEMMA ThereMove ==
  ASSUME NEW t, NEW u, NEW d, NEW e, NEW s \in BOOLEAN, Steps(t, u), Progress(t), Leftovers(t, d, s),
         NEW p \in Homes, NEW f, f # None, There(t.ops, d, f, p),
         MoveStep(t, d, u, e) \/ MoveUnseen(t, d, u, e)
  PROVE  There(t.ops, e, f, p)
  <1> DEFINE a == t.at
  <1>1. t.phase = "move" /\ Renames(d, e, Now(t).dest, Aside(a))
    BY DEF MoveStep, MoveUnseen
  <1>2. a \in 1..Len(t.ops) /\ a \in Nat /\ Now(t).dest \in Homes /\ Now(t) = t.ops[a]
    <2>1. a \in 1..Len(t.ops)
      BY <1>1 DEF Steps, Running1, Placing, Forwards
    <2> QED
      BY <2>1, NowFacts DEF Steps, Now
  <1>3. ShowsMove(d, e, t.ops[a].dest, a)
    BY <1>1, <1>2, MoveShows
  <1>4. At(d, Aside(a)) = None
    BY <1>1, <1>2 DEF Progress, Leftovers, Active, Onward, Forwards
  <1> QED
    BY <1>2, <1>3, <1>4 DEF There, ShowsMove

LEMMA TherePublish ==
  ASSUME NEW t, NEW u, NEW d, NEW e, Steps(t, u),
         NEW p \in Homes, NEW f, f # None, There(t.ops, d, f, p),
         PublishStep(t, d, u, e) \/ PublishUnseen(t, d, u, e)
  PROVE  There(t.ops, e, f, p)
  <1> DEFINE a == t.at
  <1>1. /\ t.phase = "publish" /\ Renames(d, e, Stage(a), Now(t).dest)
        /\ At(d, Now(t).dest) = None
    BY DEF PublishStep, PublishUnseen
  <1>2. a \in 1..Len(t.ops) /\ a \in Nat /\ Now(t).dest \in Homes
    <2>1. a \in 1..Len(t.ops)
      BY <1>1 DEF Steps, Running1, Placing, Forwards
    <2> QED
      BY <2>1, NowFacts DEF Steps
  <1>3. ShowsPublish(d, e, Now(t).dest, a)
    BY <1>1, <1>2, PublishShows
  <1> QED
    BY <1>1, <1>3 DEF There, ShowsPublish

LEMMA ThereDisplace ==
  ASSUME NEW t, NEW u, NEW d, NEW e, NEW s \in BOOLEAN, Steps(t, u), Leftovers(t, d, s),
         NEW p \in Homes, NEW f, f # None, There(t.ops, d, f, p), DisplaceStep(t, d, u, e)
  PROVE  There(t.ops, e, f, p)
  <1> DEFINE a == t.at
  <1>1. t.phase = "displace" /\ Renames(d, e, Now(t).dest, Displaced(a))
    BY DEF DisplaceStep
  <1>2. a \in 1..Len(t.ops) /\ a \in Nat /\ Now(t).dest \in Homes /\ Now(t) = t.ops[a]
    <2>1. a \in 1..Len(t.ops)
      BY <1>1 DEF Steps, Running1, Placing
    <2> QED
      BY <2>1, NowFacts DEF Steps, Now
  <1>3. ShowsDisplace(d, e, t.ops[a].dest, a)
    BY <1>1, <1>2, DisplaceShows
  <1>4. At(d, Displaced(a)) = None
    BY <1>1, <1>2 DEF Leftovers, Pending
  <1> QED
    BY <1>2, <1>3, <1>4 DEF There, ShowsDisplace

LEMMA ThereRestore ==
  ASSUME NEW t, NEW u, NEW d, NEW e, Steps(t, u),
         NEW p \in Homes, NEW f, f # None, There(t.ops, d, f, p), RestoreStep(t, d, u, e)
  PROVE  There(t.ops, e, f, p)
  <1> DEFINE a == t.at
  <1>1. /\ t.phase = "restore" /\ Renames(d, e, Aside(a), Now(t).dest)
        /\ At(d, Now(t).dest) = None
    BY DEF RestoreStep
  <1>2. a \in 1..Len(t.ops) /\ a \in Nat /\ Now(t).dest \in Homes /\ Now(t) = t.ops[a]
    <2>1. a \in 1..Len(t.ops)
      BY <1>1 DEF Steps, Running1, Placing
    <2> QED
      BY <2>1, NowFacts DEF Steps, Now
  <1>3. ShowsRestore(d, e, t.ops[a].dest, a)
    BY <1>1, <1>2, RestoreShows
  <1> QED
    BY <1>1, <1>2, <1>3 DEF There, ShowsRestore

\* Only a staged file is discarded, and it is none of the files before.
LEMMA ThereRemoved ==
  ASSUME NEW t, NEW u, NEW d, NEW e, NEW lf, Steps(t, u), Static(t, lf),
         NEW p \in Homes, At(t.before, p) # None, There(t.ops, d, At(t.before, p), p),
         t.phase \in Over => \A i \in 1..Len(t.ops) : t.ops[i].dest # p,
         DiscardStep(t, d, u, e) \/ CleanStep(t, d, u, e) \/ FinishStep(t, d, u, e)
  PROVE  There(t.ops, e, At(t.before, p), p)
  <1> DEFINE a == t.at
             n == Len(t.ops)
             f == At(t.before, p)
  <1>0. n \in Nat /\ a \in Nat /\ IsDisk(t.before)
    BY RunningFacts DEF Steps
  <1>1. ASSUME DiscardStep(t, d, u, e) PROVE There(t.ops, e, f, p)
    <2>1. t.phase = "discard" /\ At(d, Displaced(a)) = Now(t).staged /\ Removes(d, e, {Displaced(a)})
      BY <1>1 DEF DiscardStep
    <2>2. a \in 1..n /\ {Displaced(a)} \subseteq ArtifactNames
      BY <1>0, <2>1, NameFacts DEF Steps, Running1, Placing
    <2>3. f.id \in IdsOf(Files(t.before) \cup lf)
      <3>1. p \in DOMAIN t.before /\ f = t.before[p]
        BY <1>0, AtFacts
      <3> QED
        BY <3>1 DEF IdsOf, Files
    <2>4. t.ops[a].staged # f
      <3>1. t.ops # <<>>
        BY <2>2
      <3>2. PlanFresh(IdsOf(Files(t.before) \cup lf), t.ops)
        BY <3>1 DEF Static
      <3> QED
        BY <2>2, <2>3, <3>2 DEF PlanFresh
    <2>5. At(d, Displaced(a)) # f
      BY <2>1, <2>4 DEF Now
    <2>6. /\ \A i : At(e, Aside(i)) = At(d, Aside(i))
          /\ \A i : i # a => At(e, Displaced(i)) = At(d, Displaced(i))
          /\ At(e, p) = At(d, p)
      <3>1. \A i : Aside(i) \notin {Displaced(a)} /\ (i # a => Displaced(i) \notin {Displaced(a)})
        BY NameFacts
      <3> QED
        BY <2>1, <2>2, <3>1, RemoveShows
    <2> QED
      BY <2>5, <2>6 DEF There
  <1>2. ASSUME CleanStep(t, d, u, e) PROVE There(t.ops, e, f, p)
    <2>1. PICK S \in SUBSET StageNames : Removes(d, e, S)
      BY <1>2 DEF CleanStep
    <2>2. S \subseteq ArtifactNames /\ \A i : Aside(i) \notin S /\ Displaced(i) \notin S
      BY NameFacts DEF StageNames, ArtifactNames
    <2>3. /\ \A i : At(e, Aside(i)) = At(d, Aside(i)) /\ At(e, Displaced(i)) = At(d, Displaced(i))
          /\ At(e, p) = At(d, p)
      BY <2>1, <2>2, RemoveShows
    <2> QED
      BY <2>3 DEF There
  <1>3. ASSUME FinishStep(t, d, u, e) PROVE There(t.ops, e, f, p)
    <2>1. At(d, p) = f
      BY <1>3 DEF FinishStep, There, Over
    <2>2. a \in Nat /\ (e = d \/ Removes(d, e, {Aside(a)}))
      BY <1>0, <1>3 DEF FinishStep
    <2>3. Aside(a) \in ArtifactNames
      BY <2>2, NameFacts
    <2>4. At(e, p) = At(d, p)
      BY <2>2, <2>3, RemoveShows
    <2> QED
      BY <2>1, <2>4 DEF There
  <1> QED
    BY <1>1, <1>2, <1>3

LEMMA ConservedStep ==
  ASSUME NEW t, NEW u, NEW d, NEW e, NEW s \in BOOLEAN, NEW lf, NEW sp, Steps(t, u), Progress(t),
         Leftovers(t, d, s), Static(t, lf), Conserved(t, d, sp),
         RunStep(t, d, u, e) \/ UnseenStep(t, d, u, e)
  PROVE  Conserved(u, e, sp)
  <1>1. Len(u.ops) = Len(t.ops) /\ u.before = t.before /\ \A i \in 1..Len(t.ops) : u.ops[i].dest = t.ops[i].dest
    BY DEF Steps, Carries, SameOps
  <1>2. t.phase \in Over => u.phase \in Over
    <2>1. t.phase \in Over => FinishStep(t, d, u, e)
      BY DEF Over, RunStep, UnseenStep, TakeStep, StopStep, MoveStep, PublishStep, VerifyStep, UndoStep,
             DisplaceStep, RestoreStep, DiscardStep, GiveUpStep, GivesUpNow, CleanStep, MoveUnseen, PublishUnseen
    <2> QED
      BY <2>1 DEF FinishStep, Stays, Over
  <1>3. ASSUME NEW p \in Homes, At(t.before, p) # None, There(t.ops, d, At(t.before, p), p),
               t.phase \in Over => \A i \in 1..Len(t.ops) : t.ops[i].dest # p
        PROVE  There(t.ops, e, At(t.before, p), p)
    <2>1. CASE \/ TakeStep(t, d, u, e) \/ StopStep(t, d, u, e) \/ VerifyStep(t, d, u, e)
               \/ UndoStep(t, d, u, e) \/ GiveUpStep(t, d, u, e)
      BY <1>3, <2>1 DEF TakeStep, StopStep, VerifyStep, UndoStep, GiveUpStep
    <2>2. CASE MoveStep(t, d, u, e) \/ MoveUnseen(t, d, u, e)
      BY <1>3, <2>2, ThereMove
    <2>3. CASE PublishStep(t, d, u, e) \/ PublishUnseen(t, d, u, e)
      BY <1>3, <2>3, TherePublish
    <2>4. CASE DisplaceStep(t, d, u, e)
      BY <1>3, <2>4, ThereDisplace
    <2>5. CASE RestoreStep(t, d, u, e)
      BY <1>3, <2>5, ThereRestore
    <2>6. CASE DiscardStep(t, d, u, e) \/ CleanStep(t, d, u, e) \/ FinishStep(t, d, u, e)
      BY <1>3, <2>6, ThereRemoved
    <2> QED
      BY <2>1, <2>2, <2>3, <2>4, <2>5, <2>6 DEF RunStep, UnseenStep
  <1>4. ASSUME NEW p \in Homes, There(t.ops, e, At(t.before, p), p)
        PROVE  There(u.ops, e, At(t.before, p), p)
    BY <1>1, <1>4 DEF There
  <1>5. ASSUME NEW p \in Homes, At(u.before, p) # None,
               u.phase \in Over => \A i \in 1..Len(u.ops) : u.ops[i].dest # p
        PROVE  At(u.before, p) \in sp \/ There(u.ops, e, At(u.before, p), p)
    <2>1. t.phase \in Over => \A i \in 1..Len(t.ops) : t.ops[i].dest # p
      BY <1>1, <1>2, <1>5
    <2>2. At(t.before, p) \in sp \/ There(t.ops, d, At(t.before, p), p)
      BY <1>1, <1>5, <2>1, ConservedThere
    <2> QED
      BY <1>1, <1>3, <1>4, <1>5, <2>1, <2>2
  <1> QED
    BY <1>5, ConservedThere

-----------------------------------------------------------------------------
(* What is staged, and what was published.                                 *)

\* A running command works on the operation it is at.
LEMMA AtAnOperation ==
  ASSUME NEW t, Running1(t), t.phase \in {"take", "move", "publish", "verify", "finish",
                                          "displace", "restore", "discard"}
  PROVE  /\ t.at \in 1..Len(t.ops) /\ t.at \in Nat /\ Len(t.ops) \in Nat
         /\ Now(t).dest \in Homes /\ Now(t) = t.ops[t.at]
  <1>1. t.at \in 1..Len(t.ops)
    BY DEF Running1, Placing, Forwards
  <1> QED
    BY <1>1, NowFacts, RunningFacts DEF Now

LEMMA StagesShrink ==
  ASSUME NEW t, NEW u, NEW d, NEW e, Steps(t, u), RunStep(t, d, u, e) \/ UnseenStep(t, d, u, e)
  PROVE  \A i \in 1..Len(t.ops) : At(e, Stage(i)) \in {None, At(d, Stage(i))}
  <1>1. CASE e = d
    BY <1>1
  <1>2. CASE MoveStep(t, d, u, e) \/ MoveUnseen(t, d, u, e)
    <2>1. t.phase = "move" /\ Renames(d, e, Now(t).dest, Aside(t.at))
      BY <1>2 DEF MoveStep, MoveUnseen
    <2>2. ShowsMove(d, e, Now(t).dest, t.at)
      BY <2>1, AtAnOperation, MoveShows DEF Steps
    <2> QED
      BY <2>2 DEF ShowsMove
  <1>3. CASE PublishStep(t, d, u, e) \/ PublishUnseen(t, d, u, e)
    <2>1. t.phase = "publish" /\ Renames(d, e, Stage(t.at), Now(t).dest)
      BY <1>3 DEF PublishStep, PublishUnseen
    <2>2. ShowsPublish(d, e, Now(t).dest, t.at)
      BY <2>1, AtAnOperation, PublishShows DEF Steps
    <2> QED
      BY <2>2 DEF ShowsPublish
  <1>4. CASE DisplaceStep(t, d, u, e)
    <2>1. t.phase = "displace" /\ Renames(d, e, Now(t).dest, Displaced(t.at))
      BY <1>4 DEF DisplaceStep
    <2>2. ShowsDisplace(d, e, Now(t).dest, t.at)
      BY <2>1, AtAnOperation, DisplaceShows DEF Steps
    <2> QED
      BY <2>2 DEF ShowsDisplace
  <1>5. CASE RestoreStep(t, d, u, e)
    <2>1. t.phase = "restore" /\ Renames(d, e, Aside(t.at), Now(t).dest)
      BY <1>5 DEF RestoreStep
    <2>2. ShowsRestore(d, e, Now(t).dest, t.at)
      BY <2>1, AtAnOperation, RestoreShows DEF Steps
    <2> QED
      BY <2>2 DEF ShowsRestore
  <1>6. CASE DiscardStep(t, d, u, e) \/ CleanStep(t, d, u, e) \/ FinishStep(t, d, u, e)
    <2>1. e = d \/ \E S : Removes(d, e, S)
      BY <1>6 DEF DiscardStep, CleanStep, FinishStep
    <2> QED
      BY <2>1 DEF Removes
  <1> QED
    BY <1>1, <1>2, <1>3, <1>4, <1>5, <1>6
       DEF RunStep, UnseenStep, TakeStep, StopStep, VerifyStep, UndoStep, GiveUpStep

LEMMA StagesStep ==
  ASSUME NEW t, NEW u, NEW d, NEW e, NEW sp, Steps(t, u), Stages(t, d, sp),
         RunStep(t, d, u, e) \/ UnseenStep(t, d, u, e)
  PROVE  Stages(u, e, sp)
  <1>1. Len(u.ops) = Len(t.ops) /\ \A i \in 1..Len(t.ops) : u.ops[i].staged = t.ops[i].staged
    BY DEF Steps, Carries, SameOps
  <1>2. \A i \in 1..Len(t.ops) : At(e, Stage(i)) \in {None, At(d, Stage(i))}
    BY StagesShrink
  <1> QED
    BY <1>1, <1>2 DEF Stages

\* The clause of Placed for one operation.
PlacedAt(t, d, sp, i) ==
  t.ops[i].published /\ LastFor(t, i) /\ (Onward(t) \/ Pending(t, i)) =>
    t.ops[i].staged \in sp \/ At(d, t.ops[i].dest) = t.ops[i].staged

LEMMA PlacedEach == ASSUME NEW t, NEW d, NEW sp
  PROVE  Placed(t, d, sp) <=> \A i \in 1..Len(t.ops) : PlacedAt(t, d, sp, i)
  BY DEF Placed, PlacedAt

\* What is still to be undone was so before.
StillPending(t, u) ==
  \A i \in 1..Len(t.ops) : Onward(u) \/ Pending(u, i) => Onward(t) \/ Pending(t, i)

LEMMA PendingShrinks ==
  ASSUME NEW t, NEW u, NEW d, NEW e, Steps(t, u), RunStep(t, d, u, e) \/ UnseenStep(t, d, u, e)
  PROVE  StillPending(t, u)
  <1>1. t.at \in Nat
    BY RunningFacts DEF Steps
  <1>2. CASE Onward(t)
    BY <1>2 DEF StillPending
  <1>3. CASE ~Onward(t)
    <2>1. \/ UndoStep(t, d, u, e) \/ DisplaceStep(t, d, u, e) \/ RestoreStep(t, d, u, e)
          \/ DiscardStep(t, d, u, e) \/ GiveUpStep(t, d, u, e) \/ CleanStep(t, d, u, e)
      BY <1>3 DEF RunStep, UnseenStep, TakeStep, StopStep, MoveStep, PublishStep, VerifyStep, FinishStep,
             MoveUnseen, PublishUnseen, Onward, Forwards
    <2>2. \/ t.phase \in Backwards /\ u.phase = "undo" /\ u.at = t.at - 1
          \/ t.phase \in Backwards /\ u.phase \in {"failed", "incomplete"}
          \/ t.phase = "undo" /\ u.phase \in {"displace", "restore"} /\ u.at = t.at
          \/ t.phase = "displace" /\ u.phase \in {"restore", "discard"} /\ u.at = t.at
          \/ t.phase = "restore" /\ u.phase = "discard" /\ u.at = t.at
      BY <2>1 DEF UndoStep, DisplaceStep, RestoreStep, DiscardStep, GiveUpStep, GivesUpNow, CleanStep,
             Stays, Descends, GivesUp, Backwards
    <2>3. ~Onward(u)
      <3>1. u.phase # "unfinished"
        BY <2>2
      <3> QED
        BY <2>2 DEF Onward, Forwards
    <2>4. ASSUME NEW i \in 1..Len(t.ops), Pending(u, i) PROVE Pending(t, i)
      BY <1>1, <2>2, <2>4 DEF Pending, Backwards
    <2> QED
      BY <2>3, <2>4 DEF StillPending
  <1> QED
    BY <1>2, <1>3

LEMMA LastForCarries ==
  ASSUME NEW t, NEW u, Carries(t, u)
  PROVE  \A i \in 1..Len(t.ops) : LastFor(u, i) <=> LastFor(t, i)
  BY DEF Carries, SameOps, LastFor

\* An operation that was published stays so, where nothing happens at its name.
LEMMA PlacedStays ==
  ASSUME NEW t, NEW u, NEW d, NEW e, NEW sp, Steps(t, u), StillPending(t, u),
         NEW i \in 1..Len(t.ops), PlacedAt(t, d, sp, i),
         u.ops[i].published => t.ops[i].published,
         At(e, t.ops[i].dest) = At(d, t.ops[i].dest)
  PROVE  PlacedAt(u, e, sp, i)
  <1>1. u.ops[i].dest = t.ops[i].dest /\ u.ops[i].staged = t.ops[i].staged /\ (LastFor(u, i) <=> LastFor(t, i))
    BY LastForCarries DEF Steps, Carries, SameOps
  <1> QED
    BY <1>1 DEF PlacedAt, StillPending

\* At the name of the operation at hand nothing else is in place.
LEMMA PlacedElsewhere ==
  ASSUME NEW t, Running1(t), Progress(t), NEW i \in 1..Len(t.ops),
         t.phase \in {"move", "publish", "displace", "restore"},
         t.ops[i].published, LastFor(t, i), Onward(t) \/ Pending(t, i),
         t.ops[i].dest = t.ops[t.at].dest
  PROVE  i = t.at /\ t.phase = "displace"
  <1>1. t.at \in 1..Len(t.ops) /\ t.at \in Nat
    BY AtAnOperation
  <1>2. ~(i < t.at)
    BY <1>1 DEF LastFor
  <1>3. ~(i > t.at)
    BY <1>1 DEF Progress, Active, Onward, Forwards, Pending
  <1>4. i = t.at
    BY <1>1, <1>2, <1>3
  <1> QED
    BY <1>1, <1>4 DEF Progress, Active

LEMMA PlacedPublish ==
  ASSUME NEW t, NEW u, NEW d, NEW e, NEW sp, Steps(t, u), StillPending(t, u), Progress(t),
         Stages(t, d, sp), NEW i \in 1..Len(t.ops), PlacedAt(t, d, sp, i),
         PublishStep(t, d, u, e) \/ PublishUnseen(t, d, u, e)
  PROVE  PlacedAt(u, e, sp, i)
  <1>1. /\ t.phase = "publish" /\ Renames(d, e, Stage(t.at), Now(t).dest)
        /\ \A j \in 1..Len(t.ops) : j # t.at => u.ops[j].published = t.ops[j].published
    <2>1. Now(t).published = t.ops[t.at].published
      BY DEF Now
    <2> QED
      BY <2>1 DEF PublishStep, PublishUnseen, Reflags, SameFlags
  <1>2. t.at \in 1..Len(t.ops) /\ Now(t).dest \in Homes /\ Now(t) = t.ops[t.at]
    BY <1>1, AtAnOperation DEF Steps
  <1>3. ShowsPublish(d, e, t.ops[t.at].dest, t.at)
    BY <1>1, <1>2, PublishShows
  <1>4. \A j \in 1..Len(t.ops) : t.ops[j].dest \in Homes
    BY RunningFacts DEF Steps, Operations
  <1>5. u.ops[i].dest = t.ops[i].dest /\ u.ops[i].staged = t.ops[i].staged /\ (LastFor(u, i) <=> LastFor(t, i))
    BY LastForCarries DEF Steps, Carries, SameOps
  <1>6. Onward(t)
    BY <1>1 DEF Onward, Forwards
  <1>7. CASE i = t.at
    <2>1. At(e, t.ops[i].dest) = At(d, Stage(i))
      BY <1>2, <1>3, <1>7 DEF ShowsPublish
    <2>2. At(d, Stage(i)) # None
      <3>1. Stage(t.at) \in DOMAIN d
        BY <1>1 DEF Renames
      <3>2. CASE PublishStep(t, d, u, e) \/ PublishUnseen(t, d, u, e)
        <4>1. At(e, t.ops[i].dest) # None
          <5>1. IsDisk(e) /\ t.ops[i].dest \in DOMAIN e
            BY <1>1, <1>2, <1>7 DEF Renames
          <5> QED
            BY <5>1, AtFacts
        <4> QED
          BY <2>1, <4>1
      <3> QED
        BY <3>2
    <2> QED
      BY <1>5, <2>1, <2>2 DEF Stages, PlacedAt
  <1>8. CASE i # t.at /\ t.ops[i].dest # t.ops[t.at].dest
    <2>1. At(e, t.ops[i].dest) = At(d, t.ops[i].dest)
      BY <1>3, <1>4, <1>8 DEF ShowsPublish
    <2> QED
      BY <1>1, <1>8, <2>1, PlacedStays
  <1>9. CASE i # t.at /\ t.ops[i].dest = t.ops[t.at].dest
    <2>1. ~(t.ops[i].published /\ LastFor(t, i))
      BY <1>1, <1>6, <1>9, PlacedElsewhere DEF Steps
    <2> QED
      BY <1>1, <1>5, <1>9, <2>1 DEF PlacedAt
  <1> QED
    BY <1>7, <1>8, <1>9

\* A rename that takes a file away from a name takes it back, or takes away
\* what was not published last.
LEMMA PlacedTaken ==
  ASSUME NEW t, NEW u, NEW d, NEW e, NEW sp, Steps(t, u), StillPending(t, u), Progress(t),
         NEW i \in 1..Len(t.ops), PlacedAt(t, d, sp, i),
         t.phase \in {"move", "displace", "restore"},
         \A j \in 1..Len(t.ops) : u.ops[j].published => t.ops[j].published,
         t.phase = "displace" => ~(u.ops[t.at].published /\ (Onward(u) \/ Pending(u, t.at))),
         \A p \in Homes : p # t.ops[t.at].dest => At(e, p) = At(d, p)
  PROVE  PlacedAt(u, e, sp, i)
  <1>4. \A j \in 1..Len(t.ops) : t.ops[j].dest \in Homes
    BY RunningFacts DEF Steps, Operations
  <1>5. u.ops[i].dest = t.ops[i].dest /\ u.ops[i].staged = t.ops[i].staged /\ (LastFor(u, i) <=> LastFor(t, i))
    BY LastForCarries DEF Steps, Carries, SameOps
  <1>8. CASE t.ops[i].dest # t.ops[t.at].dest
    <2>1. At(e, t.ops[i].dest) = At(d, t.ops[i].dest)
      BY <1>4, <1>8
    <2> QED
      BY <2>1, PlacedStays
  <1>9. CASE t.ops[i].dest = t.ops[t.at].dest
    <2> SUFFICES ASSUME u.ops[i].published, LastFor(t, i), Onward(u) \/ Pending(u, i) PROVE FALSE
      BY <1>5 DEF PlacedAt
    <2>1. t.ops[i].published /\ (Onward(t) \/ Pending(t, i))
      BY DEF StillPending
    <2>2. i = t.at /\ t.phase = "displace"
      BY <1>9, <2>1, PlacedElsewhere DEF Steps
    <2> QED
      BY <2>2
  <1> QED
    BY <1>8, <1>9

LEMMA PlacedStep ==
  ASSUME NEW t, NEW u, NEW d, NEW e, NEW sp, Steps(t, u), Progress(t),
         Stages(t, d, sp), Placed(t, d, sp), RunStep(t, d, u, e) \/ UnseenStep(t, d, u, e)
  PROVE  Placed(u, e, sp)
  <1>0. StillPending(t, u) /\ Len(u.ops) = Len(t.ops) /\ \A i \in 1..Len(t.ops) : PlacedAt(t, d, sp, i)
    BY PendingShrinks, PlacedEach DEF Steps, Carries, SameOps
  <1>00. \A j \in 1..Len(t.ops) : t.ops[j].dest \in Homes
    BY RunningFacts DEF Steps, Operations
  <1> SUFFICES ASSUME NEW i \in 1..Len(t.ops) PROVE PlacedAt(u, e, sp, i)
    BY <1>0, PlacedEach
  <1>1. CASE \/ TakeStep(t, d, u, e) \/ StopStep(t, d, u, e) \/ VerifyStep(t, d, u, e)
             \/ UndoStep(t, d, u, e) \/ GiveUpStep(t, d, u, e)
    BY <1>0, <1>1, PlacedStays DEF TakeStep, StopStep, VerifyStep, UndoStep, GiveUpStep, GivesUpNow, SameFlags
  <1>2. CASE MoveStep(t, d, u, e) \/ MoveUnseen(t, d, u, e)
    <2>1. t.phase = "move" /\ Renames(d, e, Now(t).dest, Aside(t.at))
      BY <1>2 DEF MoveStep, MoveUnseen
    <2>2. Now(t).dest \in Homes /\ Now(t) = t.ops[t.at]
      BY <2>1, AtAnOperation DEF Steps
    <2>3. \A j \in 1..Len(t.ops) : u.ops[j].published = t.ops[j].published
      BY <1>2, <2>2 DEF MoveStep, MoveUnseen, Reflags, SameFlags
    <2>4. ShowsMove(d, e, t.ops[t.at].dest, t.at)
      BY <2>1, <2>2, MoveShows
    <2> QED
      BY <1>0, <2>1, <2>3, <2>4, PlacedTaken DEF ShowsMove
  <1>3. CASE PublishStep(t, d, u, e) \/ PublishUnseen(t, d, u, e)
    BY <1>0, <1>3, PlacedPublish
  <1>4. CASE DisplaceStep(t, d, u, e)
    <2>1. t.phase = "displace" /\ Renames(d, e, Now(t).dest, Displaced(t.at))
      BY <1>4 DEF DisplaceStep
    <2>2. t.at \in Nat /\ Now(t).dest \in Homes /\ Now(t) = t.ops[t.at]
      BY <2>1, AtAnOperation DEF Steps
    <2>3. \A j \in 1..Len(t.ops) : u.ops[j].published => t.ops[j].published
      BY <1>4, <2>2 DEF DisplaceStep, Reflags, SameFlags
    <2>4. ShowsDisplace(d, e, t.ops[t.at].dest, t.at)
      BY <2>1, <2>2, DisplaceShows
    <2>5. ~(u.ops[t.at].published /\ (Onward(u) \/ Pending(u, t.at)))
      BY <1>4, <2>2 DEF DisplaceStep, Reflags, GivesUp, Onward, Forwards, Pending
    <2> QED
      BY <1>0, <2>1, <2>3, <2>4, <2>5, PlacedTaken DEF ShowsDisplace
  <1>5. CASE RestoreStep(t, d, u, e)
    <2>1. t.phase = "restore" /\ Renames(d, e, Aside(t.at), Now(t).dest)
      BY <1>5 DEF RestoreStep
    <2>2. Now(t).dest \in Homes /\ Now(t) = t.ops[t.at]
      BY <2>1, AtAnOperation DEF Steps
    <2>3. \A j \in 1..Len(t.ops) : u.ops[j].published => t.ops[j].published
      BY <1>5, <2>2 DEF RestoreStep, Reflags, SameFlags
    <2>4. ShowsRestore(d, e, t.ops[t.at].dest, t.at)
      BY <2>1, <2>2, RestoreShows
    <2> QED
      BY <1>0, <2>1, <2>3, <2>4, PlacedTaken DEF ShowsRestore
  <1>6. CASE DiscardStep(t, d, u, e) \/ CleanStep(t, d, u, e) \/ FinishStep(t, d, u, e)
    <2>1. SameFlags(t, u)
      BY <1>6 DEF DiscardStep, CleanStep, FinishStep
    <2>2. e = d \/ \E S : Removes(d, e, S) /\ S \subseteq ArtifactNames
      <3>1. t.at \in Nat /\ StageNames \subseteq ArtifactNames
        BY RunningFacts DEF Steps, ArtifactNames
      <3>2. Aside(t.at) \in ArtifactNames /\ Displaced(t.at) \in ArtifactNames
        BY <3>1, NameFacts
      <3>3. {Aside(t.at)} \subseteq ArtifactNames /\ {Displaced(t.at)} \subseteq ArtifactNames
        BY <3>2
      <3>4. ASSUME DiscardStep(t, d, u, e) PROVE Removes(d, e, {Displaced(t.at)})
        BY <3>4 DEF DiscardStep
      <3>5. ASSUME FinishStep(t, d, u, e) PROVE e = d \/ Removes(d, e, {Aside(t.at)})
        BY <3>5 DEF FinishStep
      <3>6. ASSUME CleanStep(t, d, u, e) PROVE \E S \in SUBSET StageNames : Removes(d, e, S)
        BY <3>6 DEF CleanStep
      <3> QED
        BY <1>6, <3>1, <3>3, <3>4, <3>5, <3>6
    <2>3. \A p \in Homes : At(e, p) = At(d, p)
      BY <2>2, RemoveShows
    <2> QED
      BY <1>0, <1>00, <2>1, <2>3, PlacedStays DEF SameFlags
  <1> QED
    BY <1>1, <1>2, <1>3, <1>4, <1>5, <1>6 DEF RunStep, UnseenStep

-----------------------------------------------------------------------------
(* The ledger, from step to step.                                          *)

OldOrNewAt(t, d, i) ==
  \/ At(d, State) = None
  \/ At(d, State).bytes \in OtherBytes
  \/ At(d, State) = At(t.before, State) /\ (Onward(t) => ~t.ops[i].moved)
  \/ At(d, State) = t.ops[i].staged /\ t.ops[i].published /\ (Onward(t) \/ Pending(t, i))

LEMMA OldOrNewEach == ASSUME NEW t, NEW d
  PROVE  OldOrNew(t, d) <=> \A i \in 1..Len(t.ops) : t.ops[i].dest = State => OldOrNewAt(t, d, i)
  BY DEF OldOrNew, OldOrNewAt

\* Where a step goes, for an operation it is not at.
LEMMA StaysPending ==
  ASSUME NEW t, NEW u, NEW d, NEW e, Steps(t, u), RunStep(t, d, u, e),
         NEW i \in 1..Len(t.ops), i # t.at, Onward(t) \/ Pending(t, i)
  PROVE  Onward(u) \/ Pending(u, i)
  <1>1. t.at \in Nat /\ Len(t.ops) \in Nat
    BY RunningFacts DEF Steps
  <1>2. CASE Onward(t)
    <2>1. \/ TakeStep(t, d, u, e) \/ StopStep(t, d, u, e) \/ MoveStep(t, d, u, e)
          \/ PublishStep(t, d, u, e) \/ VerifyStep(t, d, u, e) \/ FinishStep(t, d, u, e)
      BY <1>2 DEF RunStep, UndoStep, DisplaceStep, RestoreStep, DiscardStep, GiveUpStep, GivesUpNow, CleanStep,
                  Onward, Forwards
    <2>2. Fails(t, u) \/ u.phase \in Forwards \cup {"ok", "unfinished"}
      BY <2>1 DEF TakeStep, StopStep, MoveStep, PublishStep, VerifyStep, FinishStep, Stays, Proceeds, Forwards
    <2>3. Fails(t, u) => Pending(u, i)
      BY <1>1 DEF Fails, Pending
    <2> QED
      BY <2>2, <2>3 DEF Onward
  <1>3. CASE ~Onward(t)
    <2>1. \/ UndoStep(t, d, u, e) \/ DisplaceStep(t, d, u, e) \/ RestoreStep(t, d, u, e)
          \/ DiscardStep(t, d, u, e) \/ GiveUpStep(t, d, u, e) \/ CleanStep(t, d, u, e)
      BY <1>3 DEF RunStep, TakeStep, StopStep, MoveStep, PublishStep, VerifyStep, FinishStep, Onward, Forwards
    <2>2. Pending(t, i) /\ i < t.at
      BY <1>1, <1>3 DEF Pending
    <2>3. \/ u.phase \in Backwards /\ (u.at = t.at \/ (u.phase = "undo" /\ u.at = t.at - 1))
          \/ t.at = 0
      BY <2>1 DEF UndoStep, DisplaceStep, RestoreStep, DiscardStep, GiveUpStep, GivesUpNow, CleanStep,
             Stays, Descends, GivesUp, Backwards
    <2> QED
      BY <1>1, <2>2, <2>3 DEF Pending, Backwards
  <1> QED
    BY <1>2, <1>3

\* A step that is not at the ledger.
LEMMA OldOrNewElsewhere ==
  ASSUME NEW t, NEW u, NEW d, NEW e, Steps(t, u), RunStep(t, d, u, e),
         NEW i \in 1..Len(t.ops), i # t.at, OldOrNewAt(t, d, i), At(e, State) = At(d, State),
         u.ops[i].moved = t.ops[i].moved, u.ops[i].published = t.ops[i].published
  PROVE  OldOrNewAt(u, e, i)
  <1>1. u.before = t.before /\ u.ops[i].staged = t.ops[i].staged
    BY DEF Steps, Carries, SameOps
  <1>2. Onward(u) => Onward(t)
    BY DEF RunStep, TakeStep, StopStep, MoveStep, PublishStep, VerifyStep, FinishStep, UndoStep,
           DisplaceStep, RestoreStep, DiscardStep, GiveUpStep, GivesUpNow, CleanStep,
           Stays, Fails, Proceeds, Descends, GivesUp, Onward, Forwards
  <1>3. Onward(t) \/ Pending(t, i) => Onward(u) \/ Pending(u, i)
    BY StaysPending
  <1> QED
    BY <1>1, <1>2, <1>3 DEF OldOrNewAt

\* What a step leaves at a name that is not the one it works on.
LEMMA StateStays ==
  ASSUME NEW t, NEW u, NEW d, NEW e, Steps(t, u), RunStep(t, d, u, e) \/ UnseenStep(t, d, u, e),
         NEW p \in Homes,
         t.phase \in {"move", "publish", "displace", "restore"} => t.ops[t.at].dest # p
  PROVE  At(e, p) = At(d, p)
  <1>1. CASE e = d
    BY <1>1
  <1>2. CASE MoveStep(t, d, u, e) \/ MoveUnseen(t, d, u, e)
    <2>1. t.phase = "move" /\ Renames(d, e, Now(t).dest, Aside(t.at))
      BY <1>2 DEF MoveStep, MoveUnseen
    <2>2. ShowsMove(d, e, t.ops[t.at].dest, t.at)
      BY <2>1, AtAnOperation, MoveShows DEF Steps
    <2> QED
      BY <2>1, <2>2 DEF ShowsMove
  <1>3. CASE PublishStep(t, d, u, e) \/ PublishUnseen(t, d, u, e)
    <2>1. t.phase = "publish" /\ Renames(d, e, Stage(t.at), Now(t).dest)
      BY <1>3 DEF PublishStep, PublishUnseen
    <2>2. ShowsPublish(d, e, t.ops[t.at].dest, t.at)
      BY <2>1, AtAnOperation, PublishShows DEF Steps
    <2> QED
      BY <2>1, <2>2 DEF ShowsPublish
  <1>4. CASE DisplaceStep(t, d, u, e)
    <2>1. t.phase = "displace" /\ Renames(d, e, Now(t).dest, Displaced(t.at))
      BY <1>4 DEF DisplaceStep
    <2>2. ShowsDisplace(d, e, t.ops[t.at].dest, t.at)
      BY <2>1, AtAnOperation, DisplaceShows DEF Steps
    <2> QED
      BY <2>1, <2>2 DEF ShowsDisplace
  <1>5. CASE RestoreStep(t, d, u, e)
    <2>1. t.phase = "restore" /\ Renames(d, e, Aside(t.at), Now(t).dest)
      BY <1>5 DEF RestoreStep
    <2>2. ShowsRestore(d, e, t.ops[t.at].dest, t.at)
      BY <2>1, AtAnOperation, RestoreShows DEF Steps
    <2> QED
      BY <2>1, <2>2 DEF ShowsRestore
  <1>6. CASE DiscardStep(t, d, u, e) \/ CleanStep(t, d, u, e) \/ FinishStep(t, d, u, e)
    <2>1. e = d \/ \E S : Removes(d, e, S) /\ S \subseteq ArtifactNames
      <3>1. t.at \in Nat /\ StageNames \subseteq ArtifactNames
        BY RunningFacts DEF Steps, ArtifactNames
      <3>2. {Aside(t.at)} \subseteq ArtifactNames /\ {Displaced(t.at)} \subseteq ArtifactNames
        BY <3>1, NameFacts
      <3>3. ASSUME DiscardStep(t, d, u, e) PROVE Removes(d, e, {Displaced(t.at)})
        BY <3>3 DEF DiscardStep
      <3>4. ASSUME FinishStep(t, d, u, e) PROVE e = d \/ Removes(d, e, {Aside(t.at)})
        BY <3>4 DEF FinishStep
      <3>5. ASSUME CleanStep(t, d, u, e) PROVE \E S \in SUBSET StageNames : Removes(d, e, S)
        BY <3>5 DEF CleanStep
      <3> QED
        BY <1>6, <3>1, <3>2, <3>3, <3>4, <3>5
    <2> QED
      BY <2>1, RemoveShows
  <1> QED
    BY <1>1, <1>2, <1>3, <1>4, <1>5, <1>6
       DEF RunStep, UnseenStep, TakeStep, StopStep, VerifyStep, UndoStep, GiveUpStep

\* A step at the ledger.
LEMMA OldOrNewHere ==
  ASSUME NEW t, NEW u, NEW d, NEW e, NEW sp, Steps(t, u), Progress(t), Stages(t, d, sp),
         PlanPriors(t.before, t.ops), RunStep(t, d, u, e),
         t.at \in 1..Len(t.ops), t.ops[t.at].dest = State,
         \A j \in 1..Len(t.ops) : t.ops[j].dest = State => j = t.at,
         OldOrNewAt(t, d, t.at), ~Abandons(t, d, u, e)
  PROVE  OldOrNewAt(u, e, t.at)
  <1> DEFINE a == t.at
  <1>1. /\ u.before = t.before /\ u.ops[a].staged = t.ops[a].staged /\ Now(t) = t.ops[a]
        /\ a \in Nat /\ Len(t.ops) \in Nat
    BY RunningFacts DEF Steps, Carries, SameOps, Now
  <1>2. State \in Homes
    BY DEF Homes
  <1>3. CASE TakeStep(t, d, u, e) \/ VerifyStep(t, d, u, e) \/ FinishStep(t, d, u, e)
    <2>0. t.phase \in {"take", "verify", "finish"}
      BY <1>3 DEF TakeStep, VerifyStep, FinishStep
    <2>1. At(e, State) = At(d, State)
      BY <1>2, <2>0, StateStays
    <2>2. Onward(u) /\ Onward(t) /\ SameFlags(t, u)
      BY <1>3 DEF TakeStep, VerifyStep, FinishStep, Stays, Onward, Forwards
    <2> QED
      BY <1>1, <2>1, <2>2 DEF OldOrNewAt, SameFlags
  <1>4. CASE StopStep(t, d, u, e)
    <2>1. e = d /\ SameFlags(t, u) /\ Pending(u, a) /\ ~Onward(u)
      BY <1>1, <1>4 DEF StopStep, Fails, Pending, Onward, Forwards
    <2> QED
      BY <1>1, <2>1 DEF OldOrNewAt, SameFlags
  <1>5. CASE MoveStep(t, d, u, e)
    <2>1. ShowsMove(d, e, State, a)
      BY <1>1, <1>2, <1>5, MoveShows DEF MoveStep
    <2> QED
      BY <1>2, <2>1 DEF ShowsMove, OldOrNewAt
  <1>6. CASE PublishStep(t, d, u, e)
    <2>1. ShowsPublish(d, e, State, a) /\ State \in DOMAIN e /\ IsDisk(e)
      BY <1>1, <1>2, <1>6, PublishShows DEF PublishStep, Renames
    <2>2. At(e, State) = At(d, Stage(a)) /\ At(e, State) # None
      BY <1>2, <2>1, AtFacts DEF ShowsPublish
    <2>3. At(e, State) = t.ops[a].staged \/ At(e, State).bytes \in OtherBytes
      BY <2>2 DEF Stages
    <2>4. u.ops[a].published /\ (Onward(u) \/ Pending(u, a))
      BY <1>1, <1>6 DEF PublishStep, Reflags, Fails, Proceeds, Onward, Forwards, Pending
    <2> QED
      BY <1>1, <2>3, <2>4 DEF OldOrNewAt
  <1>7. CASE UndoStep(t, d, u, e)
    <2>1. e = d /\ SameFlags(t, u) /\ ~Onward(u)
      BY <1>7 DEF UndoStep, Stays, GivesUp, Descends, Onward, Forwards
    <2>2. CASE At(d, State) = t.ops[a].staged /\ t.ops[a].published
      <3>1. t.ops[a].staged # None
        BY <2>2 DEF Progress
      <3>2. Holds(d, State, t.ops[a].staged)
        BY <2>2, <3>1 DEF Holds, At
      <3>3. u.phase = "displace" /\ u.at = a
        BY <1>1, <1>7, <2>2, <3>2 DEF UndoStep, Active, Stays
      <3>4. Pending(u, a)
        BY <1>1, <3>3 DEF Pending
      <3> QED
        BY <1>1, <2>1, <2>2, <3>4 DEF OldOrNewAt, SameFlags
    <2>3. CASE ~(At(d, State) = t.ops[a].staged /\ t.ops[a].published)
      BY <1>1, <2>1, <2>3 DEF OldOrNewAt
    <2> QED
      BY <2>2, <2>3
  <1>8. CASE DisplaceStep(t, d, u, e)
    <2>1. ShowsDisplace(d, e, State, a)
      BY <1>1, <1>2, <1>8, DisplaceShows DEF DisplaceStep
    <2> QED
      BY <1>2, <2>1 DEF ShowsDisplace, OldOrNewAt
  <1>9. CASE RestoreStep(t, d, u, e)
    <2>1. ShowsRestore(d, e, State, a)
      BY <1>1, <1>2, <1>9, RestoreShows DEF RestoreStep
    <2>2. At(e, State) = t.ops[a].prior
      BY <1>1, <1>2, <1>9, <2>1 DEF ShowsRestore, RestoreStep
    <2>3. PriorFollows(t.before, t.ops, a)
      BY <1>1, PriorsHold
    <2>4. \A j \in 1..Len(t.ops) : j < a => t.ops[j].dest # State
      BY <1>1
    <2>5. t.ops[a].prior = At(t.before, State)
      BY <2>3, <2>4 DEF PriorFollows
    <2>6. ~Onward(u)
      BY <1>9 DEF RestoreStep, Stays, GivesUp, Descends, Onward, Forwards
    <2> QED
      BY <1>1, <2>2, <2>5, <2>6 DEF OldOrNewAt
  <1>10. CASE DiscardStep(t, d, u, e) \/ GiveUpStep(t, d, u, e) \/ CleanStep(t, d, u, e)
    <2>1. ~Onward(u) /\ ~Onward(t)
      BY <1>10 DEF DiscardStep, GiveUpStep, GivesUpNow, CleanStep, Stays, GivesUp, Descends, Onward, Forwards
    <2>2. CASE GiveUpStep(t, d, u, e) /\ t.phase \in {"undo", "displace"}
      <3>1. t.ops[a].published /\ t.ops[a].staged # None /\ e = d
        BY <1>1, <2>2 DEF GiveUpStep, GivesUpNow, Progress
      <3>2. At(d, State) # t.ops[a].staged
        BY <1>1, <2>2, <3>1 DEF Abandons, Holds, At
      <3> QED
        BY <1>1, <2>1, <3>1, <3>2 DEF OldOrNewAt
    <2>3. CASE ~(GiveUpStep(t, d, u, e) /\ t.phase \in {"undo", "displace"})
      <3>1. ~Pending(t, a)
        BY <1>1, <1>10, <2>3 DEF DiscardStep, GiveUpStep, GivesUpNow, CleanStep, Pending
      <3>2. At(e, State) = At(d, State)
        <4>1. CASE GiveUpStep(t, d, u, e)
          BY <4>1 DEF GiveUpStep
        <4>2. CASE DiscardStep(t, d, u, e) \/ CleanStep(t, d, u, e)
          <5>1. t.phase \in {"discard", "undo"}
            BY <4>2 DEF DiscardStep, CleanStep
          <5> QED
            BY <1>2, <5>1, StateStays
        <4> QED
          BY <1>10, <4>1, <4>2
      <3> QED
        BY <1>1, <2>1, <3>1, <3>2 DEF OldOrNewAt
    <2> QED
      BY <2>2, <2>3
  <1> QED
    BY <1>3, <1>4, <1>5, <1>6, <1>7, <1>8, <1>9, <1>10 DEF RunStep

LEMMA OldOrNewStep ==
  ASSUME NEW t, NEW u, NEW d, NEW e, NEW sp, Steps(t, u), Progress(t), Stages(t, d, sp),
         PlanPriors(t.before, t.ops), PlanPlaces(t.ops), RunStep(t, d, u, e), OldOrNew(t, d),
         Abandons(t, d, u, e) => Now(t).dest # State
  PROVE  OldOrNew(u, e)
  <1>1. Len(u.ops) = Len(t.ops) /\ \A i \in 1..Len(t.ops) : u.ops[i].dest = t.ops[i].dest
    BY DEF Steps, Carries, SameOps
  <1>2. State \in Homes /\ State \notin ConfigNames
    BY HomesDiffer DEF Homes, ConfigNames
  <1> SUFFICES ASSUME NEW i \in 1..Len(t.ops), t.ops[i].dest = State PROVE OldOrNewAt(u, e, i)
    BY <1>1, OldOrNewEach
  <1>3. OldOrNewAt(t, d, i)
    BY OldOrNewEach
  <1>4. \A j \in 1..Len(t.ops) : t.ops[j].dest = State => j = i
    BY <1>2 DEF PlanPlaces
  <1>5. CASE i = t.at
    BY <1>3, <1>4, <1>5, OldOrNewHere DEF Now
  <1>6. CASE i # t.at
    <2>1. u.ops[i].moved = t.ops[i].moved /\ u.ops[i].published = t.ops[i].published
      BY <1>6 DEF RunStep, TakeStep, StopStep, MoveStep, PublishStep, VerifyStep, FinishStep, UndoStep,
                  DisplaceStep, RestoreStep, DiscardStep, GiveUpStep, GivesUpNow, CleanStep, SameFlags, Reflags
    <2>2. t.phase \in {"move", "publish", "displace", "restore"} => t.ops[t.at].dest # State
      BY <1>4, <1>6, AtAnOperation DEF Steps
    <2>3. At(e, State) = At(d, State)
      BY <1>2, <2>2, StateStays
    <2> QED
      BY <1>3, <1>6, <2>1, <2>3, OldOrNewElsewhere
  <1> QED
    BY <1>5, <1>6

-----------------------------------------------------------------------------
(* The invariant behind LedgerIsBacked.                                    *)

\* The backups that the ledger on disk names are somewhere.
Somewhere(t, d, lf, sp) ==
  Readable(LedgerOn(d)) =>
    \A l \in DOMAIN LedgerOn(d).entries :
      LET f == LedgerOn(d).entries[l].backup IN
      f \in lf \cup sp \/ There(t.ops, d, f, OwnName(LedgerOn(d), l))

\* A backup is found again where no operation has been done at its name.
LEMMA BackupConserved ==
  ASSUME NEW t, NEW d, NEW sp, Running1(t), Conserved(t, d, sp), NEW p \in Homes, NEW f, f # None,
         At(t.before, p) = f,
         t.phase \in Over => \A i \in 1..Len(t.ops) : t.ops[i].dest # p
  PROVE  f \in sp \/ There(t.ops, d, f, p)
  BY ConservedThere

\* The operation i was published, and j comes before it.
LEMMA PublishedBefore ==
  ASSUME NEW t, Running1(t), Progress(t), NEW i \in 1..Len(t.ops), NEW j \in 1..Len(t.ops), j < i,
         t.ops[i].published, Onward(t) \/ Pending(t, i), t.ops[j].staged # None
  PROVE  t.ops[j].published /\ (Onward(t) \/ Pending(t, j))
  <1> DEFINE n == Len(t.ops)
             a == t.at
  <1>1. n \in Nat /\ a \in Nat /\ t.ops[j].published \in BOOLEAN
    BY RunningFacts DEF Operations
  <1>2. Done(t.ops[j])
    <2>1. CASE t.phase \in {"take", "move", "publish"}
      <3>1. ~(i > a)
        BY <2>1 DEF Progress, Active
      <3>2. j < a
        BY <1>1, <3>1
      <3> QED
        BY <2>1, <3>2 DEF Progress
    <2>2. CASE t.phase \in Over \cup {"verify"}
      BY <2>2 DEF Progress
    <2>3. CASE ~Onward(t)
      <3>1. i <= a
        BY <1>1, <2>3 DEF Pending
      <3> QED
        BY <2>3, <3>1 DEF Progress, Active
    <2> QED
      BY <2>1, <2>2, <2>3 DEF Onward, Forwards, Over
  <1>3. Pending(t, i) => Pending(t, j)
    BY <1>1 DEF Pending
  <1> QED
    BY <1>1, <1>2, <1>3 DEF Done

\* The premises of what follows.
Holding(t, d, lf, sp) ==
  /\ Running1(t) /\ Progress(t) /\ Static(t, lf)
  /\ Conserved(t, d, sp) /\ Placed(t, d, sp) /\ OldOrNew(t, d) /\ Backed(t.before, lf, sp)

LEMMA OldLedgerSomewhere ==
  ASSUME NEW t, NEW d, NEW lf, NEW sp, Holding(t, d, lf, sp), t.ops # <<>>,
         NEW i \in 1..Len(t.ops), t.ops[i].dest = State,
         At(d, State) = At(t.before, State), Onward(t) => ~t.ops[i].moved,
         IsDisk(d), Readable(LedgerOn(d)), NEW l \in DOMAIN LedgerOn(d).entries
  PROVE  LET f == LedgerOn(d).entries[l].backup IN
         f \in lf \cup sp \/ There(t.ops, d, f, OwnName(LedgerOn(d), l))
  <1> DEFINE L == LedgerOn(d)
             f == L.entries[l].backup
             p == OwnName(L, l)
  <1>1. IsDisk(t.before) /\ LedgerOn(t.before) = L
    <2>1. IsDisk(t.before)
      BY DEF Holding, Running1
    <2>2. State \in DOMAIN d <=> State \in DOMAIN t.before
      BY <2>1, AtFacts
    <2> QED
      BY <2>1, <2>2 DEF LedgerOn, At
  <1>2. f # None /\ p \in Homes /\ State \in DOMAIN t.before
    <2>1. L \in LedgerBytes
      BY LedgerOnFacts
    <2>2. f \in ConfigFiles /\ l \in Keys /\ L.entries[l].sequence \in Nat
      BY <2>1, LedgerFacts
    <2>3. f # None
      BY <2>2, FileFacts
    <2>4. p \in Homes
      BY <2>2, KeyFacts, NameFacts DEF OwnName
    <2>5. State \notin DOMAIN t.before => FALSE
      BY <1>1, LedgerTypes DEF LedgerOn
    <2> QED
      BY <2>3, <2>4, <2>5
  <1>3. f \in lf \cup sp \/ At(t.before, p) = f
    BY <1>1 DEF Holding, Backed
  <1>4. t.phase \in Over => FALSE
    <2> SUFFICES ASSUME t.phase \in Over PROVE FALSE
      OBVIOUS
    <2>1. Done(t.ops[i]) /\ ~t.ops[i].moved
      BY DEF Holding, Progress, Over, Onward, Forwards
    <2>2. t.ops[i].prior = None
      BY <2>1 DEF Done
    <2>3. PriorFollows(t.before, t.ops, i)
      BY PriorsHold, RunningFacts DEF Holding, Static
    <2>4. \A j \in 1..Len(t.ops) : t.ops[j].dest = State => j = i
      BY HomesDiffer DEF Holding, Static, PlanPlaces, ConfigNames
    <2>5. \A j \in 1..Len(t.ops) : j < i => t.ops[j].dest # State
      BY <2>4
    <2>6. At(t.before, State) = None
      BY <2>2, <2>3, <2>5 DEF PriorFollows
    <2> QED
      BY <1>1, <1>2, <2>6, AtFacts
  <1>5. At(t.before, p) = f => f \in sp \/ There(t.ops, d, f, p)
    BY <1>2, <1>4, BackupConserved DEF Holding
  <1> QED
    BY <1>3, <1>5

LEMMA NewLedgerSomewhere ==
  ASSUME NEW t, NEW d, NEW lf, NEW sp, Holding(t, d, lf, sp), t.ops # <<>>,
         NEW i \in 1..Len(t.ops), t.ops[i].dest = State,
         At(d, State) = t.ops[i].staged, t.ops[i].published, Onward(t) \/ Pending(t, i),
         IsDisk(d), Readable(LedgerOn(d)), NEW l \in DOMAIN LedgerOn(d).entries
  PROVE  LET f == LedgerOn(d).entries[l].backup IN
         f \in lf \cup sp \/ There(t.ops, d, f, OwnName(LedgerOn(d), l))
  <1> DEFINE L == LedgerOn(d)
             f == L.entries[l].backup
             p == OwnName(L, l)
             B == LedgerOn(t.before)
  <1>1. t.ops[i].staged # None /\ L = t.ops[i].staged.bytes
    <2>1. t.ops[i].staged # None
      BY DEF Holding, Progress
    <2> QED
      BY <2>1 DEF LedgerOn, At
  <1>2. f # None /\ p \in Homes /\ p \in BackupNames
    <2>1. L \in LedgerBytes
      BY LedgerOnFacts
    <2>2. f \in ConfigFiles /\ l \in Keys /\ L.entries[l].sequence \in Nat
      BY <2>1, LedgerFacts
    <2>3. f # None
      BY <2>2, FileFacts
    <2>4. l[1] \in Clients
      BY <2>2, KeyFacts
    <2> QED
      BY <2>2, <2>3, <2>4 DEF OwnName, BackupNames, Homes
  <1> HIDE DEF L, f, p
  <1>3. \/ \E j \in 1..(i - 1) : t.ops[j].staged = f /\ t.ops[j].dest = p
        \/ /\ l \in DOMAIN B.entries /\ f = B.entries[l].backup
           /\ L.entries[l].sequence = B.entries[l].sequence
           /\ \A j \in 1..Len(t.ops) : t.ops[j].dest # p
    <2>1. PlanLedger(t.before, t.ops)
      BY DEF Holding, Static
    <2>2. l \in DOMAIN t.ops[i].staged.bytes.entries
      BY <1>1 DEF L
    <2> QED
      BY <1>1, <2>1, <2>2 DEF PlanLedger, f, p
  <1>4. CASE \E j \in 1..(i - 1) : t.ops[j].staged = f /\ t.ops[j].dest = p
    <2>1. PICK j \in 1..(i - 1) : t.ops[j].staged = f /\ t.ops[j].dest = p
      BY <1>4
    <2>2. j \in 1..Len(t.ops) /\ j < i
      BY <2>1
    <2>3. t.ops[j].published /\ (Onward(t) \/ Pending(t, j))
      BY <1>2, <2>1, <2>2, PublishedBefore DEF Holding
    <2>4. LastFor(t, j)
      <3>1. p \notin ConfigNames
        BY <1>2, HomesDiffer DEF BackupNames, ConfigNames
      <3>2. PlanPlaces(t.ops)
        BY DEF Holding, Static
      <3>3. \A k \in 1..Len(t.ops) : t.ops[k].dest = p => k = j
        BY <2>1, <2>2, <3>1, <3>2 DEF PlanPlaces
      <3> QED
        BY <2>1, <2>2, <3>3 DEF LastFor
    <2>5. f \in sp \/ At(d, p) = f
      BY <2>1, <2>2, <2>3, <2>4 DEF Holding, Placed
    <2> QED
      BY <2>5 DEF There, L, f, p
  <1>5. CASE /\ l \in DOMAIN B.entries /\ f = B.entries[l].backup
             /\ L.entries[l].sequence = B.entries[l].sequence
             /\ \A j \in 1..Len(t.ops) : t.ops[j].dest # p
    <2>1. Readable(B) /\ OwnName(B, l) = p
      BY <1>5 DEF Holding, Static, OwnName, p
    <2>2. f \in lf \cup sp \/ At(t.before, p) = f
      BY <1>5, <2>1 DEF Holding, Backed
    <2>3. At(t.before, p) = f => f \in sp \/ There(t.ops, d, f, p)
      BY <1>2, <1>5, BackupConserved DEF Holding
    <2> QED
      BY <2>2, <2>3 DEF L, f, p
  <1> QED
    BY <1>3, <1>4, <1>5

LEMMA LedgerSomewhere ==
  ASSUME NEW t, NEW d, NEW lf, NEW sp, Holding(t, d, lf, sp), IsDisk(d), t.ops # <<>>
  PROVE  Somewhere(t, d, lf, sp)
  <1>1. PICK i \in 1..Len(t.ops) : t.ops[i].dest = State
    BY DEF Holding, Static, PlanPlaces
  <1>2. OldOrNewAt(t, d, i)
    BY <1>1, OldOrNewEach DEF Holding
  <1> SUFFICES ASSUME Readable(LedgerOn(d)), NEW l \in DOMAIN LedgerOn(d).entries
               PROVE  LET f == LedgerOn(d).entries[l].backup IN
                      f \in lf \cup sp \/ There(t.ops, d, f, OwnName(LedgerOn(d), l))
    BY DEF Somewhere
  <1>3. State \in DOMAIN d /\ At(d, State) = d[State]
    <2>1. State \notin DOMAIN d => FALSE
      BY LedgerTypes DEF LedgerOn
    <2> QED
      BY <2>1, AtFacts
  <1>4. At(d, State) # None /\ At(d, State).bytes \notin OtherBytes
    <2>1. LedgerOn(d) = At(d, State).bytes
      BY <1>3 DEF LedgerOn
    <2> QED
      BY <1>3, <2>1, LedgerTypes, AtFacts
  <1> QED
    BY <1>1, <1>2, <1>4, OldLedgerSomewhere, NewLedgerSomewhere DEF OldOrNewAt

\* A name others wrote: what it held is spoilt.
Spoils(d, e, sp, sq, p) ==
  /\ \A q : q # p => At(e, q) = At(d, q)
  /\ sp \subseteq sq /\ (At(d, p) # None => At(d, p) \in sq)

LEMMA ConservedTouched ==
  ASSUME NEW t, NEW u, NEW d, NEW e, NEW sp, NEW sq, NEW p, t # Idle, Touches(t, u, p),
         Spoils(d, e, sp, sq, p), Conserved(t, d, sp)
  PROVE  Conserved(u, e, sq)
  <1>1. u.phase = t.phase /\ u.ops = t.ops /\ u.before = t.before
    BY DEF Touches
  <1>2. ASSUME NEW q \in Homes, At(u.before, q) # None,
               u.phase \in Over => \A i \in 1..Len(u.ops) : u.ops[i].dest # q
        PROVE  At(u.before, q) \in sq \/ There(u.ops, e, At(u.before, q), q)
    <2> DEFINE f == At(t.before, q)
    <2>1. f \in sp \/ There(t.ops, d, f, q)
      BY <1>1, <1>2, ConservedThere
    <2>2. f # None
      BY <1>1, <1>2
    <2> HIDE DEF f
    <2>3. \A r : At(d, r) = f => At(e, r) = f \/ f \in sq
      BY <2>2 DEF Spoils
    <2>4. There(t.ops, d, f, q) => There(t.ops, e, f, q) \/ f \in sq
      BY <2>3 DEF There
    <2>5. f \in sp => f \in sq
      BY DEF Spoils
    <2> QED
      BY <1>1, <2>1, <2>4, <2>5 DEF f
  <1> QED
    BY <1>2, ConservedThere

LEMMA StagesTouched ==
  ASSUME NEW t, NEW u, NEW d, NEW e, NEW sp, NEW sq, NEW p, t # Idle, Touches(t, u, p),
         Spoils(d, e, sp, sq, p), Progress(t), Stages(t, d, sp), Placed(t, d, sp),
         p \in Homes \/ At(e, p) = None \/ At(e, p).bytes \in OtherBytes,
         p \notin Homes => At(d, p) # None
  PROVE  Stages(u, e, sq) /\ Placed(u, e, sq)
  <1>1. u.phase = t.phase /\ u.ops = t.ops /\ u.at = t.at
    BY DEF Touches
  <1>2. Stages(u, e, sq)
    <2> SUFFICES ASSUME NEW i \in 1..Len(t.ops)
                 PROVE  \/ At(e, Stage(i)) \in {None, t.ops[i].staged}
                        \/ At(e, Stage(i)).bytes \in OtherBytes /\ t.ops[i].staged \in sq
      BY <1>1 DEF Stages
    <2>1. \/ At(d, Stage(i)) \in {None, t.ops[i].staged}
          \/ At(d, Stage(i)).bytes \in OtherBytes /\ t.ops[i].staged \in sp
      BY DEF Stages
    <2>2. CASE Stage(i) # p
      BY <2>1, <2>2 DEF Spoils
    <2>3. CASE Stage(i) = p
      <3>1. p \notin Homes
        BY <2>3, NameFacts
      <3>2. At(d, p) # None /\ At(d, p) \in sq /\ sp \subseteq sq
        BY <3>1 DEF Spoils
      <3> QED
        BY <2>1, <2>3, <3>1, <3>2
    <2> QED
      BY <2>2, <2>3
  <1>3. Placed(u, e, sq)
    <2> SUFFICES ASSUME NEW i \in 1..Len(t.ops) PROVE PlacedAt(u, e, sq, i)
      BY <1>1, PlacedEach
    <2>1. PlacedAt(t, d, sp, i)
      BY PlacedEach
    <2>2. (LastFor(u, i) <=> LastFor(t, i)) /\ (Onward(u) <=> Onward(t)) /\ (Pending(u, i) <=> Pending(t, i))
      BY <1>1 DEF LastFor, Onward, Pending
    <2>3. At(d, t.ops[i].dest) = t.ops[i].staged /\ t.ops[i].staged # None
            => At(e, t.ops[i].dest) = t.ops[i].staged \/ t.ops[i].staged \in sq
      BY DEF Spoils
    <2>4. t.ops[i].published => t.ops[i].staged # None
      BY DEF Progress
    <2>5. sp \subseteq sq
      BY DEF Spoils
    <2> QED
      BY <1>1, <2>1, <2>2, <2>3, <2>4, <2>5 DEF PlacedAt
  <1> QED
    BY <1>2, <1>3

LEMMA OldOrNewTouched ==
  ASSUME NEW t, NEW u, NEW d, NEW e, NEW p, t # Idle, Touches(t, u, p), OldOrNew(t, d),
         \A q : q # p => At(e, q) = At(d, q),
         p = State => At(e, p) = None \/ At(e, p).bytes \in OtherBytes
  PROVE  OldOrNew(u, e)
  <1>1. u.phase = t.phase /\ u.ops = t.ops /\ u.at = t.at /\ u.before = t.before
    BY DEF Touches
  <1>2. ASSUME NEW i \in 1..Len(t.ops), OldOrNewAt(t, d, i) PROVE OldOrNewAt(u, e, i)
    <2>1. (Onward(u) <=> Onward(t)) /\ (Pending(u, i) <=> Pending(t, i))
      BY <1>1 DEF Onward, Pending
    <2>2. CASE p = State
      BY <2>2 DEF OldOrNewAt
    <2>3. CASE p # State
      <3>1. At(e, State) = At(d, State)
        BY <2>3
      <3> QED
        BY <1>1, <1>2, <2>1, <3>1 DEF OldOrNewAt
    <2> QED
      BY <2>2, <2>3
  <1> QED
    BY <1>1, <1>2, OldOrNewEach

LEMMA BackedTouched ==
  ASSUME NEW d, NEW e, NEW lf, NEW sp, NEW sq, NEW p, IsDisk(d), IsDisk(e), Backed(d, lf, sp),
         Spoils(d, e, sp, sq, p),
         p = State => At(e, p) = None \/ At(e, p).bytes \in OtherBytes
  PROVE  Backed(e, lf, sq)
  <1> SUFFICES ASSUME Readable(LedgerOn(e)), NEW l \in DOMAIN LedgerOn(e).entries
               PROVE  \/ LedgerOn(e).entries[l].backup \in lf \cup sq
                      \/ At(e, OwnName(LedgerOn(e), l)) = LedgerOn(e).entries[l].backup
    BY DEF Backed
  <1>1. State \in DOMAIN e /\ LedgerOn(e) = At(e, State).bytes /\ At(e, State) # None
    <2>1. State \notin DOMAIN e => FALSE
      BY LedgerTypes DEF LedgerOn
    <2>2. State \in DOMAIN e
      BY <2>1
    <2> QED
      BY <2>2, AtFacts DEF LedgerOn
  <1>2. p # State
    BY <1>1, LedgerTypes
  <1>3. At(d, State) = At(e, State)
    BY <1>2 DEF Spoils
  <1>4. LedgerOn(d) = LedgerOn(e)
    BY <1>1, <1>3, AtFacts DEF LedgerOn
  <1> DEFINE L == LedgerOn(e)
             f == L.entries[l].backup
  <1>5. f \in lf \cup sp \/ At(d, OwnName(L, l)) = f
    BY <1>4 DEF Backed
  <1>6. f # None
    <2>1. L \in LedgerBytes
      BY LedgerOnFacts
    <2> QED
      BY <2>1, LedgerFacts, FileFacts
  <1> HIDE DEF L, f
  <1>7. At(d, OwnName(L, l)) = f => At(e, OwnName(L, l)) = f \/ f \in sq
    BY <1>6 DEF Spoils
  <1>8. f \in lf \cup sq \/ At(e, OwnName(L, l)) = f
    BY <1>5, <1>7 DEF Spoils
  <1> QED
    BY <1>8 DEF L, f

\* A command that has done nothing yet.
LEMMA BackedBegins ==
  ASSUME NEW u, NEW d, NEW e, NEW s \in BOOLEAN, NEW lf, NEW sp, Running1(u),
         \A p \in ArtifactNames : At(d, p) = None,
         u.before = d, s => Backed(d, lf, sp),
         \A i \in 1..Len(u.ops) : u.ops[i].moved = FALSE /\ u.ops[i].published = FALSE,
         \/ u.phase = "take" /\ Lays(d, e, u.ops)
         \/ u.phase \in {"ok", "refused", "failed"} /\ Len(u.ops) = 0 /\ e = d
  PROVE  /\ Conserved(u, e, sp) /\ Stages(u, e, sp) /\ Placed(u, e, sp) /\ OldOrNew(u, e)
         /\ s => Backed(u.before, lf, sp) /\ (Len(u.ops) = 0 => Backed(e, lf, sp))
  <1>1. \A p \in Homes : At(e, p) = At(d, p)
    <2>1. \A p \in Homes : p \notin StageNames
      BY NameFacts DEF ArtifactNames
    <2> QED
      BY <2>1 DEF Lays
  <1>2. \A i \in 1..Len(u.ops) : At(e, Stage(i)) \in {None, u.ops[i].staged}
    <2>1. \A i \in Nat : At(d, Stage(i)) = None
      BY NameFacts
    <2> QED
      BY <2>1 DEF Lays
  <1>3. Conserved(u, e, sp)
    BY <1>1, ConservedThere DEF There
  <1>4. Stages(u, e, sp) /\ Placed(u, e, sp)
    BY <1>2 DEF Stages, Placed
  <1>5. OldOrNew(u, e)
    <2>1. At(e, State) = At(u.before, State)
      BY <1>1, NameFacts
    <2> QED
      BY <2>1 DEF OldOrNew
  <1>6. Len(u.ops) = 0 => e = d
    <2>1. u.phase = "take" => Len(u.ops) # 0
      BY DEF Running1, Placing, Forwards
    <2> QED
      BY <2>1
  <1> QED
    BY <1>3, <1>4, <1>5, <1>6

\* A command departs: what it had put aside is left behind.
LEMMA BackedDeparts ==
  ASSUME NEW t, NEW d, NEW e, NEW lf, NEW mf, NEW sp, IsDisk(d), Departs(d, e, lf, mf),
         Somewhere(t, d, lf, sp), Len(t.ops) \in Nat
  PROVE  Backed(e, mf, sp)
  <1> SUFFICES ASSUME Readable(LedgerOn(e)), NEW l \in DOMAIN LedgerOn(e).entries
               PROVE  \/ LedgerOn(e).entries[l].backup \in mf \cup sp
                      \/ At(e, OwnName(LedgerOn(e), l)) = LedgerOn(e).entries[l].backup
    BY DEF Backed
  <1> DEFINE L == LedgerOn(e)
             f == L.entries[l].backup
             p == OwnName(L, l)
  <1>1. IsDisk(e) /\ At(e, State) = At(d, State)
    BY NameFacts DEF Departs
  <1>2. LedgerOn(d) = L
    BY <1>1, AtFacts DEF LedgerOn
  <1>3. f # None /\ p \in Homes
    <2>1. L \in LedgerBytes
      BY <1>1, LedgerOnFacts
    <2>2. f \in ConfigFiles /\ l \in Keys /\ L.entries[l].sequence \in Nat
      BY <2>1, LedgerFacts
    <2>3. f # None
      BY <2>2, FileFacts
    <2>4. p \in Homes
      BY <2>2, KeyFacts, NameFacts DEF OwnName
    <2> QED
      BY <2>3, <2>4
  <1>4. f \in lf \cup sp \/ There(t.ops, d, f, p)
    BY <1>2 DEF Somewhere
  <1> HIDE DEF L, f, p
  <1>5. At(d, p) = f => At(e, p) = f
    BY <1>3 DEF Departs
  <1>6. \A j \in 1..Len(t.ops) : Aside(j) \in ArtifactNames /\ Displaced(j) \in ArtifactNames
    BY NameFacts
  <1>7. (\E j \in 1..Len(t.ops) : At(d, Aside(j)) = f \/ At(d, Displaced(j)) = f) => f \in mf
    BY <1>3, <1>6 DEF Departs
  <1>8. f \in mf \cup sp \/ At(e, p) = f
    BY <1>4, <1>5, <1>7 DEF There, Departs
  <1> QED
    BY <1>8 DEF L, f, p

\* What is at hand where no others made a rename look undone.
LEMMA BackedSomewhere ==
  ASSUME TypeInv, StaticInv, ExactInv, BackedInv, tx # Idle, LedgerSound
  PROVE  Somewhere(tx, disk, left, spoilt)
  <1>1. Running1(tx) /\ IsDisk(disk) /\ Progress(tx) /\ Static(tx, left)
    BY DEF TypeInv, StaticInv, ExactInv
  <1>2. CASE tx.ops = <<>>
    <2>1. Len(tx.ops) = 0
      BY <1>2
    <2>2. Backed(disk, left, spoilt)
      BY <2>1 DEF BackedInv, LedgerSound
    <2> QED
      BY <2>2 DEF Backed, Somewhere, There
  <1>3. CASE tx.ops # <<>>
    <2>1. Holding(tx, disk, left, spoilt)
      BY <1>1 DEF Holding, BackedInv
    <2> QED
      BY <1>1, <1>3, <2>1, LedgerSomewhere
  <1> QED
    BY <1>2, <1>3

LEMMA BackedStep ==
  ASSUME TypeInv, StaticInv, ExactInv, BackedInv, [Next]_vars
  PROVE  BackedInv'
  <1>0. synced \in BOOLEAN /\ IsDisk(disk)
    BY DEF TypeInv
  <1>1. ASSUME NEW req \in Requests, Begin(req) PROVE BackedInv'
    <2>1. tx = Idle /\ Running1(tx') /\ tx'.before = disk /\ left' = left /\ spoilt' = spoilt /\ synced' = synced /\ abandoned' = abandoned
      BY <1>1, BeginSteps DEF Starts, history
    <2>2. \/ tx'.phase = "take" /\ Lays(disk, disk', tx'.ops) /\ PlanTyped(tx'.ops)
          \/ tx'.phase = "ok" /\ tx'.ops = <<>> /\ disk' = disk
      BY <1>1, BeginSteps DEF Starts, IsPlan
    <2>3. \A i \in 1..Len(tx'.ops) : tx'.ops[i].moved = FALSE /\ tx'.ops[i].published = FALSE
      BY <2>2 DEF PlanTyped
    <2>4. tx' # Idle
      BY <2>1, RunningFacts
    <2>5. (\A p \in ArtifactNames : At(disk, p) = None) /\ (LedgerSound => Backed(disk, left, spoilt))
      BY <2>1 DEF ExactInv, BackedInv
    <2>6. \/ tx'.phase = "take" /\ Lays(disk, disk', tx'.ops)
          \/ tx'.phase \in {"ok", "refused", "failed"} /\ Len(tx'.ops) = 0 /\ disk' = disk
      BY <2>2
    <2>7. /\ Conserved(tx', disk', spoilt) /\ Stages(tx', disk', spoilt) /\ Placed(tx', disk', spoilt)
          /\ OldOrNew(tx', disk')
          /\ LedgerSound => /\ Backed(tx'.before, left, spoilt)
                            /\ Len(tx'.ops) = 0 => Backed(disk', left, spoilt)
      BY <1>0, <2>1, <2>3, <2>5, <2>6, BackedBegins
    <2> QED
      BY <2>1, <2>4, <2>7 DEF BackedInv, LedgerSound
  <1>2. ASSUME NEW req \in Requests, Refuse(req) \/ StagingFails(req) PROVE BackedInv'
    <2>1. /\ tx = Idle /\ Running1(tx') /\ disk' = disk /\ left' = left /\ spoilt' = spoilt /\ synced' = synced /\ abandoned' = abandoned
          /\ tx'.before = disk /\ tx'.ops = <<>> /\ tx'.phase \in {"refused", "failed"}
      BY <1>2, RefuseSteps DEF Starts
    <2>2. tx' # Idle /\ Len(tx'.ops) = 0
      BY <2>1, RunningFacts
    <2>3. (\A p \in ArtifactNames : At(disk, p) = None) /\ (LedgerSound => Backed(disk, left, spoilt))
      BY <2>1 DEF ExactInv, BackedInv
    <2>4. \A i \in 1..Len(tx'.ops) : tx'.ops[i].moved = FALSE /\ tx'.ops[i].published = FALSE
      BY <2>2
    <2>5. /\ Conserved(tx', disk', spoilt) /\ Stages(tx', disk', spoilt) /\ Placed(tx', disk', spoilt)
          /\ OldOrNew(tx', disk')
          /\ LedgerSound => /\ Backed(tx'.before, left, spoilt)
                            /\ Len(tx'.ops) = 0 => Backed(disk', left, spoilt)
      BY <1>0, <2>1, <2>2, <2>3, <2>4, BackedBegins
    <2> QED
      BY <2>1, <2>2, <2>5 DEF BackedInv, LedgerSound
  <1>3. ASSUME tx # Idle, Running1(tx), Running1(tx'), Carries(tx, tx'),
               left' = left, spoilt' = spoilt,
               \/ /\ RunStep(tx, disk, tx', disk') /\ synced' = synced /\ abandoned \subseteq abandoned'
                  /\ Abandons(tx, disk, tx', disk') => Now(tx).dest \in abandoned'
               \/ UnseenStep(tx, disk, tx', disk') /\ synced' = FALSE
        PROVE  BackedInv'
    <2>1. Steps(tx, tx') /\ tx' # Idle
      BY <1>3, RunningFacts DEF Steps
    <2>2. /\ Progress(tx) /\ Leftovers(tx, disk, synced) /\ Static(tx, left)
          /\ Conserved(tx, disk, spoilt) /\ Stages(tx, disk, spoilt) /\ Placed(tx, disk, spoilt)
      BY <1>3 DEF ExactInv, StaticInv, BackedInv
    <2>3. Conserved(tx', disk', spoilt)
      BY <1>0, <1>3, <2>1, <2>2, ConservedStep
    <2>4. Stages(tx', disk', spoilt)
      BY <1>3, <2>1, <2>2, StagesStep
    <2>5. Placed(tx', disk', spoilt)
      BY <1>3, <2>1, <2>2, PlacedStep
    <2>6. ASSUME RunStep(tx, disk, tx', disk'), LedgerSound'
          PROVE  OldOrNew(tx', disk') /\ Backed(tx'.before, left, spoilt) /\ Len(tx'.ops) # 0
      <3>1. tx.phase \notin Answers
        BY <2>6 DEF RunStep, TakeStep, StopStep, MoveStep, PublishStep, VerifyStep, FinishStep, UndoStep,
             DisplaceStep, RestoreStep, DiscardStep, GiveUpStep, GivesUpNow, CleanStep, Answers
      <3>2. Len(tx.ops) # 0 /\ Len(tx.ops) \in Nat
        <4>1. tx.phase \in Phases /\ Len(tx.ops) \in Nat
          BY <1>3, RunningFacts
        <4> QED
          BY <1>3, <3>1, <4>1 DEF Running1, Placing, Phases, Forwards, Backwards
      <3>3. tx.ops # <<>>
        BY <3>2
      <3>4. PlanPriors(tx.before, tx.ops) /\ PlanPlaces(tx.ops)
        BY <2>2, <3>3 DEF Static
      <3>5. OldOrNew(tx, disk) /\ Backed(tx.before, left, spoilt)
        BY <1>3, <2>6 DEF BackedInv, LedgerSound
      <3>6. Abandons(tx, disk, tx', disk') => Now(tx).dest # State
        BY <1>3, <2>6 DEF LedgerSound
      <3>7. OldOrNew(tx', disk')
        BY <2>1, <2>2, <2>6, <3>4, <3>5, <3>6, OldOrNewStep
      <3> QED
        BY <1>3, <3>2, <3>5, <3>7 DEF Carries, SameOps
    <2> QED
      BY <1>3, <2>1, <2>3, <2>4, <2>5, <2>6 DEF BackedInv, LedgerSound
  <1>4. CASE Works
    BY <1>3, <1>4, WorkSteps
  <1>5. CASE Return \/ Die
    <2>1. Depart /\ synced' = synced /\ abandoned' = abandoned /\ spoilt \subseteq spoilt' /\ tx # Idle
      BY <1>5, IdlePhase DEF Return, Die, Running, Answers
    <2>2. tx' = Idle /\ Departs(disk, disk', left, left')
      BY <2>1, DepartFacts
    <2>3. ASSUME LedgerSound PROVE Backed(disk', left', spoilt')
      <3>1. Somewhere(tx, disk, left, spoilt)
        BY <2>1, <2>3, BackedSomewhere
      <3>2. Len(tx.ops) \in Nat
        BY <2>1, RunningFacts DEF TypeInv
      <3>3. Backed(disk', left', spoilt)
        BY <1>0, <2>2, <3>1, <3>2, BackedDeparts
      <3> QED
        BY <2>1, <3>3 DEF Backed
    <2> QED
      BY <2>1, <2>2, <2>3 DEF BackedInv, LedgerSound
  <1>6. ASSUME NEW p \in Names, Touches(tx, tx', p), synced' = synced /\ abandoned' = abandoned, left' = left, IsDisk(disk'),
               Spoils(disk, disk', spoilt, spoilt', p),
               p = State => At(disk', p) = None \/ At(disk', p).bytes \in OtherBytes,
               p \in Homes \/ (At(disk, p) # None /\ (At(disk', p) = None \/ At(disk', p).bytes \in OtherBytes))
        PROVE  BackedInv'
    <2>1. LedgerSound /\ (tx = Idle \/ Len(tx.ops) = 0) => Backed(disk', left, spoilt')
      BY <1>0, <1>6, BackedTouched DEF BackedInv, LedgerSound
    <2>2. CASE tx = Idle
      <3>1. tx' = Idle
        BY <1>6, <2>2 DEF Touches
      <3> QED
        BY <1>6, <2>1, <2>2, <3>1 DEF BackedInv, LedgerSound
    <2>3. CASE tx # Idle
      <3>1. tx' # Idle /\ tx'.ops = tx.ops /\ tx'.before = tx.before
        BY <1>6, <2>3, RunningFacts DEF Touches
      <3>2. Progress(tx) /\ Conserved(tx, disk, spoilt) /\ Stages(tx, disk, spoilt) /\ Placed(tx, disk, spoilt)
        BY <2>3 DEF BackedInv, ExactInv
      <3>3. Conserved(tx', disk', spoilt')
        BY <1>6, <2>3, <3>2, ConservedTouched
      <3>4. Stages(tx', disk', spoilt') /\ Placed(tx', disk', spoilt')
        BY <1>6, <2>3, <3>2, StagesTouched
      <3>5. LedgerSound => OldOrNew(tx', disk')
        <4>1. LedgerSound => OldOrNew(tx, disk)
          BY <2>3 DEF BackedInv, LedgerSound
        <4> QED
          BY <1>6, <2>3, <4>1, OldOrNewTouched DEF Spoils
      <3>6. LedgerSound => Backed(tx'.before, left, spoilt')
        <4>1. LedgerSound => Backed(tx.before, left, spoilt)
          BY <2>3 DEF BackedInv, LedgerSound
        <4>2. spoilt \subseteq spoilt'
          BY <1>6 DEF Spoils
        <4> QED
          BY <3>1, <4>1, <4>2 DEF Backed
      <3> QED
        BY <1>6, <2>1, <3>1, <3>3, <3>4, <3>5, <3>6 DEF BackedInv, LedgerSound
    <2> QED
      BY <2>2, <2>3
  <1>7. ASSUME NEW c \in Clients, Edit(c) PROVE BackedInv'
    <2>1. PICK f : Edits(disk, disk', c, f, version, version')
      BY <1>7, EditSteps
    <2>2. /\ Touches(tx, tx', Config(c)) /\ synced' = synced /\ abandoned' = abandoned /\ left' = left
          /\ spoilt \subseteq spoilt' /\ (At(disk, Config(c)) # None => At(disk, Config(c)) \in spoilt')
      BY <1>7, EditSteps
    <2>3. Config(c) \in Names /\ Config(c) \in Homes /\ Config(c) # State
      BY NameFacts DEF Names
    <2>4. IsDisk(disk') /\ Spoils(disk, disk', spoilt, spoilt', Config(c))
      BY <2>1, <2>2 DEF Edits, Spoils
    <2> QED
      BY <1>6, <2>2, <2>3, <2>4
  <1>8. ASSUME NEW p \in DOMAIN disk, Delete(p) \/ Replace(p) PROVE BackedInv'
    <2>1. /\ Ruins(disk, disk', p) /\ Touches(tx, tx', p) /\ spoilt \subseteq spoilt' /\ At(disk, p) \in spoilt'
          /\ left' = left /\ synced' = synced /\ abandoned' = abandoned
      BY <1>8, RuinSteps
    <2>2. /\ p \in Names /\ IsDisk(disk') /\ Spoils(disk, disk', spoilt, spoilt', p) /\ At(disk, p) # None
          /\ At(disk', p) = None \/ At(disk', p).bytes \in OtherBytes
      BY <2>1 DEF Ruins, Spoils
    <2> QED
      BY <1>6, <2>1, <2>2
  <1>9. CASE ReplaceLock
    <2>1. /\ tx # Idle /\ Running1(tx')
          /\ tx'.phase = tx.phase /\ tx'.ops = tx.ops /\ tx'.at = tx.at /\ tx'.before = tx.before
          /\ disk' = disk /\ synced' = synced /\ abandoned' = abandoned /\ left' = left /\ spoilt' = spoilt
      BY <1>9, LockSteps
    <2>2. tx' # Idle
      BY <2>1, RunningFacts
    <2>3. Conserved(tx, disk, spoilt) => Conserved(tx', disk', spoilt')
      BY <2>1, ConservedThere
    <2>4. Stages(tx, disk, spoilt) => Stages(tx', disk', spoilt')
      BY <2>1 DEF Stages
    <2>5. Placed(tx, disk, spoilt) => Placed(tx', disk', spoilt')
      BY <2>1 DEF Placed, LastFor, Onward, Pending
    <2>6. OldOrNew(tx, disk) => OldOrNew(tx', disk')
      BY <2>1 DEF OldOrNew, Onward, Pending
    <2> QED
      BY <2>1, <2>2, <2>3, <2>4, <2>5, <2>6 DEF BackedInv, LedgerSound
  <1>10. CASE SyncFails
    BY <1>3, <1>10, UnseenSteps
  <1>11. CASE Errs
    BY <1>3, <1>11, ErrsSteps
  <1>12. CASE UNCHANGED vars
    BY <1>12 DEF vars, BackedInv, LedgerSound
  <1> QED
    BY <1>1, <1>2, <1>4, <1>5, <1>7, <1>8, <1>9, <1>10, <1>11, <1>12 DEF Next, Works, Errs

LEMMA BackedInit ==
  ASSUME Init
  PROVE  BackedInv
  <1>1. tx = Idle /\ DOMAIN disk = ConfigNames
    BY InitTypes DEF Init
  <1>2. State \notin DOMAIN disk
    BY <1>1, HomesDiffer DEF ConfigNames
  <1>3. Backed(disk, left, spoilt)
    BY <1>2, LedgerTypes DEF Backed, LedgerOn
  <1> QED
    BY <1>1, <1>3 DEF BackedInv, LedgerSound

\* What a command found is still a file, what it published is in its place,
\* and the ledger on disk is the old one or the new one, each backed.
THEOREM SwapBackedInvariant == Spec => [](SwapInv /\ BackedInv)
  <1>1. Init => BackedInv
    BY BackedInit
  <1>2. SwapInv /\ BackedInv /\ [Next]_vars => BackedInv'
    BY BackedStep DEF SwapInv
  <1> QED
    BY <1>1, <1>2, SwapInvariant, PTL DEF Spec

\* The ledger on disk never names a backup that is not there: whichever rename
\* was the last, the exact file is at its name or was put aside.  Except after a
\* failed synchronization, or a rollback that gave up on the ledger on an error.
THEOREM SwapLedgerIsBacked == Spec => []LedgerIsBacked
  <1>1. SwapInv /\ BackedInv => LedgerIsBacked
    <2> SUFFICES ASSUME SwapInv, BackedInv, LedgerSound, Readable(LedgerOn(disk)),
                        NEW l \in DOMAIN LedgerOn(disk).entries
                 PROVE  LedgerOn(disk).entries[l].backup \in Kept \cup spoilt
      BY DEF LedgerIsBacked, LedgerSound
    <2> DEFINE L == LedgerOn(disk)
               f == L.entries[l].backup
               p == OwnName(L, l)
    <2>1. IsDisk(disk)
      BY DEF SwapInv, TypeInv
    <2>2. f # None /\ p[1] # "stage"
      <3>1. L \in LedgerBytes
        BY <2>1, LedgerOnFacts
      <3>2. f \in ConfigFiles
        BY <3>1, LedgerFacts
      <3> QED
        BY <3>2, FileFacts, NamesDiffer DEF OwnName
    <2>3. \/ f \in left \cup spoilt
          \/ At(disk, p) = f
          \/ \E j : At(disk, Aside(j)) = f \/ At(disk, Displaced(j)) = f
      <3>1. CASE tx = Idle
        <4>1. Backed(disk, left, spoilt)
          BY <3>1 DEF BackedInv, LedgerSound
        <4> QED
          BY <4>1 DEF Backed
      <3>2. CASE tx # Idle
        <4>1. Somewhere(tx, disk, left, spoilt)
          BY <3>2, BackedSomewhere DEF SwapInv
        <4> QED
          BY <4>1 DEF Somewhere, There
      <3> QED
        BY <3>1, <3>2
    <2> HIDE DEF L, f, p
    <2>4. \A q : q[1] # "stage" /\ At(disk, q) = f => f \in Kept
      BY <2>1, <2>2, AtFacts DEF Kept
    <2>5. \A j : Aside(j)[1] # "stage" /\ Displaced(j)[1] # "stage"
      BY NameFacts
    <2>6. f \in left => f \in Kept
      BY DEF Kept
    <2>7. f \in Kept \cup spoilt
      BY <2>2, <2>3, <2>4, <2>5, <2>6
    <2> QED
      BY <2>7 DEF L, f
  <1> QED
    BY <1>1, SwapBackedInvariant, PTL

==============================================================================
