-------------------------- MODULE CompactionProofs --------------------------
(***************************************************************************)
(* Proofs about Compaction for every number of threads, keys, levels and   *)
(* memtables, and any sizes of files and levels.                           *)
(***************************************************************************)
EXTENDS Compaction, FiniteSetTheorems, WellFoundedInduction, SequenceTheorems, TLAPS

(***************************************************************************)
(* Induction over the numbers, with a set for the predicate.               *)
(***************************************************************************)
(* A set of numbers has a least, ...                                       *)
LEMMA Least ==
  ASSUME NEW T, T \subseteq Nat, T # {}
  PROVE  \E m \in T : \A n \in T : m <= n
  <1> DEFINE R == OpToRel(<, Nat)
  <1>1. PICK m \in T : \A n \in T : ~(<<n, m>> \in R)
    BY NatLessThanWellFounded, WFMin
  <1>2. \A n \in T : n < m => <<n, m>> \in R
    BY DEF OpToRel
  <1>3. \A n \in T : ~(n < m)
    BY <1>1, <1>2
  <1>4. \A n \in T : m <= n
    <2> HIDE DEF R
    <2>1. QED
      BY <1>3
  <1> HIDE DEF R
  <1>5. QED
    BY <1>4

(* ... what holds of 0 and of each one's successor holds of all.           *)
LEMMA Induction ==
  ASSUME NEW T, 0 \in T, \A n \in Nat : n \in T => n + 1 \in T
  PROVE  \A n \in Nat : n \in T
  <1> SUFFICES ASSUME NEW k \in Nat, k \notin T PROVE FALSE
    OBVIOUS
  <1>1. PICK m \in Nat \ T : \A n \in Nat \ T : m <= n
    BY Least
  <1>2. m # 0 /\ m - 1 \in T
    BY <1>1
  <1>3. QED
    BY <1>1, <1>2

(* A finite set of numbers has a greatest.                                 *)
LEMMA Greatest ==
  ASSUME NEW S, S \subseteq Nat, S # {}, IsFiniteSet(S)
  PROVE  \E m \in S : \A n \in S : n <= m
  <1> DEFINE T == {c \in Nat : \A R \in SUBSET S :
                     Cardinality(R) = c => R = {} \/ \E m \in R : \A n \in R : n <= m}
  <1>1. \A R \in SUBSET S : IsFiniteSet(R) /\ Cardinality(R) \in Nat
    BY FS_Subset, FS_CardinalityType
  <1>2. 0 \in T
    BY <1>1, FS_EmptySet
  <1>3. ASSUME NEW c \in Nat, c \in T PROVE c + 1 \in T
    <2>1. SUFFICES ASSUME NEW R \in SUBSET S, Cardinality(R) = c + 1, R # {}
                   PROVE  \E m \in R : \A n \in R : n <= m
      OBVIOUS
    <2>2. PICK x : x \in R
      BY <2>1
    <2>3. Cardinality(R \ {x}) = c /\ R \ {x} \in SUBSET S
      <3>1. IsFiniteSet(R)
        BY <1>1, <2>1
      <3>2. Cardinality(R \ {x}) = Cardinality(R) - 1
        BY <2>2, <3>1, FS_RemoveElement
      <3>3. Cardinality(R \ {x}) = c
        BY <2>1, <3>2
      <3>4. R \ {x} \in SUBSET S
        OBVIOUS
      <3>5. QED
        BY <3>3, <3>4
    <2>4. R \ {x} = {} \/ \E m \in R \ {x} : \A n \in R \ {x} : n <= m
      BY <1>3, <2>3
    <2>5. CASE R \ {x} = {}
      BY <2>2, <2>5
    <2>6. CASE \E m \in R \ {x} : \A n \in R \ {x} : n <= m
      <3>1. PICK m \in R \ {x} : \A n \in R \ {x} : n <= m
        BY <2>6
      <3>2. x \in Nat /\ m \in Nat /\ R \subseteq Nat
        BY <2>2
      <3>3. QED
        BY <2>2, <3>1, <3>2
    <2>7. QED
      BY <2>4, <2>5, <2>6
  <1> HIDE DEF T
  <1>4. \A c \in Nat : c \in T
    BY <1>2, <1>3, Induction
  <1>5. QED
    BY <1>1, <1>4 DEF T

-----------------------------------------------------------------------------
(* What a file is: it has rows.                                            *)
File == {f \in [id : Nat, level : Level, rows : Rows] : KeysOf(f.rows) # {}}

Elements(s) == {s[j] : j \in DOMAIN s}
At(index, l) == Elements(index[l])

(* What a compaction is: a memtable with rows, or files of two neighbouring *)
(* levels, each of them once.                                              *)
Compact ==
    {c \in [rows : Rows, files : Seq(File), target_level : Level] :
        /\ c.files = <<>> => c.target_level = 0 /\ KeysOf(c.rows) # {}
        /\ c.files # <<>> => c.target_level # 0
        /\ \A j \in DOMAIN c.files :
              c.files[j].level \in {c.target_level - 1, c.target_level}
        /\ \A i, j \in DOMAIN c.files : c.files[i].id = c.files[j].id => i = j}

(* The order in a level: by age at level 0, and above by first key, and    *)
(* of two files with the same first key the older one first.               *)
Before(f, g) ==
    IF f.level = 0 THEN f.id < g.id
    ELSE \/ KeyMin(f) < KeyMin(g)
         \/ KeyMin(f) = KeyMin(g) /\ f.id < g.id

(* A version's files with ids up to last: in order and each of them once.  *)
Tree(index, last) ==
    /\ index \in [Level -> Seq(File)]
    /\ \A l \in Level : \A j \in DOMAIN index[l] :
          index[l][j].level = l /\ index[l][j].id \in 1 .. last
    /\ \A l \in Level : \A i, j \in DOMAIN index[l] :
          i < j => Before(index[l][i], index[l][j])
    /\ \A l, m \in Level : \A f \in At(index, l), g \in At(index, m) :
          f.id = g.id => f = g

TreeInv ==
    /\ id \in Nat
    /\ Tree(FileIndex, id)
    /\ merging \subseteq 1 .. id

ListInv ==
    /\ memtables \in Seq(Rows)
    /\ HighCompactionList \in Seq(Compact)
    /\ LowCompactionList \in Seq(Compact)
    /\ pc \in [Thread -> {"try", "pop", "run"}]
    /\ DOMAIN job = Thread
    /\ \A t \in Thread : pc[t] = "run" => job[t] \in Compact

(* In the two upper levels an edit finds the files it is to erase.  What   *)
(* follows supposes nothing of the files of the levels below.              *)
Upper == {0, 1}

(* Those of these files that are of the upper levels are in the version.   *)
Present(index, files) ==
    \A f \in Elements(files) : f.level \in Upper => f \in At(index, f.level)

(* Inputs are marked; those of the upper levels are still in the version.  *)
Inputs(index, marked, w) ==
    \A s \in DOMAIN w : Ids(w[s].files) \subseteq marked /\ Present(index, w[s].files)

(* No two compactions share an input or persist the same memtable.         *)
Apart(w) ==
    \A s, u \in DOMAIN w :
        s # u => /\ Ids(w[s].files) \cap Ids(w[u].files) = {}
                 /\ w[s].files = <<>> /\ w[u].files = <<>> => w[s].rows # w[u].rows

(* Level 1 is disjoint.  One compaction at a time goes into it.  It has the *)
(* oldest file of level 0, and the files of level 1 that it does not have  *)
(* are below all its keys or above them.                                   *)
Disjoint(f, g) == KeyMax(f) < KeyMin(g) \/ KeyMax(g) < KeyMin(f)

Clear(files, g) ==
    \/ \A f \in Elements(files) : \A k \in KeysOf(f.rows) : k < KeyMin(g)
    \/ \A f \in Elements(files) : \A k \in KeysOf(f.rows) : KeyMax(g) < k

HasOldest(index, files) ==
    \E f \in At(index, 0) : f \in Elements(files) /\ \A g \in At(index, 0) : f.id <= g.id

DisjointAt(index, l) == \A f, g \in At(index, l) : f = g \/ Disjoint(f, g)

LevelOne(index, w) ==
    /\ DisjointAt(index, 1)
    /\ \A s, u \in DOMAIN w : w[s].target_level = 1 /\ w[u].target_level = 1 => s = u
    /\ \A s \in DOMAIN w : w[s].target_level = 1 =>
          /\ HasOldest(index, w[s].files)
          /\ \A g \in At(index, 1) : g \in Elements(w[s].files) \/ Clear(w[s].files, g)

Held(index, marked, w) ==
    Inputs(index, marked, w) /\ Apart(w) /\ LevelOne(index, w)

(* Memtables are told apart by their rows, and one still to be persisted   *)
(* is one of them.                                                         *)
FromTables(w, tables) ==
    \A s \in DOMAIN w : w[s].files = <<>> =>
        \E n \in DOMAIN tables : w[s].rows = tables[n]

RowsInv ==
    /\ \A n \in DOMAIN memtables :
          KeysOf(memtables[n]) # {} /\ \A k \in Key : memtables[n][k] \in {0, n}
    /\ FromTables(Work, memtables)

IInv ==
    TreeInv /\ ListInv /\ RowsInv /\ Held(FileIndex, merging, Work)

-----------------------------------------------------------------------------
(* Sequences.                                                              *)
Inserted(t, s, i, e, X) ==
    /\ t \in Seq(X) /\ Len(t) = Len(s) + 1
    /\ \A j \in 1 .. Len(s) + 1 :
          t[j] = IF j < i THEN s[j] ELSE IF j = i THEN e ELSE s[j - 1]

Removed(t, s, i, X) ==
    /\ t \in Seq(X) /\ Len(t) = Len(s) - 1
    /\ \A j \in 1 .. Len(s) - 1 : t[j] = IF j < i THEN s[j] ELSE s[j + 1]

LEMMA Inserting ==
  ASSUME NEW X, NEW s \in Seq(X), NEW i \in 1 .. Len(s) + 1, NEW e \in X
  PROVE  Inserted(InsertAt(s, i, e), s, i, e, X)
  <1> DEFINE a == SubSeq(s, 1, i - 1)
             b == SubSeq(s, i, Len(s))
  <1>1. /\ a \in Seq(X) /\ Len(a) = i - 1
        /\ \A j \in 1 .. i - 1 : a[j] = s[j]
    BY SubSeqProperties
  <1>2. /\ b \in Seq(X) /\ Len(b) = Len(s) + 1 - i
        /\ \A j \in 1 .. Len(s) + 1 - i : b[j] = s[i + j - 1]
    <2>1. CASE i = Len(s) + 1
      BY <2>1, SubSeqProperties
    <2>2. CASE i # Len(s) + 1
      BY <2>2, SubSeqProperties
    <2>3. QED
      BY <2>1, <2>2
  <1> HIDE DEF a, b
  <1> DEFINE c == a \o <<e>>
  <1>3. /\ c \in Seq(X) /\ Len(c) = i
        /\ \A j \in 1 .. i : c[j] = IF j = i THEN e ELSE s[j]
    BY <1>1
  <1> HIDE DEF c
  <1>4. /\ c \o b \in Seq(X) /\ Len(c \o b) = Len(s) + 1
        /\ \A j \in 1 .. Len(s) + 1 :
              (c \o b)[j] = IF j <= i THEN c[j] ELSE b[j - i]
    BY <1>2, <1>3, ConcatProperties
  <1>5. ASSUME NEW j \in 1 .. Len(s) + 1
        PROVE  (c \o b)[j] = IF j < i THEN s[j] ELSE IF j = i THEN e ELSE s[j - 1]
    <2>1. CASE j <= i
      BY <1>3, <1>4, <2>1
    <2>2. CASE ~(j <= i)
      <3>1. j - i \in 1 .. Len(s) + 1 - i /\ i + (j - i) - 1 = j - 1
        BY <2>2
      <3>2. (c \o b)[j] = b[j - i]
        BY <1>4, <2>2
      <3>3. QED
        BY <1>2, <2>2, <3>1, <3>2
    <2>3. QED
      BY <2>1, <2>2
  <1>6. InsertAt(s, i, e) = c \o b
    BY DEF InsertAt, a, b, c
  <1>7. Inserted(c \o b, s, i, e, X)
    BY <1>4, <1>5 DEF Inserted
  <1>8. QED
    BY <1>6, <1>7

LEMMA Removing ==
  ASSUME NEW X, NEW s \in Seq(X), NEW i \in 1 .. Len(s)
  PROVE  Removed(RemoveAt(s, i), s, i, X)
  <1> DEFINE a == SubSeq(s, 1, i - 1)
             b == SubSeq(s, i + 1, Len(s))
  <1>1. /\ a \in Seq(X) /\ Len(a) = i - 1
        /\ \A j \in 1 .. i - 1 : a[j] = s[j]
    BY SubSeqProperties
  <1>2. /\ b \in Seq(X) /\ Len(b) = Len(s) - i
        /\ \A j \in 1 .. Len(s) - i : b[j] = s[i + j]
    <2>1. CASE i = Len(s)
      BY <2>1, SubSeqProperties
    <2>2. CASE i # Len(s)
      BY <2>2, SubSeqProperties
    <2>3. QED
      BY <2>1, <2>2
  <1> HIDE DEF a, b
  <1>3. /\ a \o b \in Seq(X) /\ Len(a \o b) = Len(s) - 1
        /\ \A j \in 1 .. Len(s) - 1 :
              (a \o b)[j] = IF j <= i - 1 THEN a[j] ELSE b[j - (i - 1)]
    <2>1. /\ a \o b \in Seq(X) /\ Len(a \o b) = Len(a) + Len(b)
          /\ \A j \in 1 .. Len(a) + Len(b) :
                (a \o b)[j] = IF j <= Len(a) THEN a[j] ELSE b[j - Len(a)]
      BY <1>1, <1>2, ConcatProperties
    <2>2. Len(a) = i - 1 /\ Len(a) + Len(b) = Len(s) - 1
      BY <1>1, <1>2
    <2>3. QED
      BY <2>1, <2>2
  <1>4. ASSUME NEW j \in 1 .. Len(s) - 1
        PROVE  (a \o b)[j] = IF j < i THEN s[j] ELSE s[j + 1]
    <2>1. CASE j < i
      BY <1>1, <1>3, <2>1
    <2>2. CASE ~(j < i)
      <3>1. j - (i - 1) \in 1 .. Len(s) - i /\ i + (j - (i - 1)) = j + 1
        BY <2>2
      <3>2. (a \o b)[j] = b[j - (i - 1)]
        BY <1>3, <2>2
      <3>3. QED
        BY <1>2, <2>2, <3>1, <3>2
    <2>3. QED
      BY <2>1, <2>2
  <1>5. RemoveAt(s, i) = a \o b
    BY DEF RemoveAt, a, b
  <1>6. Removed(a \o b, s, i, X)
    BY <1>3, <1>4 DEF Removed
  <1>7. QED
    BY <1>5, <1>6

(* An empty level has no last file to remove.                              *)
LEMMA RemovingNone ==
  ASSUME NEW X, NEW s \in Seq(X), Len(s) = 0
  PROVE  RemoveAt(s, 0) = s
  <1>1. SubSeq(s, 1, 0 - 1) = <<>>
    BY SubSeqEmpty
  <1>2. SubSeq(s, 0 + 1, Len(s)) = <<>>
    BY SubSeqEmpty
  <1>3. s = <<>>
    BY EmptySeq
  <1>4. <<>> \o <<>> = <<>>
    BY ConcatEmptySeq, EmptySeq
  <1>5. QED
    BY <1>1, <1>2, <1>3, <1>4 DEF RemoveAt

-----------------------------------------------------------------------------
(* First and last keys, and the places found by them.                      *)
LEMMA Extremes ==
  ASSUME CompactionAssumption, NEW S \in SUBSET Key, S # {}
  PROVE  /\ S \subseteq Nat
         /\ \E m \in S : \A n \in S : m <= n
         /\ \E m \in S : \A n \in S : n <= m
  <1>1. S \subseteq Nat /\ IsFiniteSet(S)
    BY FS_Subset DEF CompactionAssumption
  <1>2. QED
    BY <1>1, Least, Greatest

LEMMA FileKeys ==
  ASSUME CompactionAssumption, NEW f \in File
  PROVE  /\ KeysOf(f.rows) \subseteq Nat
         /\ KeyMin(f) \in KeysOf(f.rows) /\ KeyMin(f) \in Nat
         /\ KeyMax(f) \in KeysOf(f.rows) /\ KeyMax(f) \in Nat
         /\ \A k \in KeysOf(f.rows) : KeyMin(f) <= k /\ k <= KeyMax(f)
  <1>1. KeysOf(f.rows) \in SUBSET Key /\ KeysOf(f.rows) # {}
    BY DEF KeysOf, File
  <1>2. /\ KeysOf(f.rows) \subseteq Nat
        /\ \E m \in KeysOf(f.rows) : \A n \in KeysOf(f.rows) : m <= n
        /\ \E m \in KeysOf(f.rows) : \A n \in KeysOf(f.rows) : n <= m
    BY <1>1, Extremes
  <1>3. KeyMin(f) \in KeysOf(f.rows) /\ \A k \in KeysOf(f.rows) : KeyMin(f) <= k
    BY <1>2 DEF KeyMin
  <1>4. KeyMax(f) \in KeysOf(f.rows) /\ \A k \in KeysOf(f.rows) : k <= KeyMax(f)
    BY <1>2 DEF KeyMax
  <1>5. QED
    BY <1>2, <1>3, <1>4

(* The first indices up to n that are in G without a gap.                  *)
Prefix(n, G) == {j \in 1 .. n : \A i \in 1 .. j : i \in G}

LEMMA PrefixEnds ==
  ASSUME NEW n \in Nat, NEW G, NEW p, p = Cardinality(Prefix(n, G)) + 1
  PROVE  /\ p \in 1 .. n + 1
         /\ \A i \in 1 .. p - 1 : i \in G
         /\ p <= n => p \notin G
  <1> DEFINE B == {j \in 1 .. n : j \notin G}
             P == Prefix(n, G)
  <1>0. \A j : j \in P <=> j \in 1 .. n /\ \A i \in 1 .. j : i \in G
    BY DEF Prefix
  <1> HIDE DEF P
  <1>1. CASE B = {}
    <2>1. \A j : j \in P <=> j \in 1 .. n
      BY <1>0, <1>1
    <2>1a. P = 1 .. n
      BY <2>1
    <2>2. Cardinality(1 .. n) = n
      BY FS_Interval
    <2>3. p = n + 1
      BY <2>1a, <2>2 DEF P
    <2>4. QED
      BY <1>1, <2>3
  <1>2. CASE B # {}
    <2>1. B \subseteq Nat
      OBVIOUS
    <2>2. PICK m \in B : \A i \in B : m <= i
      BY <1>2, <2>1, Least
    <2>3. P = 1 .. m - 1
      <3>1. ASSUME NEW j \in P PROVE j \in 1 .. m - 1
        <4>1. j \in 1 .. n /\ \A i \in 1 .. j : i \in G
          BY <1>0, <3>1
        <4>2. ~(m <= j)
          BY <2>2, <4>1
        <4>3. QED
          BY <2>2, <4>1, <4>2
      <3>2. ASSUME NEW j \in 1 .. m - 1 PROVE j \in P
        BY <1>0, <2>2, <3>2
      <3>3. QED
        BY <3>1, <3>2
    <2>4. Cardinality(1 .. m - 1) = m - 1
      <3>1. m - 1 \in Nat
        BY <2>2
      <3>2. QED
        BY <3>1, FS_Interval
    <2>5. p = m
      BY <2>2, <2>3, <2>4 DEF P
    <2>6. \A i \in 1 .. m - 1 : i \in G
      BY <2>2
    <2>7. QED
      BY <2>2, <2>5, <2>6
  <1>3. QED
    BY <1>1, <1>2

LEMMA LowerBoundIs ==
  ASSUME CompactionAssumption, NEW files \in Seq(File), NEW key \in Nat
  PROVE  /\ LowerBound(files, key) \in 1 .. Len(files) + 1
         /\ \A i \in 1 .. LowerBound(files, key) - 1 : KeyMin(files[i]) < key
         /\ LowerBound(files, key) <= Len(files) =>
               key <= KeyMin(files[LowerBound(files, key)])
  <1> DEFINE n == Len(files)
             G == {i \in 1 .. n : KeyMin(files[i]) < key}
             p == LowerBound(files, key)
             P == {j \in DOMAIN files : \A i \in 1 .. j : KeyMin(files[i]) < key}
  <1>1. n \in Nat /\ DOMAIN files = 1 .. n /\ \A i \in 1 .. n : KeyMin(files[i]) \in Nat
    BY FileKeys
  <1>2. P = Prefix(n, G)
    BY <1>1 DEF Prefix
  <1>3. p = Cardinality(P) + 1
    BY DEF LowerBound
  <1> HIDE DEF G, p, n, P
  <1>4. p \in 1 .. n + 1 /\ (\A i \in 1 .. p - 1 : i \in G) /\ (p <= n => p \notin G)
    BY <1>1, <1>2, <1>3, PrefixEnds
  <1>5. QED
    BY <1>1, <1>4 DEF G, p, n

LEMMA UpperBoundIs ==
  ASSUME CompactionAssumption, NEW files \in Seq(File), NEW key \in Nat
  PROVE  /\ UpperBound(files, key) \in 1 .. Len(files) + 1
         /\ \A i \in 1 .. UpperBound(files, key) - 1 : KeyMin(files[i]) <= key
         /\ UpperBound(files, key) <= Len(files) =>
               key < KeyMin(files[UpperBound(files, key)])
  <1> DEFINE n == Len(files)
             G == {i \in 1 .. n : KeyMin(files[i]) <= key}
             p == UpperBound(files, key)
             P == {j \in DOMAIN files : \A i \in 1 .. j : KeyMin(files[i]) <= key}
  <1>1. n \in Nat /\ DOMAIN files = 1 .. n /\ \A i \in 1 .. n : KeyMin(files[i]) \in Nat
    BY FileKeys
  <1>2. P = Prefix(n, G)
    BY <1>1 DEF Prefix
  <1>3. p = Cardinality(P) + 1
    BY DEF UpperBound
  <1> HIDE DEF G, p, n, P
  <1>4. p \in 1 .. n + 1 /\ (\A i \in 1 .. p - 1 : i \in G) /\ (p <= n => p \notin G)
    BY <1>1, <1>2, <1>3, PrefixEnds
  <1>5. QED
    BY <1>1, <1>4 DEF G, p, n

-----------------------------------------------------------------------------
(* Adding a file to a level, and removing one.                             *)
Ordered(s) == \A i, j \in DOMAIN s : i < j => Before(s[i], s[j])

InTurn(files) == \A i, j \in DOMAIN files : i < j => KeyMax(files[i]) < KeyMin(files[j])

LEMMA BeforeDiffers ==
  ASSUME CompactionAssumption, NEW f \in File, NEW g \in File, Before(f, g)
  PROVE  f # g /\ (f.level # 0 => KeyMin(f) <= KeyMin(g))
  <1>1. KeyMin(f) \in Nat /\ KeyMin(g) \in Nat /\ f.id \in Nat /\ g.id \in Nat
    BY FileKeys DEF File
  <1>2. QED
    BY <1>1 DEF Before

LEMMA AddedLast ==
  ASSUME NEW s \in Seq(File), Ordered(s), NEW f \in File, f.level = 0,
         \A g \in Elements(s) : g.level = 0 /\ g.id < f.id
  PROVE  /\ Append(s, f) \in Seq(File)
         /\ Ordered(Append(s, f))
         /\ Elements(Append(s, f)) = Elements(s) \cup {f}
  <1> DEFINE t == Append(s, f)
  <1>1. /\ t \in Seq(File) /\ Len(t) = Len(s) + 1
        /\ \A j \in 1 .. Len(s) : t[j] = s[j]
        /\ t[Len(s) + 1] = f
    BY AppendProperties
  <1>2. DOMAIN s = 1 .. Len(s) /\ DOMAIN t = 1 .. Len(s) + 1
    BY <1>1
  <1> HIDE DEF t
  <1>3. Ordered(t)
    <2>1. SUFFICES ASSUME NEW i \in DOMAIN t, NEW j \in DOMAIN t, i < j
                   PROVE  Before(t[i], t[j])
      BY DEF Ordered
    <2>2. i \in DOMAIN s /\ t[i] = s[i]
      BY <1>1, <1>2, <2>1
    <2>3. CASE j = Len(s) + 1
      <3>1. t[i] \in Elements(s) /\ t[j] = f
        BY <1>1, <2>2, <2>3 DEF Elements
      <3>2. t[i].level = 0 /\ t[i].id < t[j].id
        BY <3>1
      <3>3. QED
        BY <3>2 DEF Before
    <2>4. CASE j # Len(s) + 1
      <3>1. j \in DOMAIN s /\ t[j] = s[j]
        BY <1>1, <1>2, <2>4
      <3>2. QED
        BY <2>1, <2>2, <3>1 DEF Ordered
    <2>5. QED
      BY <2>3, <2>4
  <1>4. Elements(t) = Elements(s) \cup {f}
    <2>1. \A j \in DOMAIN t : t[j] \in Elements(s) \cup {f}
      <3>1. SUFFICES ASSUME NEW j \in DOMAIN t PROVE t[j] \in Elements(s) \cup {f}
        OBVIOUS
      <3>2. CASE j = Len(s) + 1
        BY <1>1, <3>2
      <3>3. CASE j # Len(s) + 1
        BY <1>1, <1>2, <3>3 DEF Elements
      <3>4. QED
        BY <3>2, <3>3
    <2>2. \A j \in DOMAIN s : j \in DOMAIN t /\ t[j] = s[j]
      BY <1>1, <1>2
    <2>3. Len(s) + 1 \in DOMAIN t /\ t[Len(s) + 1] = f
      BY <1>1, <1>2
    <2>4. QED
      BY <2>1, <2>2, <2>3 DEF Elements
  <1>5. QED
    BY <1>1, <1>3, <1>4 DEF t

LEMMA AddedByKey ==
  ASSUME CompactionAssumption,
         NEW s \in Seq(File), Ordered(s), NEW f \in File, f.level # 0,
         \A g \in Elements(s) : g.level = f.level /\ g.id < f.id
  PROVE  /\ InsertAt(s, UpperBound(s, KeyMin(f)), f) \in Seq(File)
         /\ Ordered(InsertAt(s, UpperBound(s, KeyMin(f)), f))
         /\ Elements(InsertAt(s, UpperBound(s, KeyMin(f)), f)) = Elements(s) \cup {f}
  <1> DEFINE p == UpperBound(s, KeyMin(f))
             t == InsertAt(s, p, f)
  <1>0. \A g \in File : KeyMin(g) \in Nat
    BY FileKeys
  <1>1. KeyMin(f) \in Nat /\ \A j \in DOMAIN s : KeyMin(s[j]) \in Nat
    BY <1>0
  <1>2. /\ p \in 1 .. Len(s) + 1
        /\ \A i \in 1 .. p - 1 : KeyMin(s[i]) <= KeyMin(f)
        /\ p <= Len(s) => KeyMin(f) < KeyMin(s[p])
    BY <1>1, UpperBoundIs
  <1> HIDE DEF p
  <1>3. /\ t \in Seq(File) /\ Len(t) = Len(s) + 1
        /\ \A j \in 1 .. Len(s) + 1 :
              t[j] = IF j < p THEN s[j] ELSE IF j = p THEN f ELSE s[j - 1]
    <2>1. s \in Seq(File) /\ f \in File /\ p \in 1 .. Len(s) + 1
      BY <1>2
    <2>2. Inserted(t, s, p, f, File)
      BY ONLY <2>1, Inserting
    <2> HIDE DEF t
    <2>3. QED
      BY <2>2 DEF Inserted
  <1> HIDE DEF t
  <1>4. DOMAIN s = 1 .. Len(s) /\ DOMAIN t = 1 .. Len(s) + 1 /\ Len(s) \in Nat
    BY <1>3
  <1>5. \A i \in 1 .. p - 1 : i \in DOMAIN s /\ Before(s[i], f)
    <2>1. SUFFICES ASSUME NEW i \in 1 .. p - 1 PROVE i \in DOMAIN s /\ Before(s[i], f)
      OBVIOUS
    <2>2. i \in DOMAIN s /\ s[i] \in Elements(s)
      BY <1>2, <1>4 DEF Elements
    <2>3. s[i].level = f.level /\ s[i].id < f.id /\ KeyMin(s[i]) <= KeyMin(f)
      BY <1>2, <2>2
    <2>4. QED
      BY <1>1, <2>2, <2>3 DEF Before
  <1>6. \A j \in p .. Len(s) : j \in DOMAIN s /\ Before(f, s[j])
    <2>1. SUFFICES ASSUME NEW j \in p .. Len(s) PROVE j \in DOMAIN s /\ Before(f, s[j])
      OBVIOUS
    <2>2. p \in DOMAIN s /\ j \in DOMAIN s
      BY <1>2, <1>4
    <2>3. s[p] \in File /\ s[j] \in File /\ s[p].level = f.level /\ s[j].level = f.level
      BY <2>2 DEF Elements
    <2>4. p < j => KeyMin(s[p]) <= KeyMin(s[j])
      <3>1. SUFFICES ASSUME p < j PROVE KeyMin(s[p]) <= KeyMin(s[j])
        OBVIOUS
      <3>2. Before(s[p], s[j])
        BY <2>2, <3>1 DEF Ordered
      <3>3. QED
        BY <2>3, <3>2, BeforeDiffers
    <2>5. KeyMin(f) < KeyMin(s[j])
      BY <1>1, <1>2, <2>2, <2>4
    <2>6. QED
      BY <2>2, <2>5 DEF Before
  <1>7. Ordered(t)
    <2>1. SUFFICES ASSUME NEW i \in DOMAIN t, NEW j \in DOMAIN t, i < j
                   PROVE  Before(t[i], t[j])
      BY DEF Ordered
    <2>2. CASE j < p
      <3>1. i \in DOMAIN s /\ j \in DOMAIN s /\ t[i] = s[i] /\ t[j] = s[j]
        BY <1>2, <1>3, <1>4, <2>1, <2>2
      <3>2. QED
        BY <2>1, <3>1 DEF Ordered
    <2>3. CASE j = p
      <3>1. i \in 1 .. p - 1 /\ t[i] = s[i] /\ t[j] = f
        BY <1>2, <1>3, <1>4, <2>1, <2>3
      <3>2. QED
        BY <1>5, <3>1
    <2>4. CASE p < j /\ i = p
      <3>1. j - 1 \in p .. Len(s) /\ t[j] = s[j - 1] /\ t[i] = f
        BY <1>2, <1>3, <1>4, <2>1, <2>4
      <3>2. QED
        BY <1>6, <3>1
    <2>5. CASE p < j /\ i # p
      <3>1. PICK a, b \in DOMAIN s : a < b /\ t[i] = s[a] /\ t[j] = s[b]
        <4>1. CASE i < p
          <5>1. i \in DOMAIN s /\ j - 1 \in DOMAIN s /\ i < j - 1
                /\ t[i] = s[i] /\ t[j] = s[j - 1]
            BY <1>2, <1>3, <1>4, <2>1, <2>5, <4>1
          <5>2. QED
            BY <5>1
        <4>2. CASE p < i
          <5>1. i - 1 \in DOMAIN s /\ j - 1 \in DOMAIN s /\ i - 1 < j - 1
                /\ t[i] = s[i - 1] /\ t[j] = s[j - 1]
            BY <1>2, <1>3, <1>4, <2>1, <2>5, <4>2
          <5>2. QED
            BY <5>1
        <4>3. QED
          BY <1>2, <1>4, <2>1, <2>5, <4>1, <4>2
      <3>2. QED
        BY <3>1 DEF Ordered
    <2>6. QED
      BY <1>2, <1>4, <2>1, <2>2, <2>3, <2>4, <2>5
  <1>8. Elements(t) = Elements(s) \cup {f}
    <2>1. ASSUME NEW j \in DOMAIN t PROVE t[j] \in Elements(s) \cup {f}
      <3>1. CASE j < p
        BY <1>2, <1>3, <1>4, <2>1, <3>1 DEF Elements
      <3>2. CASE j = p
        BY <1>3, <1>4, <3>2
      <3>3. CASE p < j
        <4>1. j - 1 \in DOMAIN s /\ t[j] = s[j - 1]
          BY <1>2, <1>3, <1>4, <2>1, <3>3
        <4>2. QED
          BY <4>1 DEF Elements
      <3>4. QED
        BY <1>2, <1>4, <2>1, <3>1, <3>2, <3>3
    <2>2. ASSUME NEW i \in DOMAIN s PROVE s[i] \in Elements(t)
      <3>1. CASE i < p
        BY <1>3, <1>4, <2>2, <3>1 DEF Elements
      <3>2. CASE ~(i < p)
        <4>1. i + 1 \in DOMAIN t /\ t[i + 1] = s[i]
          BY <1>2, <1>3, <1>4, <2>2, <3>2
        <4>2. QED
          BY <4>1 DEF Elements
      <3>3. QED
        BY <3>1, <3>2
    <2>3. p \in DOMAIN t /\ t[p] = f
      BY <1>2, <1>3, <1>4
    <2>4. QED
      BY <2>1, <2>2, <2>3 DEF Elements
  <1>9. QED
    BY <1>3, <1>7, <1>8 DEF p, t

LEMMA RemovedOne ==
  ASSUME CompactionAssumption, NEW s \in Seq(File), Ordered(s), NEW p \in 1 .. Len(s)
  PROVE  /\ RemoveAt(s, p) \in Seq(File)
         /\ Ordered(RemoveAt(s, p))
         /\ Elements(RemoveAt(s, p)) = Elements(s) \ {s[p]}
  <1> DEFINE t == RemoveAt(s, p)
  <1>1. /\ t \in Seq(File) /\ Len(t) = Len(s) - 1
        /\ \A j \in 1 .. Len(s) - 1 : t[j] = IF j < p THEN s[j] ELSE s[j + 1]
    <2>1. s \in Seq(File) /\ p \in 1 .. Len(s)
      OBVIOUS
    <2>2. Removed(t, s, p, File)
      BY ONLY <2>1, Removing
    <2> HIDE DEF t
    <2>3. QED
      BY <2>2 DEF Removed
  <1> HIDE DEF t
  <1>2. DOMAIN s = 1 .. Len(s) /\ DOMAIN t = 1 .. Len(s) - 1 /\ Len(s) \in Nat
    BY <1>1
  <1> DEFINE at(j) == IF j < p THEN j ELSE j + 1
  <1>3. \A j \in DOMAIN t : at(j) \in DOMAIN s \ {p} /\ t[j] = s[at(j)]
    BY <1>1, <1>2
  <1>4. \A i \in DOMAIN s \ {p} : \E j \in DOMAIN t : at(j) = i
    <2>1. SUFFICES ASSUME NEW i \in DOMAIN s \ {p} PROVE \E j \in DOMAIN t : at(j) = i
      OBVIOUS
    <2>2. CASE i < p
      BY <1>2, <2>2
    <2>3. CASE ~(i < p)
      <3>1. i - 1 \in DOMAIN t /\ at(i - 1) = i
        BY <1>2, <2>3
      <3>2. QED
        BY <3>1
    <2>4. QED
      BY <2>2, <2>3
  <1>5. \A i, j \in DOMAIN t : i < j => at(i) < at(j)
    BY <1>2
  <1> HIDE DEF at
  <1>6. Ordered(t)
    BY <1>3, <1>5 DEF Ordered
  <1>7. \A i \in DOMAIN s \ {p} : s[i] # s[p]
    <2>1. SUFFICES ASSUME NEW i \in DOMAIN s \ {p} PROVE s[i] # s[p]
      OBVIOUS
    <2>2. s[i] \in File /\ s[p] \in File /\ p \in DOMAIN s
      BY <1>2
    <2>3. Before(s[i], s[p]) \/ Before(s[p], s[i])
      BY <1>2, <2>2 DEF Ordered
    <2>4. QED
      BY <2>2, <2>3, BeforeDiffers
  <1>8. Elements(t) = Elements(s) \ {s[p]}
    <2>1. ASSUME NEW j \in DOMAIN t PROVE t[j] \in Elements(s) \ {s[p]}
      BY <1>3, <1>7 DEF Elements
    <2>2. ASSUME NEW i \in DOMAIN s, s[i] # s[p] PROVE s[i] \in Elements(t)
      <3>1. PICK j \in DOMAIN t : at(j) = i
        BY <1>4, <2>2
      <3>2. QED
        BY <1>3, <3>1 DEF Elements
    <2>3. QED
      BY <2>1, <2>2 DEF Elements
  <1>9. QED
    BY <1>1, <1>6, <1>8 DEF t

-----------------------------------------------------------------------------
(* One step of an edit.                                                    *)
Version(v) == v = [index |-> v.index, free |-> v.free]

LEMMA Adding ==
  ASSUME CompactionAssumption, NEW last \in Nat, NEW v, Tree(v.index, last),
         NEW f \in File, f.id = last + 1
  PROVE  LET w == AddFile(v, f)
         IN  /\ Version(w)
             /\ Tree(w.index, last + 1)
             /\ At(w.index, f.level) = At(v.index, f.level) \cup {f}
             /\ \A l \in Level \ {f.level} : w.index[l] = v.index[l]
  <1> DEFINE w == AddFile(v, f)
             s == v.index[f.level]
             t == w.index[f.level]
  <1>1. /\ f.level \in Level /\ s \in Seq(File) /\ Ordered(s)
        /\ \A g \in Elements(s) : g.level = f.level /\ g.id < f.id
    <2>1. f.level \in Level
      BY DEF File
    <2>2. s \in Seq(File) /\ Ordered(s)
      BY <2>1 DEF Tree, Ordered
    <2>3. \A g \in Elements(s) : g.level = f.level /\ g.id < f.id
      BY <2>1 DEF Tree, Elements
    <2>4. QED
      BY <2>1, <2>2, <2>3
  <1>2. /\ Version(w)
        /\ w.index = [v.index EXCEPT ![f.level] =
                        IF f.level = 0 THEN Append(s, f)
                        ELSE InsertAt(s, UpperBound(s, KeyMin(f)), f)]
    BY DEF AddFile, Version
  <1>3. DOMAIN v.index = Level
    BY DEF Tree
  <1>4. t = IF f.level = 0 THEN Append(s, f)
            ELSE InsertAt(s, UpperBound(s, KeyMin(f)), f)
    BY <1>1, <1>2, <1>3
  <1>5. \A l \in Level \ {f.level} : w.index[l] = v.index[l]
    BY <1>2, <1>3
  <1>6. w.index = [l \in Level |-> w.index[l]]
    BY <1>2, <1>3
  <1> HIDE DEF w, s
  <1>7. t \in Seq(File) /\ Ordered(t) /\ Elements(t) = Elements(s) \cup {f}
    <2>1. CASE f.level = 0
      BY <1>1, <1>4, <2>1, AddedLast
    <2>2. CASE f.level # 0
      BY <1>1, <1>4, <2>2, AddedByKey
    <2>3. QED
      BY <2>1, <2>2
  <1> HIDE DEF t
  <1>8. Tree(w.index, last + 1)
    <2>0. \A l \in Level : w.index[l] \in Seq(File)
      BY <1>1, <1>5, <1>7 DEF Tree, t
    <2>1. w.index \in [Level -> Seq(File)]
      BY <1>6, <2>0
    <2>1a. \A l \in Level : \A g \in At(v.index, l) : g.level = l /\ g.id \in 1 .. last
      BY DEF Tree, At, Elements
    <2>1b. \A l \in Level : \A g \in At(w.index, l) :
              g \in At(v.index, l) \/ (g = f /\ l = f.level)
      <3>1. \A l \in Level \ {f.level} : At(w.index, l) = At(v.index, l)
        BY <1>5 DEF At
      <3>2. At(w.index, f.level) = At(v.index, f.level) \cup {f}
        BY <1>7 DEF t, s, At
      <3>3. QED
        BY <3>1, <3>2
    <2>2. \A l \in Level : \A g \in At(w.index, l) :
             /\ g.level = l /\ g.id \in 1 .. last + 1
             /\ g = f \/ (g \in At(v.index, l) /\ g.id \in 1 .. last)
      <3>1. \A n \in 1 .. last : n \in 1 .. last + 1
        OBVIOUS
      <3>2. last + 1 \in 1 .. last + 1
        OBVIOUS
      <3>3. QED
        BY <2>1a, <2>1b, <3>1, <3>2
    <2>3. \A l \in Level : Ordered(w.index[l])
      BY <1>1, <1>5, <1>7 DEF Tree, t, Ordered
    <2>4. \A l, m \in Level : \A g \in At(w.index, l), h \in At(w.index, m) :
             g.id = h.id => g = h
      BY <2>2 DEF Tree
    <2>5. \A l \in Level : \A j \in DOMAIN w.index[l] :
             w.index[l][j].level = l /\ w.index[l][j].id \in 1 .. last + 1
      BY <2>2 DEF At, Elements
    <2>6. \A l \in Level : \A i, j \in DOMAIN w.index[l] :
             i < j => Before(w.index[l][i], w.index[l][j])
      BY <2>3 DEF Ordered
    <2>7. QED
      BY <2>1, <2>4, <2>5, <2>6 DEF Tree
  <1>9. QED
    BY <1>2, <1>5, <1>7, <1>8 DEF w, t, s, At

(* No file of S with the first key of f is older.                          *)
First(S, f) ==
    /\ f \in S
    /\ f.level # 0 => \A g \in S : KeyMin(g) = KeyMin(f) => f.id <= g.id

Erased(v, f, last, w) ==
    /\ Version(w) /\ w.free = v.free
    /\ Tree(w.index, last)
    /\ At(w.index, f.level) \subseteq At(v.index, f.level)
    /\ First(At(v.index, f.level), f) =>
         At(w.index, f.level) = At(v.index, f.level) \ {f}
    /\ \A l \in Level \ {f.level} : w.index[l] = v.index[l]

LEMMA Erasing ==
  ASSUME CompactionAssumption, NEW last \in Nat, NEW v, Tree(v.index, last),
         Version(v),
         NEW f \in File, f.level = 0 => f \in At(v.index, 0)
  PROVE  Erased(v, f, last, EraseFile(v, f))
  <1> DEFINE w == EraseFile(v, f)
             s == v.index[f.level]
             t == w.index[f.level]
             p == IF f.level = 0 THEN CHOOSE j \in DOMAIN s : s[j].id = f.id
                  ELSE LowerBound(s, KeyMin(f))
             q == IF p <= Len(s) THEN p ELSE Len(s)
  <1>1. f.level \in Level /\ s \in Seq(File) /\ Ordered(s) /\ DOMAIN s = 1 .. Len(s)
    <2>1. f.level \in Level
      BY DEF File
    <2>2. s \in Seq(File) /\ Ordered(s)
      BY <2>1 DEF Tree, Ordered
    <2>3. QED
      BY <2>1, <2>2
  <1>2. w = [v EXCEPT !.index[f.level] = RemoveAt(s, q)]
    BY DEF EraseFile
  <1> HIDE DEF p, q
  <1>3. DOMAIN v.index = Level
    BY DEF Tree
  <1>4. /\ Version(w) /\ w.free = v.free
        /\ w.index = [v.index EXCEPT ![f.level] = RemoveAt(s, q)]
    BY <1>2 DEF Version
  <1>5. /\ t = RemoveAt(s, q)
        /\ \A l \in Level \ {f.level} : w.index[l] = v.index[l]
        /\ w.index = [l \in Level |-> w.index[l]]
    BY <1>1, <1>3, <1>4
  <1> HIDE DEF w
  <1>6. /\ p \in 1 .. Len(s) + 1
        /\ f \in Elements(s)
           /\ (f.level # 0 => \A g \in Elements(s) : KeyMin(g) = KeyMin(f) => f.id <= g.id)
             => p \in 1 .. Len(s) /\ s[p] = f
    <2>1. CASE f.level = 0
      <3>1. f \in Elements(s)
        BY <2>1 DEF At
      <3>2. p \in DOMAIN s /\ s[p].id = f.id
        BY <2>1, <3>1 DEF p, Elements
      <3>3. s[p] = f
        BY <1>1, <3>1, <3>2 DEF Tree, At, Elements
      <3>4. QED
        BY <1>1, <3>2, <3>3
    <2>2. CASE f.level # 0
      <3>1. p = LowerBound(s, KeyMin(f))
        BY <2>2 DEF p
      <3>2. KeyMin(f) \in Nat
        BY FileKeys
      <3>3. /\ p \in 1 .. Len(s) + 1
            /\ \A i \in 1 .. p - 1 : KeyMin(s[i]) < KeyMin(f)
            /\ p <= Len(s) => KeyMin(f) <= KeyMin(s[p])
        BY <1>1, <3>1, <3>2, LowerBoundIs
      <3>4. ASSUME f \in Elements(s),
                   \A g \in Elements(s) : KeyMin(g) = KeyMin(f) => f.id <= g.id
            PROVE  p \in 1 .. Len(s) /\ s[p] = f
        <4>1. PICK j \in DOMAIN s : s[j] = f
          BY <3>4 DEF Elements
        <4>2. ~(j < p)
          <5>1. SUFFICES ASSUME j < p PROVE FALSE
            OBVIOUS
          <5>2. j \in 1 .. p - 1
            BY <1>1, <3>3, <5>1
          <5>3. KeyMin(f) < KeyMin(f)
            BY <3>3, <4>1, <5>2
          <5>4. QED
            BY <3>2, <5>3
        <4>3. p \in DOMAIN s /\ p <= j /\ KeyMin(f) <= KeyMin(s[p])
          BY <1>1, <3>3, <4>2
        <4>4. CASE p = j
          BY <1>1, <4>1, <4>3, <4>4
        <4>5. CASE p # j
          <5>1. p < j
            BY <1>1, <4>3, <4>5
          <5>2. s[p] \in File /\ Before(s[p], f) /\ s[p] \in Elements(s)
            BY <1>1, <4>1, <4>3, <5>1 DEF Ordered, Elements
          <5>3. s[p].level = f.level
            BY <1>1, <4>3 DEF Tree
          <5>4. KeyMin(s[p]) \in Nat /\ s[p].id \in Nat /\ f.id \in Nat
            <6>1. KeyMin(s[p]) \in Nat
              BY <5>2, FileKeys
            <6>2. QED
              BY <5>2, <6>1 DEF File
          <5>5. KeyMin(s[p]) = KeyMin(f) /\ s[p].id < f.id
            BY <2>2, <3>2, <4>3, <5>2, <5>3, <5>4 DEF Before
          <5>6. QED
            BY <3>4, <5>2, <5>4, <5>5
        <4>6. QED
          BY <4>4, <4>5
      <3>5. QED
        BY <2>2, <3>3, <3>4
    <2>3. QED
      BY <2>1, <2>2
  <1>7. /\ t \in Seq(File) /\ Ordered(t) /\ Elements(t) \subseteq Elements(s)
        /\ p \in 1 .. Len(s) => Elements(t) = Elements(s) \ {s[p]}
    <2>1. Len(s) \in Nat /\ q = IF p <= Len(s) THEN p ELSE Len(s)
      BY <1>1 DEF q
    <2>2. CASE Len(s) = 0
      <3>1. q = 0 /\ p \notin 1 .. Len(s)
        BY <1>6, <2>1, <2>2
      <3>2. QED
        BY <1>1, <1>5, <2>2, <3>1, RemovingNone
    <2>3. CASE Len(s) # 0
      <3>1. q \in 1 .. Len(s) /\ (p \in 1 .. Len(s) => q = p)
        BY <1>6, <2>1, <2>3
      <3>2. QED
        BY <1>1, <1>5, <3>1, RemovedOne
    <2>4. QED
      BY <2>2, <2>3
  <1>7a. First(At(v.index, f.level), f) =>
            At(w.index, f.level) = At(v.index, f.level) \ {f}
    BY <1>6, <1>7 DEF First, t, s, At
  <1> HIDE DEF t, s
  <1>8. Tree(w.index, last)
    <2>0. \A l \in Level : w.index[l] \in Seq(File)
      BY <1>1, <1>5, <1>7 DEF Tree, t
    <2>1. w.index \in [Level -> Seq(File)]
      BY <1>5, <2>0
    <2>2. \A l \in Level : At(w.index, l) \subseteq At(v.index, l)
      BY <1>1, <1>5, <1>7 DEF t, s, At
    <2>3. \A l \in Level : Ordered(w.index[l])
      BY <1>1, <1>5, <1>7 DEF Tree, t, Ordered
    <2>4. \A l \in Level : \A g \in At(v.index, l) : g.level = l /\ g.id \in 1 .. last
      BY DEF Tree, At, Elements
    <2>5. \A l, m \in Level : \A g \in At(w.index, l), h \in At(w.index, m) :
             g.id = h.id => g = h
      BY <2>2 DEF Tree
    <2>6. \A l \in Level : \A j \in DOMAIN w.index[l] : w.index[l][j] \in At(w.index, l)
      BY DEF At, Elements
    <2>7. QED
      BY <2>1, <2>2, <2>3, <2>4, <2>5, <2>6 DEF Tree, Ordered
  <1>9. QED
    BY <1>4, <1>5, <1>7, <1>7a, <1>8 DEF w, t, s, At, Erased

-----------------------------------------------------------------------------
(* What a merge writes: every row once, in files that are not empty and do *)
(* not overlap.                                                            *)
Rank(K, k) == Cardinality({q \in K : q <= k})

LEMMA Ranks ==
  ASSUME CompactionAssumption, NEW K \in SUBSET Key
  PROVE  /\ Cardinality(K) \in Nat
         /\ \A k \in K : Rank(K, k) \in 1 .. Cardinality(K)
         /\ \A k, q \in K : k < q => Rank(K, k) < Rank(K, q)
         /\ \A r \in 1 .. Cardinality(K) : \E k \in K : Rank(K, k) = r
  <1> DEFINE upto(k) == {q \in K : q <= k}
             c == Cardinality(K)
  <1>1. K \subseteq Nat /\ IsFiniteSet(K) /\ c \in Nat
    BY FS_Subset, FS_CardinalityType DEF CompactionAssumption
  <1>2. \A k : /\ upto(k) \in SUBSET K /\ IsFiniteSet(upto(k))
               /\ Cardinality(upto(k)) \in Nat /\ Cardinality(upto(k)) <= c
               /\ Cardinality(upto(k)) = c => upto(k) = K
    BY <1>1, FS_Subset, FS_CardinalityType
  <1>3. \A k \in K : Rank(K, k) \in 1 .. c
    <2>1. SUFFICES ASSUME NEW k \in K PROVE Cardinality(upto(k)) \in 1 .. c
      BY DEF Rank
    <2>2. k \in upto(k)
      BY <1>1
    <2>3. Cardinality(upto(k)) # 0
      BY <1>2, <2>2, FS_EmptySet
    <2>4. QED
      BY <1>1, <1>2, <2>3
  <1> DEFINE rank(k) == Rank(K, k)
  <1>4. \A k : rank(k) = Cardinality(upto(k))
    BY DEF Rank
  <1>5. \A k, q : q \in upto(k) <=> q \in K /\ q <= k
    OBVIOUS
  <1> HIDE DEF upto, rank
  <1>6. ASSUME NEW k \in K, NEW q \in K, k < q PROVE rank(k) < rank(q)
    <2>1. k \in Nat /\ q \in Nat
      BY <1>1
    <2>2. \A n \in upto(k) : n \in upto(q)
      <3>1. \A n \in upto(k) : n \in K /\ n \in Nat /\ n <= k
        BY <1>1, <1>5
      <3>2. \A n \in upto(k) : n <= q
        BY <1>6, <2>1, <3>1
      <3>3. QED
        BY <1>5, <3>1, <3>2
    <2>3. q \in upto(q) /\ q \notin upto(k)
      BY <1>5, <1>6, <2>1
    <2>4. upto(k) \in SUBSET upto(q) /\ upto(k) # upto(q)
      BY <2>2, <2>3
    <2>5. IsFiniteSet(upto(q))
      BY <1>2
    <2>6. /\ Cardinality(upto(k)) <= Cardinality(upto(q))
          /\ Cardinality(upto(k)) # Cardinality(upto(q))
      BY <2>4, <2>5, FS_Subset
    <2>7. QED
      BY <1>2, <1>4, <2>6
  <1>7. \A r \in 1 .. c : \E k \in K : rank(k) = r
    <2> DEFINE T == {r \in Nat : r + 1 <= c => \E k \in K : rank(k) = r + 1}
    <2>1. 0 \in T
      <3>1. SUFFICES ASSUME 1 <= c PROVE \E k \in K : rank(k) = 1
        OBVIOUS
      <3>2. K # {}
        BY <3>1, FS_EmptySet
      <3>3. PICK m \in K : \A n \in K : m <= n
        BY <1>1, <3>2, Least
      <3>4. \A n : n \in upto(m) <=> n = m
        <4>1. ASSUME NEW n, n \in upto(m) PROVE n = m
          <5>1. n \in K /\ n \in Nat /\ m \in Nat /\ n <= m /\ m <= n
            BY <1>1, <1>5, <3>3, <4>1
          <5>2. QED
            BY <5>1
        <4>2. m \in upto(m)
          BY <1>1, <1>5
        <4>3. QED
          BY <4>1, <4>2
      <3>5. upto(m) = {m}
        BY <3>4
      <3>6. Cardinality({m}) = 1
        BY FS_Singleton
      <3>7. QED
        BY <1>4, <3>5, <3>6
    <2>2. ASSUME NEW r \in Nat, r \in T PROVE r + 1 \in T
      <3>1. SUFFICES ASSUME (r + 1) + 1 <= c PROVE \E k \in K : rank(k) = (r + 1) + 1
        OBVIOUS
      <3>2. PICK k \in K : rank(k) = r + 1
        BY <1>1, <2>2, <3>1
      <3>3. k \in Nat
        BY <1>1
      <3> DEFINE rest == {q \in K : k < q}
      <3>4. rest # {}
        <4>1. SUFFICES ASSUME rest = {} PROVE FALSE
          OBVIOUS
        <4>2. \A q \in K : q \in Nat /\ ~(k < q)
          BY <1>1, <4>1
        <4>3. \A q \in K : q <= k
          BY <3>3, <4>2
        <4>4. upto(k) = K
          BY <1>5, <4>3
        <4>5. rank(k) = c
          BY <1>4, <4>4
        <4>6. QED
          BY <1>1, <3>1, <3>2, <4>5
      <3>5. PICK m \in rest : \A n \in rest : m <= n
        BY <3>4, Extremes
      <3>6. m \in K /\ m \in Nat /\ k < m /\ \A n \in K : k < n => m <= n
        BY <1>1, <3>5
      <3>7. \A q : q \in upto(m) <=> q \in upto(k) \/ q = m
        <4>1. ASSUME NEW q \in K PROVE q <= m <=> q <= k \/ q = m
          <5>1. q \in Nat
            BY <1>1
          <5>2. QED
            BY <3>3, <3>6, <5>1
        <4>2. QED
          BY <1>5, <3>6, <4>1
      <3>8. upto(m) = upto(k) \cup {m} /\ m \notin upto(k)
        <4>1. ~(m <= k)
          BY <3>3, <3>6
        <4>2. QED
          BY <1>5, <3>7, <4>1
      <3>9. Cardinality(upto(m)) = Cardinality(upto(k)) + 1
        BY <1>2, <3>8, FS_AddElement
      <3>10. rank(m) = (r + 1) + 1
        BY <1>4, <3>2, <3>9
      <3>11. QED
        BY <3>6, <3>10
    <2> HIDE DEF T
    <2>3. \A r \in Nat : r \in T
      BY <2>1, <2>2, Induction
    <2>4. ASSUME NEW r \in 1 .. c PROVE \E k \in K : rank(k) = r
      <3>1. r - 1 \in T /\ r - 1 \in Nat /\ (r - 1) + 1 = r /\ r <= c
        BY <1>1, <2>3
      <3>2. QED
        BY <3>1 DEF T
    <2>5. QED
      BY <2>4
  <1>8. QED
    BY <1>1, <1>3, <1>6, <1>7 DEF rank

LEMMA MergedRowsAre ==
  ASSUME CompactionAssumption, NEW files \in Seq(File), files # <<>>
  PROVE  /\ MergedRows(files) \in Rows
         /\ \A k \in Key : MergedRows(files)[k] # 0 =>
               \E f \in Elements(files) : f.rows[k] = MergedRows(files)[k]
         /\ \A f \in Elements(files) : KeysOf(f.rows) \subseteq KeysOf(MergedRows(files))
         /\ KeysOf(MergedRows(files)) # {}
  <1> DEFINE with(k) == {j \in DOMAIN files : files[j].rows[k] # 0}
             at(k) == CHOOSE j \in with(k) : \A i \in with(k) : j <= i
             rows == MergedRows(files)
  <1>1. LastMemtable \in Nat /\ \A j \in DOMAIN files : files[j] \in File /\ files[j].rows \in Rows
    BY DEF CompactionAssumption, File
  <1>2. \A k \in Key : with(k) # {} => at(k) \in with(k)
    <2>1. SUFFICES ASSUME NEW k \in Key, with(k) # {} PROVE at(k) \in with(k)
      OBVIOUS
    <2>2. with(k) \subseteq Nat
      OBVIOUS
    <2>3. \E j \in with(k) : \A i \in with(k) : j <= i
      BY <2>1, <2>2, Least
    <2>4. QED
      BY <2>3
  <1>3. rows = [k \in Key |-> IF with(k) = {} THEN 0 ELSE files[at(k)].rows[k]]
    BY DEF MergedRows
  <1>4. \A k \in Key : rows[k] = IF with(k) = {} THEN 0 ELSE files[at(k)].rows[k]
    BY <1>3
  <1>5. ASSUME NEW k \in Key PROVE rows[k] \in 0 .. LastMemtable
    <2>1. CASE with(k) = {}
      BY <1>1, <1>4, <2>1
    <2>2. CASE with(k) # {}
      <3>1. at(k) \in DOMAIN files
        BY <1>2, <2>2
      <3>2. files[at(k)].rows[k] \in 0 .. LastMemtable
        BY <1>1, <3>1 DEF Rows
      <3>3. QED
        BY <1>4, <2>2, <3>2
    <2>3. QED
      BY <2>1, <2>2
  <1>6. rows \in Rows
    BY <1>3, <1>5 DEF Rows
  <1> HIDE DEF rows, at
  <1>7. \A k \in Key : rows[k] # 0 => \E f \in Elements(files) : f.rows[k] = rows[k]
    BY <1>2, <1>4 DEF Elements
  <1>8. \A f \in Elements(files) : \A k \in KeysOf(f.rows) : k \in KeysOf(rows)
    <2>1. SUFFICES ASSUME NEW j \in DOMAIN files, NEW k \in KeysOf(files[j].rows)
                   PROVE  k \in KeysOf(rows)
      BY DEF Elements
    <2>2. k \in Key /\ j \in with(k)
      BY DEF KeysOf
    <2>3. files[at(k)].rows[k] # 0
      BY <1>2, <2>2
    <2>4. QED
      BY <1>4, <2>2, <2>3 DEF KeysOf
  <1>9. KeysOf(rows) # {}
    <2>1. 1 \in DOMAIN files /\ files[1] \in Elements(files)
      BY DEF Elements
    <2>2. KeysOf(files[1].rows) # {}
      BY <1>1, <2>1 DEF File
    <2>3. QED
      BY <1>8, <2>1, <2>2
  <1>10. QED
    BY <1>6, <1>7, <1>8, <1>9 DEF rows

LEMMA Quotient ==
  ASSUME NEW a \in Nat, NEW s \in Nat \ {0}
  PROVE  /\ a \div s \in Nat
         /\ s * (a \div s) <= a
         /\ a < s * (a \div s) + s
  OBVIOUS

LEMMA Multiples ==
  ASSUME NEW s \in Nat \ {0}, NEW p \in Nat, NEW q \in Nat
  PROVE  /\ s * p \in Nat
         /\ s * (p + 1) = s * p + s
         /\ p <= q => s * p <= s * q
  <1>1. s * p \in Nat /\ s * q \in Nat /\ s * (p + 1) = s * p + s
    OBVIOUS
  <1>2. ASSUME p <= q PROVE s * p <= s * q
    <2>1. q - p \in Nat /\ s * (q - p) >= 0
      BY <1>2
    <2>2. s * (q - p) = s * q - s * p
      OBVIOUS
    <2>3. QED
      BY <1>1, <2>1, <2>2
  <1>3. QED
    BY <1>1, <1>2

(* c things in groups of s.                                                *)
LEMMA Groups ==
  ASSUME NEW s \in Nat \ {0}, NEW c \in Nat \ {0}, NEW N, N = (c + s - 1) \div s
  PROVE  /\ N \in Nat
         /\ \A r \in 1 .. c : (r - 1) \div s \in 0 .. N - 1
         /\ \A r, t \in 1 .. c : r < t => (r - 1) \div s <= (t - 1) \div s
         /\ \A n \in 1 .. N : \E r \in 1 .. c : (r - 1) \div s = n - 1
  <1>1. N \in Nat /\ s * N <= c + s - 1 /\ c + s - 1 < s * N + s
    <2>1. c + s - 1 \in Nat
      OBVIOUS
    <2>2. QED
      BY <2>1, Quotient
  <1>2. \A p, q \in Nat : s * p \in Nat /\ s * (p + 1) = s * p + s /\ (p <= q => s * p <= s * q)
    BY Multiples
  <1>3. \A p, q \in Nat : s * p < s * q + s => p <= q
    <2>1. SUFFICES ASSUME NEW p \in Nat, NEW q \in Nat, s * p < s * q + s, ~(p <= q) PROVE FALSE
      OBVIOUS
    <2>2. q + 1 \in Nat /\ q + 1 <= p
      BY <2>1
    <2>3. s * (q + 1) = s * q + s /\ s * (q + 1) <= s * p /\ s * p \in Nat /\ s * q \in Nat
      BY <1>2, <2>2
    <2>4. QED
      BY <2>1, <2>3
  <1>4. \A r \in 1 .. c : /\ (r - 1) \div s \in Nat
                          /\ s * ((r - 1) \div s) <= r - 1
                          /\ r - 1 < s * ((r - 1) \div s) + s
    <2>1. \A r \in 1 .. c : r - 1 \in Nat
      OBVIOUS
    <2>2. QED
      BY <2>1, Quotient
  <1>5. ASSUME NEW r \in 1 .. c PROVE (r - 1) \div s \in 0 .. N - 1
    <2> DEFINE q == (r - 1) \div s
    <2>1. q \in Nat /\ s * q <= r - 1
      BY <1>4
    <2> HIDE DEF q
    <2>2. s * q \in Nat /\ s * N \in Nat /\ s * (q + 1) = s * q + s
      BY <1>1, <1>2, <2>1
    <2>3. s * (q + 1) < s * N + s
      BY <1>1, <2>1, <2>2
    <2>4. q + 1 <= N
      BY <1>1, <1>3, <2>1, <2>3
    <2>5. QED
      BY <1>1, <2>1, <2>4 DEF q
  <1>6. ASSUME NEW r \in 1 .. c, NEW t \in 1 .. c, r < t
        PROVE  (r - 1) \div s <= (t - 1) \div s
    <2> DEFINE p == (r - 1) \div s
               q == (t - 1) \div s
    <2>1. p \in Nat /\ q \in Nat /\ s * p <= r - 1 /\ t - 1 < s * q + s
      BY <1>4
    <2> HIDE DEF p, q
    <2>2. s * p \in Nat /\ s * q \in Nat
      BY <1>2, <2>1
    <2>3. s * p < s * q + s
      BY <1>6, <2>1, <2>2
    <2>4. QED
      BY <1>3, <2>1, <2>3 DEF p, q
  <1>7. ASSUME NEW n \in 1 .. N PROVE \E r \in 1 .. c : (r - 1) \div s = n - 1
    <2> DEFINE m == n - 1
               r == s * m + 1
               q == (r - 1) \div s
    <2>1. m \in Nat /\ m + 1 \in Nat /\ m + 1 <= N
      BY <1>1
    <2>2. s * m \in Nat /\ s * (m + 1) = s * m + s /\ s * (m + 1) <= s * N
      BY <1>1, <1>2, <2>1
    <2> HIDE DEF m
    <2>3. r \in 1 .. c
      BY <1>1, <2>2
    <2>4. r - 1 = s * m
      BY <2>2
    <2> HIDE DEF r
    <2>5. q \in Nat /\ s * q <= s * m /\ s * m < s * q + s
      BY <1>4, <2>3, <2>4
    <2> HIDE DEF q
    <2>6. s * q \in Nat /\ s * q < s * m + s
      BY <1>2, <2>2, <2>5
    <2>7. q <= m /\ m <= q
      BY <1>3, <2>1, <2>5, <2>6
    <2>8. q = m
      BY <2>1, <2>5, <2>7
    <2>9. QED
      BY <2>3, <2>8 DEF q, m
  <1>8. QED
    BY <1>1, <1>5, <1>6, <1>7

LEMMA OutputsAre ==
  ASSUME CompactionAssumption, NEW files \in Seq(File), files # <<>>
  PROVE  /\ Outputs(files) \in Seq(Rows)
         /\ \A n \in DOMAIN Outputs(files) :
               /\ KeysOf(Outputs(files)[n]) # {}
               /\ \A k \in Key : Outputs(files)[n][k] \in {0, MergedRows(files)[k]}
         /\ \A k \in KeysOf(MergedRows(files)) :
               \E n \in DOMAIN Outputs(files) : Outputs(files)[n][k] # 0
         /\ \A m, n \in DOMAIN Outputs(files) : m < n =>
               \A k \in KeysOf(Outputs(files)[m]), q \in KeysOf(Outputs(files)[n]) : k < q
  <1> DEFINE rows == MergedRows(files)
             K == KeysOf(rows)
             c == Cardinality(K)
             s == IF Len(files) = 1 THEN c ELSE MEM_TABLE_MAX_SIZE
             N == (c + s - 1) \div s
             group(k) == (Rank(K, k) - 1) \div s
             outs == Outputs(files)
             out(n) == [k \in Key |-> IF rows[k] # 0 /\ group(k) = n - 1 THEN rows[k] ELSE 0]
  <1>1. rows \in Rows /\ K # {} /\ K \in SUBSET Key
    BY MergedRowsAre DEF KeysOf
  <1>2. outs = [n \in 1 .. N |-> out(n)]
    BY DEF Outputs, Rank
  <1> HIDE DEF rows, K, outs
  <1>3. /\ c \in Nat
        /\ \A k \in K : Rank(K, k) \in 1 .. c
        /\ \A k, q \in K : k < q => Rank(K, k) < Rank(K, q)
        /\ \A r \in 1 .. c : \E k \in K : Rank(K, k) = r
    BY <1>1, Ranks
  <1> HIDE DEF c
  <1>4. c \in Nat \ {0} /\ s \in Nat \ {0}
    <2>1. PICK k \in K : TRUE
      BY <1>1
    <2>1a. Rank(K, k) \in 1 .. c
      BY <1>3
    <2>1b. c # 0
      BY <1>3, <2>1a
    <2>2. QED
      BY <1>3, <2>1b DEF CompactionAssumption, s
  <1> HIDE DEF s
  <1>5. /\ N \in Nat
        /\ \A r \in 1 .. c : (r - 1) \div s \in 0 .. N - 1
        /\ \A r, t \in 1 .. c : r < t => (r - 1) \div s <= (t - 1) \div s
        /\ \A n \in 1 .. N : \E r \in 1 .. c : (r - 1) \div s = n - 1
    BY <1>4, Groups
  <1> HIDE DEF N
  <1>6. /\ \A k \in K : group(k) \in 0 .. N - 1
        /\ \A k, q \in K : k < q => group(k) <= group(q)
        /\ \A n \in 1 .. N : \E k \in K : group(k) = n - 1
    <2>1. \A n \in 1 .. N : \E k \in K : group(k) = n - 1
      <3>1. SUFFICES ASSUME NEW n \in 1 .. N PROVE \E k \in K : group(k) = n - 1
        OBVIOUS
      <3>2. PICK r \in 1 .. c : (r - 1) \div s = n - 1
        BY <1>5
      <3>3. QED
        BY <1>3, <3>2
    <2>2. QED
      BY <1>3, <1>5, <2>1
  <1> HIDE DEF group
  <1>7. DOMAIN outs = 1 .. N /\ \A n \in 1 .. N : outs[n] = out(n)
    BY <1>2
  <1>8. \A k \in Key : k \in K <=> rows[k] # 0
    BY DEF K, KeysOf
  <1>9. \A n \in 1 .. N : \A k \in Key :
           out(n)[k] = IF k \in K /\ group(k) = n - 1 THEN rows[k] ELSE 0
    BY <1>8
  <1>10. \A n \in 1 .. N : out(n) \in Rows
    <2>1. 0 \in 0 .. LastMemtable
      BY DEF CompactionAssumption
    <2>2. \A k \in Key : rows[k] \in 0 .. LastMemtable
      BY <1>1 DEF Rows
    <2>3. QED
      BY <2>1, <2>2 DEF Rows
  <1>11. \A n \in 1 .. N : KeysOf(out(n)) = {k \in K : group(k) = n - 1}
    BY <1>1, <1>8, <1>9 DEF KeysOf
  <1> HIDE DEF out
  <1>12. outs \in Seq(Rows)
    BY <1>2, <1>5, <1>10
  <1>13. \A n \in 1 .. N : KeysOf(out(n)) # {} /\ \A k \in Key : out(n)[k] \in {0, rows[k]}
    BY <1>6, <1>9, <1>11
  <1>14. ASSUME NEW k \in K PROVE \E n \in 1 .. N : out(n)[k] # 0
    <2>1. group(k) + 1 \in 1 .. N /\ group(k) = (group(k) + 1) - 1
      BY <1>5, <1>6
    <2>2. k \in Key /\ rows[k] # 0
      BY <1>1, <1>8
    <2>3. out(group(k) + 1)[k] = rows[k]
      BY <1>9, <2>1, <2>2
    <2>4. QED
      BY <2>1, <2>2, <2>3
  <1>15. ASSUME NEW m \in 1 .. N, NEW n \in 1 .. N, m < n,
                NEW k \in KeysOf(out(m)), NEW q \in KeysOf(out(n))
         PROVE  k < q
    <2>1. k \in K /\ q \in K /\ group(k) = m - 1 /\ group(q) = n - 1
      BY <1>11
    <2>2. k \in Nat /\ q \in Nat
      BY <1>1, <2>1 DEF CompactionAssumption
    <2>3. k # q /\ ~(q < k)
      BY <1>6, <1>15, <2>1
    <2>4. QED
      BY <2>2, <2>3
  <1>16. QED
    BY <1>7, <1>12, <1>13, <1>14, <1>15 DEF outs, rows, K

(* The files an edit adds.                                                 *)
Written(c, first, new) ==
    /\ new \in Seq(File)
    /\ \A n \in DOMAIN new : new[n].id = first + n /\ new[n].level = c.target_level
    /\ c.files = <<>> => Len(new) = 1 /\ new[1].rows = c.rows
    /\ c.files # <<>> =>
         /\ \A n \in DOMAIN new : \A k \in Key :
               new[n].rows[k] \in {0, MergedRows(c.files)[k]}
         /\ \A k \in KeysOf(MergedRows(c.files)) :
               \E n \in DOMAIN new : new[n].rows[k] # 0
    /\ \A m, n \in DOMAIN new : m < n =>
          \A k \in KeysOf(new[m].rows), q \in KeysOf(new[n].rows) : k < q

LEMMA NewFilesAre ==
  ASSUME CompactionAssumption, NEW c \in Compact, NEW first \in Nat,
         NEW new, new = NewFiles(c, first)
  PROVE  Written(c, first, new)
  <1> DEFINE outs == IF c.files = <<>> THEN <<c.rows>> ELSE Outputs(c.files)
  <1>1. /\ c.rows \in Rows /\ c.files \in Seq(File) /\ c.target_level \in Level
        /\ c.files = <<>> => KeysOf(c.rows) # {}
    BY DEF Compact
  <1>2. new = [n \in DOMAIN outs |-> [id |-> first + n, level |-> c.target_level,
                                      rows |-> outs[n]]]
    BY DEF NewFiles
  <1>3. /\ outs \in Seq(Rows)
        /\ \A n \in DOMAIN outs : KeysOf(outs[n]) # {}
        /\ c.files = <<>> => Len(outs) = 1 /\ outs[1] = c.rows
        /\ c.files # <<>> =>
             /\ \A n \in DOMAIN outs : \A k \in Key :
                   outs[n][k] \in {0, MergedRows(c.files)[k]}
             /\ \A k \in KeysOf(MergedRows(c.files)) :
                   \E n \in DOMAIN outs : outs[n][k] # 0
        /\ \A m, n \in DOMAIN outs : m < n =>
              \A k \in KeysOf(outs[m]), q \in KeysOf(outs[n]) : k < q
    <2>1. CASE c.files = <<>>
      BY <1>1, <2>1
    <2>2. CASE c.files # <<>>
      <3>1. outs = Outputs(c.files)
        BY <2>2
      <3> HIDE DEF outs
      <3>2. QED
        BY <1>1, <2>2, <3>1, OutputsAre
    <2>3. QED
      BY <2>1, <2>2
  <1> HIDE DEF outs
  <1>4. DOMAIN outs = 1 .. Len(outs) /\ Len(outs) \in Nat
    BY <1>3
  <1>5. /\ DOMAIN new = DOMAIN outs
        /\ \A n \in DOMAIN outs : new[n] = [id |-> first + n, level |-> c.target_level,
                                            rows |-> outs[n]]
    BY <1>2
  <1>6. \A n \in DOMAIN outs : new[n] \in File
    BY <1>1, <1>3, <1>4, <1>5 DEF File
  <1>7. new \in Seq(File) /\ Len(new) = Len(outs)
    BY <1>2, <1>4, <1>5, <1>6
  <1>8. \A n \in DOMAIN new : /\ new[n].id = first + n
                              /\ new[n].level = c.target_level
                              /\ new[n].rows = outs[n]
    BY <1>5
  <1>9. c.files = <<>> => Len(new) = 1 /\ new[1].rows = c.rows
    BY <1>3, <1>4, <1>5, <1>7, <1>8
  <1>10. QED
    BY <1>3, <1>5, <1>7, <1>8, <1>9 DEF Written

-----------------------------------------------------------------------------
(* The files GetCompaction chooses.                                        *)
LEMMA OnlyIs ==
  ASSUME NEW files \in Seq(File), NEW ids,
         \A i, j \in DOMAIN files : files[i].id = files[j].id => i = j
  PROVE  LET some == Only(files, ids)
         IN  /\ some \in Seq(File)
             /\ Elements(some) = {f \in Elements(files) : f.id \in ids}
             /\ \A i, j \in DOMAIN some : some[i].id = some[j].id => i = j
  <1> DEFINE N == Len(files)
             Step(n, s) == IF files[n].id \in ids THEN Append(s, files[n]) ELSE s
             Def(n, g) == g = [m \in 0 .. n |-> IF m = 0 THEN <<>> ELSE Step(m, g[m - 1])]
             picked == CHOOSE g : Def(N, g)
  <1>1. N \in Nat /\ DOMAIN files = 1 .. N /\ \A j \in 1 .. N : files[j] \in File
    OBVIOUS
  <1>2. Only(files, ids) = picked[N]
    BY DEF Only
  <1> HIDE DEF Step, N
  <1>3. \E g : Def(N, g)
    <2> DEFINE T == {n \in Nat : \E g : Def(n, g)}
    <2>1. 0 \in T
      <3>1. Def(0, [m \in 0 .. 0 |-> <<>>])
        OBVIOUS
      <3>2. QED
        BY <3>1
    <2>2. ASSUME NEW n \in Nat, n \in T PROVE n + 1 \in T
      <3>1. PICK g : Def(n, g)
        BY <2>2
      <3> DEFINE h == [m \in 0 .. n + 1 |-> IF m = n + 1 THEN Step(n + 1, g[n]) ELSE g[m]]
      <3>2. \A m \in 0 .. n : h[m] = g[m]
        OBVIOUS
      <3>3. h[n + 1] = Step(n + 1, g[n]) /\ h[n] = g[n] /\ h = [m \in 0 .. n + 1 |-> h[m]]
        OBVIOUS
      <3>4. \A m \in 0 .. n : g[m] = IF m = 0 THEN <<>> ELSE Step(m, g[m - 1])
        BY <3>1
      <3> HIDE DEF h
      <3>5. \A m \in 1 .. n : m - 1 \in 0 .. n /\ h[m - 1] = g[m - 1]
        BY <3>2
      <3>6. \A m \in 0 .. n : h[m] = IF m = 0 THEN <<>> ELSE Step(m, h[m - 1])
        BY <3>2, <3>4, <3>5
      <3>7. n + 1 # 0 /\ (n + 1) - 1 = n /\ \A m \in 0 .. n + 1 : m \in 0 .. n \/ m = n + 1
        OBVIOUS
      <3>8. \A m \in 0 .. n + 1 : h[m] = IF m = 0 THEN <<>> ELSE Step(m, h[m - 1])
        BY <3>3, <3>6, <3>7
      <3>9. Def(n + 1, h)
        BY <3>3, <3>8
      <3>10. QED
        BY <3>9
    <2> HIDE DEF T
    <2>3. N \in T
      BY <1>1, <2>1, <2>2, Induction
    <2>4. QED
      BY <2>3 DEF T
  <1>4. /\ picked[0] = <<>>
        /\ \A n \in Nat : n + 1 <= N => picked[n + 1] = Step(n + 1, picked[n])
    <2>1. Def(N, picked)
      BY <1>3
    <2> HIDE DEF picked
    <2>2. \A m \in 0 .. N : picked[m] = IF m = 0 THEN <<>> ELSE Step(m, picked[m - 1])
      BY <2>1
    <2>3. 0 \in 0 .. N /\ \A n \in Nat : n + 1 <= N => n + 1 \in 0 .. N /\ (n + 1) - 1 = n /\ n + 1 # 0
      BY <1>1
    <2>4. QED
      BY <2>2, <2>3
  <1> HIDE DEF picked
  <1> DEFINE P(n, s) ==
               /\ s \in Seq(File)
               /\ Elements(s) = {files[j] : j \in {i \in 1 .. n : files[i].id \in ids}}
               /\ \A i, j \in DOMAIN s : s[i].id = s[j].id => i = j
             T == {n \in Nat : n <= N => P(n, picked[n])}
  <1>5. 0 \in T
    <2>1. <<>> \in Seq(File) /\ DOMAIN <<>> = {}
      OBVIOUS
    <2>2. Elements(<<>>) = {}
      BY <2>1 DEF Elements
    <2>3. P(0, <<>>)
      BY <2>1, <2>2
    <2>4. QED
      BY <1>4, <2>3
  <1>6. ASSUME NEW n \in Nat, n \in T PROVE n + 1 \in T
    <2>1. SUFFICES ASSUME n + 1 <= N PROVE P(n + 1, picked[n + 1])
      OBVIOUS
    <2> DEFINE s == picked[n]
               f == files[n + 1]
               t == picked[n + 1]
    <2>2. P(n, s) /\ t = Step(n + 1, s)
      BY <1>1, <1>4, <1>6, <2>1
    <2>2a. n + 1 \in 1 .. N /\ f \in File
      BY <1>1, <2>1
    <2> HIDE DEF s, t
    <2>3. CASE f.id \in ids
      <3>1. t = Append(s, f)
        BY <2>2, <2>3 DEF Step
      <3>2. s \in Seq(File)
        BY <2>2
      <3>3. /\ t \in Seq(File) /\ Len(t) = Len(s) + 1 /\ t[Len(s) + 1] = f
            /\ \A j \in 1 .. Len(s) : t[j] = s[j]
        BY <2>2a, <3>1, <3>2, AppendProperties
      <3>4. Elements(t) = Elements(s) \cup {f}
        <4>1. DOMAIN t = 1 .. Len(s) + 1 /\ DOMAIN s = 1 .. Len(s) /\ Len(s) \in Nat
          BY <3>2, <3>3
        <4>2. \A j \in DOMAIN t : j \in DOMAIN s \/ j = Len(s) + 1
          BY <4>1
        <4>3. \A j \in DOMAIN s : j \in DOMAIN t
          BY <4>1
        <4>4. Len(s) + 1 \in DOMAIN t
          BY <4>1
        <4>5. QED
          BY <3>3, <4>1, <4>2, <4>3, <4>4 DEF Elements
      <3>5. \A j : j \in 1 .. n + 1 <=> j \in 1 .. n \/ j = n + 1
        OBVIOUS
      <3>6. Elements(t) = {files[j] : j \in {i \in 1 .. n + 1 : files[i].id \in ids}}
        BY <2>2, <2>3, <3>4, <3>5
      <3>7. \A j \in DOMAIN s : s[j].id # f.id
        <4>1. SUFFICES ASSUME NEW j \in DOMAIN s, s[j].id = f.id PROVE FALSE
          OBVIOUS
        <4>2. s[j] \in Elements(s)
          BY DEF Elements
        <4>3. PICK i \in 1 .. n : s[j] = files[i]
          BY <2>2, <4>2
        <4>4. i \in DOMAIN files /\ n + 1 \in DOMAIN files /\ i # n + 1
          BY <1>1, <2>1
        <4>5. QED
          BY <4>1, <4>3, <4>4
      <3>8. \A i, j \in DOMAIN t : t[i].id = t[j].id => i = j
        <4>1. DOMAIN t = 1 .. Len(s) + 1 /\ DOMAIN s = 1 .. Len(s) /\ Len(s) \in Nat
          BY <3>2, <3>3
        <4>2. \A j \in DOMAIN t : (j \in DOMAIN s /\ t[j] = s[j]) \/ (j = Len(s) + 1 /\ t[j] = f)
          BY <3>3, <4>1
        <4>3. QED
          BY <2>2, <3>7, <4>2
      <3>9. QED
        BY <3>3, <3>6, <3>8 DEF t
    <2>4. CASE f.id \notin ids
      <3>1. t = s
        BY <2>2, <2>4 DEF Step
      <3>2. \A j : j \in 1 .. n + 1 <=> j \in 1 .. n \/ j = n + 1
        OBVIOUS
      <3>3. {i \in 1 .. n + 1 : files[i].id \in ids} = {i \in 1 .. n : files[i].id \in ids}
        BY <2>4, <3>2
      <3>4. QED
        BY <2>2, <3>1, <3>3 DEF t
    <2>5. QED
      BY <2>3, <2>4
  <1> HIDE DEF T
  <1>7. N \in T
    BY <1>1, <1>5, <1>6, Induction
  <1>8. P(N, picked[N])
    BY <1>1, <1>7 DEF T
  <1>9. {files[j] : j \in {i \in 1 .. N : files[i].id \in ids}} = {f \in Elements(files) : f.id \in ids}
    BY <1>1 DEF Elements
  <1>10. QED
    BY <1>2, <1>8, <1>9

-----------------------------------------------------------------------------
(* The edit of a version: every new file added, every input erased.        *)
AddAll(v, new) ==
    LET added[n \in 0 .. Len(new)] == IF n = 0 THEN v ELSE AddFile(added[n - 1], new[n])
    IN  added[Len(new)]

EraseAll(v, files) ==
    LET erased[n \in 0 .. Len(files)] ==
            IF n = 0 THEN v ELSE EraseFile(erased[n - 1], files[n])
    IN  erased[Len(files)]

Adds(v0, new, last, t, v) ==
    /\ Version(v)
    /\ Tree(v.index, last + Len(new))
    /\ At(v.index, t) = At(v0.index, t) \cup Elements(new)
    /\ \A l \in Level \ {t} : v.index[l] = v0.index[l]

LEMMA AddedAll ==
  ASSUME CompactionAssumption, NEW last \in Nat, NEW v0, Tree(v0.index, last),
         Version(v0),
         NEW new \in Seq(File), NEW t \in Level,
         \A n \in DOMAIN new : new[n].id = last + n /\ new[n].level = t,
         NEW v, v = AddAll(v0, new)
  PROVE  Adds(v0, new, last, t, v)
  <1> DEFINE N == Len(new)
             Step(n, s) == AddFile(s, new[n])
             Def(n, g) == g = [m \in 0 .. n |-> IF m = 0 THEN v0 ELSE Step(m, g[m - 1])]
             f == CHOOSE g : Def(N, g)
  <1>1. N \in Nat /\ DOMAIN new = 1 .. N /\ \A j \in 1 .. N : new[j] \in File
    OBVIOUS
  <1>2. v = f[N]
    BY DEF AddAll
  <1> HIDE DEF Step, N
  <1>3. \E g : Def(N, g)
    <2> DEFINE T == {n \in Nat : \E g : Def(n, g)}
    <2>1. 0 \in T
      <3>1. Def(0, [m \in 0 .. 0 |-> v0])
        OBVIOUS
      <3>2. QED
        BY <3>1
    <2>2. ASSUME NEW n \in Nat, n \in T PROVE n + 1 \in T
      <3>1. PICK g : Def(n, g)
        BY <2>2
      <3> DEFINE h == [m \in 0 .. n + 1 |-> IF m = n + 1 THEN Step(n + 1, g[n]) ELSE g[m]]
      <3>2. \A m \in 0 .. n : h[m] = g[m]
        OBVIOUS
      <3>3. h[n + 1] = Step(n + 1, g[n]) /\ h[n] = g[n] /\ h = [m \in 0 .. n + 1 |-> h[m]]
        OBVIOUS
      <3>4. \A m \in 0 .. n : g[m] = IF m = 0 THEN v0 ELSE Step(m, g[m - 1])
        BY <3>1
      <3> HIDE DEF h
      <3>5. \A m \in 1 .. n : m - 1 \in 0 .. n /\ h[m - 1] = g[m - 1]
        BY <3>2
      <3>6. \A m \in 0 .. n : h[m] = IF m = 0 THEN v0 ELSE Step(m, h[m - 1])
        BY <3>2, <3>4, <3>5
      <3>7. n + 1 # 0 /\ (n + 1) - 1 = n /\ \A m \in 0 .. n + 1 : m \in 0 .. n \/ m = n + 1
        OBVIOUS
      <3>8. \A m \in 0 .. n + 1 : h[m] = IF m = 0 THEN v0 ELSE Step(m, h[m - 1])
        BY <3>3, <3>6, <3>7
      <3>9. Def(n + 1, h)
        BY <3>3, <3>8
      <3> HIDE DEF Def
      <3>10. QED
        BY <3>9
    <2> HIDE DEF T
    <2>3. N \in T
      BY <1>1, <2>1, <2>2, Induction
    <2>4. QED
      BY <2>3 DEF T
  <1>4. /\ f[0] = v0
        /\ \A n \in Nat : n + 1 <= N => f[n + 1] = Step(n + 1, f[n])
    <2>1. Def(N, f)
      BY <1>3
    <2> HIDE DEF f
    <2>2. \A m \in 0 .. N : f[m] = IF m = 0 THEN v0 ELSE Step(m, f[m - 1])
      BY <2>1
    <2>3. 0 \in 0 .. N /\ \A n \in Nat : n + 1 <= N => n + 1 \in 0 .. N /\ (n + 1) - 1 = n /\ n + 1 # 0
      BY <1>1
    <2>4. QED
      BY <2>2, <2>3
  <1> HIDE DEF f
  <1> DEFINE upto(n) == {new[j] : j \in 1 .. n}
             P(n, u) == /\ Version(u)
                        /\ Tree(u.index, last + n)
                        /\ At(u.index, t) = At(v0.index, t) \cup upto(n)
                        /\ \A l \in Level \ {t} : u.index[l] = v0.index[l]
             T == {n \in Nat : n <= N => P(n, f[n])}
  <1>5. 0 \in T
    <2>1. upto(0) = {} /\ last + 0 = last
      OBVIOUS
    <2>2. P(0, v0)
      BY <2>1
    <2>3. QED
      BY <1>4, <2>2
  <1> HIDE DEF P
  <1>6. ASSUME NEW n \in Nat, n \in T PROVE n + 1 \in T
    <2>1. SUFFICES ASSUME n + 1 <= N PROVE P(n + 1, f[n + 1])
      OBVIOUS
    <2> DEFINE u == f[n]
               w == AddFile(u, new[n + 1])
    <2>2. P(n, u) /\ f[n + 1] = w
      <3>1. n <= N
        BY <1>1, <2>1
      <3>2. QED
        BY <1>4, <1>6, <2>1, <3>1 DEF Step
    <2> HIDE DEF u
    <2>2a. /\ Version(u)
           /\ Tree(u.index, last + n)
           /\ At(u.index, t) = At(v0.index, t) \cup upto(n)
           /\ \A l \in Level \ {t} : u.index[l] = v0.index[l]
      BY <2>2 DEF P
    <2>3. n + 1 \in 1 .. N /\ last + n \in Nat /\ last + (n + 1) = (last + n) + 1
      <3>1. n + 1 \in 1 .. N
        BY <1>1, <2>1
      <3>2. last + n \in Nat /\ last + (n + 1) = (last + n) + 1
        OBVIOUS
      <3>3. QED
        BY <3>1, <3>2
    <2>4. new[n + 1] \in File /\ new[n + 1].id = (last + n) + 1 /\ new[n + 1].level = t
      BY <1>1, <2>3
    <2>5. /\ Version(w)
          /\ Tree(w.index, (last + n) + 1)
          /\ At(w.index, t) = At(u.index, t) \cup {new[n + 1]}
          /\ \A l \in Level \ {t} : w.index[l] = u.index[l]
      <3> DEFINE now == last + n
                 e == new[n + 1]
                 z == AddFile(u, e)
      <3>1. /\ now \in Nat /\ Tree(u.index, now)
            /\ e \in File /\ e.id = now + 1 /\ e.level = t
        BY <2>2a, <2>3, <2>4
      <3> HIDE DEF now, e
      <3>2. /\ Version(z)
            /\ Tree(z.index, now + 1)
            /\ At(z.index, e.level) = At(u.index, e.level) \cup {e}
            /\ \A l \in Level \ {e.level} : z.index[l] = u.index[l]
        <4> HIDE DEF z, w
        <4>1. LET y == AddFile(u, e)
              IN  /\ Version(y)
                  /\ Tree(y.index, now + 1)
                  /\ At(y.index, e.level) = At(u.index, e.level) \cup {e}
                  /\ \A l \in Level \ {e.level} : y.index[l] = u.index[l]
          BY ONLY <3>1, Adding, CompactionAssumption
        <4>2. QED
          BY <4>1 DEF z
      <3>3. w = z
        BY DEF e
      <3> HIDE DEF z, w
      <3>4. QED
        BY <3>1, <3>2, <3>3 DEF now, e
    <2> HIDE DEF w
    <2>6. upto(n + 1) = upto(n) \cup {new[n + 1]}
      <3>1. \A j : j \in 1 .. n + 1 <=> j \in 1 .. n \/ j = n + 1
        OBVIOUS
      <3>2. QED
        BY <3>1
    <2> HIDE DEF upto
    <2>7. P(n + 1, w)
      BY <2>2a, <2>3, <2>5, <2>6 DEF P
    <2>8. QED
      BY <2>2, <2>7
  <1> HIDE DEF T
  <1>7. N \in T
    BY <1>1, <1>5, <1>6, Induction
  <1>8. N <= N
    BY <1>1
  <1>9. P(N, f[N])
    BY <1>7, <1>8 DEF T
  <1>10. upto(N) = Elements(new)
    BY <1>1 DEF Elements
  <1>11. QED
    BY <1>2, <1>9, <1>10 DEF P, N, Adds

(* Each file is of one of the levels, and in those of L it can be found.   *)
Erasable(index, files, levels, L) ==
    /\ \A i, j \in DOMAIN files : files[i].id = files[j].id => i = j
    /\ \A j \in DOMAIN files :
          /\ files[j].level \in levels
          /\ files[j].level \in L => First(At(index, files[j].level), files[j])

Erases(v0, files, last, levels, L, v) ==
    /\ Tree(v.index, last) /\ v.free = v0.free
    /\ \A l \in Level : At(v.index, l) \subseteq At(v0.index, l)
    /\ \A l \in L : At(v.index, l) = At(v0.index, l) \ Elements(files)
    /\ \A l \in Level \ levels : v.index[l] = v0.index[l]

LEMMA ErasedAll ==
  ASSUME CompactionAssumption, NEW last \in Nat, NEW v0, Tree(v0.index, last),
         Version(v0),
         NEW files \in Seq(File), NEW levels \in SUBSET Level, NEW L \in SUBSET Level,
         0 \in L,
         Erasable(v0.index, files, levels, L),
         NEW v, v = EraseAll(v0, files)
  PROVE  Erases(v0, files, last, levels, L, v)
  <1> DEFINE N == Len(files)
             Step(n, s) == EraseFile(s, files[n])
             Def(n, g) == g = [m \in 0 .. n |-> IF m = 0 THEN v0 ELSE Step(m, g[m - 1])]
             f == CHOOSE g : Def(N, g)
  <1>0. /\ \A i, j \in DOMAIN files : files[i].id = files[j].id => i = j
        /\ \A j \in DOMAIN files :
              /\ files[j].level \in levels
              /\ files[j].level \in L => First(At(v0.index, files[j].level), files[j])
    BY DEF Erasable
  <1>1. N \in Nat /\ DOMAIN files = 1 .. N /\ \A j \in 1 .. N : files[j] \in File
    OBVIOUS
  <1>2. v = f[N]
    BY DEF EraseAll
  <1> HIDE DEF Step, N
  <1>3. \E g : Def(N, g)
    <2> DEFINE T == {n \in Nat : \E g : Def(n, g)}
    <2>1. 0 \in T
      <3>1. Def(0, [m \in 0 .. 0 |-> v0])
        OBVIOUS
      <3>2. QED
        BY <3>1
    <2>2. ASSUME NEW n \in Nat, n \in T PROVE n + 1 \in T
      <3>1. PICK g : Def(n, g)
        BY <2>2
      <3> DEFINE h == [m \in 0 .. n + 1 |-> IF m = n + 1 THEN Step(n + 1, g[n]) ELSE g[m]]
      <3>2. \A m \in 0 .. n : h[m] = g[m]
        OBVIOUS
      <3>3. h[n + 1] = Step(n + 1, g[n]) /\ h[n] = g[n] /\ h = [m \in 0 .. n + 1 |-> h[m]]
        OBVIOUS
      <3>4. \A m \in 0 .. n : g[m] = IF m = 0 THEN v0 ELSE Step(m, g[m - 1])
        BY <3>1
      <3> HIDE DEF h
      <3>5. \A m \in 1 .. n : m - 1 \in 0 .. n /\ h[m - 1] = g[m - 1]
        BY <3>2
      <3>6. \A m \in 0 .. n : h[m] = IF m = 0 THEN v0 ELSE Step(m, h[m - 1])
        BY <3>2, <3>4, <3>5
      <3>7. n + 1 # 0 /\ (n + 1) - 1 = n /\ \A m \in 0 .. n + 1 : m \in 0 .. n \/ m = n + 1
        OBVIOUS
      <3>8. \A m \in 0 .. n + 1 : h[m] = IF m = 0 THEN v0 ELSE Step(m, h[m - 1])
        BY <3>3, <3>6, <3>7
      <3>9. Def(n + 1, h)
        BY <3>3, <3>8
      <3> HIDE DEF Def
      <3>10. QED
        BY <3>9
    <2> HIDE DEF T
    <2>3. N \in T
      BY <1>1, <2>1, <2>2, Induction
    <2>4. QED
      BY <2>3 DEF T
  <1>4. /\ f[0] = v0
        /\ \A n \in Nat : n + 1 <= N => f[n + 1] = Step(n + 1, f[n])
    <2>1. Def(N, f)
      BY <1>3
    <2> HIDE DEF f
    <2>2. \A m \in 0 .. N : f[m] = IF m = 0 THEN v0 ELSE Step(m, f[m - 1])
      BY <2>1
    <2>3. 0 \in 0 .. N /\ \A n \in Nat : n + 1 <= N => n + 1 \in 0 .. N /\ (n + 1) - 1 = n /\ n + 1 # 0
      BY <1>1
    <2>4. QED
      BY <2>2, <2>3
  <1> HIDE DEF f
  <1> DEFINE upto(n) == {files[j] : j \in 1 .. n}
             P(n, u) == /\ Version(u) /\ u.free = v0.free
                        /\ Tree(u.index, last)
                        /\ \A l \in Level : At(u.index, l) \subseteq At(v0.index, l)
                        /\ \A l \in L : At(u.index, l) = At(v0.index, l) \ upto(n)
                        /\ \A l \in Level \ levels : u.index[l] = v0.index[l]
             T == {n \in Nat : n <= N => P(n, f[n])}
  <1>5. 0 \in T
    <2>1. upto(0) = {}
      OBVIOUS
    <2>2. P(0, v0)
      BY <2>1
    <2>3. QED
      BY <1>4, <2>2
  <1> HIDE DEF P
  <1>6. ASSUME NEW n \in Nat, n \in T PROVE n + 1 \in T
    <2>1. SUFFICES ASSUME n + 1 <= N PROVE P(n + 1, f[n + 1])
      OBVIOUS
    <2> DEFINE u == f[n]
               e == files[n + 1]
               w == EraseFile(u, e)
    <2>2. P(n, u) /\ f[n + 1] = w
      <3>1. n <= N
        BY <1>1, <2>1
      <3>2. QED
        BY <1>4, <1>6, <2>1, <3>1 DEF Step
    <2> HIDE DEF u
    <2>2a. /\ Version(u) /\ u.free = v0.free
           /\ Tree(u.index, last)
           /\ \A l \in Level : At(u.index, l) \subseteq At(v0.index, l)
           /\ \A l \in L : At(u.index, l) = At(v0.index, l) \ upto(n)
           /\ \A l \in Level \ levels : u.index[l] = v0.index[l]
      BY <2>2 DEF P
    <2>3. n + 1 \in DOMAIN files /\ e \in File
      BY <1>1, <2>1
    <2>4. upto(n + 1) = upto(n) \cup {e} /\ e \notin upto(n)
      <3>1. \A j : j \in 1 .. n + 1 <=> j \in 1 .. n \/ j = n + 1
        OBVIOUS
      <3>2. \A j \in 1 .. n : j \in DOMAIN files /\ j # n + 1
        BY <1>1, <2>1
      <3>3. \A j \in 1 .. n : files[j] # e
        BY <1>0, <2>3, <3>2
      <3>4. QED
        BY <3>1, <3>3
    <2>5. /\ e.level \in levels /\ e.level \in Level
          /\ e.level \in L =>
               First(At(v0.index, e.level), e)
      BY <1>0, <2>3
    <2> HIDE DEF upto, e
    <2>6. e.level \in L => First(At(u.index, e.level), e)
      BY <2>2a, <2>4, <2>5 DEF First
    <2>7. Tree(u.index, last) /\ Version(u)
      BY <2>2a
    <2>8. /\ Version(w) /\ w.free = u.free
          /\ Tree(w.index, last)
          /\ At(w.index, e.level) \subseteq At(u.index, e.level)
          /\ e.level \in L => At(w.index, e.level) = At(u.index, e.level) \ {e}
          /\ \A l \in Level \ {e.level} : w.index[l] = u.index[l]
      <3>1. e.level = 0 => e \in At(u.index, 0)
        BY <2>6 DEF First
      <3>2. e \in File /\ last \in Nat
        BY <2>3
      <3>3. Erased(u, e, last, w)
        BY ONLY <2>7, <3>1, <3>2, Erasing, CompactionAssumption
      <3> HIDE DEF w
      <3>4. QED
        BY <2>6, <3>3 DEF Erased
    <2> HIDE DEF w
    <2>9. \A l \in Level \ {e.level} : At(w.index, l) = At(u.index, l)
      BY <2>8 DEF At
    <2>10. \A l \in L : At(w.index, l) = At(v0.index, l) \ upto(n + 1)
      <3>1. SUFFICES ASSUME NEW l \in L PROVE At(w.index, l) = At(v0.index, l) \ upto(n + 1)
        OBVIOUS
      <3>2. At(u.index, l) = At(v0.index, l) \ upto(n)
        BY <2>2a
      <3>3. CASE l = e.level
        BY <2>4, <2>8, <3>2, <3>3
      <3>4. CASE l # e.level
        <4>1. At(w.index, l) = At(u.index, l)
          BY <2>9, <3>4
        <4>2. e \notin At(u.index, l)
          <5>1. \A g \in At(u.index, l) : g.level = l
            BY <2>7 DEF Tree, At, Elements
          <5>2. QED
            BY <3>4, <5>1
        <4>3. QED
          BY <2>4, <3>2, <4>1, <4>2
      <3>5. QED
        BY <3>3, <3>4
    <2>11. \A l \in Level : At(w.index, l) \subseteq At(v0.index, l)
      BY <2>2a, <2>8, <2>9
    <2>12. \A l \in Level \ levels : w.index[l] = v0.index[l]
      BY <2>2a, <2>5, <2>8
    <2>13. P(n + 1, w)
      BY <2>2a, <2>8, <2>10, <2>11, <2>12 DEF P
    <2>14. QED
      BY <2>2, <2>13
  <1> HIDE DEF T
  <1>7. N \in T
    BY <1>1, <1>5, <1>6, Induction
  <1>8. N <= N
    BY <1>1
  <1>9. P(N, f[N])
    BY <1>7, <1>8 DEF T
  <1>10. upto(N) = Elements(files)
    BY <1>1 DEF Elements
  <1>11. QED
    BY <1>2, <1>9, <1>10 DEF P, N, Erases

(* The files an edit adds to level l.                                      *)
Added(c, new, l) == IF l = c.target_level THEN Elements(new) ELSE {}

(* After an edit the levels L have what they had and the new files, but    *)
(* not the inputs.  In a deeper level an input may be mistaken for another *)
(* file with the same first key.                                           *)
Edit(c, L, new, v) ==
    /\ Tree(v.index, id + Len(new))
    /\ \A l \in Level : At(v.index, l) \subseteq At(FileIndex, l) \cup Added(c, new, l)
    /\ \A l \in L : At(v.index, l) =
           (At(FileIndex, l) \cup Added(c, new, l)) \ Elements(c.files)
    /\ \A l \in Level \ {c.target_level - 1, c.target_level} :
           v.index[l] = FileIndex[l]

(* Those of these files that are of the levels L would be found by their   *)
(* first keys.                                                             *)
Findable(L, files) ==
    \A f \in Elements(files) : f.level \in L => First(At(FileIndex, f.level), f)

LEMMA EditedIs ==
  ASSUME CompactionAssumption, TreeInv, NEW c \in Compact,
         NEW L \in SUBSET Level, 0 \in L, Findable(L, c.files),
         NEW v, v = Edited(c, id), NEW new, new = NewFiles(c, id)
  PROVE  Edit(c, L, new, v)
  <1>0. id \in Nat /\ c \in Compact /\ new = NewFiles(c, id)
    BY DEF TreeInv
  <1>4. /\ new \in Seq(File)
        /\ \A n \in DOMAIN new : new[n].id = id + n /\ new[n].level = c.target_level
    <2>1. Written(c, id, new)
      BY ONLY <1>0, NewFilesAre, CompactionAssumption
    <2>2. QED
      BY <2>1 DEF Written
  <1> DEFINE t == c.target_level
             files == c.files
             v0 == [index |-> FileIndex, free |-> no_overlap_in_next_level]
             v1 == AddAll(v0, new)
             v2 == EraseAll(v1, files)
  <1>1. v = v2
    BY DEF Edited, AddAll, EraseAll
  <1>2. id \in Nat /\ Tree(FileIndex, id)
    BY DEF TreeInv
  <1>3. /\ t \in Level /\ files \in Seq(File)
        /\ \A j \in DOMAIN files : files[j].level \in {t - 1, t}
        /\ \A i, j \in DOMAIN files : files[i].id = files[j].id => i = j
    BY DEF Compact
  <1>4a. \A n \in DOMAIN new : new[n].id = id + n /\ new[n].level = t
    BY <1>4
  <1>5. v0.index = FileIndex /\ Version(v0) /\ Tree(v0.index, id)
    BY <1>2 DEF Version
  <1> HIDE DEF v0, t, files
  <1>6. /\ Version(v1)
        /\ Tree(v1.index, id + Len(new))
        /\ At(v1.index, t) = At(v0.index, t) \cup Elements(new)
        /\ \A l \in Level \ {t} : v1.index[l] = v0.index[l]
    <2>1. Adds(v0, new, id, t, v1)
      BY ONLY <1>2, <1>3, <1>4, <1>4a, <1>5, AddedAll, CompactionAssumption
    <2>2. QED
      BY <2>1 DEF Adds
  <1> HIDE DEF v1
  <1>8. \A l \in Level : At(v1.index, l) = At(FileIndex, l) \cup Added(c, new, l)
    <2>1. \A l \in Level \ {t} : At(v1.index, l) = At(FileIndex, l)
      BY <1>5, <1>6 DEF At
    <2>2. At(v1.index, t) = At(FileIndex, t) \cup Elements(new)
      BY <1>5, <1>6
    <2>3. QED
      BY <2>1, <2>2 DEF Added, t
  <1>9. \A j \in DOMAIN files : files[j].level \in L =>
           First(At(v1.index, files[j].level), files[j])
    <2>1. SUFFICES ASSUME NEW f \in Elements(files), f.level \in L
                   PROVE  First(At(v1.index, f.level), f)
      BY DEF Elements
    <2>2. First(At(FileIndex, f.level), f) /\ f.level \in Level
          /\ f \in At(FileIndex, f.level)
      BY <2>1 DEF files, Findable, First
    <2>3. f.id \in 1 .. id
      BY <1>2, <2>2 DEF Tree, At, Elements
    <2>4. ASSUME f.level # 0, NEW g \in At(v1.index, f.level), KeyMin(g) = KeyMin(f)
          PROVE  f.id <= g.id
      <3>1. CASE g \in At(FileIndex, f.level)
        <4>1. QED
          BY <2>2, <2>4, <3>1 DEF First
      <3>2. CASE g \in Elements(new)
        <4>1. PICK n \in DOMAIN new : g = new[n]
          BY <3>2 DEF Elements
        <4>2. g.id = id + n /\ n \in Nat
          BY <1>4, <4>1
        <4>3. QED
          BY <1>2, <2>3, <4>2
      <3>3. QED
        BY <1>8, <2>2, <2>4, <3>1, <3>2 DEF Added
    <2>5. QED
      BY <1>8, <2>2, <2>4 DEF First
  <1> DEFINE last == id + Len(new)
  <1>10. last \in Nat /\ Tree(v1.index, last) /\ Version(v1)
    BY <1>2, <1>4, <1>6
  <1> HIDE DEF last
  <1> DEFINE levels == {t - 1, t} \cap Level
  <1>11. levels \in SUBSET Level /\ \A j \in DOMAIN files : files[j].level \in levels
    <2>1. \A j \in DOMAIN files : files[j].level \in Level
      BY <1>3 DEF File
    <2>2. QED
      BY <1>3, <2>1
  <1> HIDE DEF levels
  <1>12. files \in Seq(File) /\ L \in SUBSET Level /\ 0 \in L /\ levels \in SUBSET Level
         /\ Erasable(v1.index, files, levels, L)
    BY <1>3, <1>9, <1>11 DEF Erasable
  <1>13. Erases(v1, files, last, levels, L, v2)
    BY ONLY <1>10, <1>12, ErasedAll, CompactionAssumption
  <1>14. /\ Tree(v2.index, last) /\ v2.free = v1.free
         /\ \A l \in Level : At(v2.index, l) \subseteq At(v1.index, l)
         /\ \A l \in L : At(v2.index, l) = At(v1.index, l) \ Elements(files)
         /\ \A l \in Level \ levels : v2.index[l] = v1.index[l]
    BY <1>13 DEF Erases
  <1>17. \A l \in Level \ {t - 1, t} : v2.index[l] = FileIndex[l]
    BY <1>5, <1>6, <1>14 DEF levels
  <1> HIDE DEF v2
  <1>18. QED
    BY <1>1, <1>8, <1>14, <1>17 DEF last, files, t, Edit

-----------------------------------------------------------------------------
(* What GetCompaction returns.                                             *)
LEMMA IdsAre ==
  ASSUME NEW files, NEW n
  PROVE  n \in Ids(files) <=> \E f \in Elements(files) : f.id = n
  BY DEF Ids, Elements

LEMMA TreeLevel ==
  ASSUME CompactionAssumption, NEW last \in Nat, NEW index, Tree(index, last),
         NEW l \in Level
  PROVE  /\ index[l] \in Seq(File) /\ Ordered(index[l])
         /\ \A i, j \in DOMAIN index[l] : index[l][i].id = index[l][j].id => i = j
         /\ \A f \in At(index, l) : f \in File /\ f.level = l /\ f.id \in 1 .. last
  <1>1. index[l] \in Seq(File) /\ Ordered(index[l])
    BY DEF Tree, Ordered
  <1>2. \A f \in At(index, l) : f \in File /\ f.level = l /\ f.id \in 1 .. last
    BY <1>1 DEF Tree, At, Elements
  <1>3. ASSUME NEW i \in DOMAIN index[l], NEW j \in DOMAIN index[l],
               index[l][i].id = index[l][j].id, i # j
        PROVE  FALSE
    <2>1. i < j \/ j < i
      BY <1>1, <1>3
    <2>2. index[l][i] \in At(index, l) /\ index[l][j] \in At(index, l)
      BY DEF At, Elements
    <2>3. index[l][i] = index[l][j]
      BY <1>3, <2>2 DEF Tree
    <2>4. Before(index[l][i], index[l][j]) \/ Before(index[l][j], index[l][i])
      BY <1>1, <2>1 DEF Ordered
    <2>5. index[l][i] \in File /\ index[l][j] \in File
      BY <1>2, <2>2
    <2>6. QED
      BY <2>3, <2>4, <2>5, BeforeDiffers
  <1>4. QED
    BY <1>1, <1>2, <1>3

(* The files it starts from.                                               *)
Down(index, marked, level, d) ==
    /\ level + 1 \in Level
    /\ d \in Seq(File) /\ d # <<>>
    /\ \A f \in Elements(d) : f \in At(index, level) /\ f.id \notin marked
    /\ \A i, j \in DOMAIN d : d[i].id = d[j].id => i = j
    /\ level = 0 =>
         /\ HasOldest(index, d)
         /\ \A g \in At(index, 0) : g.id \in marked \/ g \in Elements(d)

LEMMA DownIs ==
  ASSUME CompactionAssumption, NEW last \in Nat, NEW index, Tree(index, last),
         NEW marked, NEW free, NEW level \in Level,
         NEW d \in DownFiles(index, marked, free, level)
  PROVE  Down(index, marked, level, d)
  <1> DEFINE files == index[level]
             idle == Only(files, Ids(files) \ marked)
             lone == Only(idle, free)
  <1>1. /\ files \in Seq(File) /\ Ordered(files)
        /\ \A i, j \in DOMAIN files : files[i].id = files[j].id => i = j
        /\ \A f \in Elements(files) : f \in File /\ f.level = level /\ f.id \in 1 .. last
    BY TreeLevel DEF At
  <1>2. d \in IF level = 0
              THEN IF files = <<>> \/ files[1].id \in marked THEN {} ELSE {idle}
              ELSE IF level = MAX_LEVEL - 1 \/ Len(files) <= LevelLimit(level) THEN {}
              ELSE IF lone # <<>> THEN {<<lone[1]>>}
              ELSE {<<idle[j]>> : j \in DOMAIN idle}
    BY DEF DownFiles
  <1>3. At(index, level) = Elements(files)
    BY DEF At
  <1> HIDE DEF files, lone
  <1>4. /\ idle \in Seq(File)
        /\ Elements(idle) = {f \in Elements(files) : f.id \notin marked}
        /\ \A i, j \in DOMAIN idle : idle[i].id = idle[j].id => i = j
    <2>1. /\ idle \in Seq(File)
          /\ Elements(idle) = {f \in Elements(files) : f.id \in Ids(files) \ marked}
          /\ \A i, j \in DOMAIN idle : idle[i].id = idle[j].id => i = j
      BY <1>1, OnlyIs
    <2>2. \A f \in Elements(files) : f.id \in Ids(files)
      BY IdsAre
    <2>3. QED
      BY <2>1, <2>2
  <1> HIDE DEF idle
  <1>5. /\ lone \in Seq(File)
        /\ Elements(lone) = {f \in Elements(idle) : f.id \in free}
    BY <1>4, OnlyIs DEF lone
  <1>6. CASE level = 0
    <2>1. d = idle /\ files # <<>> /\ files[1].id \notin marked
      BY <1>2, <1>6
    <2>2. 1 \in DOMAIN files /\ files[1] \in Elements(files)
      BY <1>1, <2>1 DEF Elements
    <2>3. files[1] \in Elements(d)
      BY <1>4, <2>1, <2>2
    <2>4. \A g \in Elements(files) : files[1].id <= g.id
      <3>1. SUFFICES ASSUME NEW j \in DOMAIN files PROVE files[1].id <= files[j].id
        BY DEF Elements
      <3>2. files[1].id \in Nat /\ files[1].level = 0
        BY <1>1, <1>6, <2>2
      <3>3. CASE j = 1
        BY <3>2, <3>3
      <3>4. CASE j # 1
        <4>1. 1 < j
          BY <1>1, <3>4
        <4>2. Before(files[1], files[j])
          BY <1>1, <2>2, <4>1 DEF Ordered
        <4>3. files[1].id < files[j].id
          BY <3>2, <4>2 DEF Before
        <4>4. files[j].id \in Nat
          BY <1>1 DEF File
        <4>5. QED
          BY <3>2, <4>3, <4>4
      <3>5. QED
        BY <3>3, <3>4
    <2>5. HasOldest(index, d)
      BY <1>3, <1>6, <2>2, <2>3, <2>4 DEF HasOldest
    <2>6. 1 \in Level
      BY DEF CompactionAssumption, Level
    <2>7. d # <<>>
      BY <2>3 DEF Elements
    <2>8. QED
      BY <1>3, <1>4, <1>6, <2>1, <2>5, <2>6, <2>7 DEF Down
  <1>7. CASE level # 0
    <2>1. level + 1 \in Level
      BY <1>2, <1>7 DEF CompactionAssumption, Level
    <2>2. PICK f \in Elements(idle) : d = <<f>>
      <3>1. CASE lone # <<>>
        <4>1. d = <<lone[1]>>
          BY <1>2, <1>7, <3>1
        <4>2. lone[1] \in Elements(lone)
          BY <1>5, <3>1 DEF Elements
        <4>3. QED
          BY <1>5, <4>1, <4>2
      <3>2. CASE lone = <<>>
        BY <1>2, <1>7, <3>2 DEF Elements
      <3>3. QED
        BY <3>1, <3>2
    <2>3. f \in File /\ f \in Elements(files) /\ f.id \notin marked
      BY <1>1, <1>4
    <2>4. d \in Seq(File) /\ d # <<>> /\ DOMAIN d = {1} /\ Elements(d) = {f}
      BY <2>2, <2>3 DEF Elements
    <2>5. QED
      BY <1>3, <1>7, <2>1, <2>3, <2>4 DEF Down
  <1>8. QED
    BY <1>6, <1>7

(* The files of the next level it adds: those left out are below all its   *)
(* keys or above them, if the next level is disjoint.                      *)
Following(next, d, n) ==
    /\ n \in Seq(File)
    /\ Elements(n) \subseteq Elements(next)
    /\ (\A i, j \in DOMAIN next : next[i].id = next[j].id => i = j)
       => \A i, j \in DOMAIN n : n[i].id = n[j].id => i = j
    /\ InTurn(next) => \A g \in Elements(next) : g \in Elements(n) \/ Clear(d \o n, g)

LEMMA ConcatElements ==
  ASSUME NEW X, NEW s \in Seq(X), NEW t \in Seq(X)
  PROVE  /\ s \o t \in Seq(X)
         /\ Elements(s \o t) = Elements(s) \cup Elements(t)
  <1> DEFINE u == s \o t
  <1>1. /\ u \in Seq(X) /\ Len(u) = Len(s) + Len(t)
        /\ \A i \in 1 .. Len(s) + Len(t) : u[i] = IF i <= Len(s) THEN s[i] ELSE t[i - Len(s)]
    BY ConcatProperties
  <1> HIDE DEF u
  <1>2. /\ DOMAIN u = 1 .. Len(s) + Len(t) /\ DOMAIN s = 1 .. Len(s)
        /\ DOMAIN t = 1 .. Len(t) /\ Len(s) \in Nat /\ Len(t) \in Nat
    BY <1>1
  <1>3. ASSUME NEW i \in DOMAIN u PROVE u[i] \in Elements(s) \cup Elements(t)
    <2>1. CASE i <= Len(s)
      BY <1>1, <1>2, <2>1 DEF Elements
    <2>2. CASE ~(i <= Len(s))
      <3>1. i - Len(s) \in DOMAIN t /\ u[i] = t[i - Len(s)]
        BY <1>1, <1>2, <2>2
      <3>2. QED
        BY <3>1 DEF Elements
    <2>3. QED
      BY <2>1, <2>2
  <1>4. ASSUME NEW i \in DOMAIN s PROVE s[i] \in Elements(u)
    <2>1. i \in DOMAIN u /\ u[i] = s[i]
      BY <1>1, <1>2
    <2>2. QED
      BY <2>1 DEF Elements
  <1>5. ASSUME NEW i \in DOMAIN t PROVE t[i] \in Elements(u)
    <2>1. i + Len(s) \in DOMAIN u /\ u[i + Len(s)] = t[i]
      BY <1>1, <1>2
    <2>2. QED
      BY <2>1 DEF Elements
  <1>6. QED
    BY <1>1, <1>3, <1>4, <1>5 DEF Elements, u

LEMMA NextIs ==
  ASSUME CompactionAssumption, NEW d \in Seq(File), d # <<>>, NEW next \in Seq(File)
  PROVE  Following(next, d, NextFiles(next, d))
  <1> DEFINE keys == UNION {KeysOf(d[j].rows) : j \in DOMAIN d}
             min == CHOOSE k \in keys : \A q \in keys : k <= q
             max == CHOOSE k \in keys : \A q \in keys : q <= k
             a == FirstNext(next, min)
             b == LastNext(next, max)
             p == LowerBound(next, min)
             r == LowerBound(next, max)
             n == SubSeq(next, a, b)
             len == Len(next)
  <1>1. n = NextFiles(next, d)
    BY DEF NextFiles
  <1>2. /\ keys \in SUBSET Key /\ keys # {}
    <2>1. 1 \in DOMAIN d /\ d[1] \in File
      OBVIOUS
    <2>2. KeysOf(d[1].rows) # {}
      BY <2>1 DEF File
    <2>3. QED
      BY <2>1, <2>2 DEF KeysOf
  <1>2a. \A k : k \in keys <=> \E f \in Elements(d) : k \in KeysOf(f.rows)
    BY DEF Elements
  <1> HIDE DEF keys
  <1>3. /\ keys \subseteq Nat
        /\ min \in keys /\ \A q \in keys : min <= q
        /\ max \in keys /\ \A q \in keys : q <= max
    <2>1. /\ keys \subseteq Nat
          /\ \E m \in keys : \A q \in keys : m <= q
          /\ \E m \in keys : \A q \in keys : q <= m
      BY <1>2, Extremes
    <2>2. QED
      BY <2>1
  <1> HIDE DEF min, max
  <1>4. min \in Nat /\ max \in Nat
    BY <1>3
  <1>5. /\ p \in 1 .. len + 1
        /\ \A i \in 1 .. p - 1 : KeyMin(next[i]) < min
        /\ p <= len => min <= KeyMin(next[p])
    BY <1>4, LowerBoundIs
  <1>6. /\ r \in 1 .. len + 1
        /\ \A i \in 1 .. r - 1 : KeyMin(next[i]) < max
        /\ r <= len => max <= KeyMin(next[r])
    BY <1>4, LowerBoundIs
  <1>7. a = (IF p > 1 THEN p - 1 ELSE p) /\ b = (IF r <= len THEN r ELSE len)
    BY DEF FirstNext, LastNext
  <1>8. len \in Nat /\ DOMAIN next = 1 .. len /\ \A j \in 1 .. len : next[j] \in File
    OBVIOUS
  <1> HIDE DEF p, r, a, b
  <1> HIDE DEF len
  <1>8a. len \in Nat /\ p \in 1 .. len + 1 /\ r \in 1 .. len + 1
    BY <1>5, <1>6, <1>8
  <1>9. a \in 1 .. len + 1 /\ b \in 0 .. len
    BY ONLY <1>7, <1>8a
  <1>10. /\ n \in Seq(File)
         /\ Len(n) = IF a <= b THEN b - a + 1 ELSE 0
         /\ \A i \in 1 .. b - a + 1 : n[i] = next[a + i - 1]
    <2>1. \A i \in a .. b : next[i] \in File
      BY <1>8, <1>9
    <2>2. a \in Int /\ b \in Int
      BY <1>9
    <2>3. QED
      BY <2>1, <2>2, SubSeqProperties
  <1> HIDE DEF n
  <1>11. \A i \in DOMAIN n : a + i - 1 \in DOMAIN next /\ n[i] = next[a + i - 1]
    <2>1. SUFFICES ASSUME NEW i \in DOMAIN n
                   PROVE  a + i - 1 \in DOMAIN next /\ n[i] = next[a + i - 1]
      OBVIOUS
    <2>2. i \in 1 .. Len(n)
      BY <1>10
    <2>3. a <= b /\ i \in 1 .. b - a + 1
      BY ONLY <1>8a, <1>9, <1>10, <2>2
    <2>4. a + i - 1 \in 1 .. len
      BY ONLY <1>8a, <1>9, <2>3
    <2>5. QED
      BY <1>8, <1>10, <2>3, <2>4
  <1>12. \A j \in a .. b : next[j] \in Elements(n)
    <2>1. SUFFICES ASSUME NEW j \in a .. b PROVE next[j] \in Elements(n)
      OBVIOUS
    <2>2. j - a + 1 \in DOMAIN n /\ a + (j - a + 1) - 1 = j
      BY <1>9, <1>10
    <2>3. n[j - a + 1] = next[j]
      BY <1>11, <2>2
    <2>4. QED
      BY <2>2, <2>3 DEF Elements
  <1>13. Elements(n) \subseteq Elements(next)
    BY <1>11 DEF Elements
  <1>14. ASSUME \A i, j \in DOMAIN next : next[i].id = next[j].id => i = j,
                NEW i \in DOMAIN n, NEW j \in DOMAIN n, n[i].id = n[j].id
         PROVE  i = j
    <2>1. a + i - 1 = a + j - 1
      BY <1>11, <1>14
    <2>2. i \in Int /\ j \in Int /\ a \in Int
      BY <1>9, <1>10
    <2>3. QED
      BY <2>1, <2>2
  <1>15. \A f \in File : /\ KeyMin(f) \in Nat /\ KeyMax(f) \in Nat /\ KeyMin(f) <= KeyMax(f)
                         /\ \A k \in KeysOf(f.rows) : k \in Nat /\ KeyMin(f) <= k /\ k <= KeyMax(f)
    BY FileKeys
  <1>16. Elements(d \o n) = Elements(d) \cup Elements(n)
    BY <1>10, ConcatElements
  <1>17. ASSUME InTurn(next), NEW j \in 1 .. len, next[j] \notin Elements(n)
         PROVE  Clear(d \o n, next[j])
    <2>1. j < a \/ b < j
      BY <1>9, <1>12, <1>17
    <2>2. CASE j < a
      <3>1. p > 1 /\ a = p - 1 /\ a \in 1 .. len /\ j < a
        <4>1. j \in 1 .. len
          BY <1>17
        <4>2. QED
          BY ONLY <1>7, <1>8a, <1>9, <4>1, <2>2
      <3>2. KeyMax(next[j]) < KeyMin(next[a]) /\ KeyMin(next[a]) < min
        BY <1>5, <1>8, <1>17, <3>1 DEF InTurn
      <3>3. \A f \in Elements(d) : \A k \in KeysOf(f.rows) : KeyMax(next[j]) < k
        <4>1. SUFFICES ASSUME NEW k \in keys PROVE KeyMax(next[j]) < k
          BY <1>2a
        <4>2. k \in Nat /\ min <= k
          BY <1>3
        <4>3. KeyMax(next[j]) \in Nat /\ KeyMin(next[a]) \in Nat
          BY <1>8, <1>15, <3>1
        <4>4. QED
          BY <1>4, <3>2, <4>2, <4>3
      <3>4. \A f \in Elements(n) : \A k \in KeysOf(f.rows) : KeyMax(next[j]) < k
        <4>1. SUFFICES ASSUME NEW i \in DOMAIN n, NEW k \in KeysOf(n[i].rows)
                       PROVE  KeyMax(next[j]) < k
          BY DEF Elements
        <4> DEFINE m == a + i - 1
        <4>2. m \in 1 .. len /\ n[i] = next[m]
          BY <1>8, <1>11
        <4>3. a <= m
          BY <1>9, <1>10
        <4> HIDE DEF m
        <4>4. KeyMax(next[j]) < KeyMin(next[m])
          BY <1>8, <1>17, <3>1, <4>2, <4>3 DEF InTurn
        <4>5. KeyMin(next[m]) <= k /\ k \in Nat /\ KeyMin(next[m]) \in Nat /\ KeyMax(next[j]) \in Nat
          BY <1>8, <1>15, <4>2
        <4>6. QED
          BY <4>4, <4>5
      <3>5. QED
        BY <1>16, <3>3, <3>4 DEF Clear
    <2>3. CASE b < j
      <3>1. r <= len /\ b = r /\ r \in 1 .. len /\ r < j
        <4>1. j \in 1 .. len
          BY <1>17
        <4>2. QED
          BY ONLY <1>7, <1>8a, <1>9, <4>1, <2>3
      <3>2. KeyMax(next[r]) < KeyMin(next[j]) /\ max <= KeyMin(next[r])
        BY <1>6, <1>8, <1>17, <3>1 DEF InTurn
      <3>3. \A f \in Elements(d) : \A k \in KeysOf(f.rows) : k < KeyMin(next[j])
        <4>1. SUFFICES ASSUME NEW k \in keys PROVE k < KeyMin(next[j])
          BY <1>2a
        <4>2. k \in Nat /\ k <= max
          BY <1>3
        <4>3. /\ KeyMin(next[j]) \in Nat /\ KeyMin(next[r]) \in Nat /\ KeyMax(next[r]) \in Nat
              /\ KeyMin(next[r]) <= KeyMax(next[r])
          BY <1>8, <1>15, <3>1
        <4>4. QED
          BY <1>4, <3>2, <4>2, <4>3
      <3>4. \A f \in Elements(n) : \A k \in KeysOf(f.rows) : k < KeyMin(next[j])
        <4>1. SUFFICES ASSUME NEW i \in DOMAIN n, NEW k \in KeysOf(n[i].rows)
                       PROVE  k < KeyMin(next[j])
          BY DEF Elements
        <4> DEFINE m == a + i - 1
        <4>2. m \in 1 .. len /\ n[i] = next[m]
          BY <1>8, <1>11
        <4>3. m <= b
          BY <1>9, <1>10
        <4> HIDE DEF m
        <4>4. KeyMax(next[m]) < KeyMin(next[j])
          BY <1>8, <1>17, <3>1, <4>2, <4>3 DEF InTurn
        <4>5. k <= KeyMax(next[m]) /\ k \in Nat /\ KeyMax(next[m]) \in Nat /\ KeyMin(next[j]) \in Nat
          BY <1>8, <1>15, <4>2
        <4>6. QED
          BY <4>4, <4>5
      <3>5. QED
        BY <1>16, <3>3, <3>4 DEF Clear
    <2>4. QED
      BY <2>1, <2>2, <2>3
  <1>18. InTurn(next) => \A g \in Elements(next) : g \in Elements(n) \/ Clear(d \o n, g)
    BY <1>8, <1>17 DEF Elements
  <1>19. QED
    BY <1>1, <1>10, <1>13, <1>14, <1>18 DEF Following

Choice(index, marked, level, c) ==
    /\ level + 1 \in Level
    /\ c \in Compact /\ c.files # <<>> /\ c.target_level = level + 1
    /\ \A f \in Elements(c.files) : f \in At(index, f.level) /\ f.id \notin marked
    /\ level = 0 =>
         /\ HasOldest(index, c.files)
         /\ \A g \in At(index, 0) : g.id \in marked \/ g \in Elements(c.files)
         /\ DisjointAt(index, 1) =>
              \A g \in At(index, 1) : g \in Elements(c.files) \/ Clear(c.files, g)

LEMMA DisjointInTurn ==
  ASSUME CompactionAssumption, NEW files \in Seq(File), Ordered(files),
         \A f \in Elements(files) : f.level # 0,
         \A f, g \in Elements(files) : f = g \/ Disjoint(f, g)
  PROVE  InTurn(files)
  <1>1. SUFFICES ASSUME NEW i \in DOMAIN files, NEW j \in DOMAIN files, i < j
                 PROVE  KeyMax(files[i]) < KeyMin(files[j])
    BY DEF InTurn
  <1> DEFINE f == files[i]
             g == files[j]
  <1>2. f \in Elements(files) /\ g \in Elements(files) /\ f \in File /\ g \in File
    BY DEF Elements
  <1>3. Before(f, g) /\ f.level # 0
    BY <1>1, <1>2 DEF Ordered
  <1>4. f # g /\ Disjoint(f, g)
    BY <1>2, <1>3, BeforeDiffers
  <1> HIDE DEF f, g
  <1>5. KeyMin(f) \in Nat /\ KeyMin(g) \in Nat /\ KeyMax(f) \in Nat /\ KeyMax(g) \in Nat
        /\ KeyMin(g) <= KeyMax(g) /\ KeyMin(f) <= KeyMax(f)
    BY <1>2, FileKeys
  <1>6. KeyMin(f) <= KeyMin(g)
    BY <1>2, <1>3, BeforeDiffers
  <1>7. KeyMax(f) < KeyMin(g)
    BY <1>4, <1>5, <1>6 DEF Disjoint
  <1>8. QED
    BY <1>7 DEF f, g

LEMMA ChosenIs ==
  ASSUME CompactionAssumption, NEW last \in Nat, NEW index, Tree(index, last),
         NEW marked, NEW free, NEW level \in Level,
         NEW c \in Chosen(index, marked, free, level), c # NoJob
  PROVE  Choice(index, marked, level, c)
  <1>1. c \in Compactions(index, marked, free, level)
    BY DEF Chosen
  <1> DEFINE n(d) == NextFiles(index[level + 1], d)
  <1>2. PICK d \in DownFiles(index, marked, free, level) :
               /\ Ids(n(d)) \cap marked = {}
               /\ c = Merge(d \o n(d), level + 1)
    BY <1>1 DEF Compactions
  <1> DEFINE next == index[level + 1]
             more == NextFiles(next, d)
             files == d \o more
  <1>3. Down(index, marked, level, d)
    BY DownIs
  <1>4. /\ level + 1 \in Level
        /\ d \in Seq(File) /\ d # <<>>
        /\ \A f \in Elements(d) : f \in At(index, level) /\ f.id \notin marked
        /\ \A i, j \in DOMAIN d : d[i].id = d[j].id => i = j
    BY <1>3 DEF Down
  <1>5. /\ next \in Seq(File) /\ Ordered(next)
        /\ \A i, j \in DOMAIN next : next[i].id = next[j].id => i = j
        /\ \A f \in Elements(next) : f \in File /\ f.level = level + 1
    BY <1>4, TreeLevel DEF At
  <1>6. \A f \in At(index, level) : f \in File /\ f.level = level
    BY TreeLevel
  <1>7. /\ c = [rows |-> [k \in Key |-> 0], files |-> files, target_level |-> level + 1]
        /\ Ids(more) \cap marked = {}
    BY <1>2 DEF Merge
  <1> HIDE DEF next
  <1>8. Following(next, d, more)
    BY <1>4, <1>5, NextIs
  <1> HIDE DEF more
  <1>9. /\ more \in Seq(File)
        /\ Elements(more) \subseteq Elements(next)
        /\ \A i, j \in DOMAIN more : more[i].id = more[j].id => i = j
        /\ InTurn(next) => \A g \in Elements(next) : g \in Elements(more) \/ Clear(files, g)
    BY <1>5, <1>8 DEF Following
  <1>10. /\ files \in Seq(File) /\ Elements(files) = Elements(d) \cup Elements(more)
    BY <1>4, <1>9, ConcatElements
  <1>11. files # <<>>
    <2>1. Elements(d) # {}
      BY <1>4 DEF Elements
    <2>2. Elements(files) # {}
      BY <1>10, <2>1
    <2>3. QED
      BY <2>2 DEF Elements
  <1>12. \A f \in Elements(files) :
            f.level \in {level, level + 1} /\ f \in At(index, f.level) /\ f.id \notin marked
    <2>1. \A f \in Elements(d) : f.level = level /\ f \in At(index, level) /\ f.id \notin marked
      BY <1>4, <1>6
    <2>2. \A f \in Elements(more) : f.id \in Ids(more)
      BY IdsAre
    <2>3. \A f \in Elements(more) :
             f.level = level + 1 /\ f \in At(index, level + 1) /\ f.id \notin marked
      BY <1>5, <1>7, <1>9, <2>2 DEF At, next
    <2>4. QED
      BY <1>10, <2>1, <2>3
  <1>13. \A i, j \in DOMAIN files : files[i].id = files[j].id => i = j
    <2>1. \A i \in DOMAIN d : \A j \in DOMAIN more : d[i].id # more[j].id
      <3>1. SUFFICES ASSUME NEW f \in Elements(d), NEW g \in Elements(more), f.id = g.id
                     PROVE  FALSE
        BY DEF Elements
      <3>2. f \in At(index, level) /\ f.level = level
        BY <1>4, <1>6
      <3>3. g \in At(index, level + 1) /\ g.level = level + 1
        BY <1>5, <1>9 DEF At, next
      <3>4. f = g
        BY <1>4, <3>1, <3>2, <3>3 DEF Tree
      <3>5. level \in Int
        BY DEF Level
      <3>6. QED
        BY <3>2, <3>3, <3>4, <3>5
    <2>2. /\ Len(files) = Len(d) + Len(more)
          /\ \A i \in 1 .. Len(d) + Len(more) :
                files[i] = IF i <= Len(d) THEN d[i] ELSE more[i - Len(d)]
      BY <1>4, <1>9, ConcatProperties
    <2>3. /\ Len(d) \in Nat /\ Len(more) \in Nat
          /\ DOMAIN d = 1 .. Len(d) /\ DOMAIN more = 1 .. Len(more)
      BY <1>4, <1>9
    <2>3a. DOMAIN files = 1 .. Len(d) + Len(more)
      BY <1>10, <2>2
    <2> HIDE DEF files
    <2>4. \A i \in DOMAIN files :
             \/ i \in DOMAIN d /\ files[i] = d[i]
             \/ i - Len(d) \in DOMAIN more /\ files[i] = more[i - Len(d)]
      BY <2>2, <2>3, <2>3a
    <2>5. \A i, j \in DOMAIN files : i - Len(d) = j - Len(d) => i = j
      BY <2>3, <2>3a
    <2>6. QED
      BY <1>4, <1>9, <2>1, <2>4, <2>5
  <1> HIDE DEF files
  <1>14. c \in Compact
    <2>1. [k \in Key |-> 0] \in Rows
      BY DEF Rows, CompactionAssumption
    <2>2. \A j \in DOMAIN files : files[j].level \in {level, level + 1}
      BY <1>12 DEF Elements
    <2>3. level + 1 # 0 /\ (level + 1) - 1 = level
      BY DEF Level
    <2>4. QED
      BY <1>4, <1>7, <1>10, <1>11, <1>13, <2>1, <2>2, <2>3 DEF Compact
  <1>15. ASSUME level = 0
         PROVE  /\ HasOldest(index, files)
                /\ \A g \in At(index, 0) : g.id \in marked \/ g \in Elements(files)
                /\ DisjointAt(index, 1) =>
                     \A g \in At(index, 1) : g \in Elements(files) \/ Clear(files, g)
    <2>1. /\ HasOldest(index, d)
          /\ \A g \in At(index, 0) : g.id \in marked \/ g \in Elements(d)
      BY <1>3, <1>15 DEF Down
    <2>2. level + 1 = 1
      BY <1>15
    <2>3. At(index, 1) = Elements(next)
      BY <2>2 DEF At, next
    <2>4. ASSUME DisjointAt(index, 1) PROVE InTurn(next)
      <3>1. \A f \in Elements(next) : f.level # 0
        BY <1>5, <2>2
      <3>2. \A f, g \in Elements(next) : f = g \/ Disjoint(f, g)
        BY <2>3, <2>4 DEF DisjointAt
      <3>3. QED
        BY <1>5, <3>1, <3>2, DisjointInTurn
    <2>5. HasOldest(index, files)
      BY <1>10, <2>1 DEF HasOldest
    <2>6. QED
      BY <1>9, <1>10, <2>1, <2>3, <2>4, <2>5
  <1>16. QED
    BY <1>4, <1>7, <1>11, <1>12, <1>14, <1>15 DEF Choice

-----------------------------------------------------------------------------
(* The compactions under way: fewer of them, one more, and the version     *)
(* edited by one.                                                          *)

(* w2 has compactions of w, each at another slot perhaps.                  *)
Within(o, w2, w) ==
    /\ \A s \in DOMAIN w2 : o[s] \in DOMAIN w /\ w2[s] = w[o[s]]
    /\ \A s, u \in DOMAIN w2 : o[s] = o[u] => s = u

LEMMA Fewer ==
  ASSUME NEW index, NEW marked, NEW w, Held(index, marked, w),
         NEW w2, NEW o, Within(o, w2, w)
  PROVE  Held(index, marked, w2)
  <1>1. /\ \A s \in DOMAIN w2 : o[s] \in DOMAIN w /\ w2[s] = w[o[s]]
        /\ \A s, u \in DOMAIN w2 : o[s] = o[u] => s = u
    BY DEF Within
  <1>2. Inputs(index, marked, w2)
    BY <1>1 DEF Held, Inputs
  <1>3. Apart(w2)
    BY <1>1 DEF Held, Apart
  <1>4. LevelOne(index, w2)
    BY <1>1 DEF Held, LevelOne
  <1>5. QED
    BY <1>2, <1>3, <1>4 DEF Held

(* w2 has those of w and c besides.                                        *)
Extends(w2, w, c) ==
    \E s \in DOMAIN w2 :
        /\ s \notin DOMAIN w /\ DOMAIN w2 = DOMAIN w \cup {s}
        /\ w2[s] = c
        /\ \A u \in DOMAIN w : w2[u] = w[u]

LEMMA MoreApart ==
  ASSUME NEW w, Apart(w), NEW c, NEW w2, Extends(w2, w, c),
         \A u \in DOMAIN w : Ids(c.files) \cap Ids(w[u].files) = {},
         \A u \in DOMAIN w : c.files = <<>> /\ w[u].files = <<>> => w[u].rows # c.rows
  PROVE  Apart(w2)
  <1> DEFINE Told(x, y) == /\ Ids(x.files) \cap Ids(y.files) = {}
                           /\ x.files = <<>> /\ y.files = <<>> => x.rows # y.rows
  <1>1. PICK s \in DOMAIN w2 : /\ s \notin DOMAIN w /\ DOMAIN w2 = DOMAIN w \cup {s}
                               /\ w2[s] = c
                               /\ \A u \in DOMAIN w : w2[u] = w[u]
    BY DEF Extends
  <1>2. \A t, u \in DOMAIN w : t # u => Told(w[t], w[u])
    BY DEF Apart
  <1>3. \A u \in DOMAIN w : Told(c, w[u]) /\ Told(w[u], c)
    OBVIOUS
  <1> HIDE DEF Told
  <1>4. \A t, u \in DOMAIN w2 : t # u => Told(w2[t], w2[u])
    BY <1>1, <1>2, <1>3
  <1>5. QED
    BY <1>4 DEF Apart, Told

LEMMA MoreToPersist ==
  ASSUME NEW index, NEW marked, NEW w, Held(index, marked, w),
         NEW rows, \A s \in DOMAIN w : w[s].files = <<>> => w[s].rows # rows,
         NEW w2, Extends(w2, w, Persistence(rows))
  PROVE  Held(index, marked, w2)
  <1> DEFINE c == Persistence(rows)
  <1>1. PICK s \in DOMAIN w2 : /\ s \notin DOMAIN w /\ DOMAIN w2 = DOMAIN w \cup {s}
                               /\ w2[s] = c
                               /\ \A u \in DOMAIN w : w2[u] = w[u]
    BY DEF Extends
  <1>2. /\ c.rows = rows /\ c.target_level # 1 /\ c.files = <<>>
        /\ Elements(c.files) = {} /\ Ids(c.files) = {}
    BY DEF Persistence, Elements, Ids
  <1> HIDE DEF c
  <1>3. Inputs(index, marked, w2)
    BY <1>1, <1>2 DEF Held, Inputs, Present
  <1>4. Apart(w2)
    <2>1. Apart(w)
      BY DEF Held
    <2>2. Extends(w2, w, c)
      BY DEF c
    <2>3. QED
      BY <1>2, <2>1, <2>2, MoreApart
  <1>5. LevelOne(index, w2)
    BY <1>1, <1>2 DEF Held, LevelOne
  <1>6. QED
    BY <1>3, <1>4, <1>5 DEF Held

LEMMA MoreToMerge ==
  ASSUME CompactionAssumption, NEW last \in Nat, NEW index, Tree(index, last),
         NEW marked, NEW w, Held(index, marked, w),
         NEW level \in Level, NEW c, Choice(index, marked, level, c),
         NEW w2, Extends(w2, w, c)
  PROVE  Held(index, marked \cup Ids(c.files), w2)
  <1>1. PICK s \in DOMAIN w2 : /\ s \notin DOMAIN w /\ DOMAIN w2 = DOMAIN w \cup {s}
                               /\ w2[s] = c
                               /\ \A u \in DOMAIN w : w2[u] = w[u]
    BY DEF Extends
  <1>2. /\ c.files # <<>> /\ c.target_level = level + 1
        /\ \A f \in Elements(c.files) : f \in At(index, f.level) /\ f.id \notin marked
    BY DEF Choice
  <1>3. Inputs(index, marked \cup Ids(c.files), w2)
    BY <1>1, <1>2 DEF Held, Inputs, Present
  <1>4. Apart(w2)
    <2>1. \A u \in DOMAIN w : Ids(w[u].files) \subseteq marked
      BY DEF Held, Inputs
    <2>2. Ids(c.files) \cap marked = {}
      BY <1>2, IdsAre
    <2>3. Apart(w)
      BY DEF Held
    <2>4. QED
      BY <1>2, <2>1, <2>2, <2>3, MoreApart
  <1>5. LevelOne(index, w2)
    <2>1. CASE level # 0
      <3>1. c.target_level # 1
        BY <1>2, <2>1 DEF Level
      <3>2. QED
        BY <1>1, <3>1 DEF Held, LevelOne
    <2>2. CASE level = 0
      <3>1. /\ DisjointAt(index, 1)
            /\ HasOldest(index, c.files)
            /\ \A g \in At(index, 1) : g \in Elements(c.files) \/ Clear(c.files, g)
        BY <2>2 DEF Held, LevelOne, Choice
      <3>2. ASSUME NEW u \in DOMAIN w, w[u].target_level = 1 PROVE FALSE
        <4>1. HasOldest(index, w[u].files)
          BY <3>2 DEF Held, LevelOne
        <4>2. PICK f \in At(index, 0) :
                 f \in Elements(c.files) /\ \A g \in At(index, 0) : f.id <= g.id
          BY <3>1 DEF HasOldest
        <4>3. PICK h \in At(index, 0) :
                 h \in Elements(w[u].files) /\ \A g \in At(index, 0) : h.id <= g.id
          BY <4>1 DEF HasOldest
        <4>4. 0 \in Level
          BY DEF Level, CompactionAssumption
        <4>5. f.id \in Nat /\ h.id \in Nat
          <5>1. \A g \in At(index, 0) : g.id \in 1 .. last
            BY <4>4, TreeLevel
          <5>2. QED
            BY <5>1
        <4>6. f.id = h.id
          BY <4>2, <4>3, <4>5
        <4>7. h.id \in marked
          BY <4>3, IdsAre DEF Held, Inputs
        <4>8. QED
          BY <1>2, <4>2, <4>6, <4>7
      <3>3. QED
        BY <1>1, <3>1, <3>2 DEF Held, LevelOne
    <2>3. QED
      BY <2>1, <2>2
  <1>6. QED
    BY <1>3, <1>4, <1>5 DEF Held

(* w2 has those of w but the one at s.                                     *)
Without(w2, w, s) ==
    DOMAIN w2 = DOMAIN w \ {s} /\ \A u \in DOMAIN w2 : w2[u] = w[u]

LEMMA Changed ==
  ASSUME CompactionAssumption, TreeInv, NEW w, Held(FileIndex, merging, w),
         NEW s \in DOMAIN w, w[s] \in Compact,
         NEW new, Written(w[s], id, new), NEW v, Edit(w[s], Upper, new, v),
         NEW w2, Without(w2, w, s)
  PROVE  Held(v.index, merging, w2)
  <1> DEFINE c == w[s]
  <1>1. /\ DOMAIN w2 = DOMAIN w \ {s}
        /\ \A u \in DOMAIN w2 : u \in DOMAIN w /\ u # s /\ w2[u] = w[u]
    BY DEF Without
  <1>2. /\ \A l \in Upper : At(v.index, l) =
              (At(FileIndex, l) \cup Added(c, new, l)) \ Elements(c.files)
        /\ \A l \in Level \ {c.target_level - 1, c.target_level} :
              v.index[l] = FileIndex[l]
    BY DEF Edit
  <1>3. /\ new \in Seq(File)
        /\ \A n \in DOMAIN new : new[n].id = id + n /\ new[n].level = c.target_level
    BY DEF Written
  <1>2a. /\ At(v.index, 0) = (At(FileIndex, 0) \cup Added(c, new, 0)) \ Elements(c.files)
         /\ At(v.index, 1) = (At(FileIndex, 1) \cup Added(c, new, 1)) \ Elements(c.files)
    BY <1>2 DEF Upper
  <1>4. c \in Compact
    OBVIOUS
  <1>5. id \in Nat /\ Tree(FileIndex, id) /\ merging \subseteq 1 .. id
    BY DEF TreeInv
  <1> HIDE DEF c
  <1>6. Inputs(v.index, merging, w2)
    <2>1. SUFFICES ASSUME NEW u \in DOMAIN w2
                   PROVE  Ids(w2[u].files) \subseteq merging /\ Present(v.index, w2[u].files)
      BY DEF Inputs
    <2>2. /\ Ids(w[u].files) \subseteq merging
          /\ \A f \in Elements(w[u].files) : f.level \in Upper => f \in At(FileIndex, f.level)
      BY <1>1 DEF Held, Inputs, Present
    <2>2a. u \in DOMAIN w /\ u # s /\ w2[u] = w[u]
      BY <1>1
    <2>3. Ids(w[u].files) \cap Ids(c.files) = {}
      BY <2>2a DEF Held, Apart, c
    <2>4. \A f \in Elements(w[u].files) : f \notin Elements(c.files)
      <3>1. SUFFICES ASSUME NEW f, f \in Elements(w[u].files), f \in Elements(c.files)
                     PROVE  FALSE
        OBVIOUS
      <3>2. f.id \in Ids(w[u].files) /\ f.id \in Ids(c.files)
        BY <3>1, IdsAre
      <3>3. QED
        BY <2>3, <3>2
    <2>5. QED
      BY <1>1, <1>2, <2>2, <2>4 DEF Present
  <1>7. Apart(w2)
    BY <1>1 DEF Held, Apart
  <1>8. DisjointAt(v.index, 1)
    <2>1. SUFFICES ASSUME NEW f \in At(v.index, 1), NEW g \in At(v.index, 1), f # g
                   PROVE  Disjoint(f, g)
      BY DEF DisjointAt
    <2>2. DisjointAt(FileIndex, 1)
      BY DEF Held, LevelOne
    <2>3. \A h \in At(v.index, 1) :
             \/ h \in At(FileIndex, 1) /\ h \notin Elements(c.files)
             \/ c.target_level = 1 /\ h \in Elements(new)
      BY <1>2a DEF Added
    <2>4. ASSUME NEW h \in At(FileIndex, 1), h \notin Elements(c.files),
                 NEW e \in Elements(new), c.target_level = 1
          PROVE  Disjoint(h, e) /\ Disjoint(e, h)
      <3>1. Clear(c.files, h)
        BY <2>4 DEF Held, LevelOne, c
      <3>2. PICK n \in DOMAIN new : e = new[n]
        BY <2>4 DEF Elements
      <3>3. c.files # <<>> /\ c.files \in Seq(File)
        BY <1>4, <2>4 DEF Compact
      <3>4. \A k \in KeysOf(e.rows) : \E f1 \in Elements(c.files) : k \in KeysOf(f1.rows)
        <4>1. SUFFICES ASSUME NEW k \in KeysOf(e.rows)
                       PROVE  \E f1 \in Elements(c.files) : k \in KeysOf(f1.rows)
          OBVIOUS
        <4>2. k \in Key /\ e.rows[k] # 0
          BY DEF KeysOf
        <4>3. e.rows[k] \in {0, MergedRows(c.files)[k]}
          BY <3>2, <3>3, <4>2 DEF Written, c
        <4>4. MergedRows(c.files)[k] # 0
          BY <4>2, <4>3
        <4>5. PICK f1 \in Elements(c.files) : f1.rows[k] = MergedRows(c.files)[k]
          BY <3>3, <4>2, <4>4, MergedRowsAre
        <4>6. QED
          BY <4>2, <4>4, <4>5 DEF KeysOf
      <3>5. \/ \A k \in KeysOf(e.rows) : k < KeyMin(h)
            \/ \A k \in KeysOf(e.rows) : KeyMax(h) < k
        BY <3>1, <3>4 DEF Clear
      <3>6. KeyMin(e) \in KeysOf(e.rows) /\ KeyMax(e) \in KeysOf(e.rows)
        <4>1. e \in File
          BY <1>3, <3>2
        <4>2. QED
          BY <4>1, FileKeys
      <3>7. QED
        BY <3>5, <3>6 DEF Disjoint
    <2>5. ASSUME NEW m \in DOMAIN new, NEW n \in DOMAIN new, m < n
          PROVE  Disjoint(new[m], new[n]) /\ Disjoint(new[n], new[m])
      <3>1. new[m] \in File /\ new[n] \in File
        BY <1>3
      <3>2. KeyMax(new[m]) \in KeysOf(new[m].rows) /\ KeyMin(new[n]) \in KeysOf(new[n].rows)
        BY <3>1, FileKeys
      <3>3. KeyMax(new[m]) < KeyMin(new[n])
        BY <2>5, <3>2 DEF Written
      <3>4. QED
        BY <3>3 DEF Disjoint
    <2>6. CASE f \in Elements(new) /\ g \in Elements(new)
      <3>1. PICK m \in DOMAIN new, n \in DOMAIN new : f = new[m] /\ g = new[n]
        BY <2>6 DEF Elements
      <3>2. m < n \/ n < m
        BY <1>3, <2>1, <3>1
      <3>3. QED
        BY <2>5, <3>1, <3>2
    <2>7. CASE f \in At(FileIndex, 1) /\ g \in At(FileIndex, 1)
      BY <2>1, <2>2, <2>7 DEF DisjointAt
    <2>8. QED
      BY <2>1, <2>3, <2>4, <2>6, <2>7
  <1>9. ASSUME NEW u \in DOMAIN w2, w2[u].target_level = 1
        PROVE  /\ HasOldest(v.index, w2[u].files)
               /\ \A g \in At(v.index, 1) : g \in Elements(w2[u].files) \/ Clear(w2[u].files, g)
    <2>1. w[u].target_level = 1 /\ w2[u] = w[u] /\ u \in DOMAIN w /\ u # s
      BY <1>1, <1>9
    <2>2. c.target_level # 1
      BY <2>1 DEF Held, LevelOne, c
    <2>3. At(v.index, 1) \subseteq At(FileIndex, 1)
      BY <1>2a, <2>2 DEF Added
    <2>4. \A g \in At(FileIndex, 1) : g \in Elements(w[u].files) \/ Clear(w[u].files, g)
      BY <2>1 DEF Held, LevelOne
    <2>5. HasOldest(FileIndex, w[u].files)
      BY <2>1 DEF Held, LevelOne
    <2>6. PICK f \in At(FileIndex, 0) :
             f \in Elements(w[u].files) /\ \A g \in At(FileIndex, 0) : f.id <= g.id
      BY <2>5 DEF HasOldest
    <2>7. 0 \in Level /\ f.id \in 1 .. id
      <3>1. 0 \in Level
        BY DEF Level, CompactionAssumption
      <3>2. QED
        BY <1>5, <3>1, TreeLevel
    <2>8. f \notin Elements(c.files)
      <3>1. Ids(w[u].files) \cap Ids(c.files) = {}
        BY <2>1 DEF Held, Apart, c
      <3>2. QED
        BY <2>6, <3>1, IdsAre
    <2>9. f \in At(v.index, 0)
      BY <1>2a, <2>6, <2>8
    <2>10. ASSUME NEW g \in At(v.index, 0) PROVE f.id <= g.id
      <3>1. CASE g \in At(FileIndex, 0)
        BY <2>6, <3>1
      <3>2. CASE g \notin At(FileIndex, 0)
        <4>1. g \in Elements(new)
          BY <1>2a, <2>10, <3>2 DEF Added
        <4>2. PICK n \in DOMAIN new : g = new[n]
          BY <4>1 DEF Elements
        <4>3. g.id = id + n /\ n \in Nat
          BY <1>3, <4>2
        <4>4. QED
          BY <1>5, <2>7, <4>3
      <3>3. QED
        BY <3>1, <3>2
    <2>11. HasOldest(v.index, w[u].files)
      BY <2>6, <2>9, <2>10 DEF HasOldest
    <2>12. QED
      BY <2>1, <2>3, <2>4, <2>11
  <1>10. \A u, y \in DOMAIN w2 : w2[u].target_level = 1 /\ w2[y].target_level = 1 => u = y
    BY <1>1 DEF Held, LevelOne
  <1>11. QED
    BY <1>6, <1>7, <1>8, <1>9, <1>10 DEF Held, LevelOne

-----------------------------------------------------------------------------
(* How the steps change the compactions under way.                         *)
LEMMA SlotsAre ==
  ASSUME NEW h, NEW l, NEW r
  PROVE  /\ \A s \in Slots(h, l, r) :
               \/ \E n \in DOMAIN h : s = <<"high", n>>
               \/ \E n \in DOMAIN l : s = <<"low", n>>
               \/ \E t \in r : s = <<"run", t>>
         /\ \A n : <<"high", n>> \in Slots(h, l, r) <=> n \in DOMAIN h
         /\ \A n : <<"low", n>> \in Slots(h, l, r) <=> n \in DOMAIN l
         /\ \A t : <<"run", t>> \in Slots(h, l, r) <=> t \in r
  BY DEF Slots

LEMMA WorksAre ==
  ASSUME NEW h, NEW l, NEW r, NEW j
  PROVE  /\ DOMAIN Works(h, l, r, j) = Slots(h, l, r)
         /\ \A n \in DOMAIN h : Works(h, l, r, j)[<<"high", n>>] = h[n]
         /\ \A n \in DOMAIN l : Works(h, l, r, j)[<<"low", n>>] = l[n]
         /\ \A t \in r : Works(h, l, r, j)[<<"run", t>>] = j[t]
  BY DEF Works, Slots

LEMMA WorksAppendHigh ==
  ASSUME NEW X, NEW h \in Seq(X), NEW l, NEW r, NEW j, NEW c \in X
  PROVE  Extends(Works(Append(h, c), l, r, j), Works(h, l, r, j), c)
  <1> DEFINE g == Append(h, c)
             w == Works(h, l, r, j)
             w2 == Works(g, l, r, j)
             n == Len(h) + 1
             s == <<"high", n>>
  <1>1. /\ g[n] = c /\ n \in DOMAIN g /\ n \notin DOMAIN h
        /\ DOMAIN g = DOMAIN h \cup {n}
        /\ \A m \in DOMAIN h : g[m] = h[m]
    BY AppendProperties
  <1> HIDE DEF g, n, s
  <1>2. s = <<"high", n>>
    BY DEF s
  <1>3. Slots(g, l, r) = Slots(h, l, r) \cup {s}
    BY <1>1, <1>2 DEF Slots
  <1>4. s \notin Slots(h, l, r)
    BY <1>1, <1>2, SlotsAre
  <1>5. w2[s] = c
    BY <1>1, <1>2, WorksAre
  <1>6. ASSUME NEW u \in Slots(h, l, r) PROVE w2[u] = w[u]
    <2>1. CASE \E m \in DOMAIN h : u = <<"high", m>>
      BY <1>1, <2>1, WorksAre
    <2>2. CASE \E m \in DOMAIN l : u = <<"low", m>>
      BY <2>2, WorksAre
    <2>3. CASE \E t \in r : u = <<"run", t>>
      BY <2>3, WorksAre
    <2>4. QED
      BY <2>1, <2>2, <2>3, SlotsAre
  <1>7. DOMAIN w = Slots(h, l, r) /\ DOMAIN w2 = Slots(g, l, r)
    BY WorksAre
  <1> HIDE DEF w, w2
  <1>8. Extends(w2, w, c)
    BY <1>3, <1>4, <1>5, <1>6, <1>7 DEF Extends
  <1>9. QED
    BY <1>8 DEF w, w2, g

LEMMA WorksAppendLow ==
  ASSUME NEW X, NEW h, NEW l \in Seq(X), NEW r, NEW j, NEW c \in X
  PROVE  Extends(Works(h, Append(l, c), r, j), Works(h, l, r, j), c)
  <1> DEFINE g == Append(l, c)
             w == Works(h, l, r, j)
             w2 == Works(h, g, r, j)
             n == Len(l) + 1
             s == <<"low", n>>
  <1>1. /\ g[n] = c /\ n \in DOMAIN g /\ n \notin DOMAIN l
        /\ DOMAIN g = DOMAIN l \cup {n}
        /\ \A m \in DOMAIN l : g[m] = l[m]
    BY AppendProperties
  <1> HIDE DEF g, n, s
  <1>2. s = <<"low", n>>
    BY DEF s
  <1>3. Slots(h, g, r) = Slots(h, l, r) \cup {s}
    BY <1>1, <1>2 DEF Slots
  <1>4. s \notin Slots(h, l, r)
    BY <1>1, <1>2, SlotsAre
  <1>5. w2[s] = c
    BY <1>1, <1>2, WorksAre
  <1>6. ASSUME NEW u \in Slots(h, l, r) PROVE w2[u] = w[u]
    <2>1. CASE \E m \in DOMAIN h : u = <<"high", m>>
      BY <2>1, WorksAre
    <2>2. CASE \E m \in DOMAIN l : u = <<"low", m>>
      BY <1>1, <2>2, WorksAre
    <2>3. CASE \E t \in r : u = <<"run", t>>
      BY <2>3, WorksAre
    <2>4. QED
      BY <2>1, <2>2, <2>3, SlotsAre
  <1>7. DOMAIN w = Slots(h, l, r) /\ DOMAIN w2 = Slots(h, g, r)
    BY WorksAre
  <1> HIDE DEF w, w2
  <1>8. Extends(w2, w, c)
    BY <1>3, <1>4, <1>5, <1>6, <1>7 DEF Extends
  <1>9. QED
    BY <1>8 DEF w, w2, g

LEMMA WorksPopHigh ==
  ASSUME NEW X, NEW h \in Seq(X), h # <<>>, NEW l, NEW r, NEW j, NEW t, t \notin r,
         NEW i, i[t] = Head(h), \A u \in r : i[u] = j[u]
  PROVE  \E o : Within(o, Works(Tail(h), l, r \cup {t}, i), Works(h, l, r, j))
  <1> DEFINE g == Tail(h)
             q == r \cup {t}
             w == Works(h, l, r, j)
             w2 == Works(g, l, q, i)
             o == [s \in Slots(g, l, q) |->
                     IF s[1] = "high" THEN <<"high", s[2] + 1>>
                     ELSE IF s = <<"run", t>> THEN <<"high", 1>> ELSE s]
  <1>1. /\ \A n \in DOMAIN g : n \in Nat /\ n + 1 \in DOMAIN h /\ n + 1 # 1 /\ g[n] = h[n + 1]
        /\ 1 \in DOMAIN h /\ Head(h) = h[1]
        /\ \A m, n \in DOMAIN g : m + 1 = n + 1 => m = n
    BY HeadTailProperties
  <1> HIDE DEF g
  <1>2. /\ \A n \in DOMAIN g : o[<<"high", n>>] = <<"high", n + 1>>
        /\ \A n \in DOMAIN l : o[<<"low", n>>] = <<"low", n>>
        /\ o[<<"run", t>>] = <<"high", 1>>
        /\ \A u \in r : o[<<"run", u>>] = <<"run", u>>
    BY DEF Slots
  <1> HIDE DEF o
  <1>3. ASSUME NEW s \in Slots(g, l, q) PROVE o[s] \in DOMAIN w /\ w2[s] = w[o[s]]
    <2>1. DOMAIN w = Slots(h, l, r) /\ DOMAIN w2 = Slots(g, l, q)
      BY WorksAre
    <2>2. CASE \E n \in DOMAIN g : s = <<"high", n>>
      <3>1. PICK n \in DOMAIN g : s = <<"high", n>>
        BY <2>2
      <3>2. o[s] = <<"high", n + 1>> /\ n + 1 \in DOMAIN h /\ g[n] = h[n + 1]
        BY <1>1, <1>2, <3>1
      <3>3. w2[s] = g[n]
        BY <3>1, WorksAre
      <3>4. w[o[s]] = h[n + 1] /\ o[s] \in DOMAIN w
        BY <2>1, <3>2, SlotsAre, WorksAre
      <3>5. QED
        BY <3>2, <3>3, <3>4
    <2>3. CASE \E n \in DOMAIN l : s = <<"low", n>>
      BY <1>2, <2>1, <2>3, SlotsAre, WorksAre
    <2>4. CASE s = <<"run", t>>
      <3>1. o[s] = <<"high", 1>> /\ 1 \in DOMAIN h /\ i[t] = h[1]
        BY <1>1, <1>2, <2>4
      <3>2. w2[s] = i[t]
        BY <2>4, WorksAre
      <3>3. w[o[s]] = h[1] /\ o[s] \in DOMAIN w
        BY <2>1, <3>1, SlotsAre, WorksAre
      <3>4. QED
        BY <3>1, <3>2, <3>3
    <2>5. CASE \E u \in r : s = <<"run", u>>
      BY <1>2, <2>1, <2>5, SlotsAre, WorksAre
    <2>6. QED
      BY <2>2, <2>3, <2>4, <2>5, SlotsAre
  <1>4. ASSUME NEW s \in Slots(g, l, q), NEW u \in Slots(g, l, q), o[s] = o[u] PROVE s = u
    <2> DEFINE Case(y) == \/ \E n \in DOMAIN g : y = <<"high", n>> /\ o[y] = <<"high", n + 1>>
                          \/ \E n \in DOMAIN l : y = <<"low", n>> /\ o[y] = y
                          \/ y = <<"run", t>> /\ o[y] = <<"high", 1>>
                          \/ \E n \in r : y = <<"run", n>> /\ o[y] = y
    <2>1. ASSUME NEW y \in Slots(g, l, q) PROVE Case(y)
      <3>1. \/ \E n \in DOMAIN g : y = <<"high", n>>
            \/ \E n \in DOMAIN l : y = <<"low", n>>
            \/ y = <<"run", t>>
            \/ \E n \in r : y = <<"run", n>>
        BY SlotsAre
      <3>2. QED
        BY <1>2, <3>1
    <2>2. Case(s) /\ Case(u)
      BY <2>1
    <2>3. QED
      BY <1>1, <1>4, <2>2
  <1>5. DOMAIN w2 = Slots(g, l, q)
    BY WorksAre
  <1> HIDE DEF w, w2
  <1>6. Within(o, w2, w)
    BY <1>3, <1>4, <1>5 DEF Within
  <1>7. QED
    BY <1>6 DEF w, w2, g, q

LEMMA WorksPopLow ==
  ASSUME NEW X, NEW h, NEW l \in Seq(X), l # <<>>, NEW r, NEW j, NEW t, t \notin r,
         NEW i, i[t] = Head(l), \A u \in r : i[u] = j[u]
  PROVE  \E o : Within(o, Works(h, Tail(l), r \cup {t}, i), Works(h, l, r, j))
  <1> DEFINE g == Tail(l)
             q == r \cup {t}
             w == Works(h, l, r, j)
             w2 == Works(h, g, q, i)
             o == [s \in Slots(h, g, q) |->
                     IF s[1] = "low" THEN <<"low", s[2] + 1>>
                     ELSE IF s = <<"run", t>> THEN <<"low", 1>> ELSE s]
  <1>1. /\ \A n \in DOMAIN g : n \in Nat /\ n + 1 \in DOMAIN l /\ n + 1 # 1 /\ g[n] = l[n + 1]
        /\ 1 \in DOMAIN l /\ Head(l) = l[1]
        /\ \A m, n \in DOMAIN g : m + 1 = n + 1 => m = n
    BY HeadTailProperties
  <1> HIDE DEF g
  <1>2. /\ \A n \in DOMAIN g : o[<<"low", n>>] = <<"low", n + 1>>
        /\ \A n \in DOMAIN h : o[<<"high", n>>] = <<"high", n>>
        /\ o[<<"run", t>>] = <<"low", 1>>
        /\ \A u \in r : o[<<"run", u>>] = <<"run", u>>
    BY DEF Slots
  <1> HIDE DEF o
  <1>3. ASSUME NEW s \in Slots(h, g, q) PROVE o[s] \in DOMAIN w /\ w2[s] = w[o[s]]
    <2>1. DOMAIN w = Slots(h, l, r) /\ DOMAIN w2 = Slots(h, g, q)
      BY WorksAre
    <2>2. CASE \E n \in DOMAIN g : s = <<"low", n>>
      <3>1. PICK n \in DOMAIN g : s = <<"low", n>>
        BY <2>2
      <3>2. o[s] = <<"low", n + 1>> /\ n + 1 \in DOMAIN l /\ g[n] = l[n + 1]
        BY <1>1, <1>2, <3>1
      <3>3. w2[s] = g[n]
        BY <3>1, WorksAre
      <3>4. w[o[s]] = l[n + 1] /\ o[s] \in DOMAIN w
        BY <2>1, <3>2, SlotsAre, WorksAre
      <3>5. QED
        BY <3>2, <3>3, <3>4
    <2>3. CASE \E n \in DOMAIN h : s = <<"high", n>>
      BY <1>2, <2>1, <2>3, SlotsAre, WorksAre
    <2>4. CASE s = <<"run", t>>
      <3>1. o[s] = <<"low", 1>> /\ 1 \in DOMAIN l /\ i[t] = l[1]
        BY <1>1, <1>2, <2>4
      <3>2. w2[s] = i[t]
        BY <2>4, WorksAre
      <3>3. w[o[s]] = l[1] /\ o[s] \in DOMAIN w
        BY <2>1, <3>1, SlotsAre, WorksAre
      <3>4. QED
        BY <3>1, <3>2, <3>3
    <2>5. CASE \E u \in r : s = <<"run", u>>
      BY <1>2, <2>1, <2>5, SlotsAre, WorksAre
    <2>6. QED
      BY <2>2, <2>3, <2>4, <2>5, SlotsAre
  <1>4. ASSUME NEW s \in Slots(h, g, q), NEW u \in Slots(h, g, q), o[s] = o[u] PROVE s = u
    <2> DEFINE Case(y) == \/ \E n \in DOMAIN g : y = <<"low", n>> /\ o[y] = <<"low", n + 1>>
                          \/ \E n \in DOMAIN h : y = <<"high", n>> /\ o[y] = y
                          \/ y = <<"run", t>> /\ o[y] = <<"low", 1>>
                          \/ \E n \in r : y = <<"run", n>> /\ o[y] = y
    <2>1. ASSUME NEW y \in Slots(h, g, q) PROVE Case(y)
      <3>1. \/ \E n \in DOMAIN g : y = <<"low", n>>
            \/ \E n \in DOMAIN h : y = <<"high", n>>
            \/ y = <<"run", t>>
            \/ \E n \in r : y = <<"run", n>>
        BY SlotsAre
      <3>2. QED
        BY <1>2, <3>1
    <2>2. Case(s) /\ Case(u)
      BY <2>1
    <2>3. QED
      BY <1>1, <1>4, <2>2
  <1>5. DOMAIN w2 = Slots(h, g, q)
    BY WorksAre
  <1> HIDE DEF w, w2
  <1>6. Within(o, w2, w)
    BY <1>3, <1>4, <1>5 DEF Within
  <1>7. QED
    BY <1>6 DEF w, w2, g, q

LEMMA WorksDone ==
  ASSUME NEW h, NEW l, NEW r, NEW j, NEW t \in r,
         NEW i, \A u \in r \ {t} : i[u] = j[u]
  PROVE  Without(Works(h, l, r \ {t}, i), Works(h, l, r, j), <<"run", t>>)
  <1> DEFINE q == r \ {t}
             w == Works(h, l, r, j)
             w2 == Works(h, l, q, i)
  <1>1. Slots(h, l, q) = Slots(h, l, r) \ {<<"run", t>>}
    BY DEF Slots
  <1>2. ASSUME NEW s \in Slots(h, l, q) PROVE w2[s] = w[s]
    <2>1. CASE \E m \in DOMAIN h : s = <<"high", m>>
      BY <2>1, WorksAre
    <2>2. CASE \E m \in DOMAIN l : s = <<"low", m>>
      BY <2>2, WorksAre
    <2>3. CASE \E u \in q : s = <<"run", u>>
      BY <2>3, WorksAre
    <2>4. QED
      BY <2>1, <2>2, <2>3, SlotsAre
  <1>3. DOMAIN w = Slots(h, l, r) /\ DOMAIN w2 = Slots(h, l, q)
    BY WorksAre
  <1> HIDE DEF w, w2
  <1>4. Without(w2, w, <<"run", t>>)
    BY <1>1, <1>2, <1>3 DEF Without
  <1>5. QED
    BY <1>4 DEF w, w2, q

LEMMA WorksElements ==
  ASSUME NEW h, NEW l, NEW r, NEW j
  PROVE  Elements(Works(h, l, r, j)) = Elements(h) \cup Elements(l) \cup {j[t] : t \in r}
  <1> DEFINE w == Works(h, l, r, j)
  <1>1. /\ DOMAIN w = Slots(h, l, r)
        /\ \A n \in DOMAIN h : w[<<"high", n>>] = h[n]
        /\ \A n \in DOMAIN l : w[<<"low", n>>] = l[n]
        /\ \A t \in r : w[<<"run", t>>] = j[t]
    BY WorksAre
  <1> HIDE DEF w
  <1>2. ASSUME NEW s \in DOMAIN w
        PROVE  w[s] \in Elements(h) \cup Elements(l) \cup {j[t] : t \in r}
    BY <1>1, SlotsAre DEF Elements
  <1>3. ASSUME NEW n \in DOMAIN h PROVE h[n] \in Elements(w)
    <2>1. <<"high", n>> \in DOMAIN w
      BY <1>1, SlotsAre
    <2>2. QED
      BY <1>1, <2>1 DEF Elements
  <1>4. ASSUME NEW n \in DOMAIN l PROVE l[n] \in Elements(w)
    <2>1. <<"low", n>> \in DOMAIN w
      BY <1>1, SlotsAre
    <2>2. QED
      BY <1>1, <2>1 DEF Elements
  <1>5. ASSUME NEW t \in r PROVE j[t] \in Elements(w)
    <2>1. <<"run", t>> \in DOMAIN w
      BY <1>1, SlotsAre
    <2>2. QED
      BY <1>1, <2>1 DEF Elements
  <1>6. QED
    BY <1>2, <1>3, <1>4, <1>5 DEF Elements, w

LEMMA TailElements ==
  ASSUME NEW X, NEW s \in Seq(X), s # <<>>
  PROVE  Elements(s) = Elements(Tail(s)) \cup {Head(s)}
  <1> DEFINE t == Tail(s)
  <1>1. /\ t \in Seq(X) /\ Len(t) = Len(s) - 1
        /\ \A n \in 1 .. Len(t) : t[n] = s[n + 1]
    BY HeadTailProperties
  <1>2. Head(s) = s[1] /\ Len(s) \in Nat \ {0} /\ DOMAIN s = 1 .. Len(s)
    OBVIOUS
  <1> HIDE DEF t
  <1>3. DOMAIN t = 1 .. Len(s) - 1
    BY <1>1
  <1>4. ASSUME NEW n \in DOMAIN s PROVE s[n] \in Elements(t) \cup {Head(s)}
    <2>1. CASE n = 1
      BY <1>2, <2>1
    <2>2. CASE n # 1
      <3>1. n - 1 \in DOMAIN t /\ (n - 1) + 1 = n
        BY <1>2, <1>3, <2>2
      <3>2. s[n] = t[n - 1]
        BY <1>1, <3>1
      <3>3. QED
        BY <3>1, <3>2 DEF Elements
    <2>3. QED
      BY <2>1, <2>2
  <1>5. ASSUME NEW n \in DOMAIN t PROVE t[n] \in Elements(s)
    <2>1. n + 1 \in DOMAIN s /\ t[n] = s[n + 1]
      BY <1>1, <1>2, <1>3
    <2>2. QED
      BY <2>1 DEF Elements
  <1>6. Head(s) \in Elements(s)
    BY <1>2 DEF Elements
  <1>7. QED
    BY <1>4, <1>5, <1>6 DEF Elements, t

-----------------------------------------------------------------------------
(* The steps.                                                              *)
Chose(w2, w, c) == IF c = NoJob THEN w2 = w ELSE Extends(w2, w, c)

Choosing(index, last, marked, c, w2) ==
    /\ Held(index, marked \cup Ids(c.files), w2)
    /\ marked \cup Ids(c.files) \subseteq 1 .. last
    /\ c # NoJob => c \in Compact /\ c.files # <<>>
    /\ FromTables(w2, memtables)

LEMMA ChoosingIs ==
  ASSUME CompactionAssumption, NEW last \in Nat, NEW index, Tree(index, last),
         NEW marked, marked \subseteq 1 .. last, NEW w, Held(index, marked, w),
         FromTables(w, memtables),
         NEW level \in Level, NEW c, c # NoJob => Choice(index, marked, level, c),
         NEW w2, Chose(w2, w, c)
  PROVE  Choosing(index, last, marked, c, w2)
  <1>1. CASE c = NoJob
    <2>1. Ids(c.files) = {} /\ w2 = w
      BY <1>1 DEF NoJob, Merge, Ids, Chose
    <2>2. QED
      BY <1>1, <2>1 DEF Choosing
  <1>2. CASE c # NoJob
    <2>1. Choice(index, marked, level, c)
      BY <1>2
    <2>2. Extends(w2, w, c)
      BY <1>2 DEF Chose
    <2>3. Held(index, marked \cup Ids(c.files), w2)
      BY <2>1, <2>2, MoreToMerge
    <2>4. c \in Compact /\ c.files # <<>> /\ c.files \in Seq(File)
          /\ \A f \in Elements(c.files) : f \in At(index, f.level)
      BY <2>1 DEF Choice, Compact
    <2>5. Ids(c.files) \subseteq 1 .. last
      <3>1. SUFFICES ASSUME NEW n \in Ids(c.files) PROVE n \in 1 .. last
        OBVIOUS
      <3>1a. PICK f \in Elements(c.files) : f.id = n
        BY DEF Ids, Elements
      <3>1b. PICK j \in DOMAIN c.files : f = c.files[j]
        BY DEF Elements
      <3>1c. f \in File
        BY <2>4, <3>1b
      <3>2. f \in File /\ f.level \in Level
        BY <3>1c DEF File
      <3>3. QED
        BY <2>4, <3>1a, <3>2, TreeLevel
    <2>6. FromTables(w2, memtables)
      BY <2>2, <2>4 DEF Extends, FromTables
    <2>7. QED
      BY <2>3, <2>4, <2>5, <2>6 DEF Choosing
  <1>3. QED
    BY <1>1, <1>2

LEMMA InitIs ==
  ASSUME CompactionAssumption, Init
  PROVE  IInv
  <1>1. \A l \in Level : FileIndex[l] = <<>> /\ At(FileIndex, l) = {}
    BY DEF Init, At, Elements
  <1>2. 1 \in Level
    BY DEF Level, CompactionAssumption
  <1>3. FileIndex \in [Level -> Seq(File)]
    BY DEF Init
  <1>4. \A l \in Level : DOMAIN FileIndex[l] = {}
    BY <1>1
  <1>5. TreeInv
    BY <1>1, <1>3, <1>4 DEF Init, TreeInv, Tree
  <1>6. ListInv
    BY DEF Init, ListInv
  <1>7. Runs = {} /\ DOMAIN HighCompactionList = {} /\ DOMAIN LowCompactionList = {}
    BY DEF Init, Runs
  <1>8. DOMAIN Work = {}
    <2>1. DOMAIN Work = Slots(HighCompactionList, LowCompactionList, Runs)
      BY WorksAre DEF Work
    <2>2. Slots(HighCompactionList, LowCompactionList, Runs) = {}
      BY <1>7 DEF Slots
    <2>3. QED
      BY <2>1, <2>2
  <1> HIDE DEF Work
  <1>9. RowsInv
    BY <1>8 DEF Init, RowsInv, FromTables
  <1>10. Held(FileIndex, merging, Work)
    BY <1>1, <1>2, <1>8 DEF Held, Inputs, Apart, LevelOne, DisjointAt
  <1>11. QED
    BY <1>5, <1>6, <1>9, <1>10 DEF IInv

(* What a step does to the version and to the compactions under way:       *)
(* QueueMemtable, ...                                                      *)
Queues(n, rows) ==
    /\ n = Len(memtables) + 1 /\ Len(memtables') = n
    /\ n \in Nat \ {0} /\ rows \in Rows /\ KeysOf(rows) # {}
    /\ \A k \in Key : rows[k] \in {0, n}
    /\ Persistence(rows) \in Compact
    /\ memtables' \in Seq(Rows)
    /\ DOMAIN memtables' = DOMAIN memtables \cup {n} /\ memtables'[n] = rows
    /\ \A m \in DOMAIN memtables :
          m \in Nat /\ m < n /\ memtables'[m] = memtables[m] /\ memtables[m] # rows
    /\ Extends(Work', Work, Persistence(rows))
    /\ HighCompactionList' = Append(HighCompactionList, Persistence(rows))
    /\ UNCHANGED <<FileIndex, merging, id, LowCompactionList, job, pc>>

(* ... TryCompaction, which may choose c, ...                              *)
Tries(level, c) ==
    /\ level \in Level
    /\ c # NoJob => c \in Compact /\ Choice(FileIndex, merging, level, c)
    /\ Chose(Work', Work, c)
    /\ merging' = merging \cup Ids(c.files)
    /\ HighCompactionList' = IF c = NoJob THEN HighCompactionList
                             ELSE Append(HighCompactionList, c)
    /\ UNCHANGED <<FileIndex, id, memtables, LowCompactionList, job>>

(* ... Pop, ...                                                            *)
Takes(o) ==
    /\ Within(o, Work', Work) /\ Elements(Work') = Elements(Work)
    /\ UNCHANGED <<FileIndex, merging, id, memtables>>

(* ... and Install of d, which had been at s, with c chosen after it.      *)
Installs(s, d, new, v, w, c) ==
    /\ \E t \in Runs : /\ s = <<"run", t>> /\ Runs' = Runs \ {t}
                       /\ \A u \in Runs \ {t} : job'[u] = job[u]
    /\ s \in DOMAIN Work /\ Work[s] = d /\ d \in Compact
    /\ Written(d, id, new) /\ Edit(d, Upper, new, v) /\ Without(w, Work, s)
    /\ c # NoJob => c \in Compact /\ Choice(v.index, merging, d.target_level, c)
    /\ Chose(Work', w, c)
    /\ FileIndex' = v.index /\ merging' = merging \cup Ids(c.files)
    /\ no_overlap_in_next_level' = v.free
    /\ id' = id + Len(new) /\ memtables' = memtables
    /\ HighCompactionList' = IF c # NoJob /\ c.target_level = 1
                             THEN Append(HighCompactionList, c) ELSE HighCompactionList
    /\ LowCompactionList' = IF c # NoJob /\ c.target_level # 1
                            THEN Append(LowCompactionList, c) ELSE LowCompactionList

LEMMA QueueDoes ==
  ASSUME CompactionAssumption, IInv, NEW keys \in Batch, QueueMemtable(keys)
  PROVE  \E n, rows : Queues(n, rows)
  <1> DEFINE n == Len(memtables) + 1
             rows == [k \in Key |-> IF k \in keys THEN n ELSE 0]
             c == Persistence(rows)
  <1>1. /\ n <= LastMemtable
        /\ memtables' = Append(memtables, rows)
        /\ HighCompactionList' = Append(HighCompactionList, c)
        /\ UNCHANGED <<FileIndex, merging, id, LowCompactionList, job, pc>>
    BY DEF QueueMemtable, treeVars
  <1>2. TreeInv /\ ListInv /\ RowsInv /\ Held(FileIndex, merging, Work)
    BY DEF IInv
  <1>3. /\ memtables \in Seq(Rows) /\ HighCompactionList \in Seq(Compact)
        /\ n \in Nat \ {0} /\ LastMemtable \in Nat
    BY <1>2 DEF ListInv, CompactionAssumption
  <1> HIDE DEF n
  <1>4. keys \subseteq Key /\ keys # {}
    BY DEF CompactionAssumption
  <1>5. rows \in Rows /\ KeysOf(rows) = keys
    <2>1. n <= LastMemtable /\ n \in Nat \ {0} /\ LastMemtable \in Nat
      BY <1>1, <1>3
    <2>2. rows \in [Key -> 0 .. LastMemtable]
      BY <2>1
    <2>3. \A k \in Key : rows[k] # 0 <=> k \in keys
      BY <2>1
    <2> HIDE DEF rows
    <2>4. KeysOf(rows) = keys
      BY <1>4, <2>3 DEF KeysOf
    <2>5. QED
      BY <2>2, <2>4 DEF Rows
  <1>6. c \in Compact /\ c.files = <<>> /\ c.rows = rows
    <2>1. c = [rows |-> rows, files |-> <<>>, target_level |-> 0]
      BY DEF Persistence
    <2>2. 0 \in Level /\ <<>> \in Seq(File)
      BY DEF Level, CompactionAssumption
    <2> HIDE DEF c, rows
    <2>3. c.files = <<>> /\ c.rows = rows /\ c.target_level = 0
      BY <2>1
    <2>4. c \in [rows : Rows, files : Seq(File), target_level : Level]
      BY <1>5, <2>1, <2>2
    <2>5. QED
      BY <1>4, <1>5, <2>3, <2>4 DEF Compact
  <1>6a. \A k \in Key : rows[k] \in {0, n}
    OBVIOUS
  <1>6b. \A k \in keys : rows[k] = n
    BY <1>4
  <1> HIDE DEF c, rows
  <1>7. Extends(Work', Work, c)
    <2>1. Runs' = Runs
      BY <1>1 DEF Runs
    <2>2. Work' = Works(Append(HighCompactionList, c), LowCompactionList, Runs, job)
      BY <1>1, <2>1 DEF Work
    <2>3. QED
      BY <1>3, <1>6, <2>2, WorksAppendHigh DEF Work
  <1>8. /\ \A m \in DOMAIN memtables :
              /\ m \in Nat /\ m # n
              /\ KeysOf(memtables[m]) # {} /\ \A k \in Key : memtables[m][k] \in {0, m}
        /\ FromTables(Work, memtables)
    BY <1>2, <1>3 DEF RowsInv, n
  <1>9. \A m \in DOMAIN memtables : memtables[m] # rows
    BY <1>3, <1>4, <1>6b, <1>8
  <1>11. /\ memtables' \in Seq(Rows) /\ n = Len(memtables) + 1 /\ Len(memtables') = n
         /\ DOMAIN memtables' = DOMAIN memtables \cup {n}
         /\ memtables'[n] = rows
         /\ \A m \in DOMAIN memtables : memtables'[m] = memtables[m]
    BY <1>1, <1>3, <1>5, AppendProperties DEF n
  <1>12. \A m \in DOMAIN memtables : m \in Nat /\ m < n
    BY <1>3 DEF n
  <1>13. KeysOf(rows) # {} /\ c = Persistence(rows)
    BY <1>4, <1>5 DEF c
  <1>14. Queues(n, rows)
    BY <1>1, <1>3, <1>5, <1>6, <1>6a, <1>7, <1>9, <1>11, <1>12, <1>13 DEF Queues
  <1>15. QED
    BY <1>14

LEMMA QueueKeeps ==
  ASSUME CompactionAssumption, IInv, NEW keys \in Batch, QueueMemtable(keys)
  PROVE  IInv'
  <1>1. PICK n, rows : Queues(n, rows)
    BY QueueDoes
  <1> DEFINE c == Persistence(rows)
  <1>2. TreeInv /\ ListInv /\ RowsInv /\ Held(FileIndex, merging, Work)
    BY DEF IInv
  <1>3. c.files = <<>> /\ c.rows = rows /\ c \in Compact
    BY <1>1 DEF Persistence, Queues
  <1>4. /\ HighCompactionList \in Seq(Compact)
        /\ \A m \in DOMAIN memtables :
              KeysOf(memtables[m]) # {} /\ \A k \in Key : memtables[m][k] \in {0, m}
        /\ FromTables(Work, memtables)
    BY <1>2 DEF ListInv, RowsInv
  <1>5. /\ Extends(Work', Work, c)
        /\ DOMAIN memtables' = DOMAIN memtables \cup {n} /\ memtables'[n] = rows
        /\ \A m \in DOMAIN memtables : memtables'[m] = memtables[m] /\ memtables[m] # rows
        /\ KeysOf(rows) # {} /\ \A k \in Key : rows[k] \in {0, n}
    BY <1>1 DEF Queues
  <1>6. \A s \in DOMAIN Work : Work[s].files = <<>> => Work[s].rows # rows
    BY <1>4, <1>5 DEF FromTables
  <1>7. Held(FileIndex, merging, Work')
    BY <1>2, <1>5, <1>6, MoreToPersist
  <1> HIDE DEF c
  <1>8. RowsInv'
    <2>1. FromTables(Work', memtables')
      BY <1>3, <1>4, <1>5 DEF FromTables, Extends
    <2>2. \A m \in DOMAIN memtables' :
             KeysOf(memtables'[m]) # {} /\ \A k \in Key : memtables'[m][k] \in {0, m}
      BY <1>4, <1>5
    <2>3. QED
      BY <2>1, <2>2 DEF RowsInv
  <1>9. ListInv'
    <2>1. HighCompactionList' \in Seq(Compact)
      BY <1>1, <1>3, <1>4, AppendProperties DEF Queues, c
    <2>2. QED
      BY <1>1, <1>2, <2>1 DEF ListInv, Queues
  <1>10. TreeInv'
    BY <1>1, <1>2 DEF TreeInv, Queues
  <1>11. Held(FileIndex, merging, Work)'
    BY <1>1, <1>7 DEF Queues
  <1>12. QED
    BY <1>8, <1>9, <1>10, <1>11 DEF IInv

LEMMA TryDoes ==
  ASSUME CompactionAssumption, IInv, NEW t \in Thread, TryCompaction(t)
  PROVE  \E level, c : Tries(level, c)
  <1>0. PICK l \in Level :
           \E c \in Chosen(FileIndex, merging, no_overlap_in_next_level, l) :
              /\ merging' = merging \cup Ids(c.files)
              /\ HighCompactionList' = IF c = NoJob THEN HighCompactionList
                                       ELSE Append(HighCompactionList, c)
    <2>1. 0 \in Level
      BY DEF Level, CompactionAssumption
    <2>2. QED
      BY <2>1 DEF TryCompaction
  <1>1. PICK c \in Chosen(FileIndex, merging, no_overlap_in_next_level, l) :
           /\ merging' = merging \cup Ids(c.files)
           /\ HighCompactionList' = IF c = NoJob THEN HighCompactionList
                                    ELSE Append(HighCompactionList, c)
    BY <1>0
  <1>2. /\ pc[t] = "try" /\ pc' = [pc EXCEPT ![t] = "pop"]
        /\ UNCHANGED <<FileIndex, id, memtables, LowCompactionList, job>>
    BY DEF TryCompaction
  <1>3. TreeInv /\ ListInv /\ RowsInv /\ Held(FileIndex, merging, Work)
    BY DEF IInv
  <1>4. /\ id \in Nat /\ Tree(FileIndex, id) /\ merging \subseteq 1 .. id
        /\ pc \in [Thread -> {"try", "pop", "run"}]
        /\ HighCompactionList \in Seq(Compact)
        /\ FromTables(Work, memtables)
    BY <1>3 DEF TreeInv, ListInv, RowsInv
  <1>5. Runs' = Runs
    BY <1>2, <1>4 DEF Runs
  <1>6. c # NoJob => c \in Compact /\ Choice(FileIndex, merging, l, c)
    <2>1. c # NoJob => Choice(FileIndex, merging, l, c)
      BY <1>4, ChosenIs
    <2>2. QED
      BY <2>1 DEF Choice
  <1>7. Chose(Work', Work, c)
    <2>1. CASE c = NoJob
      BY <1>1, <1>2, <1>5, <2>1 DEF Chose, Work
    <2>2. CASE c # NoJob
      <3>1. Work' = Works(Append(HighCompactionList, c), LowCompactionList, Runs, job)
        BY <1>1, <1>2, <1>5, <2>2 DEF Work
      <3>2. Extends(Work', Work, c)
        BY <1>4, <1>6, <2>2, <3>1, WorksAppendHigh DEF Work
      <3>3. QED
        BY <2>2, <3>2 DEF Chose
    <2>3. QED
      BY <2>1, <2>2
  <1>8. Tries(l, c)
    BY <1>1, <1>2, <1>6, <1>7 DEF Tries
  <1>9. QED
    BY <1>8

LEMMA TryKeeps ==
  ASSUME CompactionAssumption, IInv, NEW t \in Thread, TryCompaction(t)
  PROVE  IInv'
  <1>1. PICK l, c : Tries(l, c)
    BY TryDoes
  <1>2. TreeInv /\ ListInv /\ RowsInv /\ Held(FileIndex, merging, Work)
    BY DEF IInv
  <1>3. /\ id \in Nat /\ Tree(FileIndex, id) /\ merging \subseteq 1 .. id
        /\ pc \in [Thread -> {"try", "pop", "run"}]
        /\ HighCompactionList \in Seq(Compact)
        /\ FromTables(Work, memtables)
    BY <1>2 DEF TreeInv, ListInv, RowsInv
  <1>4. /\ l \in Level /\ Chose(Work', Work, c)
        /\ c # NoJob => Choice(FileIndex, merging, l, c)
    BY <1>1 DEF Tries
  <1>5. Choosing(FileIndex, id, merging, c, Work')
    BY <1>2, <1>3, <1>4, ChoosingIs
  <1>6. /\ Held(FileIndex, merging', Work') /\ merging' \subseteq 1 .. id
        /\ FromTables(Work', memtables)
    BY <1>1, <1>5 DEF Choosing, Tries
  <1>7. TreeInv'
    BY <1>1, <1>3, <1>6 DEF TreeInv, Tries
  <1>8. ListInv'
    <2>1. HighCompactionList' \in Seq(Compact)
      BY <1>1, <1>3, AppendProperties DEF Tries
    <2>2. pc' = [pc EXCEPT ![t] = "pop"]
      BY DEF TryCompaction
    <2>3. QED
      BY <1>1, <1>2, <2>1, <2>2 DEF ListInv, Tries
  <1>9. RowsInv'
    BY <1>1, <1>2, <1>6 DEF RowsInv, Tries
  <1>10. Held(FileIndex, merging, Work)'
    BY <1>1, <1>6 DEF Tries
  <1>11. QED
    BY <1>7, <1>8, <1>9, <1>10 DEF IInv

LEMMA PopDoes ==
  ASSUME IInv, NEW t \in Thread, Pop(t)
  PROVE  \E o : Takes(o)
  <1>1. /\ pc[t] = "pop" /\ pc' = [pc EXCEPT ![t] = "run"]
        /\ UNCHANGED <<FileIndex, merging, id, memtables>>
    BY DEF Pop, treeVars
  <1>2. ListInv
    BY DEF IInv
  <1>3. /\ pc \in [Thread -> {"try", "pop", "run"}]
        /\ HighCompactionList \in Seq(Compact) /\ LowCompactionList \in Seq(Compact)
        /\ DOMAIN job = Thread
    BY <1>2 DEF ListInv
  <1>4. Runs' = Runs \cup {t} /\ t \notin Runs
    BY <1>1, <1>3 DEF Runs
  <1>5. PICK list : /\ list = (IF t \in High THEN HighCompactionList ELSE LowCompactionList)
                    /\ list # <<>>
                    /\ job' = [job EXCEPT ![t] = Head(list)]
                    /\ IF t \in High
                       THEN HighCompactionList' = Tail(list) /\ UNCHANGED LowCompactionList
                       ELSE LowCompactionList' = Tail(list) /\ UNCHANGED HighCompactionList
    BY DEF Pop
  <1>6. job'[t] = Head(list) /\ \A u \in Runs : job'[u] = job[u]
    BY <1>3, <1>4, <1>5 DEF Runs
  <1>7. list \in Seq(Compact) /\ Head(list) \in Compact /\ Tail(list) \in Seq(Compact)
    BY <1>3, <1>5, HeadTailProperties
  <1>8. \E o : Within(o, Work', Work)
    <2>1. CASE t \in High
      <3>1. Work' = Works(Tail(HighCompactionList), LowCompactionList, Runs \cup {t}, job')
        BY <1>4, <1>5, <2>1 DEF Work
      <3>2. HighCompactionList # <<>> /\ job'[t] = Head(HighCompactionList)
        BY <1>5, <1>6, <2>1
      <3>3. QED
        BY <1>3, <1>4, <1>6, <3>1, <3>2, WorksPopHigh DEF Work
    <2>2. CASE t \notin High
      <3>1. Work' = Works(HighCompactionList, Tail(LowCompactionList), Runs \cup {t}, job')
        BY <1>4, <1>5, <2>2 DEF Work
      <3>2. LowCompactionList # <<>> /\ job'[t] = Head(LowCompactionList)
        BY <1>5, <1>6, <2>2
      <3>3. QED
        BY <1>3, <1>4, <1>6, <3>1, <3>2, WorksPopLow DEF Work
    <2>3. QED
      BY <2>1, <2>2
  <1>9. Elements(Work') = Elements(Work)
    <2>1. /\ Elements(Work) = Elements(HighCompactionList) \cup Elements(LowCompactionList)
                              \cup {job[u] : u \in Runs}
          /\ Elements(Work') = Elements(HighCompactionList') \cup Elements(LowCompactionList')
                               \cup {job'[u] : u \in Runs'}
      BY WorksElements DEF Work
    <2>2. {job'[u] : u \in Runs'} = {job[u] : u \in Runs} \cup {Head(list)}
      BY <1>4, <1>6
    <2>3. Elements(list) = Elements(Tail(list)) \cup {Head(list)}
      BY <1>5, <1>7, TailElements
    <2>4. CASE t \in High
      BY <1>5, <2>1, <2>2, <2>3, <2>4
    <2>5. CASE t \notin High
      BY <1>5, <2>1, <2>2, <2>3, <2>5
    <2>6. QED
      BY <2>4, <2>5
  <1>10. QED
    BY <1>1, <1>8, <1>9 DEF Takes

LEMMA PopKeeps ==
  ASSUME CompactionAssumption, IInv, NEW t \in Thread, Pop(t)
  PROVE  IInv'
  <1>1. PICK o : Takes(o)
    BY PopDoes
  <1>2. TreeInv /\ ListInv /\ RowsInv /\ Held(FileIndex, merging, Work)
    BY DEF IInv
  <1>3. /\ Within(o, Work', Work)
        /\ UNCHANGED <<FileIndex, merging, id, memtables>>
    BY <1>1 DEF Takes
  <1>4. Held(FileIndex, merging, Work')
    BY <1>2, <1>3, Fewer
  <1>5. RowsInv'
    <2>1. FromTables(Work', memtables)
      BY <1>2, <1>3 DEF RowsInv, FromTables, Within
    <2>2. QED
      BY <1>2, <1>3, <2>1 DEF RowsInv
  <1>6. ListInv'
    <2>1. /\ pc \in [Thread -> {"try", "pop", "run"}]
          /\ HighCompactionList \in Seq(Compact) /\ LowCompactionList \in Seq(Compact)
          /\ DOMAIN job = Thread
      BY <1>2 DEF ListInv
    <2>2. /\ pc[t] = "pop" /\ pc' = [pc EXCEPT ![t] = "run"]
          /\ UNCHANGED memtables
      BY DEF Pop
    <2>3. PICK list : /\ list = (IF t \in High THEN HighCompactionList ELSE LowCompactionList)
                      /\ list # <<>>
                      /\ job' = [job EXCEPT ![t] = Head(list)]
                      /\ IF t \in High
                         THEN HighCompactionList' = Tail(list) /\ UNCHANGED LowCompactionList
                         ELSE LowCompactionList' = Tail(list) /\ UNCHANGED HighCompactionList
      BY DEF Pop
    <2>4. list \in Seq(Compact) /\ Head(list) \in Compact /\ Tail(list) \in Seq(Compact)
      BY <2>1, <2>3, HeadTailProperties
    <2>5. \A u \in Thread : pc'[u] = "run" => job'[u] \in Compact
      BY <1>2, <2>1, <2>2, <2>3, <2>4 DEF ListInv
    <2>6. DOMAIN job' = Thread /\ pc' \in [Thread -> {"try", "pop", "run"}]
      BY <2>1, <2>2, <2>3
    <2>7. HighCompactionList' \in Seq(Compact) /\ LowCompactionList' \in Seq(Compact)
      BY <2>1, <2>3, <2>4
    <2>8. QED
      BY <1>2, <2>2, <2>5, <2>6, <2>7 DEF ListInv
  <1>7. TreeInv'
    BY <1>2, <1>3 DEF TreeInv
  <1>8. Held(FileIndex, merging, Work)'
    BY <1>3, <1>4
  <1>9. QED
    BY <1>5, <1>6, <1>7, <1>8 DEF IInv

(* No two files of level 1 have the same first key.                        *)
LEMMA FindableUpper ==
  ASSUME CompactionAssumption, IInv, NEW files, Present(FileIndex, files)
  PROVE  Findable(Upper, files)
  <1>1. SUFFICES ASSUME NEW f \in At(FileIndex, 1), NEW g \in At(FileIndex, 1),
                        KeyMin(f) = KeyMin(g)
                 PROVE  f.id <= g.id
    BY DEF Findable, First, Present, Upper
  <1>2. 1 \in Level
    BY DEF Level, CompactionAssumption
  <1>3. FileIndex[1] \in Seq(File)
    BY <1>2 DEF IInv, TreeInv, Tree
  <1>4. f \in File /\ g \in File /\ f.id \in Nat
    <2>1. f \in File /\ g \in File
      BY <1>3 DEF At, Elements
    <2>2. QED
      BY <2>1 DEF File
  <1>5. f = g \/ Disjoint(f, g)
    BY DEF IInv, Held, LevelOne, DisjointAt
  <1>6. /\ KeyMin(f) \in Nat /\ KeyMax(f) \in Nat /\ KeyMin(g) \in Nat /\ KeyMax(g) \in Nat
        /\ KeyMin(f) <= KeyMax(f) /\ KeyMin(g) <= KeyMax(g)
    BY <1>4, FileKeys
  <1>7. QED
    BY <1>1, <1>4, <1>5, <1>6 DEF Disjoint

LEMMA InstallDoes ==
  ASSUME CompactionAssumption, IInv, NEW t \in Thread, Install(t)
  PROVE  \E s, d, new, v, w, c : Installs(s, d, new, v, w, c)
  <1> DEFINE d == job[t]
             new == NewFiles(d, id)
             v == Edited(d, id)
             last == id + Len(new)
             s == <<"run", t>>
             w == Works(HighCompactionList, LowCompactionList, Runs \ {t}, job')
  <1>1. /\ pc[t] = "run" /\ pc' = [pc EXCEPT ![t] = "try"]
        /\ FileIndex' = v.index /\ no_overlap_in_next_level' = v.free /\ id' = last
        /\ job' = [job EXCEPT ![t] = NoJob] /\ memtables' = memtables
    BY DEF Install
  <1>2. PICK c \in Chosen(v.index, merging, v.free, d.target_level) :
           /\ merging' = merging \cup Ids(c.files)
           /\ HighCompactionList' =
                IF c # NoJob /\ c.target_level = 1
                THEN Append(HighCompactionList, c) ELSE HighCompactionList
           /\ LowCompactionList' =
                IF c # NoJob /\ c.target_level # 1
                THEN Append(LowCompactionList, c) ELSE LowCompactionList
    BY DEF Install
  <1>3. TreeInv /\ ListInv /\ RowsInv /\ Held(FileIndex, merging, Work)
    BY DEF IInv
  <1>4. /\ id \in Nat /\ merging \subseteq 1 .. id
        /\ pc \in [Thread -> {"try", "pop", "run"}]
        /\ HighCompactionList \in Seq(Compact) /\ LowCompactionList \in Seq(Compact)
        /\ DOMAIN job = Thread
        /\ FromTables(Work, memtables)
    BY <1>3 DEF TreeInv, ListInv, RowsInv
  <1>5. d \in Compact
    BY <1>1, <1>3 DEF ListInv
  <1>6. s \in DOMAIN Work /\ Work[s] = d
    <2>1. t \in Runs
      BY <1>1 DEF Runs
    <2>2. s \in Slots(HighCompactionList, LowCompactionList, Runs)
      BY <2>1, SlotsAre
    <2>3. QED
      BY <2>1, <2>2, WorksAre DEF Work
  <1>7. Present(FileIndex, d.files)
    BY <1>3, <1>6 DEF Held, Inputs
  <1>8. Written(d, id, new)
    BY <1>4, <1>5, NewFilesAre
  <1>9. Upper \in SUBSET Level /\ 0 \in Upper /\ Findable(Upper, d.files)
    BY <1>3, <1>7, FindableUpper DEF Upper, Level, CompactionAssumption
  <1>10. Edit(d, Upper, new, v)
    BY <1>3, <1>5, <1>7, <1>9, EditedIs
  <1> HIDE DEF new, v
  <1>11. last \in Nat /\ Tree(v.index, last)
    BY <1>4, <1>8, <1>10 DEF Written, Edit
  <1>12. Runs' = Runs \ {t} /\ t \in Runs /\ \A u \in Runs \ {t} : job'[u] = job[u]
    BY <1>1, <1>4 DEF Runs
  <1>13. Without(w, Work, s)
    BY <1>12, WorksDone DEF Work
  <1>14. s = <<"run", t>>
    OBVIOUS
  <1> HIDE DEF d, s, w
  <1>16. d.target_level \in Level
    BY <1>5 DEF Compact
  <1>18. c # NoJob => c \in Compact /\ Choice(v.index, merging, d.target_level, c)
    <2>1. c # NoJob => Choice(v.index, merging, d.target_level, c)
      BY <1>11, <1>16, ChosenIs
    <2>2. QED
      BY <2>1 DEF Choice
  <1>19. Chose(Work', w, c)
    <2>1. CASE c = NoJob
      BY <1>2, <1>12, <2>1 DEF Chose, Work, w
    <2>2. CASE c # NoJob /\ c.target_level = 1
      <3>1. Work' = Works(Append(HighCompactionList, c), LowCompactionList, Runs \ {t}, job')
        BY <1>2, <1>12, <2>2 DEF Work
      <3>2. Extends(Work', w, c)
        BY <1>4, <1>18, <2>2, <3>1, WorksAppendHigh DEF w
      <3>3. QED
        BY <2>2, <3>2 DEF Chose
    <2>3. CASE c # NoJob /\ c.target_level # 1
      <3>1. Work' = Works(HighCompactionList, Append(LowCompactionList, c), Runs \ {t}, job')
        BY <1>2, <1>12, <2>3 DEF Work
      <3>2. Extends(Work', w, c)
        BY <1>4, <1>18, <2>3, <3>1, WorksAppendLow DEF w
      <3>3. QED
        BY <2>3, <3>2 DEF Chose
    <2>4. QED
      BY <2>1, <2>2, <2>3
  <1>20. id' = id + Len(new)
    BY <1>1
  <1>21. Installs(s, d, new, v, w, c)
    BY <1>1, <1>2, <1>5, <1>6, <1>8, <1>10, <1>12, <1>13, <1>14, <1>18,
       <1>19, <1>20 DEF Installs
  <1>22. QED
    BY <1>21

LEMMA InstallKeeps ==
  ASSUME CompactionAssumption, IInv, NEW t \in Thread, Install(t)
  PROVE  IInv'
  <1>1. PICK s, d, new, v, w, c : Installs(s, d, new, v, w, c)
    BY InstallDoes
  <1> DEFINE last == id + Len(new)
  <1>2. /\ s \in DOMAIN Work /\ Work[s] = d /\ d \in Compact
        /\ Written(d, id, new) /\ Edit(d, Upper, new, v) /\ Without(w, Work, s)
        /\ c # NoJob => c \in Compact /\ Choice(v.index, merging, d.target_level, c)
        /\ Chose(Work', w, c)
        /\ FileIndex' = v.index /\ merging' = merging \cup Ids(c.files)
        /\ id' = last /\ memtables' = memtables
        /\ HighCompactionList' = IF c # NoJob /\ c.target_level = 1
                                 THEN Append(HighCompactionList, c) ELSE HighCompactionList
        /\ LowCompactionList' = IF c # NoJob /\ c.target_level # 1
                                THEN Append(LowCompactionList, c) ELSE LowCompactionList
    BY <1>1 DEF Installs
  <1>3. TreeInv /\ ListInv /\ RowsInv /\ Held(FileIndex, merging, Work)
    BY DEF IInv
  <1>4. /\ id \in Nat /\ merging \subseteq 1 .. id /\ FromTables(Work, memtables)
        /\ pc \in [Thread -> {"try", "pop", "run"}]
        /\ HighCompactionList \in Seq(Compact) /\ LowCompactionList \in Seq(Compact)
        /\ DOMAIN job = Thread
    BY <1>3 DEF TreeInv, ListInv, RowsInv
  <1>5. last \in Nat /\ Tree(v.index, last) /\ id <= last
    BY <1>2, <1>4 DEF Written, Edit
  <1> HIDE DEF last
  <1>6. Held(v.index, merging, w)
    BY <1>2, <1>3, Changed
  <1>7. FromTables(w, memtables)
    BY <1>2, <1>4 DEF FromTables, Without
  <1>8. d.target_level \in Level /\ merging \subseteq 1 .. last
    BY <1>2, <1>4, <1>5 DEF Compact
  <1>9. Choosing(v.index, last, merging, c, Work')
    BY <1>2, <1>5, <1>6, <1>7, <1>8, ChoosingIs
  <1>10. /\ Held(v.index, merging', Work') /\ merging' \subseteq 1 .. last
         /\ FromTables(Work', memtables)
    BY <1>2, <1>9 DEF Choosing
  <1>11. TreeInv'
    BY <1>2, <1>5, <1>10 DEF TreeInv
  <1>12. ListInv'
    <2>1. /\ pc' = [pc EXCEPT ![t] = "try"] /\ job' = [job EXCEPT ![t] = NoJob]
      BY DEF Install
    <2>2. HighCompactionList' \in Seq(Compact) /\ LowCompactionList' \in Seq(Compact)
      BY <1>2, <1>4, AppendProperties
    <2>3. \A u \in Thread : pc'[u] = "run" => job'[u] \in Compact
      BY <1>3, <1>4, <2>1 DEF ListInv
    <2>4. DOMAIN job' = Thread /\ pc' \in [Thread -> {"try", "pop", "run"}]
      BY <1>4, <2>1
    <2>5. QED
      BY <1>2, <1>3, <2>2, <2>3, <2>4 DEF ListInv
  <1>13. RowsInv'
    BY <1>2, <1>3, <1>10 DEF RowsInv
  <1>14. Held(FileIndex, merging, Work)'
    BY <1>2, <1>10
  <1>15. QED
    BY <1>11, <1>12, <1>13, <1>14 DEF IInv

LEMMA WaitDoes ==
  ASSUME ListInv, NEW t \in Thread, WaitForWork(t)
  PROVE  /\ pc' = [pc EXCEPT ![t] = "try"] /\ Work' = Work
         /\ UNCHANGED <<FileIndex, merging, id, memtables, HighCompactionList,
                        LowCompactionList, job>>
  <1>1. /\ pc[t] = "pop" /\ pc' = [pc EXCEPT ![t] = "try"]
        /\ UNCHANGED <<FileIndex, merging, id, memtables, HighCompactionList,
                       LowCompactionList, job>>
    BY DEF WaitForWork, treeVars, listVars
  <1>2. Runs' = Runs
    BY <1>1 DEF Runs, ListInv
  <1>3. QED
    BY <1>1, <1>2 DEF Work

LEMMA StepKeeps ==
  ASSUME CompactionAssumption, IInv, [Next]_vars
  PROVE  IInv'
  <1>1. CASE UNCHANGED vars
    <2>1. UNCHANGED <<FileIndex, merging, id, memtables, HighCompactionList,
                      LowCompactionList, job, pc>>
      BY <1>1 DEF vars, treeVars, listVars
    <2>2. Runs' = Runs
      BY <2>1 DEF Runs
    <2>3. Work' = Work
      BY <2>1, <2>2 DEF Work
    <2>4. TreeInv' /\ ListInv' /\ RowsInv'
      BY <2>1, <2>3 DEF IInv, TreeInv, ListInv, RowsInv
    <2>5. Held(FileIndex, merging, Work)'
      BY <2>1, <2>3 DEF IInv
    <2>6. QED
      BY <2>4, <2>5 DEF IInv
  <1>2. ASSUME NEW keys \in Batch, QueueMemtable(keys) PROVE IInv'
    BY <1>2, QueueKeeps
  <1>3. ASSUME NEW t \in Thread, TryCompaction(t) PROVE IInv'
    BY <1>3, TryKeeps
  <1>4. ASSUME NEW t \in Thread, Pop(t) PROVE IInv'
    BY <1>4, PopKeeps
  <1>5. ASSUME NEW t \in Thread, WaitForWork(t) PROVE IInv'
    <2>1. ListInv
      BY DEF IInv
    <2>4. /\ pc' = [pc EXCEPT ![t] = "try"] /\ Work' = Work
          /\ UNCHANGED <<FileIndex, merging, id, memtables, HighCompactionList,
                         LowCompactionList, job>>
      BY <1>5, <2>1, WaitDoes
    <2>5. TreeInv' /\ RowsInv'
      BY <2>4 DEF IInv, TreeInv, RowsInv
    <2>6. ListInv'
      BY <2>1, <2>4 DEF ListInv
    <2>7. Held(FileIndex, merging, Work)'
      BY <2>4 DEF IInv
    <2>8. QED
      BY <2>5, <2>6, <2>7 DEF IInv
  <1>6. ASSUME NEW t \in Thread, Install(t) PROVE IInv'
    BY <1>6, InstallKeeps
  <1>7. QED
    BY <1>1, <1>2, <1>3, <1>4, <1>5, <1>6 DEF Next, ThreadStep

LEMMA WorkIsCompact ==
  ASSUME ListInv, NEW s \in DOMAIN Work
  PROVE  Work[s] \in Compact
  <1>1. DOMAIN Work = Slots(HighCompactionList, LowCompactionList, Runs)
    BY WorksAre DEF Work
  <1>2. /\ \A n \in DOMAIN HighCompactionList : Work[<<"high", n>>] = HighCompactionList[n]
        /\ \A n \in DOMAIN LowCompactionList : Work[<<"low", n>>] = LowCompactionList[n]
        /\ \A t \in Runs : Work[<<"run", t>>] = job[t]
    BY WorksAre DEF Work
  <1> HIDE DEF Work
  <1>3. /\ \A n \in DOMAIN HighCompactionList : HighCompactionList[n] \in Compact
        /\ \A n \in DOMAIN LowCompactionList : LowCompactionList[n] \in Compact
        /\ \A t \in Runs : job[t] \in Compact
    BY DEF ListInv, Runs
  <1>4. QED
    BY <1>1, <1>2, <1>3, SlotsAre

-----------------------------------------------------------------------------
(* The invariant.                                                          *)
LEMMA Invariance == Spec => []IInv
  <1>1. Init => IInv
    BY InitIs, CompactionAssumption
  <1>2. IInv /\ [Next]_vars => IInv'
    BY StepKeeps, CompactionAssumption
  <1>3. QED
    BY <1>1, <1>2, PTL DEF Spec

(* The files of level 1 are in order and disjoint: GetCompaction gives out *)
(* one compaction into level 1 at a time (its inputs hold the oldest file  *)
(* of level 0, and while that one is merging it gives out none), and the   *)
(* files of level 1 it leaves alone are below its keys or above them.      *)
THEOREM LevelOneIsDisjoint == Spec => []LevelOneDisjoint
  <1>1. IInv => LevelOneDisjoint
    <2> SUFFICES ASSUME IInv PROVE LevelOneDisjoint
      OBVIOUS
    <2>1. 1 \in Level
      BY CompactionAssumption DEF Level, CompactionAssumption
    <2>2. FileIndex[1] \in Seq(File) /\ Ordered(FileIndex[1])
      BY <2>1, TreeLevel, CompactionAssumption DEF IInv, TreeInv
    <2>3. \A f \in Elements(FileIndex[1]) : f.level # 0
      BY <2>1 DEF IInv, TreeInv, Tree, Elements
    <2>4. \A f, g \in Elements(FileIndex[1]) : f = g \/ Disjoint(f, g)
      BY DEF IInv, Held, LevelOne, DisjointAt, At
    <2>5. InTurn(FileIndex[1])
      BY <2>2, <2>3, <2>4, DisjointInTurn, CompactionAssumption
    <2>6. QED
      BY <2>5 DEF InTurn, LevelOneDisjoint
  <1>2. QED
    BY <1>1, Invariance, PTL

-----------------------------------------------------------------------------
(* Marks.  In the upper levels only inputs of compactions under way are    *)
(* marked.                                                                 *)
Owned(index, marked, w) ==
    \A l \in Upper : \A f \in At(index, l) :
        f.id \in marked => \E s \in DOMAIN w : f \in Elements(w[s].files)

OwnedInv == Owned(FileIndex, merging, Work)

LEMMA ChosenOwned ==
  ASSUME CompactionAssumption, NEW last, NEW index, Tree(index, last),
         NEW marked, NEW w, Owned(index, marked, w),
         NEW level, NEW c, c # NoJob => Choice(index, marked, level, c),
         NEW w2, Chose(w2, w, c)
  PROVE  Owned(index, marked \cup Ids(c.files), w2)
  <1>1. CASE c = NoJob
    <2>1. Ids(c.files) = {} /\ w2 = w
      BY <1>1 DEF NoJob, Merge, Ids, Chose
    <2>2. QED
      BY <2>1
  <1>2. CASE c # NoJob
    <2>1. PICK s \in DOMAIN w2 : /\ DOMAIN w2 = DOMAIN w \cup {s} /\ w2[s] = c
                                 /\ \A u \in DOMAIN w : w2[u] = w[u]
      BY <1>2 DEF Chose, Extends
    <2>2. /\ c \in Compact
          /\ \A f \in Elements(c.files) : f \in At(index, f.level)
      BY <1>2 DEF Choice
    <2>3. \A f \in Elements(c.files) : f.level \in Level
      <3>1. c.files \in Seq(File)
        BY <2>2 DEF Compact
      <3>2. \A f \in Elements(c.files) : f \in File
        BY <3>1 DEF Elements
      <3>3. QED
        BY <3>2 DEF File
    <2>4. SUFFICES ASSUME NEW l \in Upper, NEW f \in At(index, l),
                          f.id \in marked \cup Ids(c.files)
                   PROVE  \E u \in DOMAIN w2 : f \in Elements(w2[u].files)
      BY DEF Owned
    <2>5. CASE f.id \in marked
      <3>1. PICK u \in DOMAIN w : f \in Elements(w[u].files)
        BY <2>4, <2>5 DEF Owned
      <3>2. QED
        BY <2>1, <3>1
    <2>6. CASE f.id \in Ids(c.files)
      <3>1. PICK g \in Elements(c.files) : g.id = f.id
        BY <2>6, IdsAre
      <3>2. l \in Level
        BY DEF Upper, Level, CompactionAssumption
      <3>3. f = g
        BY <2>2, <2>3, <3>1, <3>2 DEF Tree
      <3>4. QED
        BY <2>1, <3>1, <3>3
    <2>7. QED
      BY <2>4, <2>5, <2>6
  <1>3. QED
    BY <1>1, <1>2

LEMMA InstallOwns ==
  ASSUME CompactionAssumption, IInv, OwnedInv,
         NEW s, NEW d, NEW new, NEW v, NEW w, NEW c, Installs(s, d, new, v, w, c)
  PROVE  OwnedInv'
  <1>1. /\ s \in DOMAIN Work /\ Work[s] = d /\ d \in Compact
        /\ Written(d, id, new) /\ Edit(d, Upper, new, v) /\ Without(w, Work, s)
        /\ c # NoJob => Choice(v.index, merging, d.target_level, c)
        /\ Chose(Work', w, c)
        /\ FileIndex' = v.index /\ merging' = merging \cup Ids(c.files)
    BY DEF Installs
  <1>2. id \in Nat /\ merging \subseteq 1 .. id
    BY DEF IInv, TreeInv
  <1>3. Owned(v.index, merging, w)
    <2>1. SUFFICES ASSUME NEW l \in Upper, NEW f \in At(v.index, l), f.id \in merging
                   PROVE  \E u \in DOMAIN w : f \in Elements(w[u].files)
      BY DEF Owned
    <2>2. f \in At(FileIndex, l) \cup Added(d, new, l) /\ f \notin Elements(d.files)
      BY <1>1 DEF Edit
    <2>3. f \notin Added(d, new, l)
      <3>1. SUFFICES ASSUME f \in Elements(new) PROVE FALSE
        BY DEF Added
      <3>2. PICK n \in DOMAIN new : f = new[n]
        BY <3>1 DEF Elements
      <3>3. f.id = id + n /\ n \in Nat \ {0}
        BY <1>1, <3>2 DEF Written
      <3>4. QED
        BY <1>2, <2>1, <3>3
    <2>4. PICK u \in DOMAIN Work : f \in Elements(Work[u].files)
      BY <2>1, <2>2, <2>3 DEF OwnedInv, Owned
    <2>5. u # s
      BY <1>1, <2>2, <2>4
    <2>6. QED
      BY <1>1, <2>4, <2>5 DEF Without
  <1>4. Tree(v.index, id + Len(new))
    BY <1>1 DEF Edit
  <1>5. Owned(v.index, merging \cup Ids(c.files), Work')
    BY <1>1, <1>3, <1>4, ChosenOwned
  <1>6. QED
    BY <1>1, <1>5 DEF OwnedInv

LEMMA StepOwns ==
  ASSUME CompactionAssumption, IInv, OwnedInv, [Next]_vars
  PROVE  OwnedInv'
  <1>1. CASE UNCHANGED vars
    <2>1. UNCHANGED <<FileIndex, merging, HighCompactionList, LowCompactionList, job, pc>>
      BY <1>1 DEF vars, treeVars, listVars
    <2>2. Work' = Work
      BY <2>1 DEF Work, Runs
    <2>3. QED
      BY <2>1, <2>2 DEF OwnedInv
  <1>2. ASSUME NEW keys \in Batch, QueueMemtable(keys) PROVE OwnedInv'
    <2>1. PICK n, rows : Queues(n, rows)
      BY <1>2, QueueDoes
    <2>2. UNCHANGED <<FileIndex, merging>> /\ Extends(Work', Work, Persistence(rows))
      BY <2>1 DEF Queues
    <2>3. QED
      BY <2>2 DEF OwnedInv, Owned, Extends
  <1>3. ASSUME NEW t \in Thread, TryCompaction(t) PROVE OwnedInv'
    <2>1. PICK level, c : Tries(level, c)
      BY <1>3, TryDoes
    <2>2. /\ c # NoJob => Choice(FileIndex, merging, level, c)
          /\ Chose(Work', Work, c)
          /\ FileIndex' = FileIndex /\ merging' = merging \cup Ids(c.files)
      BY <2>1 DEF Tries
    <2>3. Tree(FileIndex, id)
      BY DEF IInv, TreeInv
    <2>4. Owned(FileIndex, merging \cup Ids(c.files), Work')
      BY <2>2, <2>3, ChosenOwned DEF OwnedInv
    <2>5. QED
      BY <2>2, <2>4 DEF OwnedInv
  <1>4. ASSUME NEW t \in Thread, Pop(t) PROVE OwnedInv'
    <2>1. Elements(Work') = Elements(Work) /\ UNCHANGED <<FileIndex, merging>>
      BY <1>4, PopDoes DEF Takes
    <2>2. \A w, f : (\E s \in DOMAIN w : f \in Elements(w[s].files))
                    <=> \E c \in Elements(w) : f \in Elements(c.files)
      BY DEF Elements
    <2>3. QED
      BY <2>1, <2>2 DEF OwnedInv, Owned
  <1>5. ASSUME NEW t \in Thread, WaitForWork(t) PROVE OwnedInv'
    <2>1. Work' = Work /\ UNCHANGED <<FileIndex, merging>>
      BY <1>5, WaitDoes DEF IInv
    <2>2. QED
      BY <2>1 DEF OwnedInv
  <1>6. ASSUME NEW t \in Thread, Install(t) PROVE OwnedInv'
    BY <1>6, InstallDoes, InstallOwns
  <1>7. QED
    BY <1>1, <1>2, <1>3, <1>4, <1>5, <1>6 DEF Next, ThreadStep

(* All inputs of compactions under way are marked and nobody else's: the   *)
(* flag merging that GetCompaction sets keeps a file out of every later    *)
(* choice.  Those of levels 0 and 1 are still there when their turn comes, *)
(* because RelVersion's constructor erases the inputs of the edit it       *)
(* applies and, in these levels, no other file; and in these levels only   *)
(* inputs are marked.                                                      *)
THEOREM InputsStayPresent == Spec => []InputsPresent
  <1>1. Init => OwnedInv
    <2> SUFFICES ASSUME Init PROVE OwnedInv
      OBVIOUS
    <2>1. \A l \in Upper : At(FileIndex, l) = {}
      BY CompactionAssumption DEF Init, At, Elements, Upper, Level, CompactionAssumption
    <2>2. QED
      BY <2>1 DEF OwnedInv, Owned
  <1>2. IInv /\ OwnedInv /\ [Next]_vars => OwnedInv'
    BY StepOwns, CompactionAssumption
  <1>3. IInv /\ OwnedInv => InputsPresent
    <2> SUFFICES ASSUME IInv, OwnedInv PROVE InputsPresent
      OBVIOUS
    <2>1. Inputs(FileIndex, merging, Work) /\ Apart(Work)
      BY DEF IInv, Held
    <2>2. /\ \A c : FilesIn(c) = Elements(c.files)
          /\ \A l : FilesOf(l) = At(FileIndex, l)
      BY DEF FilesIn, FilesOf, At, Elements
    <2>3. ASSUME NEW s \in DOMAIN Work, NEW f \in FilesIn(Work[s])
          PROVE  f.id \in merging /\ (f.level <= 1 => f \in FilesOf(f.level))
      <3>1. f.id \in Ids(Work[s].files) /\ f \in Elements(Work[s].files)
        BY <2>2, <2>3, IdsAre
      <3>2. Ids(Work[s].files) \subseteq merging /\ Present(FileIndex, Work[s].files)
        BY <2>1 DEF Inputs
      <3>3. Work[s].files \in Seq(File)
        BY WorkIsCompact DEF IInv, Compact
      <3>4. f \in File
        BY <3>1, <3>3 DEF Elements
      <3>5. f.level \in Nat
        BY <3>4, CompactionAssumption DEF File, Level, CompactionAssumption
      <3>6. f.level <= 1 => f \in At(FileIndex, f.level)
        BY <3>1, <3>2, <3>5 DEF Present, Upper
      <3>7. QED
        BY <2>2, <3>1, <3>2, <3>6
    <2>4. \A s, u \in DOMAIN Work :
             s # u => Ids(Work[s].files) \cap Ids(Work[u].files) = {}
      BY <2>1 DEF Apart
    <2>5. \A f \in FilesOf(0) \cup FilesOf(1) :
             f.id \in merging => \E s \in DOMAIN Work : f \in FilesIn(Work[s])
      BY <2>2 DEF OwnedInv, Owned, Upper
    <2>6. QED
      BY <2>3, <2>4, <2>5 DEF InputsPresent
  <1>4. QED
    BY <1>1, <1>2, <1>3, Invariance, PTL DEF Spec

-----------------------------------------------------------------------------
(* Finding a key.  In a level in order, the search begins at the file that *)
(* covers the key and ends with it.                                        *)
LEMMA FoundIs ==
  ASSUME CompactionAssumption, NEW files \in Seq(File), InTurn(files),
         NEW j \in DOMAIN files, NEW k \in Nat,
         KeyMin(files[j]) <= k, k <= KeyMax(files[j])
  PROVE  FindSrc(files, k) = j /\ UpperBound(files, k) = j + 1
  <1> DEFINE n == Len(files)
             p == LowerBound(files, k)
             u == UpperBound(files, k)
             min(i) == KeyMin(files[i])
             max(i) == KeyMax(files[i])
  <1>1. n \in Nat /\ DOMAIN files = 1 .. n /\ j \in 1 .. n
    OBVIOUS
  <1>2. \A i \in 1 .. n : files[i] \in File
    OBVIOUS
  <1>3. \A i \in 1 .. n : min(i) \in Nat /\ max(i) \in Nat /\ min(i) <= max(i)
    BY <1>2, FileKeys
  <1>4. \A i, l \in 1 .. n : i < l => max(i) < min(l)
    BY <1>1 DEF InTurn
  <1>5. p \in 1 .. n + 1 /\ (\A i \in 1 .. p - 1 : min(i) < k) /\ (p <= n => k <= min(p))
    BY LowerBoundIs
  <1>6. u \in 1 .. n + 1 /\ (\A i \in 1 .. u - 1 : min(i) <= k) /\ (u <= n => k < min(u))
    BY UpperBoundIs
  <1>7. min(j) <= k /\ k <= max(j)
    OBVIOUS
  <1>8. FindSrc(files, k) =
          IF n = 0 THEN 0
          ELSE IF p = 1 THEN IF min(1) <= k THEN 1 ELSE 0
          ELSE IF p = n + 1 THEN IF k <= max(n) THEN n ELSE 0
          ELSE IF max(p - 1) >= k THEN p - 1
          ELSE IF min(p) > k THEN 0 ELSE p
    BY DEF FindSrc
  <1> HIDE DEF n, p, u, min, max
  <1>9. p = j \/ p = j + 1
    <2>1. ~(p < j)
      BY <1>1, <1>3, <1>4, <1>5, <1>7
    <2>2. ~(p > j + 1)
      <3>1. SUFFICES ASSUME p > j + 1 PROVE FALSE
        OBVIOUS
      <3>2. j + 1 \in 1 .. n /\ j + 1 \in 1 .. p - 1
        BY <1>1, <1>5, <3>1
      <3>3. min(j + 1) < k /\ max(j) < min(j + 1)
        BY <1>1, <1>4, <1>5, <3>2
      <3>4. QED
        BY <1>1, <1>3, <1>7, <3>2, <3>3
    <2>3. QED
      BY <1>1, <1>5, <2>1, <2>2
  <1>10. u = j + 1
    <2>1. ~(u <= j)
      BY <1>1, <1>3, <1>4, <1>6, <1>7
    <2>2. ~(u > j + 1)
      <3>1. SUFFICES ASSUME u > j + 1 PROVE FALSE
        OBVIOUS
      <3>2. j + 1 \in 1 .. n /\ j + 1 \in 1 .. u - 1
        BY <1>1, <1>6, <3>1
      <3>3. min(j + 1) <= k /\ max(j) < min(j + 1)
        BY <1>1, <1>4, <1>6, <3>2
      <3>4. QED
        BY <1>1, <1>3, <1>7, <3>2, <3>3
    <2>3. QED
      BY <1>1, <1>6, <2>1, <2>2
  <1> SUFFICES FindSrc(files, k) = j
    BY <1>10 DEF u
  <1>11. CASE p = j
    <2>1. k <= min(j) /\ p <= n
      BY <1>1, <1>5, <1>11
    <2>2. CASE p = 1
      BY <1>1, <1>7, <1>8, <1>11, <2>2
    <2>3. CASE p # 1
      <3>1. p - 1 \in 1 .. n /\ max(p - 1) < min(p)
        BY <1>1, <1>4, <1>11, <2>3
      <3>2. ~(max(p - 1) >= k) /\ ~(min(p) > k)
        BY <1>1, <1>3, <1>7, <1>11, <2>1, <3>1
      <3>3. p # n + 1 /\ n # 0
        BY <1>1, <2>1
      <3>4. QED
        BY <1>8, <1>11, <2>3, <3>2, <3>3
    <2>4. QED
      BY <2>2, <2>3
  <1>12. CASE p = j + 1
    <2>1. p # 1 /\ n # 0 /\ p - 1 = j
      BY <1>1, <1>12
    <2>2. CASE p = n + 1
      BY <1>1, <1>7, <1>8, <1>12, <2>1, <2>2
    <2>3. CASE p # n + 1
      BY <1>1, <1>3, <1>7, <1>8, <2>1, <2>3
    <2>4. QED
      BY <2>2, <2>3
  <1>13. QED
    BY <1>9, <1>11, <1>12

Hits(l, k) == {j \in DOMAIN Visited(l, k) : Visited(l, k)[j].rows[k] # 0}

LEMMA VisitedIs ==
  ASSUME CompactionAssumption, Tree(FileIndex, id), id \in Nat, NEW l \in Level, NEW k \in Nat
  PROVE  DOMAIN Visited(l, k) \subseteq Nat
  <1> DEFINE files == FileIndex[l]
             first == FindSrc(files, k)
             last == UpperBound(files, k) - 1
  <1>1. files \in Seq(File)
    BY DEF Tree
  <1> HIDE DEF files
  <1>2. last \in Int
    <2>1. UpperBound(files, k) \in 1 .. Len(files) + 1
      BY <1>1, UpperBoundIs
    <2>2. QED
      BY <2>1
  <1>3. first \in Nat
    <2>1. LowerBound(files, k) \in 1 .. Len(files) + 1
      BY <1>1, LowerBoundIs
    <2>1a. Len(files) \in Nat
      BY <1>1
    <2>2. QED
      BY <2>1, <2>1a DEF FindSrc
  <1>4. Visited(l, k) = IF l = 0 THEN files
                        ELSE IF first = 0 THEN <<>> ELSE SubSeq(files, first, last)
    BY DEF Visited, files
  <1> HIDE DEF first, last
  <1>5. DOMAIN files \subseteq Nat
    BY <1>1
  <1>6. DOMAIN SubSeq(files, first, last) \subseteq Nat
    <2> DEFINE S == {files[i] : i \in first .. last}
    <2>1. SubSeq(files, first, last) \in Seq(S)
      BY <1>2, <1>3, SubSeqProperties
    <2>2. QED
      BY <2>1
  <1>7. QED
    BY <1>4, <1>5, <1>6

LEMMA LookupFinds ==
  ASSUME CompactionAssumption, Tree(FileIndex, id), id \in Nat, NEW k \in Nat,
         NEW l \in Level, Hits(l, k) # {}
  PROVE  Lookup(k) # 0
  <1> DEFINE levels == {m \in Level : Hits(m, k) # {}}
             first == CHOOSE m \in levels : \A q \in levels : m <= q
             found == CHOOSE j \in Hits(first, k) : \A i \in Hits(first, k) : j <= i
  <1>1. levels # {} /\ levels \subseteq Nat
    BY DEF Level
  <1>2. \E m \in levels : \A q \in levels : m <= q
    BY <1>1, Least
  <1>3. first \in levels
    BY <1>2
  <1>4. Lookup(k) = IF levels = {} THEN 0 ELSE Visited(first, k)[found].rows[k]
    BY DEF Lookup, Hits
  <1> HIDE DEF levels
  <1>4a. \A m \in levels : m \in Level /\ Hits(m, k) # {}
    BY DEF levels
  <1> HIDE DEF first
  <1>5. Hits(first, k) \subseteq Nat /\ Hits(first, k) # {}
    <2>1. first \in Level /\ Hits(first, k) # {}
      BY <1>3, <1>4a
    <2>2. DOMAIN Visited(first, k) \subseteq Nat
      BY <2>1, VisitedIs
    <2>3. QED
      BY <2>1, <2>2 DEF Hits
  <1>6. \E j \in Hits(first, k) : \A i \in Hits(first, k) : j <= i
    BY <1>5, Least
  <1>7. found \in Hits(first, k)
    BY <1>6
  <1> HIDE DEF found
  <1>8. Visited(first, k)[found].rows[k] # 0
    BY <1>7 DEF Hits
  <1>9. QED
    BY <1>1, <1>4, <1>8

(* A lookup finds every key that is in a file of level 0 or 1: level 0 is  *)
(* searched file by file, and since level 1 is disjoint, findsrc's first   *)
(* file in it is the one that covers the key.                              *)
THEOREM UpperIsReachable == Spec => []UpperReachable
  <1>1. IInv /\ LevelOneDisjoint => UpperReachable
    <2> SUFFICES ASSUME IInv, LevelOneDisjoint, NEW l \in {0, 1},
                        NEW f \in FilesOf(l), NEW k \in KeysOf(f.rows)
                 PROVE  Lookup(k) # 0
      BY DEF UpperReachable
    <2>1. l \in Level /\ Tree(FileIndex, id) /\ id \in Nat
      BY CompactionAssumption DEF Level, CompactionAssumption, IInv, TreeInv
    <2>2. FileIndex[l] \in Seq(File)
      BY <2>1 DEF Tree
    <2>3. PICK j \in DOMAIN FileIndex[l] : f = FileIndex[l][j]
      BY DEF FilesOf
    <2>4. f \in File
      BY <2>2, <2>3
    <2>5. k \in Nat /\ KeyMin(f) <= k /\ k <= KeyMax(f)
      BY <2>4, FileKeys, CompactionAssumption
    <2>6. f.rows[k] # 0
      BY DEF KeysOf
    <2>7. Hits(l, k) # {}
      <3>1. CASE l = 0
        <4>1. Visited(l, k) = FileIndex[l]
          BY <3>1 DEF Visited
        <4>2. j \in Hits(l, k)
          BY <2>3, <2>6, <4>1 DEF Hits
        <4>3. QED
          BY <4>2
      <3>2. CASE l = 1
        <4> DEFINE files == FileIndex[1]
        <4>1. files \in Seq(File) /\ InTurn(files) /\ j \in DOMAIN files /\ f = files[j]
          BY <2>2, <2>3, <3>2 DEF InTurn, LevelOneDisjoint
        <4> HIDE DEF files
        <4>2. FindSrc(files, k) = j /\ UpperBound(files, k) = j + 1
          BY <2>5, <4>1, FoundIs, CompactionAssumption
        <4>3. j # 0 /\ (j + 1) - 1 = j /\ j \in Int
          BY <4>1
        <4> DEFINE v == SubSeq(files, j, j)
        <4>4. Visited(l, k) = v
          <5>1. Visited(l, k) = IF FindSrc(files, k) = 0 THEN <<>>
                                ELSE SubSeq(files, FindSrc(files, k), UpperBound(files, k) - 1)
            BY <3>2 DEF Visited, files
          <5>2. QED
            BY <4>2, <4>3, <5>1
        <4>4a. v \in Seq(File) /\ Len(v) = 1 /\ v[1] = files[j]
          <5>1. \A i \in j .. j : files[i] \in File
            BY <4>1
          <5>2. /\ v \in Seq(File)
                /\ Len(v) = IF j <= j THEN j - j + 1 ELSE 0
                /\ \A i \in 1 .. j - j + 1 : v[i] = files[j + i - 1]
            BY <4>3, <5>1, SubSeqProperties
          <5> HIDE DEF v
          <5>2a. j - j + 1 = 1 /\ j <= j /\ j + 1 - 1 = j
            BY <4>3
          <5>3. QED
            BY <5>2, <5>2a
        <4> HIDE DEF v
        <4>5. 1 \in Hits(l, k)
          BY <2>6, <4>1, <4>4, <4>4a DEF Hits
        <4>6. QED
          BY <4>5
      <3>3. QED
        BY <3>1, <3>2
    <2>8. QED
      BY <2>1, <2>5, <2>7, LookupFinds, CompactionAssumption
  <1>2. QED
    BY <1>1, Invariance, LevelOneIsDisjoint, PTL

-----------------------------------------------------------------------------
(* Keys.  The version's files hold a key if one of them has a row of it.   *)
Holds(index, k) == \E l \in Level : \E f \in At(index, l) : f.rows[k] # 0

(* An edit keeps the keys of its inputs, and adds those of its memtable.   *)
LEMMA EditHolds ==
  ASSUME CompactionAssumption, id \in Nat, Tree(FileIndex, id),
         NEW c \in Compact, \A f \in Elements(c.files) : f \in At(FileIndex, f.level),
         NEW new, Written(c, id, new), NEW v, Edit(c, Level, new, v), NEW k \in Key
  PROVE  Holds(v.index, k) <=> Holds(FileIndex, k) \/ (c.files = <<>> /\ c.rows[k] # 0)
  <1>1. \A l \in Level : At(v.index, l) =
           (At(FileIndex, l) \cup Added(c, new, l)) \ Elements(c.files)
    BY DEF Edit
  <1>2. /\ c.files \in Seq(File) /\ c.target_level \in Level
        /\ \A f \in Elements(c.files) : f \in File /\ f.level \in Level
    <2>1. c.files \in Seq(File) /\ c.target_level \in Level
      BY DEF Compact
    <2>2. \A f \in Elements(c.files) : f \in File
      BY <2>1 DEF Elements
    <2>3. QED
      BY <2>1, <2>2 DEF File
  <1>3. \A f \in Elements(c.files) : f \in At(FileIndex, f.level)
    OBVIOUS
  <1>4. \A f \in Elements(new) : f \notin Elements(c.files)
    <2>1. SUFFICES ASSUME NEW f \in Elements(new), f \in Elements(c.files) PROVE FALSE
      OBVIOUS
    <2>2. f.id \in 1 .. id
      BY <1>2, <1>3, <2>1, TreeLevel
    <2>3. PICK n \in DOMAIN new : f = new[n]
      BY DEF Elements
    <2>4. new[n].id = id + n /\ n \in Nat \ {0}
      BY DEF Written
    <2>5. QED
      BY <2>2, <2>3, <2>4
  <1>5. Holds(v.index, k) <=> \/ \E f \in Elements(new) : f.rows[k] # 0
                              \/ \E l \in Level : \E f \in At(FileIndex, l) :
                                    f.rows[k] # 0 /\ f \notin Elements(c.files)
    BY <1>1, <1>2, <1>4 DEF Holds, Added
  <1>6. CASE c.files = <<>>
    <2>1. Elements(c.files) = {}
      BY <1>6 DEF Elements
    <2>2. new \in Seq(File) /\ Len(new) = 1 /\ new[1].rows = c.rows
      BY <1>6 DEF Written
    <2>2a. \A f \in Elements(new) : f = new[1]
      BY <2>2 DEF Elements
    <2>2b. new[1] \in Elements(new)
      BY <2>2 DEF Elements
    <2>3. (\E f \in Elements(new) : f.rows[k] # 0) <=> c.rows[k] # 0
      BY <2>2, <2>2a, <2>2b
    <2>4. QED
      BY <1>5, <1>6, <2>1, <2>3 DEF Holds
  <1>7. CASE c.files # <<>>
    <2>1. (\E f \in Elements(new) : f.rows[k] # 0) <=> MergedRows(c.files)[k] # 0
      <3>1. /\ \A n \in DOMAIN new : new[n].rows[k] \in {0, MergedRows(c.files)[k]}
            /\ \A q \in KeysOf(MergedRows(c.files)) :
                  \E n \in DOMAIN new : new[n].rows[q] # 0
        BY <1>7 DEF Written
      <3>2. ASSUME MergedRows(c.files)[k] # 0 PROVE \E f \in Elements(new) : f.rows[k] # 0
        <4>1. k \in KeysOf(MergedRows(c.files))
          BY <3>2 DEF KeysOf
        <4>2. PICK n \in DOMAIN new : new[n].rows[k] # 0
          BY <3>1, <4>1
        <4>3. QED
          BY <4>2 DEF Elements
      <3>3. QED
        BY <3>1, <3>2 DEF Elements
    <2>2. MergedRows(c.files)[k] # 0 <=> \E f \in Elements(c.files) : f.rows[k] # 0
      BY <1>2, <1>7, MergedRowsAre DEF KeysOf
    <2>3. QED
      BY <1>2, <1>3, <1>5, <1>7, <2>1, <2>2 DEF Holds
  <1>8. QED
    BY <1>6, <1>7

(* An edit that is not mistaken finds all its inputs.                      *)
LEMMA FindsAll ==
  ASSUME CompactionAssumption, IInv, NEW c \in Compact, Present(FileIndex, c.files),
         ~Mistaken(c)
  PROVE  Findable(Level, c.files)
  <1>1. SUFFICES ASSUME NEW f \in Elements(c.files), f.level \in Level
                 PROVE  First(At(FileIndex, f.level), f)
    BY DEF Findable
  <1>2. CASE f.level \in Upper
    BY <1>1, <1>2, FindableUpper DEF Findable
  <1>3. CASE f.level \notin Upper
    <2> DEFINE s == FileIndex[f.level]
               at == LowerBound(s, KeyMin(f))
    <2>1. f.level \in Nat /\ f.level > 1
      BY <1>1, <1>3, CompactionAssumption DEF Level, Upper, CompactionAssumption
    <2>2. ~(at > Len(s)) /\ s[at] = f
      <3>1. f \in FilesIn(c)
        BY <1>1 DEF FilesIn, Elements
      <3>2. ~(LET files == FileIndex[f.level]
                  p == LowerBound(files, KeyMin(f))
              IN  p > Len(files) \/ files[p] # f)
        BY <2>1, <3>1, Zenon DEF Mistaken
      <3>3. QED
        BY <3>2
    <2>3. s \in Seq(File) /\ Ordered(s) /\ \A g \in Elements(s) : g.level = f.level
      <3>1. Tree(FileIndex, id)
        BY DEF IInv, TreeInv
      <3>2. s \in Seq(File) /\ Ordered(s) /\ \A j \in DOMAIN s : s[j].level = f.level
        BY <1>1, <3>1 DEF Tree, Ordered
      <3>3. QED
        BY <3>2 DEF Elements
    <2>4. f \in File /\ KeyMin(f) \in Nat
      <3>1. c.files \in Seq(File)
        BY DEF Compact
      <3>2. f \in File
        BY <1>1, <3>1 DEF Elements
      <3>3. QED
        BY <3>2, FileKeys
    <2> HIDE DEF s
    <2>5. at \in 1 .. Len(s) + 1 /\ \A i \in 1 .. at - 1 : KeyMin(s[i]) < KeyMin(f)
      BY <2>3, <2>4, LowerBoundIs
    <2> HIDE DEF at
    <2>6. at \in DOMAIN s
      BY <2>2, <2>3, <2>5
    <2>7. ASSUME NEW g \in Elements(s), KeyMin(g) = KeyMin(f) PROVE f.id <= g.id
      <3>1. PICK j \in DOMAIN s : g = s[j]
        BY DEF Elements
      <3>2. j \in Nat /\ at \in Nat /\ f.id \in Nat
        BY <2>3, <2>4, <2>5 DEF File
      <3>3. ~(j < at)
        <4>1. SUFFICES ASSUME j < at PROVE FALSE
          OBVIOUS
        <4>2. j \in 1 .. at - 1
          BY <2>3, <2>5, <4>1
        <4>3. KeyMin(f) < KeyMin(f)
          BY <2>5, <2>7, <3>1, <4>2
        <4>4. QED
          BY <2>4, <4>3
      <3>4. CASE j = at
        BY <2>2, <3>1, <3>2, <3>4
      <3>5. CASE at < j
        <4>1. Before(f, g)
          BY <2>2, <2>3, <2>6, <3>1, <3>5 DEF Ordered
        <4>2. g.id \in Nat
          BY <2>3, <3>1 DEF File
        <4>3. f.id < g.id
          BY <2>1, <2>4, <2>7, <4>1 DEF Before
        <4>4. QED
          BY <3>2, <4>2, <4>3
      <3>6. QED
        BY <3>2, <3>3, <3>4, <3>5
    <2>8. f \in Elements(s)
      BY <2>2, <2>6 DEF Elements
    <2>9. QED
      BY <2>7, <2>8 DEF First, At, s
  <1>4. QED
    BY <1>2, <1>3

(* What an Install that is not mistaken does to all levels.                *)
LEMMA SoundInstall ==
  ASSUME CompactionAssumption, IInv, NEW t \in Thread, Install(t), ~Mistaken(job[t])
  PROVE  \E new, v : /\ job[t] \in Compact /\ Written(job[t], id, new)
                     /\ Edit(job[t], Level, new, v) /\ FileIndex' = v.index
                     /\ \A f \in Elements(job[t].files) : f \in At(FileIndex, f.level)
  <1> DEFINE c == job[t]
             new == NewFiles(c, id)
             v == Edited(c, id)
  <1>1. pc[t] = "run" /\ FileIndex' = v.index
    BY DEF Install
  <1>2. c \in Compact /\ id \in Nat /\ TreeInv
    BY <1>1 DEF IInv, ListInv, TreeInv
  <1>3. t \in Runs
    BY <1>1 DEF Runs
  <1>4. <<"run", t>> \in DOMAIN Work /\ Work[<<"run", t>>] = c
    BY <1>3, SlotsAre, WorksAre DEF Work
  <1>5. Present(FileIndex, c.files)
    BY <1>4 DEF IInv, Held, Inputs
  <1>6. Findable(Level, c.files)
    BY <1>2, <1>5, FindsAll
  <1>7. Written(c, id, new)
    BY <1>2, NewFilesAre
  <1>8. 0 \in Level
    BY DEF Level, CompactionAssumption
  <1>9. Edit(c, Level, new, v)
    BY <1>2, <1>6, <1>8, EditedIs
  <1>10. \A f \in Elements(c.files) : f \in At(FileIndex, f.level)
    <2>1. c.files \in Seq(File)
      BY <1>2 DEF Compact
    <2>2. \A f \in Elements(c.files) : f \in File
      BY <2>1 DEF Elements
    <2>3. \A f \in Elements(c.files) : f.level \in Level
      BY <2>2 DEF File
    <2>4. QED
      BY <1>6, <2>3 DEF Findable, First
  <1> HIDE DEF c, new, v
  <1>11. QED
    BY <1>1, <1>2, <1>7, <1>9, <1>10 DEF c

LEMMA InstallKeepsKeys ==
  ASSUME CompactionAssumption, IInv, NEW t \in Thread, Install(t)
  PROVE  /\ ~Mistaken(job[t]) =>
              /\ \A f \in AllFiles \ AllFiles' : f \in FilesIn(job[t])
              /\ InFiles \subseteq InFiles'
         /\ job[t].files = <<>> => KeysOf(job[t].rows) \subseteq InFiles'
  <1> DEFINE c == job[t]
  <1>1. SUFFICES ASSUME ~Mistaken(c)
                 PROVE  /\ \A f \in AllFiles \ AllFiles' : f \in FilesIn(c)
                        /\ InFiles \subseteq InFiles'
                        /\ c.files = <<>> => KeysOf(c.rows) \subseteq InFiles'
    <2>1. c.files = <<>> => ~Mistaken(c)
      BY DEF Mistaken, FilesIn
    <2>2. QED
      BY <1>1, <2>1
  <1>2. PICK new, v : /\ c \in Compact /\ Written(c, id, new) /\ Edit(c, Level, new, v)
                      /\ FileIndex' = v.index
                      /\ \A f \in Elements(c.files) : f \in At(FileIndex, f.level)
    BY <1>1, SoundInstall
  <1>3. /\ id \in Nat /\ Tree(FileIndex, id)
        /\ \A l \in Level : At(v.index, l) =
              (At(FileIndex, l) \cup Added(c, new, l)) \ Elements(c.files)
    BY <1>2 DEF IInv, TreeInv, Edit
  <1> HIDE DEF c
  <1>4. \A k \in Key :
           Holds(v.index, k) <=> Holds(FileIndex, k) \/ (c.files = <<>> /\ c.rows[k] # 0)
    BY <1>2, <1>3, EditHolds
  <1>5. /\ AllFiles = UNION {At(FileIndex, l) : l \in Level}
        /\ AllFiles' = UNION {At(v.index, l) : l \in Level}
        /\ FilesIn(c) = Elements(c.files)
    BY <1>2 DEF AllFiles, FilesOf, At, Elements, FilesIn
  <1>6. /\ \A k : k \in InFiles <=> k \in Key /\ Holds(FileIndex, k)
        /\ \A k : k \in InFiles' <=> k \in Key /\ Holds(v.index, k)
    BY <1>5 DEF InFiles, Holds, KeysOf
  <1>7. \A f \in AllFiles \ AllFiles' : f \in FilesIn(c)
    BY <1>3, <1>5
  <1>8. QED
    BY <1>4, <1>6, <1>7 DEF KeysOf

LEMMA StepKeepsKeys ==
  ASSUME CompactionAssumption, IInv, IInv', [Next]_vars
  PROVE  /\ \A f \in AllFiles' : KeysOf(f.rows) # {}
         /\ \A f \in AllFiles \ AllFiles' :
               \E t \in Thread : Ends(t) /\ (f \in FilesIn(job[t]) \/ Mistaken(job[t]))
         /\ \A k \in InFiles \ InFiles' : \E t \in Thread : Ends(t) /\ Mistaken(job[t])
         /\ \A t \in Thread :
               Ends(t) /\ job[t].files = <<>> => KeysOf(job[t].rows) \subseteq InFiles'
  <1>1. \A f \in AllFiles' : KeysOf(f.rows) # {}
    <2>1. FileIndex' \in [Level -> Seq(File)]
      BY DEF IInv, TreeInv, Tree
    <2>2. \A f \in AllFiles' : f \in File
      BY <2>1 DEF AllFiles, FilesOf
    <2>3. QED
      BY <2>2 DEF File
  <1>2. pc \in [Thread -> {"try", "pop", "run"}]
    BY DEF IInv, ListInv
  <1>3. CASE FileIndex' = FileIndex /\ \A t \in Thread : ~Ends(t)
    <2>1. AllFiles' = AllFiles /\ InFiles' = InFiles
      BY <1>3 DEF AllFiles, FilesOf, InFiles
    <2>2. QED
      BY <1>1, <1>3, <2>1
  <1>4. ASSUME NEW t \in Thread, Install(t)
        PROVE  /\ \A f \in AllFiles \ AllFiles' :
                     \E u \in Thread : Ends(u) /\ (f \in FilesIn(job[u]) \/ Mistaken(job[u]))
               /\ \A k \in InFiles \ InFiles' :
                     \E u \in Thread : Ends(u) /\ Mistaken(job[u])
               /\ \A u \in Thread :
                     Ends(u) /\ job[u].files = <<>> => KeysOf(job[u].rows) \subseteq InFiles'
    <2>1. pc[t] = "run" /\ pc' = [pc EXCEPT ![t] = "try"]
      BY <1>4 DEF Install
    <2>2. \A u \in Thread : Ends(u) <=> u = t
      BY <1>2, <2>1 DEF Ends
    <2>3. /\ ~Mistaken(job[t]) =>
               /\ \A f \in AllFiles \ AllFiles' : f \in FilesIn(job[t])
               /\ InFiles \subseteq InFiles'
          /\ job[t].files = <<>> => KeysOf(job[t].rows) \subseteq InFiles'
      BY <1>4, InstallKeepsKeys
    <2>4. QED
      BY <2>2, <2>3
  <1>5. CASE UNCHANGED vars
    BY <1>3, <1>5 DEF vars, treeVars, Ends
  <1>6. ASSUME NEW keys \in Batch, QueueMemtable(keys)
        PROVE  FileIndex' = FileIndex /\ \A t \in Thread : ~Ends(t)
    BY <1>6 DEF QueueMemtable, treeVars, Ends
  <1>7. ASSUME NEW t \in Thread, TryCompaction(t) \/ Pop(t) \/ WaitForWork(t)
        PROVE  FileIndex' = FileIndex /\ \A u \in Thread : ~Ends(u)
    <2>1. /\ FileIndex' = FileIndex /\ pc[t] # "run"
          /\ \E p : pc' = [pc EXCEPT ![t] = p]
      BY <1>7 DEF TryCompaction, Pop, WaitForWork, treeVars
    <2>2. QED
      BY <1>2, <2>1 DEF Ends
  <1>8. QED
    BY <1>1, <1>3, <1>4, <1>5, <1>6, <1>7 DEF Next, ThreadStep

(* No key gets lost in compaction except through a mistaken one: a file    *)
(* leaves the version as the input of a merge that writes all its rows     *)
(* again, and what was persisted stays in some file.                       *)
THEOREM KeysStay == Spec => KeysKept
  <1>1. IInv /\ IInv' /\ [Next]_vars =>
          [/\ \A f \in AllFiles' : KeysOf(f.rows) # {}
           /\ \A f \in AllFiles \ AllFiles' :
                 \E t \in Thread : Ends(t) /\ (f \in FilesIn(job[t]) \/ Mistaken(job[t]))
           /\ \A k \in InFiles \ InFiles' : \E t \in Thread : Ends(t) /\ Mistaken(job[t])
           /\ \A t \in Thread :
                 Ends(t) /\ job[t].files = <<>> => KeysOf(job[t].rows) \subseteq InFiles']_vars
    BY StepKeepsKeys, CompactionAssumption
  <1>2. QED
    BY <1>1, Invariance, PTL DEF Spec, KeysKept
=============================================================================
