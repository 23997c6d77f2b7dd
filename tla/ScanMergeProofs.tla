-------------------------- MODULE ScanMergeProofs ---------------------------
(***************************************************************************)
(* Proofs about RelFile, ScanMerge and MultiKeyRead for every set of keys  *)
(* and strings, size of blocks, size of files and number of memtables:     *)
(* what is written to a file is read from it, through any number of        *)
(* merges; a scan of memtables and files gives every key put, once, in     *)
(* order and with the tuple of a point read; a range read misses no tuple  *)
(* of the range; and of levels that are sorted runs the first k tuples     *)
(* from a key on are those a scan would begin with.                        *)
(*                                                                         *)
(* From the bytes up: a file's fields lie where they were appended, so the *)
(* parsers read the keys and indices the builder was given; a binary       *)
(* search finds a key's row, an index the string it was made from; hence   *)
(* what a memtable or a merge is persisted as holds its rows (FilesInv).   *)
(* On top of it a scan's pointers: each at a row of its source, beyond all *)
(* tuples given and not beyond the next key of its source (ScanInv).  The  *)
(* reads of MultiKeyRead are functions of a state, so what they answer     *)
(* follows from FilesInv alone, by induction over memtables, files, blocks *)
(* and the steps of a merge.                                               *)
(***************************************************************************)
EXTENDS MultiKeyRead, FiniteSetTheorems, FunctionTheorems, WellFoundedInduction, TLAPS
(* A set of numbers has a least, ...                                       *)
LEMMA LeastNumber ==
  ASSUME NEW T, T \subseteq Nat, T # {}
  PROVE  \E m \in T : \A n \in T : m <= n
  <1> DEFINE R == OpToRel(<, Nat)
  <1>1. PICK m \in T : \A n \in T : ~(<<n, m>> \in R)
    BY NatLessThanWellFounded, WFMin
  <1>2. \A n \in T : n < m => <<n, m>> \in R
    BY DEF OpToRel
  <1>3. \A n \in T : ~(n < m)
    BY <1>1, <1>2
  <1>4. \A n \in T : m <= n
    <2> HIDE DEF R
    <2>1. QED
      BY <1>3
  <1> HIDE DEF R
  <1>5. QED
    BY <1>4

(* Min of a set of numbers is its least.                                   *)
LEMMA MinIs ==
  ASSUME NEW T, T \subseteq Nat, T # {}
  PROVE  Min(T) \in T /\ \A n \in T : Min(T) <= n
  <1>1. \E m \in T : \A n \in T : m <= n
    BY LeastNumber
  <1>2. QED
    BY <1>1 DEF Min

(* ... and what holds of 0 and of each one's successor holds of all.       *)
LEMMA Induction ==
  ASSUME NEW T, 0 \in T, \A n \in Nat : n \in T => n + 1 \in T
  PROVE  \A n \in Nat : n \in T
  <1> SUFFICES ASSUME NEW k \in Nat, k \notin T PROVE FALSE
    OBVIOUS
  <1>1. PICK m \in Nat \ T : \A n \in Nat \ T : m <= n
    BY LeastNumber
  <1>2. m # 0 /\ m - 1 \in T
    BY <1>1
  <1>3. QED
    BY <1>1, <1>2

(* The place of an element: below the number of elements, and in order.    *)
LEMMA PlaceType ==
  ASSUME NEW S, IsFiniteSet(S), NEW x
  PROVE  Place(S, x) \in Nat /\ Cardinality(S) \in Nat /\ Place(S, x) <= Cardinality(S)
  <1> DEFINE B == {y \in S : y < x}
  <1>1. B \in SUBSET S
    OBVIOUS
  <1>2. Place(S, x) = Cardinality(B)
    BY DEF Place
  <1> HIDE DEF B
  <1>3. QED
    BY <1>1, <1>2, FS_Subset, FS_CardinalityType

(* An element's place is below the number of elements, ...                 *)
LEMMA PlaceInside ==
  ASSUME NEW S, IsFiniteSet(S), S \subseteq Int, NEW x \in S
  PROVE  Place(S, x) < Cardinality(S)
  <1> DEFINE B == {y \in S : y < x}
  <1>1. B \in SUBSET S /\ B # S
    OBVIOUS
  <1>2. Cardinality(B) <= Cardinality(S) /\ Cardinality(B) # Cardinality(S)
    <2> HIDE DEF B
    <2>1. QED
      BY <1>1, FS_Subset
  <1>3. Place(S, x) = Cardinality(B)
    BY DEF Place
  <1>4. QED
    BY <1>2, <1>3, PlaceType

(* ... and smaller than the place of anything greater.                     *)
LEMMA PlaceOrder ==
  ASSUME NEW S, IsFiniteSet(S), S \subseteq Int, NEW x \in S, NEW z \in Int, x < z
  PROVE  Place(S, x) < Place(S, z)
  <1> DEFINE B == {y \in S : y < x}
             C == {y \in S : y < z}
  <1>1. B \in SUBSET C /\ B # C /\ C \in SUBSET S
    <2>1. x \in C /\ x \notin B
      OBVIOUS
    <2>2. \A y \in S : y < x => y < z
      OBVIOUS
    <2>3. QED
      BY <2>1, <2>2
  <1>2. IsFiniteSet(C)
    <2> HIDE DEF B, C
    <2>1. QED
      BY <1>1, FS_Subset
  <1>3. Cardinality(B) <= Cardinality(C) /\ Cardinality(B) # Cardinality(C)
    <2> HIDE DEF B, C
    <2>1. QED
      BY <1>1, <1>2, FS_Subset
  <1>4. Place(S, x) = Cardinality(B) /\ Place(S, z) = Cardinality(C)
    BY DEF Place
  <1>5. QED
    BY <1>3, <1>4, PlaceType

(* The same at once, for all elements.                                     *)
LEMMA PlaceIs ==
  ASSUME NEW S, IsFiniteSet(S), S \subseteq Int
  PROVE  /\ Cardinality(S) \in Nat
         /\ \A x \in Int : Place(S, x) \in Nat /\ Place(S, x) <= Cardinality(S)
         /\ \A x \in S : x \in Int /\ Place(S, x) \in Nat /\ Place(S, x) < Cardinality(S)
         /\ \A x \in S : \A z \in Int : x < z => Place(S, x) < Place(S, z)
  <1>1. Cardinality(S) \in Nat
    BY FS_CardinalityType
  <1>2. ASSUME NEW x \in Int PROVE Place(S, x) \in Nat /\ Place(S, x) <= Cardinality(S)
    BY PlaceType
  <1>3. ASSUME NEW x \in S PROVE x \in Int /\ Place(S, x) \in Nat /\ Place(S, x) < Cardinality(S)
    BY <1>2, PlaceInside
  <1>4. ASSUME NEW x \in S, NEW z \in Int, x < z PROVE Place(S, x) < Place(S, z)
    BY <1>4, PlaceOrder
  <1>5. QED
    BY <1>1, <1>2, <1>3, <1>4

(* Every place is some element's.                                          *)
LEMMA PlaceOnto ==
  ASSUME NEW S, IsFiniteSet(S), S \subseteq Int, NEW i \in 1 .. Cardinality(S)
  PROVE  \E x \in S : Place(S, x) = i - 1
  <1> DEFINE f == [x \in S |-> Place(S, x)]
             c == Cardinality(S)
             T == 0 .. c - 1
  <1>1. c \in Nat
    BY FS_CardinalityType
  <1>2. /\ \A x \in S : x \in Int /\ Place(S, x) \in Nat /\ Place(S, x) < Cardinality(S)
        /\ \A x \in S : \A z \in Int : x < z => Place(S, x) < Place(S, z)
    BY PlaceIs
  <1>3. \A x \in S : Place(S, x) \in T
    BY <1>2, <1>1
  <1>4. \A x, y \in S : Place(S, x) = Place(S, y) => x = y
    <2>1. ASSUME NEW x \in S, NEW y \in S, x < y PROVE Place(S, x) # Place(S, y)
      BY <1>2, <2>1
    <2>2. QED
      BY <2>1
  <1>5. f \in Injection(S, T)
    BY <1>3, <1>4 DEF Injection, IsInjective
  <1>6. IsFiniteSet(T) /\ Cardinality(T) = c
    <2>1. IsFiniteSet(0 .. c - 1) /\ Cardinality(0 .. c - 1) = IF 0 > c - 1 THEN 0 ELSE c - 1 - 0 + 1
      <3>1. 0 \in Int /\ c - 1 \in Int
        BY <1>1
      <3> HIDE DEF c
      <3>2. QED
        BY <3>1, FS_Interval
    <2>2. QED
      BY <1>1, <2>1
  <1>7. f \in Surjection(S, T)
    <2> HIDE DEF f, T
    <2>1. QED
      BY <1>5, <1>6, FS_Injection
  <1>8. i - 1 \in T
    BY <1>1
  <1>9. QED
    BY <1>7, <1>8 DEF Surjection

(* Sorted gives every element once, in order, at its place.                *)
LEMMA SortedIs ==
  ASSUME NEW S, IsFiniteSet(S), S \subseteq Int
  PROVE  /\ Cardinality(S) \in Nat /\ Sorted(S) \in [1 .. Cardinality(S) -> S]
         /\ \A i, j \in 1 .. Cardinality(S) : i < j => Sorted(S)[i] < Sorted(S)[j]
         /\ \A i \in 1 .. Cardinality(S) : Place(S, Sorted(S)[i]) = i - 1
         /\ \A x \in S : /\ Place(S, x) + 1 \in 1 .. Cardinality(S)
                         /\ Sorted(S)[Place(S, x) + 1] = x
         /\ Range(Sorted(S)) = S
  <1> DEFINE c == Cardinality(S)
  <1>1. c \in Nat
    BY FS_CardinalityType
  <1>2. /\ \A x \in S : x \in Int /\ Place(S, x) \in Nat /\ Place(S, x) < Cardinality(S)
        /\ \A x \in S : \A z \in Int : x < z => Place(S, x) < Place(S, z)
    BY PlaceIs
  <1>3. \A i \in 1 .. c : Sorted(S)[i] \in S /\ Place(S, Sorted(S)[i]) = i - 1
    BY PlaceOnto DEF Sorted
  <1>4. Sorted(S) \in [1 .. c -> S]
    BY <1>3 DEF Sorted
  <1>5. ASSUME NEW i \in 1 .. c, NEW j \in 1 .. c, i < j PROVE Sorted(S)[i] < Sorted(S)[j]
    <2>1. Sorted(S)[i] \in Int /\ Sorted(S)[j] \in Int
      BY <1>3
    <2>2. Sorted(S)[i] # Sorted(S)[j]
      BY <1>1, <1>3, <1>5
    <2>3. CASE Sorted(S)[j] < Sorted(S)[i]
      <3>1. Place(S, Sorted(S)[j]) < Place(S, Sorted(S)[i])
        BY <1>2, <1>3, <2>1, <2>3
      <3>2. QED
        BY <1>1, <1>3, <1>5, <3>1
    <2>4. QED
      BY <2>1, <2>2, <2>3
  <1>6. ASSUME NEW x \in S
        PROVE  Place(S, x) + 1 \in 1 .. c /\ Sorted(S)[Place(S, x) + 1] = x
    <2>1. Place(S, x) + 1 \in 1 .. c
      BY <1>2, <1>1
    <2> DEFINE z == Sorted(S)[Place(S, x) + 1]
    <2>2. z \in S /\ Place(S, z) = Place(S, x)
      BY <1>2, <1>3, <2>1
    <2> HIDE DEF z
    <2>3. ~(z < x) /\ ~(x < z)
      BY <1>2, <2>2
    <2>4. z = x
      BY <2>2, <2>3
    <2>5. QED
      BY <2>1, <2>4 DEF z
  <1>7. Range(Sorted(S)) = S
    BY <1>4, <1>6 DEF Range
  <1> HIDE DEF c
  <1>8. QED
    BY <1>1, <1>3, <1>4, <1>5, <1>6, <1>7 DEF c

(* num rows make parts that begin where the one before ends; only the last *)
(* is shorter.                                                             *)
LEMMA PartsIs ==
  ASSUME NEW num \in Nat \ {0}, NEW size \in Nat \ {0}
  PROVE  /\ Parts(num, size) \in Nat \ {0}
         /\ (Parts(num, size) - 1) * size < num
         /\ num <= (Parts(num, size) - 1) * size + size
  <1> DEFINE q == (num - 1) \div size
  <1>1. q \in Nat /\ q * size <= num - 1 /\ num - 1 < q * size + size
    <2>1. num - 1 \in Nat /\ size \in Nat /\ size > 0
      OBVIOUS
    <2>2. \A a, b \in Nat : b > 0 =>
             a \div b \in Nat /\ (a \div b) * b <= a /\ a < (a \div b) * b + b
      OBVIOUS
    <2>3. QED
      BY <2>1, <2>2
  <1>2. Parts(num, size) = q + 1
    BY DEF Parts
  <1> HIDE DEF q
  <1>3. Parts(num, size) - 1 = q
    BY <1>1, <1>2
  <1>4. QED
    BY <1>1, <1>2, <1>3

(* The rows before part i.                                                 *)
Before(size, i) == (i - 1) * size

(* Parts follow one another and reach to the end, ...                      *)
LEMMA BeforeIs ==
  ASSUME NEW num \in Nat \ {0}, NEW size \in Nat \ {0}
  PROVE  /\ Before(size, 1) = 0
         /\ \A i \in Nat \ {0} : /\ Before(size, i) \in Nat
                                 /\ Before(size, i + 1) = Before(size, i) + size
         /\ \A i, j \in Nat \ {0} : i < j => Before(size, i) + size <= Before(size, j)
         /\ Before(size, Parts(num, size)) < num
         /\ num <= Before(size, Parts(num, size)) + size
         /\ \A i \in Nat \ {0} : i < Parts(num, size) => Before(size, i) + size < num
  <1>1. \A i \in Nat \ {0} : /\ Before(size, i) \in Nat
                             /\ Before(size, i + 1) = Before(size, i) + size
    <2>1. ASSUME NEW i \in Nat \ {0} PROVE /\ (i - 1) * size \in Nat
                                           /\ (i + 1 - 1) * size = (i - 1) * size + size
      OBVIOUS
    <2>2. QED
      BY <2>1 DEF Before
  <1>2. ASSUME NEW i \in Nat \ {0}, NEW j \in Nat \ {0}, i < j
        PROVE  Before(size, i) + size <= Before(size, j)
    <2>1. PICK d \in Nat : j = i + 1 + d
      <3>1. j - i - 1 \in Nat /\ j = i + 1 + (j - i - 1)
        BY <1>2
      <3>2. QED
        BY <3>1
    <2>2. (j - 1) * size = (i - 1) * size + size + d * size /\ d * size \in Nat
      BY <2>1
    <2>3. (i - 1) * size \in Nat
      OBVIOUS
    <2>4. QED
      BY <2>2, <2>3 DEF Before
  <1>3. Before(size, 1) = 0
    BY DEF Before
  <1>4. /\ Before(size, Parts(num, size)) < num
        /\ num <= Before(size, Parts(num, size)) + size
    BY PartsIs DEF Before
  <1>5. ASSUME NEW i \in Nat \ {0}, i < Parts(num, size) PROVE Before(size, i) + size < num
    <2>1. Parts(num, size) \in Nat \ {0}
      BY PartsIs
    <2>2. Before(size, i) + size <= Before(size, Parts(num, size))
      BY <1>2, <1>5, <2>1
    <2>3. Before(size, i) \in Nat /\ Before(size, Parts(num, size)) \in Nat
      BY <1>1, <2>1
    <2>4. QED
      BY <1>4, <2>2, <2>3
  <1>6. QED
    BY <1>1, <1>2, <1>3, <1>4, <1>5

(* The number of rows in part i of num.                                    *)
PartLen(num, size, i) ==
    IF i < Parts(num, size) THEN size ELSE num - Before(size, Parts(num, size))

(* ... none of them is empty or too long, ...                              *)
LEMMA PartLenIs ==
  ASSUME NEW num \in Nat \ {0}, NEW size \in Nat \ {0}, NEW i \in 1 .. Parts(num, size)
  PROVE  /\ i \in Nat \ {0} /\ Before(size, i) \in Nat
         /\ PartLen(num, size, i) \in Nat \ {0}
         /\ PartLen(num, size, i) <= size
         /\ Before(size, i) + PartLen(num, size, i) <= num
         /\ i < Parts(num, size) => Before(size, i + 1) = Before(size, i) + PartLen(num, size, i)
         /\ i = Parts(num, size) => num = Before(size, i) + PartLen(num, size, i)
  <1>1. Parts(num, size) \in Nat \ {0} /\ i \in Nat \ {0}
    BY PartsIs
  <1>2. /\ \A j \in Nat \ {0} : /\ Before(size, j) \in Nat
                                /\ Before(size, j + 1) = Before(size, j) + size
        /\ Before(size, Parts(num, size)) < num
        /\ num <= Before(size, Parts(num, size)) + size
        /\ \A j \in Nat \ {0} : j < Parts(num, size) => Before(size, j) + size < num
    BY BeforeIs
  <1>3. CASE i < Parts(num, size)
    <2>1. PartLen(num, size, i) = size
      BY <1>3 DEF PartLen
    <2>2. QED
      BY <1>1, <1>2, <1>3, <2>1
  <1>4. CASE i = Parts(num, size)
    <2>1. PartLen(num, size, i) = num - Before(size, i)
      BY <1>1, <1>4 DEF PartLen
    <2>2. QED
      BY <1>1, <1>2, <1>4, <2>1
  <1>5. QED
    BY <1>1, <1>3, <1>4

(* ... and part i has the rows there.                                      *)
LEMMA PartIs ==
  ASSUME NEW X, NEW rows \in Seq(X), rows # <<>>, NEW size \in Nat \ {0},
         NEW i \in 1 .. Parts(Len(rows), size)
  PROVE  /\ Part(rows, size, i) \in Seq(X)
         /\ Len(Part(rows, size, i)) = PartLen(Len(rows), size, i)
         /\ \A m \in 1 .. PartLen(Len(rows), size, i) :
               /\ Part(rows, size, i)[m] = rows[Before(size, i) + m]
               /\ Before(size, i) + m \in 1 .. Len(rows)
  <1> DEFINE num == Len(rows)
             a == Before(size, i)
             c == PartLen(num, size, i)
  <1>1. num \in Nat \ {0}
    OBVIOUS
  <1>2. /\ i \in Nat \ {0} /\ a \in Nat /\ c \in Nat \ {0} /\ a + c <= num
        /\ i < Parts(num, size) => c = size /\ Before(size, i + 1) = a + size
        /\ i >= Parts(num, size) => num = a + c
    <2>1. Parts(num, size) \in Nat
      <3> HIDE DEF num
      <3>1. QED
        BY <1>1, PartsIs
    <2>2. i < Parts(num, size) => c = size
      BY DEF PartLen
    <2>3. /\ i \in Nat \ {0} /\ a \in Nat /\ c \in Nat \ {0} /\ a + c <= num
          /\ i < Parts(num, size) => Before(size, i + 1) = a + c
          /\ i = Parts(num, size) => num = a + c
      <3>1. i \in 1 .. Parts(num, size)
        OBVIOUS
      <3> HIDE DEF num
      <3>2. QED
        BY <1>1, <3>1, PartLenIs DEF a, c
    <2>4. i <= Parts(num, size)
      BY <2>1
    <2> HIDE DEF num, c, a
    <2>5. QED
      BY <2>1, <2>2, <2>3, <2>4
  <1>3. Part(rows, size, i) = SubSeq(rows, a + 1, a + c)
    <2>1. CASE i < Parts(num, size)
      <3>1. a + c = i * size
        BY <1>2, <2>1 DEF Before
      <3>2. QED
        BY <2>1, <3>1 DEF Part, Before
    <2>2. CASE ~(i < Parts(num, size))
      <3>1. a + c = num
        <4>1. Parts(num, size) \in Nat
          <5> HIDE DEF num
          <5>1. QED
            BY <1>1, PartsIs
        <4> HIDE DEF a, c, num
        <4>2. QED
          BY <1>2, <2>2, <4>1
      <3>2. QED
        BY <2>2, <3>1 DEF Part, Before
    <2>3. QED
      BY <2>1, <2>2
  <1> HIDE DEF num, a, c
  <1>4. /\ SubSeq(rows, a + 1, a + c) \in Seq(X)
        /\ Len(SubSeq(rows, a + 1, a + c)) = c
        /\ \A m \in 1 .. c : SubSeq(rows, a + 1, a + c)[m] = rows[a + m]
    BY <1>1, <1>2 DEF num
  <1>5. \A m \in 1 .. c : a + m \in 1 .. num
    BY <1>1, <1>2
  <1>6. QED
    BY <1>3, <1>4, <1>5 DEF num, a, c

(* Every row is in a part.                                                 *)
LEMMA PartOfRow ==
  ASSUME NEW num \in Nat \ {0}, NEW size \in Nat \ {0}, NEW j \in 1 .. num
  PROVE  \E i \in 1 .. Parts(num, size) : \E m \in 1 .. PartLen(num, size, i) :
            j = Before(size, i) + m
  <1> DEFINE T == {i \in Nat \ {0} : i <= Parts(num, size) /\ Before(size, i) < j}
             U == {Parts(num, size) - i : i \in T}
  <1>1. Parts(num, size) \in Nat \ {0}
    BY PartsIs
  <1>2. /\ Before(size, 1) = 0
        /\ \A i \in Nat \ {0} : /\ Before(size, i) \in Nat
                                /\ Before(size, i + 1) = Before(size, i) + size
    BY BeforeIs
  <1>3. 1 \in T
    BY <1>1, <1>2
  <1>4. U \subseteq Nat /\ U # {}
    BY <1>1, <1>3
  <1>5. PICK i \in T : \A k \in T : k <= i
    <2>1. PICK u \in U : \A v \in U : u <= v
      <3> HIDE DEF U
      <3>1. QED
        BY <1>4, LeastNumber
    <2>2. PICK i \in T : u = Parts(num, size) - i
      BY <2>1
    <2>3. \A k \in T : u <= Parts(num, size) - k
      BY <2>1
    <2>4. \A k \in T : k <= i
      BY <1>1, <2>2, <2>3
    <2>5. QED
      BY <2>4
  <1>6. i \in 1 .. Parts(num, size) /\ Before(size, i) < j
    BY <1>1, <1>5
  <1>7. j <= Before(size, i) + PartLen(num, size, i)
    <2>1. CASE i = Parts(num, size)
      BY <1>6, <2>1, PartLenIs
    <2>2. CASE i < Parts(num, size)
      <3>1. i + 1 \notin T
        BY <1>5, <1>6
      <3>2. ~(Before(size, i + 1) < j)
        BY <1>1, <1>6, <2>2, <3>1
      <3>3. Before(size, i + 1) = Before(size, i) + PartLen(num, size, i)
        BY <1>6, <2>2, PartLenIs
      <3>4. Before(size, i + 1) \in Nat
        BY <1>2, <1>6
      <3>5. QED
        BY <3>2, <3>3, <3>4
    <2>3. QED
      BY <1>1, <1>6, <2>1, <2>2
  <1> HIDE DEF T, U
  <1>8. Before(size, i) \in Nat /\ PartLen(num, size, i) \in Nat \ {0}
    BY <1>6, PartLenIs
  <1>9. j - Before(size, i) \in 1 .. PartLen(num, size, i)
    BY <1>6, <1>7, <1>8
  <1>10. j = Before(size, i) + (j - Before(size, i))
    BY <1>8
  <1>11. QED
    BY <1>6, <1>9, <1>10

-----------------------------------------------------------------------------
(* Nothing is written beyond the end.                                      *)
Written(f) == f.len \in Nat /\ DOMAIN f.at \subseteq 0 .. f.len - 1

(* What is in f stays where it is in g.                                    *)
Keeps(f, g) == \A o \in DOMAIN f.at : o \in DOMAIN g.at /\ g.at[o] = f.at[o]

(* Field n of values is at its offset from o on.                           *)
Holds(g, o, size, values) ==
    \A n \in 1 .. Len(values) :
        o + size * (n - 1) \in DOMAIN g.at /\ g.at[o + size * (n - 1)] = values[n]

(* Fields that are kept are there afterwards, ...                          *)
LEMMA KeepsHolds ==
  ASSUME NEW f, NEW g, Keeps(f, g), NEW o, NEW size, NEW values, Holds(f, o, size, values)
  PROVE  Holds(g, o, size, values)
  BY DEF Keeps, Holds

(* ... and after the next step.                                            *)
LEMMA KeepsTransitive ==
  ASSUME NEW f, NEW g, NEW h, Keeps(f, g), Keeps(g, h)
  PROVE  Keeps(f, h)
  BY DEF Keeps

(* Appending writes the values at the end and keeps all there was.         *)
LEMMA AppendAllIs ==
  ASSUME NEW f, Written(f), NEW size \in {IdxSize, SizeSize, KEY_SIZE}, NEW X, NEW values \in Seq(X)
  PROVE  LET g == AppendAll(f, size, values)
         IN  /\ Written(g) /\ Keeps(f, g) /\ Holds(g, f.len, size, values)
             /\ g.len = f.len + size * Len(values)
  <1> DEFINE new == {f.len + size * (n - 1) : n \in DOMAIN values}
             g == AppendAll(f, size, values)
  <1>1. size \in Nat /\ size > 0 /\ f.len \in Nat /\ Len(values) \in Nat
        /\ DOMAIN values = 1 .. Len(values)
    BY DEF IdxSize, SizeSize, KEY_SIZE, Written
  <1>2. g.len = f.len + size * Len(values) /\ g.at = [o \in DOMAIN f.at \cup new |->
                   IF o \in new THEN values[(o - f.len) \div size + 1] ELSE f.at[o]]
    BY DEF AppendAll
  <1>3. /\ DOMAIN g.at = DOMAIN f.at \cup new
        /\ \A o \in DOMAIN g.at :
              g.at[o] = IF o \in new THEN values[(o - f.len) \div size + 1] ELSE f.at[o]
    <2> HIDE DEF new, g
    <2>1. QED
      BY <1>2
  <1>4. ASSUME NEW n \in 1 .. Len(values)
        PROVE  /\ f.len + size * (n - 1) \in Nat
               /\ f.len <= f.len + size * (n - 1)
               /\ f.len + size * (n - 1) < f.len + size * Len(values)
               /\ (size * (n - 1)) \div size + 1 = n
    <2>1. CASE size = 4
      BY <1>1, <2>1
    <2>2. CASE size = 8
      BY <1>1, <2>2
    <2>3. CASE size = 16
      BY <1>1, <2>3
    <2>4. QED
      BY <2>1, <2>2, <2>3 DEF IdxSize, SizeSize, KEY_SIZE
  <1>5. Written(g)
    <2>1. g.len \in Nat /\ f.len <= g.len
      <3>1. CASE size = 4
        BY <1>1, <1>2, <3>1
      <3>2. CASE size = 8
        BY <1>1, <1>2, <3>2
      <3>3. CASE size = 16
        BY <1>1, <1>2, <3>3
      <3>4. QED
        BY <3>1, <3>2, <3>3 DEF IdxSize, SizeSize, KEY_SIZE
    <2>2. \A o \in new : o \in 0 .. g.len - 1
      <3> SUFFICES ASSUME NEW n \in 1 .. Len(values)
                   PROVE  f.len + size * (n - 1) \in 0 .. g.len - 1
        BY <1>1
      <3>1. QED
        BY <1>1, <1>2, <1>4, <2>1
    <2>3. \A o \in DOMAIN f.at : o \in 0 .. g.len - 1
      <3>1. DOMAIN f.at \subseteq 0 .. f.len - 1
        BY DEF Written
      <3>2. QED
        BY <1>1, <2>1, <3>1
    <2> HIDE DEF new, g
    <2>4. QED
      BY <1>3, <2>1, <2>2, <2>3 DEF Written
  <1>6. Keeps(f, g)
    <2>1. \A o \in DOMAIN f.at : o \notin new
      <3> SUFFICES ASSUME NEW o \in DOMAIN f.at, NEW n \in 1 .. Len(values),
                          o = f.len + size * (n - 1)
                   PROVE  FALSE
        BY <1>1
      <3>1. o \in 0 .. f.len - 1
        BY DEF Written
      <3>2. f.len <= o
        BY <1>4
      <3>3. QED
        BY <1>1, <3>1, <3>2
    <2> HIDE DEF new, g
    <2>2. QED
      BY <1>3, <2>1 DEF Keeps
  <1>7. Holds(g, f.len, size, values)
    <2> SUFFICES ASSUME NEW n \in 1 .. Len(values)
                 PROVE  /\ f.len + size * (n - 1) \in DOMAIN g.at
                        /\ g.at[f.len + size * (n - 1)] = values[n]
      BY DEF Holds
    <2> DEFINE o == f.len + size * (n - 1)
    <2>1. o \in new
      BY <1>1
    <2>2. (o - f.len) \div size + 1 = n
      <3>1. o - f.len = size * (n - 1)
        BY <1>1
      <3>2. (size * (n - 1)) \div size + 1 = n
        BY <1>4
      <3> HIDE DEF o
      <3>3. QED
        BY <3>1, <3>2
    <2> HIDE DEF o, new, g
    <2>3. o \in DOMAIN g.at /\ g.at[o] = values[(o - f.len) \div size + 1]
      BY <1>3, <2>1
    <2>4. QED
      BY <2>2, <2>3 DEF o
  <1> HIDE DEF g
  <1>8. QED
    BY <1>2, <1>5, <1>6, <1>7 DEF g

(* The same for one value.                                                 *)
LEMMA Append1Is ==
  ASSUME NEW f, Written(f), NEW size \in {IdxSize, SizeSize, KEY_SIZE}, NEW value
  PROVE  LET g == Append1(f, size, value)
         IN  /\ Written(g) /\ Keeps(f, g) /\ g.len = f.len + size
             /\ f.len \in DOMAIN g.at /\ g.at[f.len] = value
  <1> DEFINE g == AppendAll(f, size, <<value>>)
  <1>1. <<value>> \in Seq({value}) /\ Len(<<value>>) = 1 /\ <<value>>[1] = value
    OBVIOUS
  <1>2. f.len \in Nat /\ size \in Nat
    BY DEF Written, IdxSize, SizeSize, KEY_SIZE
  <1>3. Written(g) /\ Keeps(f, g) /\ Holds(g, f.len, size, <<value>>)
        /\ g.len = f.len + size * Len(<<value>>)
    BY <1>1, AppendAllIs
  <1>4. g.len = f.len + size
    BY <1>1, <1>2, <1>3
  <1>5. f.len + size * (1 - 1) \in DOMAIN g.at /\ g.at[f.len + size * (1 - 1)] = value
    BY <1>1, <1>3 DEF Holds
  <1>6. f.len + size * (1 - 1) = f.len
    BY <1>2
  <1> HIDE DEF g
  <1>7. QED
    BY <1>3, <1>4, <1>5, <1>6 DEF Append1, g

(* SetBlock writes as much as it says: keys, indices, and the three numbers *)
(* that the parser finds from the end.                                     *)
LEMMA AppendBlockIs ==
  ASSUME NEW f, Written(f), NEW X, NEW keys \in Seq(X), NEW Y, NEW vals \in Seq(Y),
         Len(vals) = Len(keys)
  PROVE  LET g == AppendBlock(f, keys, vals)
             end == f.len + BlockSize(Len(keys))
         IN  /\ Written(g) /\ Keeps(f, g) /\ g.len = end
             /\ Holds(g, f.len, KEY_SIZE, keys)
             /\ Holds(g, f.len + KEY_SIZE * Len(keys), IdxSize, vals)
             /\ end - 24 \in DOMAIN g.at /\ g.at[end - 24] = IdxSize
             /\ end - 16 \in DOMAIN g.at /\ g.at[end - 16] = Len(keys)
             /\ end - 8 \in DOMAIN g.at /\ g.at[end - 8] = KEY_SIZE
  <1> DEFINE c == Len(keys)
             g1 == AppendAll(f, KEY_SIZE, keys)
             g2 == AppendAll(g1, IdxSize, vals)
             g3 == Append1(g2, SizeSize, IdxSize)
             g4 == AppendAll(g3, IdxSize, <<c, 1>>)
             g5 == Append1(g4, SizeSize, KEY_SIZE)
  <1>1. c \in Nat /\ f.len \in Nat /\ IdxSize = 4 /\ SizeSize = 8 /\ KEY_SIZE = 16
    BY DEF Written, IdxSize, SizeSize, KEY_SIZE
  <1>2. Written(g1) /\ Keeps(f, g1) /\ Holds(g1, f.len, KEY_SIZE, keys)
        /\ g1.len = f.len + KEY_SIZE * c
    BY AppendAllIs
  <1> HIDE DEF g1
  <1>3. Written(g2) /\ Keeps(g1, g2) /\ Holds(g2, g1.len, IdxSize, vals)
        /\ g2.len = g1.len + IdxSize * c
    BY <1>2, AppendAllIs
  <1> HIDE DEF g2
  <1>4. Written(g3) /\ Keeps(g2, g3) /\ g3.len = g2.len + SizeSize
        /\ g2.len \in DOMAIN g3.at /\ g3.at[g2.len] = IdxSize
    BY <1>3, Append1Is
  <1> HIDE DEF g3
  <1>5. Written(g4) /\ Keeps(g3, g4) /\ g4.len = g3.len + IdxSize * 2
        /\ g3.len \in DOMAIN g4.at /\ g4.at[g3.len] = c
    <2>1. <<c, 1>> \in Seq(Nat) /\ Len(<<c, 1>>) = 2 /\ <<c, 1>>[1] = c
      BY <1>1
    <2>2. Written(g4) /\ Keeps(g3, g4) /\ Holds(g4, g3.len, IdxSize, <<c, 1>>)
          /\ g4.len = g3.len + IdxSize * Len(<<c, 1>>)
      BY <1>4, <2>1, AppendAllIs
    <2> HIDE DEF g4
    <2>3. g3.len + IdxSize * (1 - 1) \in DOMAIN g4.at /\ g4.at[g3.len + IdxSize * (1 - 1)] = c
      BY <2>1, <2>2 DEF Holds
    <2>4. g3.len + IdxSize * (1 - 1) = g3.len
      BY <1>1, <1>4 DEF Written
    <2>5. QED
      BY <2>1, <2>2, <2>3, <2>4
  <1> HIDE DEF g4
  <1>6. Written(g5) /\ Keeps(g4, g5) /\ g5.len = g4.len + SizeSize
        /\ g4.len \in DOMAIN g5.at /\ g5.at[g4.len] = KEY_SIZE
    BY <1>5, Append1Is
  <1> HIDE DEF g5
  <1> DEFINE end == f.len + BlockSize(c)
  <1>7. end = f.len + 20 * c + 24 /\ g2.len = f.len + 20 * c
        /\ g2.len = end - 24 /\ g3.len = end - 16 /\ g4.len = end - 8 /\ g5.len = end
    BY <1>1, <1>2, <1>3, <1>4, <1>5, <1>6 DEF BlockSize
  <1>8. Keeps(g4, g5) /\ Keeps(g3, g5) /\ Keeps(g2, g5) /\ Keeps(g1, g5) /\ Keeps(f, g5)
    BY <1>2, <1>3, <1>4, <1>5, <1>6, KeepsTransitive
  <1>9. Holds(g5, f.len, KEY_SIZE, keys)
    BY <1>2, <1>8, KeepsHolds
  <1>10. Holds(g5, f.len + KEY_SIZE * c, IdxSize, vals)
    BY <1>2, <1>3, <1>8, KeepsHolds
  <1>11. /\ g2.len \in DOMAIN g5.at /\ g5.at[g2.len] = IdxSize
         /\ g3.len \in DOMAIN g5.at /\ g5.at[g3.len] = c
    BY <1>4, <1>5, <1>6, <1>8 DEF Keeps
  <1>12. AppendBlock(f, keys, vals) = g5
    BY DEF AppendBlock, g1, g2, g3, g4, g5
  <1> HIDE DEF c, end
  <1>13. QED
    BY <1>6, <1>7, <1>8, <1>9, <1>10, <1>11, <1>12 DEF c, end

(* A block has room for a row, ...                                         *)
LEMMA SingleBlockNumIs == SingleBlockNum \in Nat \ {0}
  <1>1. MAX_BLOCK_SIZE \in Nat /\ MAX_BLOCK_SIZE >= 20
    BY RelFileAssumption
  <1>2. MAX_BLOCK_SIZE \div 20 \in Nat \ {0}
    BY <1>1
  <1>3. KEY_SIZE + IdxSize = 20
    BY DEF KEY_SIZE, IdxSize
  <1>4. QED
    BY <1>2, <1>3 DEF SingleBlockNum

(* The blocks of keys, and the part of them, and of vals, that each has.   *)
LEMMA BlockPartIs ==
  ASSUME NEW X, NEW keys \in Seq(X), keys # <<>>, NEW i \in 1 .. BlockCount(Len(keys))
  PROVE  /\ BlockPart(keys, i) \in Seq(X)
         /\ Len(BlockPart(keys, i)) = PartLen(Len(keys), SingleBlockNum, i)
         /\ \A m \in 1 .. PartLen(Len(keys), SingleBlockNum, i) :
               /\ BlockPart(keys, i)[m] = keys[Before(SingleBlockNum, i) + m]
               /\ Before(SingleBlockNum, i) + m \in 1 .. Len(keys)
         /\ PartLen(Len(keys), SingleBlockNum, i) \in Nat \ {0}
  <1>1. SingleBlockNum \in Nat \ {0} /\ Len(keys) \in Nat \ {0}
        /\ i \in 1 .. Parts(Len(keys), SingleBlockNum)
    BY SingleBlockNumIs DEF BlockCount
  <1>2. PartLen(Len(keys), SingleBlockNum, i) \in Nat \ {0}
    BY <1>1, PartLenIs
  <1>3. QED
    BY <1>1, <1>2, PartIs DEF BlockPart

(* ... and there is a block for every row.                                 *)
LEMMA BlockCountIs ==
  ASSUME NEW X, NEW keys \in Seq(X), keys # <<>>
  PROVE  BlockCount(Len(keys)) \in Nat \ {0}
  <1>1. SingleBlockNum \in Nat \ {0} /\ Len(keys) \in Nat \ {0}
    BY SingleBlockNumIs
  <1>2. QED
    BY <1>1, PartsIs DEF BlockCount

(* Blocks and Metas are what their definitions say.                        *)
LEMMA BlocksAre ==
  ASSUME NEW keys, NEW vals, BlockCount(Len(keys)) \in Nat
  PROVE  LET b == Blocks(keys, vals)
         IN  /\ b[0] = [file |-> [len |-> 0, at |-> <<>>], now_offset_in_file |-> 0]
             /\ \A i \in 1 .. BlockCount(Len(keys)) :
                   b[i] = [file |-> AppendBlock(b[i - 1].file, BlockPart(keys, i),
                                                BlockPart(vals, i)),
                           now_offset_in_file |-> b[i - 1].now_offset_in_file
                                                  + BlockSize(Len(BlockPart(keys, i)))]
  <1> DEFINE e == [file |-> [len |-> 0, at |-> <<>>], now_offset_in_file |-> 0]
             St(i, x) == [file |-> AppendBlock(x.file, BlockPart(keys, i), BlockPart(vals, i)),
                          now_offset_in_file |-> x.now_offset_in_file
                                                 + BlockSize(Len(BlockPart(keys, i)))]
             F(b, m) == [i \in 0 .. m |-> IF i = 0 THEN e ELSE St(i, b[i - 1])]
             T == {m \in Nat : \E b : b = F(b, m)}
  <1>1. Blocks(keys, vals) = CHOOSE b : b = F(b, BlockCount(Len(keys)))
    BY DEF Blocks
  <1> HIDE DEF e, St
  <1>2. 0 \in T
    <2>1. [i \in 0 .. 0 |-> e] = F([i \in 0 .. 0 |-> e], 0)
      OBVIOUS
    <2>2. QED
      BY <2>1
  <1>3. ASSUME NEW m \in Nat, m \in T PROVE m + 1 \in T
    <2>1. PICK b : b = F(b, m)
      BY <1>3
    <2> DEFINE c == [i \in 0 .. m + 1 |-> IF i = m + 1 THEN St(i, b[m]) ELSE b[i]]
    <2>2. ASSUME NEW i \in 0 .. m + 1
          PROVE  c[i] = IF i = 0 THEN e ELSE St(i, c[i - 1])
      <3>1. CASE i = m + 1
        <4>1. c[i - 1] = b[m] /\ c[i] = St(i, b[m])
          BY <3>1
        <4>2. QED
          BY <3>1, <4>1
      <3>2. CASE i # m + 1
        <4>1. i \in 0 .. m /\ c[i] = b[i]
          BY <3>2
        <4>2. CASE i = 0
          BY <2>1, <4>1, <4>2
        <4>3. CASE i # 0
          <5>1. i - 1 \in 0 .. m + 1 /\ i - 1 # m + 1
            BY <4>1, <4>3
          <5>2. c[i - 1] = b[i - 1]
            BY <5>1
          <5>3. b[i] = St(i, b[i - 1])
            BY <2>1, <4>1, <4>3
          <5>4. QED
            BY <4>1, <4>3, <5>2, <5>3
        <4>4. QED
          BY <4>2, <4>3
      <3>3. QED
        BY <3>1, <3>2
    <2>3. c = F(c, m + 1)
      <3>1. c = [i \in 0 .. m + 1 |-> c[i]]
        OBVIOUS
      <3> HIDE DEF c
      <3>2. QED
        BY <2>2, <3>1
    <2> HIDE DEF c
    <2>4. QED
      BY <2>3
  <1>4. \E b : b = F(b, BlockCount(Len(keys)))
    <2> HIDE DEF T
    <2>1. \A m \in Nat : m \in T
      BY <1>2, <1>3, Induction
    <2>2. QED
      BY <2>1 DEF T
  <1> DEFINE b == Blocks(keys, vals)
  <1>5. b = F(b, BlockCount(Len(keys)))
    BY <1>1, <1>4
  <1> HIDE DEF b
  <1>6. b[0] = e /\ \A i \in 1 .. BlockCount(Len(keys)) : b[i] = St(i, b[i - 1])
    BY <1>5
  <1>7. QED
    BY <1>6 DEF b, e, St

(* The same for Metas: one more meta at each step.                         *)
LEMMA MetasAre ==
  ASSUME NEW keys, NEW blocks, BlockCount(Len(keys)) \in Nat
  PROVE  LET n == BlockCount(Len(keys))
             s == Metas(keys, blocks)
         IN  /\ s[0] = blocks[n].file
             /\ \A i \in 1 .. n :
                   s[i] = Append1(Append1(Append1(s[i - 1], KEY_SIZE,
                                                  Min(Range(BlockPart(keys, i)))),
                                          SizeSize, blocks[i - 1].now_offset_in_file),
                                  SizeSize, BlockSize(Len(BlockPart(keys, i))))
  <1> DEFINE n == BlockCount(Len(keys))
             e == blocks[n].file
             St(i, x) == Append1(Append1(Append1(x, KEY_SIZE, Min(Range(BlockPart(keys, i)))),
                                         SizeSize, blocks[i - 1].now_offset_in_file),
                                 SizeSize, BlockSize(Len(BlockPart(keys, i))))
             F(b, m) == [i \in 0 .. m |-> IF i = 0 THEN e ELSE St(i, b[i - 1])]
             T == {m \in Nat : \E b : b = F(b, m)}
  <1>1. Metas(keys, blocks) = CHOOSE b : b = F(b, n)
    BY DEF Metas
  <1>2. n \in Nat
    OBVIOUS
  <1> HIDE DEF e, St, n
  <1>3. 0 \in T
    <2>1. [i \in 0 .. 0 |-> e] = F([i \in 0 .. 0 |-> e], 0)
      OBVIOUS
    <2>2. QED
      BY <2>1
  <1>4. ASSUME NEW m \in Nat, m \in T PROVE m + 1 \in T
    <2>1. PICK b : b = F(b, m)
      BY <1>4
    <2> DEFINE c == [i \in 0 .. m + 1 |-> IF i = m + 1 THEN St(i, b[m]) ELSE b[i]]
    <2>2. ASSUME NEW i \in 0 .. m + 1
          PROVE  c[i] = IF i = 0 THEN e ELSE St(i, c[i - 1])
      <3>1. CASE i = m + 1
        <4>1. c[i - 1] = b[m] /\ c[i] = St(i, b[m])
          BY <3>1
        <4>2. QED
          BY <3>1, <4>1
      <3>2. CASE i # m + 1
        <4>1. i \in 0 .. m /\ c[i] = b[i]
          BY <3>2
        <4>2. CASE i = 0
          BY <2>1, <4>1, <4>2
        <4>3. CASE i # 0
          <5>1. i - 1 \in 0 .. m + 1 /\ i - 1 # m + 1
            BY <4>1, <4>3
          <5>2. c[i - 1] = b[i - 1]
            BY <5>1
          <5>3. b[i] = St(i, b[i - 1])
            BY <2>1, <4>1, <4>3
          <5>4. QED
            BY <4>1, <4>3, <5>2, <5>3
        <4>4. QED
          BY <4>2, <4>3
      <3>3. QED
        BY <3>1, <3>2
    <2>3. c = F(c, m + 1)
      <3>1. c = [i \in 0 .. m + 1 |-> c[i]]
        OBVIOUS
      <3> HIDE DEF c
      <3>2. QED
        BY <2>2, <3>1
    <2> HIDE DEF c
    <2>4. QED
      BY <2>3
  <1>5. \E b : b = F(b, n)
    <2> HIDE DEF T
    <2>1. \A m \in Nat : m \in T
      BY <1>3, <1>4, Induction
    <2>2. QED
      BY <2>1 DEF T, n
  <1> DEFINE b == Metas(keys, blocks)
  <1>6. b = F(b, n)
    BY <1>1, <1>5
  <1> HIDE DEF b
  <1>7. b[0] = e /\ \A i \in 1 .. n : b[i] = St(i, b[i - 1])
    BY <1>2, <1>6
  <1>8. QED
    BY <1>7 DEF b, e, St, n

(* A block of keys and indices lies from o on.                             *)
BlockThere(g, o, keys, vals) ==
    LET end == o + BlockSize(Len(keys))
    IN  /\ Holds(g, o, KEY_SIZE, keys)
        /\ Holds(g, o + KEY_SIZE * Len(keys), IdxSize, vals)
        /\ end - 24 \in DOMAIN g.at /\ g.at[end - 24] = IdxSize
        /\ end - 16 \in DOMAIN g.at /\ g.at[end - 16] = Len(keys)
        /\ end - 8 \in DOMAIN g.at /\ g.at[end - 8] = KEY_SIZE

(* The meta of a block lies at o.                                          *)
MetaThere(g, o, key_min, offset, size) ==
    /\ o \in DOMAIN g.at /\ g.at[o] = key_min
    /\ o + KEY_SIZE \in DOMAIN g.at /\ g.at[o + KEY_SIZE] = offset
    /\ o + KEY_SIZE + SizeSize \in DOMAIN g.at /\ g.at[o + KEY_SIZE + SizeSize] = size

(* A block that is kept is there afterwards, ...                           *)
LEMMA KeepsBlock ==
  ASSUME NEW f, NEW g, Keeps(f, g), NEW o, NEW keys, NEW vals, BlockThere(f, o, keys, vals)
  PROVE  BlockThere(g, o, keys, vals)
  <1>1. Holds(g, o, KEY_SIZE, keys) /\ Holds(g, o + KEY_SIZE * Len(keys), IdxSize, vals)
    BY KeepsHolds DEF BlockThere
  <1>2. QED
    BY <1>1 DEF BlockThere, Keeps

(* ... and so is its meta.                                                 *)
LEMMA KeepsMeta ==
  ASSUME NEW f, NEW g, Keeps(f, g), NEW o, NEW key_min, NEW offset, NEW size,
         MetaThere(f, o, key_min, offset, size)
  PROVE  MetaThere(g, o, key_min, offset, size)
  BY DEF MetaThere, Keeps

(* The offset that is counted is where the blocks end, and every block     *)
(* stays where it was written.                                             *)
LEMMA BlocksLie ==
  ASSUME NEW X, NEW keys \in Seq(X), keys # <<>>, NEW Y, NEW vals \in Seq(Y),
         Len(vals) = Len(keys)
  PROVE  LET b == Blocks(keys, vals)
             n == BlockCount(Len(keys))
         IN  /\ Written(b[n].file) /\ b[n].file.len = b[n].now_offset_in_file
             /\ \A i \in 1 .. n :
                   /\ b[i - 1].now_offset_in_file \in Nat
                   /\ BlockThere(b[n].file, b[i - 1].now_offset_in_file,
                                 BlockPart(keys, i), BlockPart(vals, i))
  <1> DEFINE b == Blocks(keys, vals)
             n == BlockCount(Len(keys))
             off(i) == b[i].now_offset_in_file
             I(m) == /\ Written(b[m].file) /\ b[m].file.len = off(m)
                     /\ \A i \in 1 .. m :
                          /\ off(i - 1) \in Nat
                          /\ BlockThere(b[m].file, off(i - 1), BlockPart(keys, i),
                                        BlockPart(vals, i))
             T == {m \in Nat : m <= n => I(m)}
  <1>1. n \in Nat \ {0}
    BY BlockCountIs
  <1>2. /\ b[0] = [file |-> [len |-> 0, at |-> <<>>], now_offset_in_file |-> 0]
        /\ \A i \in 1 .. n :
              b[i] = [file |-> AppendBlock(b[i - 1].file, BlockPart(keys, i),
                                           BlockPart(vals, i)),
                      now_offset_in_file |-> off(i - 1) + BlockSize(Len(BlockPart(keys, i)))]
    BY <1>1, BlocksAre
  <1>3. ASSUME NEW i \in 1 .. n
        PROVE  /\ BlockPart(keys, i) \in Seq(X) /\ BlockPart(vals, i) \in Seq(Y)
               /\ Len(BlockPart(vals, i)) = Len(BlockPart(keys, i))
    <2>1. vals # <<>> /\ i \in 1 .. BlockCount(Len(vals))
      OBVIOUS
    <2>2. QED
      BY <2>1, BlockPartIs
  <1> HIDE DEF b, n
  <1>4. 0 \in T
    <2>1. b[0].file.len = 0 /\ b[0].file.at = <<>> /\ off(0) = 0
      BY <1>2
    <2>2. Written(b[0].file)
      BY <2>1 DEF Written
    <2>3. QED
      BY <2>1, <2>2
  <1>5. ASSUME NEW m \in Nat, m \in T PROVE m + 1 \in T
    <2>1. SUFFICES ASSUME m + 1 <= n PROVE I(m + 1)
      OBVIOUS
    <2>2. I(m) /\ m + 1 \in 1 .. n /\ m + 1 - 1 = m
      BY <1>1, <1>5, <2>1
    <2> DEFINE ks == BlockPart(keys, m + 1)
               vs == BlockPart(vals, m + 1)
    <2>3. /\ b[m + 1].file = AppendBlock(b[m].file, ks, vs)
          /\ off(m + 1) = off(m) + BlockSize(Len(ks))
      <3>1. b[m + 1] = [file |-> AppendBlock(b[m + 1 - 1].file, ks, vs),
                        now_offset_in_file |-> off(m + 1 - 1) + BlockSize(Len(ks))]
        BY <1>2, <2>2
      <3> HIDE DEF ks, vs
      <3>2. QED
        BY <2>2, <3>1
    <2>4. ks \in Seq(X) /\ vs \in Seq(Y) /\ Len(vs) = Len(ks)
      BY <1>3, <2>2
    <2> HIDE DEF ks, vs
    <2> DEFINE f == b[m].file
               g == b[m + 1].file
    <2>5. Written(f) /\ f.len = off(m) /\ g = AppendBlock(f, ks, vs)
      BY <2>2, <2>3
    <2> HIDE DEF f, g
    <2>6. /\ Written(g) /\ Keeps(f, g) /\ g.len = f.len + BlockSize(Len(ks))
          /\ Holds(g, f.len, KEY_SIZE, ks)
          /\ Holds(g, f.len + KEY_SIZE * Len(ks), IdxSize, vs)
          /\ g.len - 24 \in DOMAIN g.at /\ g.at[g.len - 24] = IdxSize
          /\ g.len - 16 \in DOMAIN g.at /\ g.at[g.len - 16] = Len(ks)
          /\ g.len - 8 \in DOMAIN g.at /\ g.at[g.len - 8] = KEY_SIZE
      <3> DEFINE h == AppendBlock(f, ks, vs)
                 end == f.len + BlockSize(Len(ks))
      <3>1. /\ Written(h) /\ Keeps(f, h) /\ h.len = end
            /\ Holds(h, f.len, KEY_SIZE, ks)
            /\ Holds(h, f.len + KEY_SIZE * Len(ks), IdxSize, vs)
            /\ end - 24 \in DOMAIN h.at /\ h.at[end - 24] = IdxSize
            /\ end - 16 \in DOMAIN h.at /\ h.at[end - 16] = Len(ks)
            /\ end - 8 \in DOMAIN h.at /\ h.at[end - 8] = KEY_SIZE
        BY <2>4, <2>5, AppendBlockIs
      <3> HIDE DEF end
      <3>2. g = h
        BY <2>5
      <3> HIDE DEF h
      <3>3. QED
        BY <3>1, <3>2 DEF end
    <2>7. BlockThere(g, off(m), ks, vs)
      BY <2>5, <2>6 DEF BlockThere
    <2>8. off(m) \in Nat
      BY <2>5 DEF Written
    <2>9. g.len = off(m + 1)
      BY <2>3, <2>5, <2>6
    <2>10. ASSUME NEW i \in 1 .. m + 1
           PROVE  /\ off(i - 1) \in Nat
                  /\ BlockThere(g, off(i - 1), BlockPart(keys, i), BlockPart(vals, i))
      <3>1. CASE i = m + 1
        BY <2>2, <2>7, <2>8, <3>1 DEF ks, vs
      <3>2. CASE i # m + 1
        <4>1. i \in 1 .. m
          BY <3>2
        <4>2. /\ off(i - 1) \in Nat
              /\ BlockThere(f, off(i - 1), BlockPart(keys, i), BlockPart(vals, i))
          BY <2>2, <4>1 DEF f
        <4>3. QED
          BY <2>6, <4>2, KeepsBlock
      <3>3. QED
        BY <3>1, <3>2
    <2> HIDE DEF off
    <2>11. QED
      BY <2>6, <2>9, <2>10 DEF g
  <1> HIDE DEF T
  <1>6. \A m \in Nat : m \in T
    BY <1>4, <1>5, Induction
  <1>7. I(n)
    <2>1. n \in T /\ n <= n
      BY <1>1, <1>6
    <2> HIDE DEF I
    <2>2. QED
      BY <2>1 DEF T
  <1>8. QED
    BY <1>7 DEF b, n

(* The metas follow, and the blocks stay below them.                       *)
LEMMA MetasLie ==
  ASSUME NEW keys, NEW blocks, BlockCount(Len(keys)) \in Nat,
         Written(blocks[BlockCount(Len(keys))].file)
  PROVE  LET n == BlockCount(Len(keys))
             s == Metas(keys, blocks)
         IN  /\ Keeps(blocks[n].file, s[n])
             /\ \A i \in 1 .. n :
                   MetaThere(s[n], blocks[n].file.len + (KEY_SIZE + 2 * SizeSize) * (i - 1),
                             Min(Range(BlockPart(keys, i))), blocks[i - 1].now_offset_in_file,
                             BlockSize(Len(BlockPart(keys, i))))
  <1> DEFINE n == BlockCount(Len(keys))
             s == Metas(keys, blocks)
             l == blocks[n].file.len
             There(g, i) == MetaThere(g, l + 32 * (i - 1), Min(Range(BlockPart(keys, i))),
                                      blocks[i - 1].now_offset_in_file,
                                      BlockSize(Len(BlockPart(keys, i))))
             I(m) == /\ Written(s[m]) /\ s[m].len = l + 32 * m /\ Keeps(blocks[n].file, s[m])
                     /\ \A i \in 1 .. m : There(s[m], i)
             T == {m \in Nat : m <= n => I(m)}
  <1>1. n \in Nat /\ l \in Nat
    BY DEF Written
  <1>2. /\ s[0] = blocks[n].file
        /\ \A i \in 1 .. n :
              s[i] = Append1(Append1(Append1(s[i - 1], KEY_SIZE, Min(Range(BlockPart(keys, i)))),
                                     SizeSize, blocks[i - 1].now_offset_in_file),
                             SizeSize, BlockSize(Len(BlockPart(keys, i))))
    BY MetasAre
  <1>3. Written(blocks[n].file)
    OBVIOUS
  <1> HIDE DEF s, n
  <1>4. 0 \in T
    <2>1. s[0].len = l + 32 * 0
      BY <1>1, <1>2
    <2>2. Keeps(s[0], s[0])
      BY DEF Keeps
    <2> HIDE DEF There
    <2>3. I(0)
      BY <1>2, <1>3, <2>1, <2>2
    <2> HIDE DEF I
    <2>4. QED
      BY <2>3
  <1>5. ASSUME NEW m \in Nat, m \in T PROVE m + 1 \in T
    <2>1. SUFFICES ASSUME m + 1 <= n PROVE I(m + 1)
      OBVIOUS
    <2>2. I(m) /\ m + 1 \in 1 .. n /\ m + 1 - 1 = m
      BY <1>1, <1>5, <2>1
    <2> DEFINE a == Min(Range(BlockPart(keys, m + 1)))
               c == blocks[m].now_offset_in_file
               d == BlockSize(Len(BlockPart(keys, m + 1)))
               f == s[m]
               g1 == Append1(f, KEY_SIZE, a)
               g2 == Append1(g1, SizeSize, c)
               g3 == Append1(g2, SizeSize, d)
    <2>3. s[m + 1] = g3
      BY <1>2, <2>2
    <2>4. Written(f) /\ f.len = l + 32 * m /\ KEY_SIZE = 16 /\ SizeSize = 8
      BY <2>2 DEF KEY_SIZE, SizeSize
    <2> HIDE DEF f
    <2>5. /\ Written(g1) /\ Keeps(f, g1) /\ g1.len = f.len + KEY_SIZE
          /\ f.len \in DOMAIN g1.at /\ g1.at[f.len] = a
      BY <2>4, Append1Is
    <2> HIDE DEF g1
    <2>6. /\ Written(g2) /\ Keeps(g1, g2) /\ g2.len = g1.len + SizeSize
          /\ g1.len \in DOMAIN g2.at /\ g2.at[g1.len] = c
      BY <2>5, Append1Is
    <2> HIDE DEF g2
    <2>7. /\ Written(g3) /\ Keeps(g2, g3) /\ g3.len = g2.len + SizeSize
          /\ g2.len \in DOMAIN g3.at /\ g3.at[g2.len] = d
      BY <2>6, Append1Is
    <2> HIDE DEF g3
    <2>8. Keeps(f, g3)
      BY <2>5, <2>6, <2>7, KeepsTransitive
    <2>9. /\ f.len \in DOMAIN g3.at /\ g3.at[f.len] = a
          /\ g1.len \in DOMAIN g3.at /\ g3.at[g1.len] = c
      BY <2>5, <2>6, <2>7 DEF Keeps
    <2>10. /\ f.len = l + 32 * (m + 1 - 1) /\ g1.len = f.len + KEY_SIZE
           /\ g2.len = f.len + KEY_SIZE + SizeSize /\ g3.len = l + 32 * (m + 1)
      BY <1>1, <2>2, <2>4, <2>5, <2>6, <2>7
    <2>11. There(g3, m + 1)
      <3> HIDE DEF a, d, c
      <3>1. MetaThere(g3, f.len, a, c, d)
        BY <2>7, <2>9, <2>10 DEF MetaThere
      <3>2. QED
        BY <2>2, <2>10, <3>1 DEF a, c, d
    <2>12. ASSUME NEW i \in 1 .. m + 1 PROVE There(g3, i)
      <3>1. CASE i = m + 1
        BY <2>11, <3>1
      <3>2. CASE i # m + 1
        <4>1. i \in 1 .. m
          BY <3>2
        <4>2. There(f, i)
          BY <2>2, <4>1 DEF f
        <4>3. QED
          BY <2>8, <4>2, KeepsMeta
      <3>3. QED
        BY <3>1, <3>2
    <2>13. Keeps(blocks[n].file, g3)
      <3>1. Keeps(blocks[n].file, f)
        BY <2>2 DEF f
      <3>2. QED
        BY <2>8, <3>1, KeepsTransitive
    <2> HIDE DEF There
    <2>14. QED
      BY <2>3, <2>7, <2>10, <2>12, <2>13
  <1> HIDE DEF T
  <1>6. \A m \in Nat : m \in T
    BY <1>4, <1>5, Induction
  <1>7. I(n)
    <2>1. n \in T /\ n <= n
      BY <1>1, <1>6
    <2> HIDE DEF I
    <2>2. QED
      BY <2>1 DEF T
  <1>8. KEY_SIZE + 2 * SizeSize = 32
    BY DEF KEY_SIZE, SizeSize
  <1>9. QED
    BY <1>7, <1>8 DEF n, s

(* The bytes of file are those arranged for keys and vals.                 *)
Arranged(file, keys, vals) ==
    LET arranged == Arrange(keys, vals)
    IN  /\ file.bytes = arranged.bytes /\ file.block_count = arranged.block_count
        /\ file.block_meta_begin_pos = arranged.block_meta_begin_pos

(* What the parsers read of a file are keys and vals, block by block.      *)
Readable(file, keys, vals) ==
    /\ file.block_count = BlockCount(Len(keys))
    /\ \A i \in 1 .. BlockCount(Len(keys)) :
          /\ BlockMeta(file, i).key_min = Min(Range(BlockPart(keys, i)))
          /\ Block(file, i).key_num = Len(BlockPart(keys, i))
          /\ \A m \in 1 .. Len(BlockPart(keys, i)) :
                /\ KeyAt(file, Block(file, i), m - 1) = BlockPart(keys, i)[m]
                /\ IdxAt(file, Block(file, i), m - 1) = BlockPart(vals, i)[m]

(* What is arranged is read.                                               *)
LEMMA ArrangedReadable ==
  ASSUME NEW X, NEW keys \in Seq(X), keys # <<>>, NEW Y, NEW vals \in Seq(Y),
         Len(vals) = Len(keys), NEW file, Arranged(file, keys, vals)
  PROVE  Readable(file, keys, vals)
  <1> DEFINE n == BlockCount(Len(keys))
             b == Blocks(keys, vals)
             B == b[n].file
             g == Metas(keys, b)[n]
             off(i) == b[i].now_offset_in_file
  <1>1. /\ file.bytes = g.at /\ file.block_count = n
        /\ file.block_meta_begin_pos = off(n)
    <2> DEFINE a == Arrange(keys, vals)
    <2>1. a = [bytes |-> g.at, block_count |-> n, block_meta_begin_pos |-> off(n)]
      BY DEF Arrange
    <2> HIDE DEF n, b, g, off
    <2>2. a.bytes = g.at /\ a.block_count = n /\ a.block_meta_begin_pos = off(n)
      BY <2>1
    <2>3. QED
      BY <2>2 DEF Arranged
  <1>2. n \in Nat \ {0}
    BY BlockCountIs
  <1>3. /\ Written(B) /\ B.len = off(n)
        /\ \A i \in 1 .. n : /\ off(i - 1) \in Nat
                             /\ BlockThere(B, off(i - 1), BlockPart(keys, i), BlockPart(vals, i))
    BY BlocksLie
  <1>4. /\ Keeps(B, g)
        /\ \A i \in 1 .. n :
              MetaThere(g, B.len + (KEY_SIZE + 2 * SizeSize) * (i - 1),
                        Min(Range(BlockPart(keys, i))), off(i - 1),
                        BlockSize(Len(BlockPart(keys, i))))
    BY <1>2, <1>3, MetasLie
  <1>5. \A i \in 1 .. n : Len(BlockPart(keys, i)) \in Nat \ {0}
    BY BlockPartIs
  <1> HIDE DEF n, b, g, B, off
  <1>6. KEY_SIZE = 16 /\ IdxSize = 4 /\ SizeSize = 8 /\ off(n) \in Nat
    BY <1>3 DEF KEY_SIZE, IdxSize, SizeSize, Written
  <1>7. ASSUME NEW i \in 1 .. n
        PROVE  /\ BlockMeta(file, i).key_min = Min(Range(BlockPart(keys, i)))
               /\ Block(file, i).key_num = Len(BlockPart(keys, i))
               /\ \A m \in 1 .. Len(BlockPart(keys, i)) :
                    /\ KeyAt(file, Block(file, i), m - 1) = BlockPart(keys, i)[m]
                    /\ IdxAt(file, Block(file, i), m - 1) = BlockPart(vals, i)[m]
    <2> DEFINE ks == BlockPart(keys, i)
               vs == BlockPart(vals, i)
               c == Len(ks)
               o == off(i - 1)
               p == off(n) + (KEY_SIZE + 2 * SizeSize) * (i - 1)
               q == file.block_meta_begin_pos + (i - 1) * (KEY_SIZE + 2 * SizeSize)
    <2>1. c \in Nat \ {0} /\ o \in Nat /\ i \in Nat
      <3>1. Len(BlockPart(keys, i)) \in Nat \ {0}
        BY <1>5
      <3>2. off(i - 1) \in Nat
        BY <1>3
      <3>3. i \in Nat
        BY <1>2
      <3>4. QED
        BY <3>1, <3>2, <3>3
    <2>2. p = q /\ p \in Nat
      BY <1>1, <1>2, <1>6
    <2>3. /\ p \in DOMAIN g.at /\ g.at[p] = Min(Range(ks))
          /\ p + KEY_SIZE \in DOMAIN g.at /\ g.at[p + KEY_SIZE] = o
          /\ p + KEY_SIZE + SizeSize \in DOMAIN g.at
          /\ g.at[p + KEY_SIZE + SizeSize] = BlockSize(c)
      <3>1. MetaThere(g, p, Min(Range(ks)), o, BlockSize(c))
        BY <1>3, <1>4
      <3> HIDE DEF p, ks, o, c
      <3>2. QED
        BY <3>1 DEF MetaThere
    <2>4. /\ Holds(g, o, KEY_SIZE, ks) /\ Holds(g, o + KEY_SIZE * c, IdxSize, vs)
          /\ (o + BlockSize(c)) - 24 \in DOMAIN g.at /\ g.at[(o + BlockSize(c)) - 24] = IdxSize
          /\ (o + BlockSize(c)) - 16 \in DOMAIN g.at /\ g.at[(o + BlockSize(c)) - 16] = c
          /\ (o + BlockSize(c)) - 8 \in DOMAIN g.at /\ g.at[(o + BlockSize(c)) - 8] = KEY_SIZE
      <3>1. BlockThere(B, o, ks, vs)
        BY <1>3
      <3> HIDE DEF o, ks, vs
      <3>2. BlockThere(g, o, ks, vs)
        BY <1>4, <3>1, KeepsBlock
      <3>3. Holds(g, o, KEY_SIZE, ks) /\ Holds(g, o + KEY_SIZE * Len(ks), IdxSize, vs)
        BY <3>2, Zenon DEF BlockThere
      <3> DEFINE end == o + BlockSize(Len(ks))
      <3>4. /\ end - 24 \in DOMAIN g.at /\ g.at[end - 24] = IdxSize
            /\ end - 16 \in DOMAIN g.at /\ g.at[end - 16] = Len(ks)
            /\ end - 8 \in DOMAIN g.at /\ g.at[end - 8] = KEY_SIZE
        BY <3>2, Zenon DEF BlockThere
      <3>5. QED
        BY <3>3, <3>4
    <2>5. \A x \in DOMAIN g.at : ReadAt(file, x) = g.at[x]
      BY <1>1 DEF ReadAt
    <2> DEFINE meta == BlockMeta(file, i)
               blk == Block(file, i)
    <2>6. meta.key_min = Min(Range(ks)) /\ meta.offset = o /\ meta.size = BlockSize(c)
      <3>1. meta = [key_min |-> ReadAt(file, q), offset |-> ReadAt(file, q + KEY_SIZE),
                    size |-> ReadAt(file, q + KEY_SIZE + SizeSize)]
        BY DEF BlockMeta
      <3> HIDE DEF meta, q, p, ks, o, c
      <3>2. QED
        BY <2>2, <2>3, <2>5, <3>1
    <2>7. BlockSize(c) \in Int /\ BlockSize(c) = 20 * c + 24
      BY <1>6, <2>1 DEF BlockSize
    <2>8. blk.key_num = c /\ blk.key_size = KEY_SIZE /\ blk.col_size = IdxSize
          /\ blk.offset = o
      <3> DEFINE end == meta.offset + meta.size
      <3>1. blk = [key_num |-> ReadAt(file, end - 2 * IdxSize - SizeSize),
                   key_size |-> ReadAt(file, end - SizeSize),
                   col_size |-> ReadAt(file, end - 2 * IdxSize - 2 * SizeSize),
                   offset |-> meta.offset]
        BY DEF Block
      <3>2. end = o + BlockSize(c)
        BY <2>6
      <3> HIDE DEF meta, blk, c, o, end
      <3>3. end \in Int
        BY <2>1, <2>7, <3>2
      <3>4. /\ end - 2 * IdxSize - SizeSize = (o + BlockSize(c)) - 16
            /\ end - SizeSize = (o + BlockSize(c)) - 8
            /\ end - 2 * IdxSize - 2 * SizeSize = (o + BlockSize(c)) - 24
        BY <1>6, <2>1, <2>7, <3>2, <3>3
      <3>5. QED
        BY <2>4, <2>5, <2>6, <3>1, <3>4
    <2>9. ASSUME NEW m \in 1 .. c
          PROVE  /\ KeyAt(file, blk, m - 1) = ks[m]
                 /\ IdxAt(file, blk, m - 1) = vs[m]
      <3> HIDE DEF blk, ks, vs, o
      <3>1. Len(vs) = c
        <4>1. i \in 1 .. BlockCount(Len(keys)) /\ i \in 1 .. BlockCount(Len(vals))
              /\ vals # <<>>
          BY DEF n
        <4>2. Len(BlockPart(keys, i)) = PartLen(Len(keys), SingleBlockNum, i)
              /\ Len(BlockPart(vals, i)) = PartLen(Len(vals), SingleBlockNum, i)
          BY <4>1, BlockPartIs
        <4>3. QED
          BY <4>2 DEF ks, vs
      <3> HIDE DEF c
      <3>2. /\ o + KEY_SIZE * (m - 1) \in DOMAIN g.at /\ g.at[o + KEY_SIZE * (m - 1)] = ks[m]
        BY <2>1, <2>4 DEF Holds, c
      <3>3. /\ o + KEY_SIZE * c + IdxSize * (m - 1) \in DOMAIN g.at
            /\ g.at[o + KEY_SIZE * c + IdxSize * (m - 1)] = vs[m]
        BY <2>1, <2>4, <3>1 DEF Holds
      <3>4. /\ blk.offset + (m - 1) * blk.key_size = o + KEY_SIZE * (m - 1)
            /\ blk.offset + blk.key_num * blk.key_size + (m - 1) * blk.col_size
               = o + KEY_SIZE * c + IdxSize * (m - 1)
        BY <1>6, <2>1, <2>8
      <3>5. QED
        BY <2>5, <3>2, <3>3, <3>4 DEF KeyAt, IdxAt
    <2> HIDE DEF blk, meta
    <2>10. QED
      BY <2>6, <2>8, <2>9 DEF blk, meta
  <1>8. QED
    BY <1>1, <1>7 DEF Readable, n

(* The rows <<key, index>> of keys and vals.                               *)
Zip(keys, vals) == [j \in 1 .. Len(keys) |-> <<keys[j], vals[j]>>]

(* The beginning of r of length a, and the c after it, are that of a + c.  *)
LEMMA ConcatIs ==
  ASSUME NEW Z, NEW r \in Seq(Z), NEW a \in Nat, NEW c \in Nat, a + c <= Len(r)
  PROVE  [j \in 1 .. a |-> r[j]] \o [j \in 1 .. c |-> r[a + j]] = [j \in 1 .. a + c |-> r[j]]
  <1> DEFINE s == [j \in 1 .. a |-> r[j]]
             t == [j \in 1 .. c |-> r[a + j]]
             u == [j \in 1 .. a + c |-> r[j]]
  <1>1. s \in Seq(Z) /\ t \in Seq(Z) /\ u \in Seq(Z)
    OBVIOUS
  <1>2. Len(s) = a /\ Len(t) = c /\ Len(u) = a + c
    OBVIOUS
  <1>3. /\ \A j \in 1 .. a : s[j] = r[j]
        /\ \A j \in 1 .. c : t[j] = r[a + j]
        /\ \A j \in 1 .. a + c : u[j] = r[j]
    OBVIOUS
  <1> HIDE DEF s, t, u
  <1>4. s \o t \in Seq(Z) /\ Len(s \o t) = a + c
    BY <1>1, <1>2
  <1>5. \A j \in 1 .. a + c : (s \o t)[j] = u[j]
    <2> TAKE j \in 1 .. a + c
    <2>1. CASE j <= a
      BY <1>1, <1>2, <1>3, <2>1
    <2>2. CASE j > a
      <3>1. (s \o t)[j] = t[j - a] /\ j - a \in 1 .. c
        BY <1>1, <1>2, <2>2
      <3>2. t[j - a] = r[a + (j - a)] /\ a + (j - a) = j
        BY <1>3, <3>1
      <3>3. QED
        BY <1>3, <3>1, <3>2
    <2>3. j <= a \/ j > a
      OBVIOUS
    <2>4. QED
      BY <2>1, <2>2, <2>3
  <1>6. QED
    BY <1>1, <1>2, <1>4, <1>5

(* KeysAndIdxs goes through the blocks as its definition says.             *)
LEMMA KeysAndIdxsStep ==
  ASSUME NEW file, file.block_count \in Nat
  PROVE  \E rows : /\ KeysAndIdxs(file) = rows[file.block_count]
                   /\ rows[0] = <<>>
                   /\ \A i \in 1 .. file.block_count :
                         rows[i] = rows[i - 1] \o
                                   [n \in 1 .. Block(file, i).key_num |->
                                       <<KeyAt(file, Block(file, i), n - 1),
                                         IdxAt(file, Block(file, i), n - 1)>>]
  <1> DEFINE St(i, x) == x \o [n \in 1 .. Block(file, i).key_num |->
                                  <<KeyAt(file, Block(file, i), n - 1),
                                    IdxAt(file, Block(file, i), n - 1)>>]
             F(b, m) == [i \in 0 .. m |-> IF i = 0 THEN <<>> ELSE St(i, b[i - 1])]
             T == {m \in Nat : \E b : b = F(b, m)}
             rs == CHOOSE b : b = F(b, file.block_count)
  <1>1. KeysAndIdxs(file) = rs[file.block_count]
    BY DEF KeysAndIdxs
  <1> HIDE DEF St
  <1>2. 0 \in T
    <2>1. [i \in 0 .. 0 |-> <<>>] = F([i \in 0 .. 0 |-> <<>>], 0)
      OBVIOUS
    <2>2. QED
      BY <2>1
  <1>3. ASSUME NEW m \in Nat, m \in T PROVE m + 1 \in T
    <2>1. PICK b : b = F(b, m)
      BY <1>3
    <2> DEFINE c == [i \in 0 .. m + 1 |-> IF i = m + 1 THEN St(i, b[m]) ELSE b[i]]
    <2>2. ASSUME NEW i \in 0 .. m + 1
          PROVE  c[i] = IF i = 0 THEN <<>> ELSE St(i, c[i - 1])
      <3>1. CASE i = m + 1
        <4>1. c[i - 1] = b[m] /\ c[i] = St(i, b[m])
          BY <3>1
        <4>2. QED
          BY <3>1, <4>1
      <3>2. CASE i # m + 1
        <4>1. i \in 0 .. m /\ c[i] = b[i]
          BY <3>2
        <4>2. CASE i = 0
          BY <2>1, <4>1, <4>2
        <4>3. CASE i # 0
          <5>1. i - 1 \in 0 .. m + 1 /\ i - 1 # m + 1
            BY <4>1, <4>3
          <5>2. c[i - 1] = b[i - 1]
            BY <5>1
          <5>3. b[i] = St(i, b[i - 1])
            BY <2>1, <4>1, <4>3
          <5>4. QED
            BY <4>1, <4>3, <5>2, <5>3
        <4>4. QED
          BY <4>2, <4>3
      <3>3. QED
        BY <3>1, <3>2
    <2>3. c = F(c, m + 1)
      <3>1. c = [i \in 0 .. m + 1 |-> c[i]]
        OBVIOUS
      <3> HIDE DEF c
      <3>2. QED
        BY <2>2, <3>1
    <2> HIDE DEF c
    <2>4. QED
      BY <2>3
  <1>4. \E b : b = F(b, file.block_count)
    <2> HIDE DEF T
    <2>1. \A m \in Nat : m \in T
      BY <1>2, <1>3, Induction
    <2>2. QED
      BY <2>1 DEF T
  <1>5. rs = F(rs, file.block_count)
    BY <1>4
  <1> HIDE DEF rs
  <1>6. rs[0] = <<>> /\ \A i \in 1 .. file.block_count : rs[i] = St(i, rs[i - 1])
    BY <1>5
  <1>7. QED
    BY <1>1, <1>6 DEF St

(* What a file is read to hold is what it was arranged from.               *)
LEMMA KeysAndIdxsAre ==
  ASSUME NEW X, NEW keys \in Seq(X), keys # <<>>, NEW Y, NEW vals \in Seq(Y),
         Len(vals) = Len(keys), NEW file, Readable(file, keys, vals)
  PROVE  KeysAndIdxs(file) = Zip(keys, vals)
  <1> DEFINE n == BlockCount(Len(keys))
             r == Zip(keys, vals)
             size == SingleBlockNum
             l(i) == PartLen(Len(keys), size, i)
             L(m) == IF m = n THEN Len(keys) ELSE Before(size, m + 1)
  <1>1. /\ n \in Nat \ {0} /\ file.block_count = n /\ size \in Nat \ {0}
        /\ Len(keys) \in Nat \ {0} /\ n = Parts(Len(keys), size)
    BY BlockCountIs, SingleBlockNumIs DEF Readable, BlockCount
  <1>2. PICK rows : /\ KeysAndIdxs(file) = rows[n]
                    /\ rows[0] = <<>>
                    /\ \A i \in 1 .. n :
                         rows[i] = rows[i - 1] \o
                                   [j \in 1 .. Block(file, i).key_num |->
                                       <<KeyAt(file, Block(file, i), j - 1),
                                         IdxAt(file, Block(file, i), j - 1)>>]
    <2>1. file.block_count \in Nat
      BY <1>1
    <2>2. PICK rows : /\ KeysAndIdxs(file) = rows[file.block_count]
                      /\ rows[0] = <<>>
                      /\ \A i \in 1 .. file.block_count :
                            rows[i] = rows[i - 1] \o
                                      [j \in 1 .. Block(file, i).key_num |->
                                          <<KeyAt(file, Block(file, i), j - 1),
                                            IdxAt(file, Block(file, i), j - 1)>>]
      BY <2>1, KeysAndIdxsStep
    <2> HIDE DEF n
    <2>3. WITNESS rows
    <2>4. QED
      BY <1>1, <2>2
  <1>3. r \in Seq(X \X Y) /\ Len(r) = Len(keys)
        /\ \A j \in 1 .. Len(keys) : r[j] = <<keys[j], vals[j]>>
    BY DEF Zip
  <1>4. ASSUME NEW i \in 1 .. n
        PROVE  /\ l(i) \in Nat /\ Before(size, i) \in Nat
               /\ Before(size, i) + l(i) <= Len(r)
               /\ L(i) = Before(size, i) + l(i) /\ L(i - 1) = Before(size, i)
               /\ [j \in 1 .. Block(file, i).key_num |->
                                       <<KeyAt(file, Block(file, i), j - 1),
                                         IdxAt(file, Block(file, i), j - 1)>>]
                  = [j \in 1 .. l(i) |-> r[Before(size, i) + j]]
    <2>1. /\ Before(size, i) \in Nat /\ l(i) \in Nat \ {0}
          /\ Before(size, i) + l(i) <= Len(keys)
          /\ i < n => Before(size, i + 1) = Before(size, i) + l(i)
          /\ i = n => Len(keys) = Before(size, i) + l(i)
      BY <1>1, PartLenIs
    <2>2. L(i) = Before(size, i) + l(i) /\ L(i - 1) = Before(size, i)
      <3> HIDE DEF n, size, l
      <3>1. i - 1 # n /\ i - 1 + 1 = i
        BY <1>1
      <3>2. QED
        BY <1>1, <2>1, <3>1
    <2>3. /\ Len(BlockPart(keys, i)) = l(i)
          /\ \A m \in 1 .. l(i) : /\ BlockPart(keys, i)[m] = keys[Before(size, i) + m]
                                  /\ BlockPart(vals, i)[m] = vals[Before(size, i) + m]
                                  /\ Before(size, i) + m \in 1 .. Len(keys)
      <3>1. vals # <<>> /\ i \in 1 .. BlockCount(Len(vals))
        BY <1>1
      <3>2. QED
        BY <3>1, BlockPartIs
    <2>4. /\ Block(file, i).key_num = l(i)
          /\ \A m \in 1 .. l(i) :
                /\ KeyAt(file, Block(file, i), m - 1) = BlockPart(keys, i)[m]
                /\ IdxAt(file, Block(file, i), m - 1) = BlockPart(vals, i)[m]
      BY <2>3 DEF Readable
    <2> HIDE DEF l, size, r, n
    <2>5. \A m \in 1 .. l(i) : <<KeyAt(file, Block(file, i), m - 1),
                                 IdxAt(file, Block(file, i), m - 1)>>
                               = r[Before(size, i) + m]
      BY <1>3, <2>3, <2>4
    <2>6. QED
      BY <1>3, <2>1, <2>2, <2>4, <2>5
  <1> DEFINE I(m) == rows[m] = [j \in 1 .. L(m) |-> r[j]]
             S == {m \in Nat : m <= n => I(m)}
  <1>5. 0 \in S
    <2>1. L(0) = 0
      <3>1. Before(size, 1) = 0
        BY <1>1, BeforeIs
      <3> HIDE DEF n, size
      <3>2. QED
        BY <1>1, <3>1
    <2> HIDE DEF L, r
    <2>2. QED
      BY <1>2, <2>1
  <1> HIDE DEF r, n, size, l, L
  <1>6. ASSUME NEW m \in Nat, m \in S PROVE m + 1 \in S
    <2>1. SUFFICES ASSUME m + 1 <= n PROVE I(m + 1)
      OBVIOUS
    <2> DEFINE i == m + 1
    <2>2. I(m) /\ i \in 1 .. n /\ i - 1 = m
      BY <1>1, <1>6, <2>1
    <2> DEFINE t == [j \in 1 .. l(i) |-> r[Before(size, i) + j]]
    <2>3. rows[i] = rows[m] \o t
      BY <1>2, <1>4, <2>2
    <2>4. /\ l(i) \in Nat /\ L(m) \in Nat /\ L(m) + l(i) <= Len(r)
          /\ L(i) = L(m) + l(i) /\ L(m) = Before(size, i)
      BY <1>4, <2>2
    <2> HIDE DEF i
    <2>5. t = [j \in 1 .. l(i) |-> r[L(m) + j]]
      BY <2>4
    <2>6. [j \in 1 .. L(m) |-> r[j]] \o [j \in 1 .. l(i) |-> r[L(m) + j]]
          = [j \in 1 .. L(m) + l(i) |-> r[j]]
      BY <1>3, <2>4, ConcatIs
    <2>7. QED
      BY <2>2, <2>3, <2>4, <2>5, <2>6 DEF i
  <1> HIDE DEF S
  <1>7. \A m \in Nat : m \in S
    BY <1>5, <1>6, Induction
  <1>8. I(n)
    <2>1. n \in S /\ n <= n
      BY <1>1, <1>7
    <2> HIDE DEF I
    <2>2. QED
      BY <2>1 DEF S
  <1>9. QED
    <2>1. L(n) = Len(keys)
      BY DEF L
    <2>2. r = [j \in 1 .. Len(r) |-> r[j]]
      BY <1>3
    <2>3. rows[n] = r
      BY <1>3, <1>8, <2>1, <2>2
    <2>4. QED
      BY <1>2, <2>3 DEF r

-----------------------------------------------------------------------------
(* s is the search of LowerIdx, a window at a time.                        *)
SearchBy(s, file, b, key) ==
    /\ LowerIdx(file, b, key) = s[<<0, b.key_num - 1>>]
    /\ \A l \in 0 .. b.key_num, r \in -1 .. b.key_num :
          s[<<l, r>>] =
            IF l >= r THEN l
            ELSE IF KeyAt(file, b, (l + r) \div 2) < key THEN s[<<(l + r) \div 2 + 1, r>>]
            ELSE s[<<l, (l + r) \div 2>>]

(* There is such a search: it ends since the window shrinks.               *)
LEMMA SearchIs ==
  ASSUME NEW file, NEW b, b.key_num \in Nat \ {0}, NEW key
  PROVE  \E s : SearchBy(s, file, b, key)
  <1> DEFINE c == b.key_num
             A == 0 .. c
             B == -1 .. c
             mid(l, r) == (l + r) \div 2
             less(m) == KeyAt(file, b, m) < key
             St(f, l, r) == IF l >= r THEN l
                            ELSE IF less(mid(l, r)) THEN f[<<mid(l, r) + 1, r>>]
                            ELSE f[<<l, mid(l, r)>>]
             F(f) == [lr \in A \X B |-> St(f, lr[1], lr[2])]
             T == {d \in Nat : \E f : \A l \in A, r \in B :
                                 r - l <= d => f[<<l, r>>] = St(f, l, r)}
             s == CHOOSE f : f = F(f)
  <1>1. LowerIdx(file, b, key) = s[<<0, c - 1>>]
    BY DEF LowerIdx
  <1>2. ASSUME NEW l \in A, NEW r \in B, l < r
        PROVE  /\ mid(l, r) + 1 \in A /\ mid(l, r) \in B
               /\ r - (mid(l, r) + 1) < r - l /\ mid(l, r) - l < r - l
    <2>1. l \in Int /\ r \in Int /\ 0 <= l /\ l < r /\ r <= c /\ c \in Nat
      BY <1>2
    <2>2. mid(l, r) \in Int /\ l <= mid(l, r) /\ mid(l, r) < r
      BY <2>1
    <2> HIDE DEF mid, c
    <2>3. QED
      BY <2>1, <2>2
  <1>3. c \in Nat \ {0}
    OBVIOUS
  <1> HIDE DEF mid, less, c
  <1>4. 0 \in T
    <2> DEFINE f == [lr \in A \X B |-> lr[1]]
    <2>1. ASSUME NEW l \in A, NEW r \in B, r - l <= 0
          PROVE  f[<<l, r>>] = St(f, l, r)
      <3>1. l >= r /\ <<l, r>> \in A \X B
        BY <1>3, <2>1
      <3>2. f[<<l, r>>] = l
        BY <3>1
      <3>3. QED
        BY <3>1, <3>2
    <2> HIDE DEF f, St
    <2>2. QED
      BY <2>1
  <1>5. ASSUME NEW d \in Nat, d \in T PROVE d + 1 \in T
    <2>1. PICK f : \A l \in A, r \in B : r - l <= d => f[<<l, r>>] = St(f, l, r)
      BY <1>5
    <2> DEFINE g == [lr \in A \X B |->
                        IF lr[2] - lr[1] <= d THEN f[lr] ELSE St(f, lr[1], lr[2])]
    <2>2. ASSUME NEW l \in A, NEW r \in B
          PROVE  g[<<l, r>>] = IF r - l <= d THEN f[<<l, r>>] ELSE St(f, l, r)
      BY DEF St
    <2> HIDE DEF g
    <2>3. ASSUME NEW l \in A, NEW r \in B, r - l <= d + 1
          PROVE  g[<<l, r>>] = St(g, l, r)
      <3>1. CASE l >= r
        <4>1. r - l <= d
          BY <1>3, <3>1
        <4>2. g[<<l, r>>] = f[<<l, r>>] /\ f[<<l, r>>] = St(f, l, r)
          BY <2>1, <2>2, <4>1
        <4>3. QED
          BY <3>1, <4>2
      <3>2. CASE l < r
        <4>1. /\ mid(l, r) + 1 \in A /\ mid(l, r) \in B
              /\ r - (mid(l, r) + 1) <= d /\ mid(l, r) - l <= d
          <5>1. /\ mid(l, r) + 1 \in A /\ mid(l, r) \in B
                /\ r - (mid(l, r) + 1) < r - l /\ mid(l, r) - l < r - l
            BY <1>2, <3>2
          <5>2. QED
            BY <1>3, <2>3, <5>1
        <4>2. g[<<mid(l, r) + 1, r>>] = f[<<mid(l, r) + 1, r>>]
          BY <2>2, <4>1
        <4>3. g[<<l, mid(l, r)>>] = f[<<l, mid(l, r)>>]
          BY <2>2, <4>1
        <4>4. St(g, l, r) = St(f, l, r)
          BY <4>2, <4>3
        <4> HIDE DEF St
        <4>5. QED
          BY <2>1, <2>2, <4>4
      <3>3. QED
        BY <1>3, <3>1, <3>2
    <2> HIDE DEF St
    <2>4. QED
      BY <2>3
  <1>6. c + 1 \in T
    <2> HIDE DEF T
    <2>1. \A d \in Nat : d \in T
      BY <1>4, <1>5, Induction
    <2>2. QED
      BY <1>3, <2>1
  <1>7. \E f : f = F(f)
    <2>1. PICK f : \A l \in A, r \in B : r - l <= c + 1 => f[<<l, r>>] = St(f, l, r)
      BY <1>6
    <2>2. \A l \in A, r \in B : f[<<l, r>>] = St(f, l, r)
      <3>1. \A l \in A, r \in B : r - l <= c + 1
        BY <1>3
      <3> HIDE DEF St, A, B
      <3>2. QED
        BY <2>1, <3>1
    <2> DEFINE g == [lr \in A \X B |-> f[lr]]
    <2>3. ASSUME NEW l \in A, NEW r \in B PROVE St(g, l, r) = St(f, l, r)
      <3>1. CASE l >= r
        BY <3>1
      <3>2. CASE l < r
        <4>1. mid(l, r) + 1 \in A /\ mid(l, r) \in B
          BY <1>2, <3>2
        <4>2. g[<<mid(l, r) + 1, r>>] = f[<<mid(l, r) + 1, r>>]
          BY <4>1
        <4>3. g[<<l, mid(l, r)>>] = f[<<l, mid(l, r)>>]
          BY <4>1
        <4> HIDE DEF g
        <4>4. QED
          BY <4>2, <4>3
      <3>3. QED
        BY <1>3, <3>1, <3>2
    <2>4. \A lr \in A \X B : f[lr] = St(g, lr[1], lr[2])
      <3> HIDE DEF St, g, A, B
      <3>1. TAKE lr \in A \X B
      <3>2. lr[1] \in A /\ lr[2] \in B /\ lr = <<lr[1], lr[2]>>
        OBVIOUS
      <3>3. QED
        BY <2>2, <2>3, <3>2
    <2>5. g = F(g)
      <3> HIDE DEF St
      <3>1. F(g) = [lr \in A \X B |-> f[lr]]
        BY <2>4
      <3>2. QED
        BY <3>1
    <2> HIDE DEF g, F
    <2>6. QED
      BY <2>5
  <1>8. s = F(s)
    BY <1>7
  <1> HIDE DEF s
  <1>9. ASSUME NEW l \in A, NEW r \in B PROVE s[<<l, r>>] = St(s, l, r)
    <2> HIDE DEF St, A, B
    <2>1. QED
      BY <1>8
  <1>10. QED
    BY <1>1, <1>9 DEF SearchBy, mid, less, c

(* Of a block in order LowerIdx is the first row not below key, the last   *)
(* if there is none.                                                       *)
LEMMA LowerIdxIs ==
  ASSUME NEW file, NEW b, b.key_num \in Nat \ {0}, NEW key \in Int,
         \A m \in 0 .. b.key_num - 1 : KeyAt(file, b, m) \in Int,
         \A m, n \in 0 .. b.key_num - 1 : m < n => KeyAt(file, b, m) < KeyAt(file, b, n)
  PROVE  LET p == LowerIdx(file, b, key)
         IN  /\ p \in 0 .. b.key_num - 1
             /\ \A m \in 0 .. b.key_num - 1 : m < p => KeyAt(file, b, m) < key
             /\ p < b.key_num - 1 => KeyAt(file, b, p) >= key
  <1> DEFINE c == b.key_num
             a(m) == KeyAt(file, b, m)
             mid(l, r) == (l + r) \div 2
  <1>1. PICK s : /\ LowerIdx(file, b, key) = s[<<0, c - 1>>]
                 /\ \A l \in 0 .. c, r \in -1 .. c :
                      s[<<l, r>>] = IF l >= r THEN l
                                    ELSE IF a(mid(l, r)) < key THEN s[<<mid(l, r) + 1, r>>]
                                    ELSE s[<<l, mid(l, r)>>]
    <2>1. PICK s : SearchBy(s, file, b, key)
      BY SearchIs, Zenon
    <2>2. WITNESS s
    <2>3. QED
      BY <2>1 DEF SearchBy
  <1>2. /\ c \in Nat \ {0} /\ \A m \in 0 .. c - 1 : a(m) \in Int
        /\ \A m, n \in 0 .. c - 1 : m < n => a(m) < a(n)
    OBVIOUS
  <1>3. ASSUME NEW l \in 0 .. c - 1, NEW r \in 0 .. c - 1, l < r
        PROVE  /\ mid(l, r) \in 0 .. c - 1 /\ l <= mid(l, r) /\ mid(l, r) < r
    <2>1. l \in Int /\ r \in Int /\ 0 <= l /\ l < r /\ r <= c - 1 /\ c \in Nat
      BY <1>2, <1>3
    <2>2. mid(l, r) \in Int /\ l <= mid(l, r) /\ mid(l, r) < r
      BY <2>1
    <2> HIDE DEF mid, c
    <2>3. QED
      BY <2>1, <2>2
  <1> HIDE DEF c, a, mid
  <1> DEFINE P(p, l, r) == /\ p \in l .. r
                           /\ \A m \in l .. r : m < p => a(m) < key
                           /\ p < r => a(p) >= key
             T == {d \in Nat : \A l, r \in 0 .. c - 1 :
                      l <= r /\ r - l <= d => P(s[<<l, r>>], l, r)}
  <1>4. ASSUME NEW l \in 0 .. c - 1, l >= l PROVE P(s[<<l, l>>], l, l)
    <2>1. l \in Nat /\ l \in 0 .. c /\ l \in -1 .. c
      BY <1>2
    <2>2. s[<<l, l>>] = l
      BY <1>1, <1>4, <2>1
    <2> SUFFICES P(l, l, l)
      BY <2>2
    <2>3. QED
      BY <2>1
  <1>5. 0 \in T
    <2>1. ASSUME NEW l \in 0 .. c - 1, NEW r \in 0 .. c - 1, l <= r, r - l <= 0
          PROVE  P(s[<<l, r>>], l, r)
      <3>1. l = r /\ l >= l
        BY <1>2, <2>1
      <3> HIDE DEF P
      <3>2. QED
        BY <1>4, <3>1
    <2> HIDE DEF P
    <2>2. QED
      BY <2>1
  <1>6. ASSUME NEW d \in Nat, d \in T PROVE d + 1 \in T
    <2>1. ASSUME NEW l \in 0 .. c - 1, NEW r \in 0 .. c - 1, l <= r, r - l <= d + 1
          PROVE  P(s[<<l, r>>], l, r)
      <3>1. CASE l = r
        <4>1. l >= l
          BY <1>2
        <4> HIDE DEF P
        <4>2. QED
          BY <1>4, <3>1, <4>1
      <3>2. CASE l # r
        <4>1. l < r /\ l \in Nat /\ r \in Nat /\ c \in Nat /\ l \in 0 .. c /\ r \in -1 .. c
          BY <1>2, <2>1, <3>2
        <4> DEFINE q == mid(l, r)
        <4>2. q \in 0 .. c - 1 /\ l <= q /\ q < r
          BY <1>3, <4>1
        <4>3. ~(l >= r)
          BY <4>1
        <4>4. s[<<l, r>>] = IF a(q) < key THEN s[<<q + 1, r>>] ELSE s[<<l, q>>]
          BY <1>1, <4>1, <4>3
        <4>5. \A l1, r1 \in 0 .. c - 1 : l1 <= r1 /\ r1 - l1 <= d => P(s[<<l1, r1>>], l1, r1)
          <5> HIDE DEF P
          <5>1. QED
            BY <1>6
        <4> HIDE DEF q
        <4>6. CASE a(q) < key
          <5>1. q + 1 \in 0 .. c - 1 /\ q + 1 <= r /\ r - (q + 1) <= d
            BY <2>1, <4>1, <4>2
          <5> DEFINE p == s[<<q + 1, r>>]
          <5>2. P(p, q + 1, r)
            <6> HIDE DEF P, p
            <6>1. QED
              BY <4>5, <5>1 DEF p
          <5> HIDE DEF p
          <5>3. \A m \in l .. r : m < p => a(m) < key
            <6> TAKE m \in l .. r
            <6>1. m \in 0 .. c - 1 /\ m \in Int /\ q \in Int
              BY <4>1, <4>2
            <6>2. CASE m < q
              <7>1. a(m) < a(q) /\ a(m) \in Int /\ a(q) \in Int
                BY <1>2, <4>2, <6>1, <6>2
              <7>2. QED
                BY <4>6, <7>1
            <6>3. CASE m = q
              BY <4>6, <6>3
            <6>4. CASE m > q
              <7>1. m \in q + 1 .. r
                BY <4>1, <6>1, <6>4
              <7>2. QED
                BY <5>2, <7>1
            <6>5. m < q \/ m = q \/ m > q
              BY <6>1
            <6>6. QED
              BY <6>2, <6>3, <6>4, <6>5
          <5>4. p \in l .. r
            BY <4>1, <4>2, <5>2
          <5>5. p < r => a(p) >= key
            BY <5>2
          <5>6. P(p, l, r)
            BY <5>3, <5>4, <5>5
          <5> HIDE DEF P
          <5>7. QED
            BY <4>4, <4>6, <5>6 DEF p
        <4>7. CASE ~(a(q) < key)
          <5>1. l <= q /\ q - l <= d
            BY <2>1, <4>1, <4>2
          <5> DEFINE p == s[<<l, q>>]
          <5>2. P(p, l, q)
            <6> HIDE DEF P, p
            <6>1. QED
              BY <4>2, <4>5, <5>1 DEF p
          <5> HIDE DEF p
          <5>3. a(q) >= key
            BY <1>2, <4>2, <4>7
          <5>4. p \in l .. q /\ p \in l .. r
            BY <4>1, <4>2, <5>2
          <5>5. \A m \in l .. r : m < p => a(m) < key
            <6> TAKE m \in l .. r
            <6> HAVE m < p
            <6>1. m \in l .. q
              BY <4>1, <4>2, <5>4
            <6>2. QED
              BY <5>2, <6>1
          <5>6. p < r => a(p) >= key
            <6>1. p < q \/ p = q
              BY <4>1, <4>2, <5>4
            <6>2. QED
              BY <5>2, <5>3, <6>1
          <5>7. P(p, l, r)
            BY <5>4, <5>5, <5>6
          <5> HIDE DEF P
          <5>8. QED
            BY <4>4, <4>7, <5>7 DEF p
        <4>8. QED
          BY <4>6, <4>7
      <3>3. QED
        BY <3>1, <3>2
    <2> HIDE DEF P
    <2>2. QED
      BY <2>1
  <1>7. P(s[<<0, c - 1>>], 0, c - 1)
    <2> HIDE DEF P, T
    <2>1. \A d \in Nat : d \in T
      BY <1>5, <1>6, Induction
    <2>2. c \in T /\ c \in Nat /\ 0 \in 0 .. c - 1 /\ c - 1 \in 0 .. c - 1
          /\ 0 <= c - 1 /\ c - 1 - 0 <= c
      BY <1>2, <2>1
    <2>3. QED
      BY <2>2 DEF T
  <1>8. QED
    BY <1>1, <1>7 DEF c, a

(* Keys in order, each once.                                               *)
Increasing(keys) == \A i, j \in 1 .. Len(keys) : i < j => keys[i] < keys[j]

(* A file that is read to hold keys, in order, and vals.                   *)
OrderedFile(file, keys, vals) ==
    /\ keys \in Seq(Nat) /\ keys # <<>> /\ vals \in Seq(Nat) /\ Len(vals) = Len(keys)
    /\ Increasing(keys) /\ Readable(file, keys, vals)

(* The first row of block i, and the number of its rows.                   *)
First(i) == Before(SingleBlockNum, i) + 1
Length(keys, i) == PartLen(Len(keys), SingleBlockNum, i)

(* Its blocks, by places in keys.                                          *)
LEMMA OrderedBlocks ==
  ASSUME NEW file, NEW keys, NEW vals, OrderedFile(file, keys, vals)
  PROVE  /\ file.block_count \in Nat \ {0} /\ Len(keys) \in Nat \ {0}
         /\ First(1) = 1
         /\ \A i \in 1 .. file.block_count :
              /\ First(i) \in Nat \ {0} /\ Length(keys, i) \in Nat \ {0}
              /\ First(i) + Length(keys, i) <= Len(keys) + 1
              /\ i < file.block_count => First(i + 1) = First(i) + Length(keys, i)
              /\ i = file.block_count => Len(keys) + 1 = First(i) + Length(keys, i)
              /\ BlockMeta(file, i).key_min = keys[First(i)]
              /\ Block(file, i).key_num = Length(keys, i)
              /\ \A m \in 0 .. Length(keys, i) - 1 :
                   /\ First(i) + m \in 1 .. Len(keys)
                   /\ KeyAt(file, Block(file, i), m) = keys[First(i) + m]
                   /\ IdxAt(file, Block(file, i), m) = vals[First(i) + m]
         /\ \A j \in 1 .. Len(keys) : \E i \in 1 .. file.block_count :
              \E m \in 0 .. Length(keys, i) - 1 : j = First(i) + m
  <1> DEFINE n == file.block_count
             size == SingleBlockNum
             l(i) == Length(keys, i)
  <1>1. /\ n \in Nat \ {0} /\ size \in Nat \ {0} /\ Len(keys) \in Nat \ {0}
        /\ n = BlockCount(Len(keys)) /\ n = Parts(Len(keys), size)
    <2>1. keys \in Seq(Nat) /\ keys # <<>> /\ n = BlockCount(Len(keys))
      BY DEF OrderedFile, Readable
    <2>2. QED
      BY <2>1, BlockCountIs, SingleBlockNumIs DEF BlockCount
  <1>2. First(1) = 1
    BY <1>1, BeforeIs DEF First
  <1>3. ASSUME NEW i \in 1 .. n
        PROVE  /\ First(i) \in Nat \ {0} /\ l(i) \in Nat \ {0}
               /\ First(i) + l(i) <= Len(keys) + 1
               /\ i < n => First(i + 1) = First(i) + l(i)
               /\ i = n => Len(keys) + 1 = First(i) + l(i)
    <2>1. /\ Before(size, i) \in Nat /\ l(i) \in Nat \ {0}
          /\ Before(size, i) + l(i) <= Len(keys)
          /\ i < n => Before(size, i + 1) = Before(size, i) + l(i)
          /\ i = n => Len(keys) = Before(size, i) + l(i)
      BY <1>1, PartLenIs DEF Length
    <2> HIDE DEF l, n
    <2>2. QED
      BY <1>1, <2>1 DEF First
  <1>4. ASSUME NEW i \in 1 .. n
        PROVE  /\ BlockMeta(file, i).key_min = keys[First(i)]
               /\ Block(file, i).key_num = l(i)
               /\ \A m \in 0 .. l(i) - 1 :
                    /\ First(i) + m \in 1 .. Len(keys)
                    /\ KeyAt(file, Block(file, i), m) = keys[First(i) + m]
                    /\ IdxAt(file, Block(file, i), m) = vals[First(i) + m]
    <2> DEFINE ks == BlockPart(keys, i)
               vs == BlockPart(vals, i)
    <2>1. keys \in Seq(Nat) /\ keys # <<>> /\ vals \in Seq(Nat) /\ vals # <<>>
          /\ Len(vals) = Len(keys)
          /\ i \in 1 .. BlockCount(Len(keys)) /\ i \in 1 .. BlockCount(Len(vals))
      BY <1>1 DEF OrderedFile
    <2>2. /\ ks \in Seq(Nat) /\ Len(ks) = l(i)
          /\ \A m \in 1 .. l(i) : /\ ks[m] = keys[Before(size, i) + m]
                                  /\ vs[m] = vals[Before(size, i) + m]
                                  /\ Before(size, i) + m \in 1 .. Len(keys)
      BY <2>1, BlockPartIs DEF Length
    <2>3. /\ BlockMeta(file, i).key_min = Min(Range(ks))
          /\ Block(file, i).key_num = l(i)
          /\ \A m \in 1 .. l(i) : /\ KeyAt(file, Block(file, i), m - 1) = ks[m]
                                  /\ IdxAt(file, Block(file, i), m - 1) = vs[m]
      <3> HIDE DEF n, l
      <3>1. QED
        BY <2>1, <2>2 DEF OrderedFile, Readable
    <2> HIDE DEF ks, vs
    <2>4. /\ l(i) \in Nat \ {0} /\ Before(size, i) \in Nat
          /\ First(i) = Before(size, i) + 1 /\ First(i) \in Nat
      BY <1>1, <1>3, PartLenIs DEF First
    <2> HIDE DEF l, size
    <2>5. ASSUME NEW m \in 0 .. l(i) - 1
          PROVE  /\ First(i) + m \in 1 .. Len(keys)
                 /\ KeyAt(file, Block(file, i), m) = keys[First(i) + m]
                 /\ IdxAt(file, Block(file, i), m) = vals[First(i) + m]
      <3>1. m + 1 \in 1 .. l(i) /\ m + 1 - 1 = m
            /\ Before(size, i) + (m + 1) = First(i) + m
        BY <2>4
      <3>2. /\ KeyAt(file, Block(file, i), m + 1 - 1) = ks[m + 1]
            /\ IdxAt(file, Block(file, i), m + 1 - 1) = vs[m + 1]
            /\ ks[m + 1] = keys[Before(size, i) + (m + 1)]
            /\ vs[m + 1] = vals[Before(size, i) + (m + 1)]
            /\ Before(size, i) + (m + 1) \in 1 .. Len(keys)
        BY <2>2, <2>3, <3>1
      <3>3. QED
        BY <3>1, <3>2
    <2>6. Min(Range(ks)) = keys[First(i)]
      <3>1. /\ 1 \in DOMAIN ks /\ ks[1] = keys[First(i)] /\ Range(ks) \subseteq Nat
            /\ Range(ks) # {}
        BY <2>2, <2>4 DEF Range
      <3>2. Min(Range(ks)) \in Range(ks) /\ \A x \in Range(ks) : Min(Range(ks)) <= x
        BY <3>1, MinIs
      <3> DEFINE least == Min(Range(ks))
      <3>3. least \in Range(ks) /\ DOMAIN ks = 1 .. l(i)
        BY <2>2, <3>2
      <3> HIDE DEF least
      <3>4. \E m \in DOMAIN ks : ks[m] = least
        BY <3>3 DEF Range
      <3>5. PICK m \in 1 .. l(i) : ks[m] = Min(Range(ks))
        BY <3>3, <3>4 DEF least
      <3>6. ks[1] \in Range(ks)
        BY <3>1 DEF Range
      <3>7. m = 1 \/ ks[1] < ks[m]
        <4>1. /\ Before(size, i) + m \in 1 .. Len(keys)
              /\ Before(size, i) + 1 \in 1 .. Len(keys)
              /\ ks[m] = keys[Before(size, i) + m]
              /\ ks[1] = keys[Before(size, i) + 1]
          BY <2>2, <2>4
        <4>2. m = 1 \/ Before(size, i) + 1 < Before(size, i) + m
          BY <2>4
        <4>3. Increasing(keys)
          BY DEF OrderedFile
        <4>4. QED
          BY <4>1, <4>2, <4>3 DEF Increasing
      <3>8. Min(Range(ks)) \in Nat /\ ks[1] \in Nat
        BY <3>1, <3>2, <3>6
      <3>9. QED
        BY <3>1, <3>2, <3>5, <3>6, <3>7, <3>8
    <2>7. QED
      BY <2>3, <2>5, <2>6
  <1>5. ASSUME NEW j \in 1 .. Len(keys)
        PROVE  \E i \in 1 .. n : \E m \in 0 .. l(i) - 1 : j = First(i) + m
    <2>1. \E i \in 1 .. Parts(Len(keys), size) : \E m \in 1 .. PartLen(Len(keys), size, i) :
             j = Before(size, i) + m
      BY <1>1, PartOfRow
    <2>2. PICK i \in 1 .. n : \E m \in 1 .. l(i) : j = Before(size, i) + m
      BY <1>1, <2>1, Zenon DEF Length
    <2>3. PICK m \in 1 .. l(i) : j = Before(size, i) + m
      BY <2>2
    <2>4. l(i) \in Nat \ {0} /\ First(i) = Before(size, i) + 1 /\ Before(size, i) \in Nat
      BY <1>1, <1>3, PartLenIs DEF First
    <2> HIDE DEF l, size
    <2>5. m - 1 \in 0 .. l(i) - 1 /\ j = First(i) + (m - 1)
      BY <2>3, <2>4
    <2>6. QED
      BY <2>5
  <1> HIDE DEF l
  <1>6. QED
    BY <1>1, <1>2, <1>3, <1>4, <1>5 DEF l

(* LowerIdx in a block, by places in keys.                                 *)
LEMMA OrderedLower ==
  ASSUME NEW file, NEW keys, NEW vals, OrderedFile(file, keys, vals),
         NEW i \in 1 .. file.block_count, NEW key \in Int
  PROVE  LET p == LowerIdx(file, Block(file, i), key)
         IN  /\ p \in 0 .. Length(keys, i) - 1
             /\ \A m \in 0 .. Length(keys, i) - 1 : m < p => keys[First(i) + m] < key
             /\ p < Length(keys, i) - 1 => keys[First(i) + p] >= key
  <1> DEFINE b == Block(file, i)
             l == Length(keys, i)
             p == LowerIdx(file, b, key)
  <1>1. /\ First(i) \in Nat \ {0} /\ l \in Nat \ {0} /\ b.key_num = l
        /\ \A m \in 0 .. l - 1 : /\ First(i) + m \in 1 .. Len(keys)
                                 /\ KeyAt(file, b, m) = keys[First(i) + m]
    BY OrderedBlocks
  <1>2. keys \in Seq(Nat) /\ Increasing(keys)
    BY DEF OrderedFile
  <1> HIDE DEF b, l
  <1>3. \A m \in 0 .. l - 1 : KeyAt(file, b, m) \in Int
    BY <1>1, <1>2
  <1>4. \A m, n \in 0 .. l - 1 : m < n => KeyAt(file, b, m) < KeyAt(file, b, n)
    <2> SUFFICES ASSUME NEW m \in 0 .. l - 1, NEW n \in 0 .. l - 1, m < n
                 PROVE  keys[First(i) + m] < keys[First(i) + n]
      BY <1>1
    <2>1. First(i) + m < First(i) + n
      BY <1>1
    <2>2. QED
      BY <1>1, <1>2, <2>1 DEF Increasing
  <1>5. /\ p \in 0 .. l - 1
        /\ \A m \in 0 .. l - 1 : m < p => KeyAt(file, b, m) < key
        /\ p < l - 1 => KeyAt(file, b, p) >= key
    BY <1>1, <1>3, <1>4, LowerIdxIs
  <1> HIDE DEF p
  <1>6. QED
    BY <1>1, <1>5 DEF p, b, l

(* BlockFor is the block where key is, if it is in the file, and no block  *)
(* before it reaches key.                                                  *)
LEMMA BlockForIs ==
  ASSUME NEW file, NEW keys, NEW vals, OrderedFile(file, keys, vals), NEW key \in Int
  PROVE  LET b == BlockFor(file, key)
         IN  /\ b \in 1 .. file.block_count
             /\ b = 1 \/ keys[First(b)] <= key
             /\ b = file.block_count \/ key < keys[First(b + 1)]
  <1> DEFINE n == file.block_count
             after == {i \in 1 .. n : key < BlockMeta(file, i).key_min}
             upper == IF after = {} THEN n + 1 ELSE Min(after)
             b == BlockFor(file, key)
  <1>1. /\ n \in Nat \ {0}
        /\ \A i \in 1 .. n : BlockMeta(file, i).key_min = keys[First(i)]
                             /\ keys[First(i)] \in Nat
    <2>1. /\ n \in Nat \ {0}
          /\ \A i \in 1 .. n :
                /\ BlockMeta(file, i).key_min = keys[First(i)]
                /\ First(i) \in Nat \ {0} /\ Length(keys, i) \in Nat \ {0}
                /\ First(i) + Length(keys, i) <= Len(keys) + 1
          /\ Len(keys) \in Nat
      BY OrderedBlocks
    <2>2. \A i \in 1 .. n : First(i) \in 1 .. Len(keys)
      BY <2>1
    <2>3. keys \in Seq(Nat)
      BY DEF OrderedFile
    <2> HIDE DEF n
    <2>4. QED
      BY <2>1, <2>2, <2>3
  <1>2. b = IF upper = 1 THEN 1 ELSE upper - 1
    BY DEF BlockFor
  <1>3. \A i \in 1 .. n : i \in after <=> key < keys[First(i)]
    BY <1>1
  <1> HIDE DEF n, b
  <1>4. upper \in 1 .. n + 1 /\ (upper <= n => upper \in after)
        /\ \A i \in 1 .. n : i < upper => i \notin after
    <2>1. CASE after = {}
      BY <1>1, <2>1
    <2>2. CASE after # {}
      <3>1. after \subseteq Nat /\ after \subseteq 1 .. n
        BY <1>1
      <3>2. Min(after) \in after /\ \A i \in after : Min(after) <= i
        BY <2>2, <3>1, MinIs
      <3>3. upper = Min(after)
        BY <2>2
      <3> HIDE DEF after, upper
      <3>4. upper \in after /\ \A i \in after : upper <= i
        BY <3>2, <3>3
      <3>5. upper \in 1 .. n
        BY <3>1, <3>4
      <3>6. \A i \in 1 .. n : i < upper => i \notin after
        BY <1>1, <3>4, <3>5
      <3>7. QED
        BY <1>1, <3>4, <3>5, <3>6
    <2>3. QED
      BY <2>1, <2>2
  <1> HIDE DEF upper, after
  <1>5. b \in 1 .. n
    BY <1>1, <1>2, <1>4
  <1>6. b = 1 \/ keys[First(b)] <= key
    <2>1. b = 1 \/ b \notin after
      BY <1>1, <1>2, <1>4
    <2>2. QED
      BY <1>1, <1>3, <1>5, <2>1
  <1>7. b = n \/ key < keys[First(b + 1)]
    <2>1. CASE upper = 1
      <3>1. key < keys[First(1)] /\ b = 1 /\ 1 \in 1 .. n
        BY <1>1, <1>2, <1>3, <1>4, <2>1
      <3>2. CASE n # 1
        <4>1. keys[First(1)] < keys[First(2)]
          <5>1. First(1) < First(2) /\ First(1) \in 1 .. Len(keys) /\ First(2) \in 1 .. Len(keys)
            <6>1. /\ 2 \in 1 .. n /\ 1 \in 1 .. n /\ 1 < n /\ 1 + 1 = 2
              BY <1>1, <3>2
            <6>2. /\ First(1) \in Nat \ {0} /\ Length(keys, 1) \in Nat \ {0}
                  /\ First(2) \in Nat \ {0} /\ Length(keys, 2) \in Nat \ {0}
                  /\ First(1 + 1) = First(1) + Length(keys, 1)
                  /\ First(2) + Length(keys, 2) <= Len(keys) + 1
                  /\ Len(keys) \in Nat
              <7>1. /\ 2 \in 1 .. file.block_count /\ 1 \in 1 .. file.block_count
                    /\ 1 < file.block_count
                BY <6>1 DEF n
              <7>2. QED
                BY <7>1, OrderedBlocks
            <6>3. QED
              BY <6>1, <6>2
          <5>2. Increasing(keys)
            BY DEF OrderedFile
          <5>3. QED
            BY <5>1, <5>2 DEF Increasing
        <4>2. 2 \in 1 .. n
          BY <1>1, <3>2
        <4>3. QED
          BY <1>1, <3>1, <4>1, <4>2
      <3>3. QED
        BY <3>1, <3>2
    <2>2. CASE upper # 1
      <3>1. b + 1 = upper
        BY <1>1, <1>2, <1>4, <2>2
      <3>2. CASE upper <= n
        BY <1>1, <1>3, <1>4, <3>1, <3>2
      <3>3. CASE ~(upper <= n)
        BY <1>1, <1>4, <1>5, <3>1, <3>3
      <3>4. QED
        BY <3>2, <3>3
    <2>3. QED
      BY <2>1, <2>2
  <1>8. QED
    BY <1>5, <1>6, <1>7 DEF n, b

(* A point read of the file finds a key's index, and only of a key in it.  *)
LEMMA FileGetIs ==
  ASSUME NEW file, NEW keys, NEW vals, OrderedFile(file, keys, vals),
         NEW short, Pad(short) \in Int
  PROVE  /\ \A j \in 1 .. Len(keys) :
              keys[j] = Pad(short) => FileGet(file, short) = GetString(file.dictionary, vals[j])
         /\ (\A j \in 1 .. Len(keys) : keys[j] # Pad(short)) => FileGet(file, short) = Absent
  <1> DEFINE key == Pad(short)
             n == file.block_count
             low(i) == LowerIdx(file, Block(file, i), key)
             hits == {i \in 1 .. n :
                        /\ BlockMeta(file, i).key_min <= key
                        /\ i = n \/ key < BlockMeta(file, i + 1).key_min
                        /\ KeyAt(file, Block(file, i), low(i)) = key}
             h == Min(hits)
             l(i) == Length(keys, i)
  <1>1. FileGet(file, short) =
          IF hits = {} THEN Absent
          ELSE GetString(file.dictionary, IdxAt(file, Block(file, h), low(h)))
    BY DEF FileGet
  <1>2. n \in Nat \ {0} /\ keys \in Seq(Nat) /\ Increasing(keys) /\ key \in Int
        /\ Len(keys) \in Nat
    BY OrderedBlocks DEF OrderedFile
  <1>3. ASSUME NEW i \in 1 .. n
        PROVE  /\ low(i) \in 0 .. l(i) - 1
               /\ \A m \in 0 .. l(i) - 1 : m < low(i) => keys[First(i) + m] < key
               /\ low(i) < l(i) - 1 => keys[First(i) + low(i)] >= key
    BY <1>2, OrderedLower
  <1>4. /\ \A i \in 1 .. n :
             /\ First(i) \in Nat \ {0} /\ l(i) \in Nat \ {0}
             /\ First(i) + l(i) <= Len(keys) + 1
             /\ i < n => First(i + 1) = First(i) + l(i)
             /\ BlockMeta(file, i).key_min = keys[First(i)]
             /\ \A m \in 0 .. l(i) - 1 :
                   /\ First(i) + m \in 1 .. Len(keys)
                   /\ KeyAt(file, Block(file, i), m) = keys[First(i) + m]
                   /\ IdxAt(file, Block(file, i), m) = vals[First(i) + m]
    BY OrderedBlocks
  <1>5. \A j \in 1 .. Len(keys) : \E i \in 1 .. n : \E m \in 0 .. l(i) - 1 : j = First(i) + m
    BY OrderedBlocks
  <1> HIDE DEF n, key, low, l, hits
  <1>6. ASSUME hits # {}
        PROVE  /\ First(h) + low(h) \in 1 .. Len(keys)
               /\ keys[First(h) + low(h)] = key
               /\ IdxAt(file, Block(file, h), low(h)) = vals[First(h) + low(h)]
    <2>1. hits \subseteq 1 .. n /\ hits \subseteq Nat
      BY <1>2 DEF hits
    <2>2. h \in hits /\ h \in 1 .. n
      BY <1>6, <2>1, MinIs
    <2> HIDE DEF h
    <2>3. KeyAt(file, Block(file, h), low(h)) = key
      BY <2>2 DEF hits
    <2>4. low(h) \in 0 .. l(h) - 1
      BY <1>3, <2>2
    <2>5. QED
      BY <1>4, <2>2, <2>3, <2>4
  <1>7. ASSUME NEW j \in 1 .. Len(keys), keys[j] = key
        PROVE  FileGet(file, short) = GetString(file.dictionary, vals[j])
    <2>1. PICK i \in 1 .. n : \E m \in 0 .. l(i) - 1 : j = First(i) + m
      BY <1>5
    <2>2. PICK m \in 0 .. l(i) - 1 : j = First(i) + m
      BY <2>1
    <2>3. /\ First(i) \in Nat \ {0} /\ l(i) \in Nat \ {0} /\ First(i) + l(i) <= Len(keys) + 1
          /\ i < n => First(i + 1) = First(i) + l(i)
          /\ low(i) \in 0 .. l(i) - 1
      BY <1>3, <1>4
    <2>4. low(i) = m
      <3>1. CASE m < low(i)
        <4>1. keys[First(i) + m] < key
          BY <1>3, <3>1
        <4>2. QED
          BY <1>2, <1>7, <2>2, <4>1
      <3>2. CASE low(i) < m
        <4>1. low(i) < l(i) - 1
          BY <2>3, <3>2
        <4>2. keys[First(i) + low(i)] >= key
          BY <1>3, <4>1
        <4>3. First(i) + low(i) < j /\ First(i) + low(i) \in 1 .. Len(keys)
          BY <2>2, <2>3, <3>2
        <4>4. keys[First(i) + low(i)] < keys[j] /\ keys[First(i) + low(i)] \in Nat
          BY <1>2, <4>3 DEF Increasing
        <4>5. QED
          BY <1>2, <1>7, <4>2, <4>4
      <3>3. m < low(i) \/ low(i) < m \/ low(i) = m
        BY <2>3
      <3>4. QED
        BY <3>1, <3>2, <3>3
    <2>5. KeyAt(file, Block(file, i), low(i)) = key
      BY <1>4, <1>7, <2>2, <2>4
    <2>6. BlockMeta(file, i).key_min <= key
      <3>1. First(i) \in 1 .. Len(keys) /\ (First(i) < j \/ First(i) = j)
        BY <2>2, <2>3
      <3>2. keys[First(i)] \in Nat /\ keys[j] \in Nat
            /\ (keys[First(i)] < keys[j] \/ keys[First(i)] = keys[j])
        BY <1>2, <3>1 DEF Increasing
      <3>3. QED
        BY <1>4, <1>7, <3>2
    <2>7. i = n \/ key < BlockMeta(file, i + 1).key_min
      <3>1. SUFFICES ASSUME i # n PROVE key < BlockMeta(file, i + 1).key_min
        OBVIOUS
      <3>2. i + 1 \in 1 .. n /\ i < n
        BY <1>2, <3>1
      <3>3. /\ First(i + 1) = First(i) + l(i) /\ l(i + 1) \in Nat \ {0}
            /\ First(i + 1) + l(i + 1) <= Len(keys) + 1
            /\ BlockMeta(file, i + 1).key_min = keys[First(i + 1)]
        BY <1>4, <3>2
      <3>4. j < First(i + 1) /\ First(i + 1) \in 1 .. Len(keys)
        BY <1>2, <2>2, <2>3, <3>3
      <3>5. keys[j] < keys[First(i + 1)]
        BY <1>2, <3>4 DEF Increasing
      <3>6. QED
        BY <1>7, <3>3, <3>5
    <2>8. hits # {}
      BY <2>5, <2>6, <2>7 DEF hits
    <2>9. First(h) + low(h) = j
      <3> DEFINE q == First(h) + low(h)
      <3>1. q \in 1 .. Len(keys) /\ keys[q] = keys[j]
        BY <1>6, <1>7, <2>8
      <3> HIDE DEF q
      <3>2. keys[q] \in Nat /\ keys[j] \in Nat /\ (q < j \/ j < q \/ q = j)
        BY <1>2, <3>1
      <3>3. QED
        BY <1>2, <3>1, <3>2 DEF Increasing, q
    <2> HIDE DEF h
    <2>10. QED
      BY <1>1, <1>6, <2>8, <2>9
  <1>8. ASSUME \A j \in 1 .. Len(keys) : keys[j] # key
        PROVE  FileGet(file, short) = Absent
    BY <1>1, <1>6, <1>8
  <1>9. QED
    BY <1>7, <1>8 DEF key

-----------------------------------------------------------------------------
(* Rows, and the keys they have.                                           *)
RowsType == [Key -> Value \cup {Absent, Tombstone}]
RowKeys(rows) == {k \in Key : rows[k] # Absent}

(* No row is deleted.                                                      *)
Clean(rows) == \A k \in Key : rows[k] # Tombstone

(* What keys are: odd, and so not changed by Pad.                          *)
LEMMA KeyFacts ==
  /\ IsFiniteSet(Key) /\ Key \subseteq Nat /\ Key \subseteq Int
  /\ \A k \in Key : k \in Nat /\ k % 2 = 1 /\ k >= 3 /\ Pad(k) = k /\ CStr(k) = k - 1
  <1>1. IsFiniteSet(Key) /\ \A k \in Key : k \in Nat /\ k % 2 = 1 /\ k >= 3
    BY RelFileAssumption
  <1>2. \A k \in Key : Pad(k) = k /\ CStr(k) = k - 1
    BY <1>1 DEF Pad, CStr
  <1>3. QED
    BY <1>1, <1>2

(* A string's index in the dictionary of a set of strings.                 *)
LEMMA IndexIs ==
  ASSUME NEW S, IsFiniteSet(S), S \subseteq Nat, NEW s
  PROVE  /\ s \in S => /\ GetMapping(Sorted(S), s) \in Nat
                       /\ GetString(Sorted(S), GetMapping(Sorted(S), s)) = s
                       /\ Place(S, s) \in Nat
                       /\ GetString(Sorted(S), Place(S, s)) = s
         /\ s \notin S => GetMapping(Sorted(S), s) = NONEINDEX
  <1> DEFINE d == Sorted(S)
             c == Cardinality(S)
  <1>1. /\ c \in Nat /\ d \in [1 .. c -> S]
        /\ \A x \in S : Place(S, x) + 1 \in 1 .. c /\ d[Place(S, x) + 1] = x
        /\ Range(d) = S
    <2>1. S \subseteq Int
      OBVIOUS
    <2>2. QED
      BY <2>1, SortedIs
  <1> HIDE DEF d, c
  <1>2. DOMAIN d = 1 .. c
    BY <1>1
  <1>3. ASSUME s \in S
        PROVE  GetMapping(d, s) \in Nat /\ GetString(d, GetMapping(d, s)) = s
    <2> DEFINE i == CHOOSE i \in DOMAIN d : d[i] = s
    <2>1. \E x \in DOMAIN d : d[x] = s
      BY <1>1, <1>2, <1>3
    <2>2. i \in DOMAIN d /\ d[i] = s
      BY <2>1
    <2>3. GetMapping(d, s) = i - 1
      BY <1>1, <1>3 DEF GetMapping
    <2> HIDE DEF i
    <2>4. i - 1 \in Nat /\ i - 1 + 1 = i
      BY <1>1, <1>2, <2>2
    <2>5. QED
      BY <2>2, <2>3, <2>4 DEF GetString
  <1>4. ASSUME s \in S
        PROVE  Place(S, s) \in Nat /\ GetString(d, Place(S, s)) = s
    <2>1. Place(S, s) \in Nat
      BY <1>4, PlaceType
    <2>2. Place(S, s) + 1 \in DOMAIN d /\ d[Place(S, s) + 1] = s
      BY <1>1, <1>2, <1>4
    <2>3. QED
      BY <2>1, <2>2 DEF GetString
  <1>5. s \notin S => GetMapping(d, s) = NONEINDEX
    BY <1>1 DEF GetMapping
  <1>6. QED
    BY <1>3, <1>4, <1>5 DEF d

(* A new file is read to hold what it was made from.                       *)
LEMMA NewFileIs ==
  ASSUME NEW key_min, NEW key_max, NEW dictionary, NEW rows,
         NEW keys \in Seq(Nat), keys # <<>>, NEW vals \in Seq(Nat), Len(vals) = Len(keys)
  PROVE  LET f == NewFile(key_min, key_max, dictionary, keys, vals, rows)
         IN  /\ f.key_min = key_min /\ f.key_max = key_max /\ f.dictionary = dictionary
             /\ f.bloom = Range(keys) /\ f.rows = rows
             /\ Readable(f, keys, vals) /\ KeysAndIdxs(f) = Zip(keys, vals)
  <1> DEFINE f == NewFile(key_min, key_max, dictionary, keys, vals, rows)
  <1>1. /\ f.key_min = key_min /\ f.key_max = key_max /\ f.dictionary = dictionary
        /\ f.bloom = Range(keys) /\ f.rows = rows
        /\ Arranged(f, keys, vals)
    BY DEF NewFile, Arranged
  <1> HIDE DEF f
  <1>2. Readable(f, keys, vals)
    BY <1>1, ArrangedReadable
  <1>3. KeysAndIdxs(f) = Zip(keys, vals)
    BY <1>2, KeysAndIdxsAre
  <1>4. QED
    BY <1>1, <1>2, <1>3 DEF f

(* What every file is.  A file of deleted rows has a row whose string is   *)
(* in no dictionary.                                                       *)
Holding(f, keys, vals) ==
    /\ OrderedFile(f, keys, vals) /\ Range(keys) = RowKeys(f.rows)
    /\ \A j \in 1 .. Len(keys) : GetString(f.dictionary, vals[j]) = f.rows[keys[j]]

(* The strings of rows, and a file as it should be, its filter and its     *)
(* dictionary too.                                                         *)
Values(rows) == {rows[k] : k \in RowKeys(rows)}

(* A file as it should be, its filter too.                                 *)
CleanFile(f) ==
    /\ f.bloom = RowKeys(f.rows) /\ f.dictionary = Sorted(Values(f.rows))
    /\ \E keys, vals : Holding(f, keys, vals)

(* What every file is, however it came about.  A deleted row leaves an     *)
(* index that is in no dictionary, and then the file is never merged.      *)
FileMade(f) ==
    /\ f.rows \in RowsType /\ RowKeys(f.rows) # {}
    /\ f.key_min \in Nat /\ f.key_max \in Nat
    /\ \A k \in RowKeys(f.rows) : f.key_min <= k /\ k <= f.key_max
    /\ Clean(f.rows) => CleanFile(f)
    /\ ~Clean(f.rows) => \E r \in Range(KeysAndIdxs(f)) : r[2] = NONEINDEX

(* The keys of rows, in order.                                             *)
LEMMA WrittenIs ==
  ASSUME NEW rows, RowKeys(rows) # {}
  PROVE  LET S == RowKeys(rows)
             s == Sorted(S)
         IN  /\ IsFiniteSet(S) /\ S \subseteq Key /\ S \subseteq Nat /\ S \subseteq Int
             /\ Cardinality(S) \in Nat \ {0}
             /\ s \in Seq(Nat) /\ s # <<>> /\ Len(s) = Cardinality(S) /\ s \in Seq(S)
             /\ Increasing(s) /\ Range(s) = S
             /\ \A i \in 1 .. Len(s) : s[i] \in S
             /\ \A k \in S : s[1] <= k /\ k <= s[Len(s)]
             /\ \A k \in S : \E i \in 1 .. Len(s) : s[i] = k
  <1> DEFINE S == RowKeys(rows)
             s == Sorted(S)
             c == Cardinality(S)
  <1>1. S \subseteq Key /\ IsFiniteSet(S) /\ S \subseteq Nat /\ S \subseteq Int
    <2>1. S \subseteq Key
      BY DEF RowKeys
    <2>2. QED
      BY <2>1, KeyFacts, FS_Subset
  <1>2. /\ c \in Nat /\ s \in [1 .. c -> S]
        /\ \A i, j \in 1 .. c : i < j => s[i] < s[j]
        /\ \A x \in S : Place(S, x) + 1 \in 1 .. c /\ s[Place(S, x) + 1] = x
        /\ Range(s) = S
    BY <1>1, SortedIs
  <1>3. S # {}
    OBVIOUS
  <1> HIDE DEF S, s, c
  <1>4. c \in Nat \ {0}
    <2>1. PICK x \in S : TRUE
      BY <1>3
    <2>2. QED
      BY <1>2, <2>1
  <1>5. s \in Seq(S) /\ Len(s) = c /\ s \in Seq(Nat) /\ s # <<>>
    <2>1. s \in Seq(S) /\ Len(s) = c
      BY <1>2
    <2>2. s \in [1 .. c -> Nat]
      BY <1>1, <1>2
    <2>3. s \in Seq(Nat)
      BY <1>2, <2>2
    <2>4. s # <<>>
      BY <1>4, <2>1
    <2>5. QED
      BY <2>1, <2>3, <2>4
  <1>6. \A i \in 1 .. c : s[i] \in S /\ s[i] \in Nat
    BY <1>1, <1>2
  <1>7. ASSUME NEW k \in S
        PROVE  /\ s[1] <= k /\ k <= s[Len(s)]
               /\ \E i \in 1 .. Len(s) : s[i] = k
    <2> DEFINE i == Place(S, k) + 1
    <2>1. i \in 1 .. c /\ s[i] = k
      BY <1>2
    <2> HIDE DEF i
    <2>2. i = 1 \/ 1 < i
      BY <1>4, <2>1
    <2>3. i = c \/ i < c
      BY <1>4, <2>1
    <2>4. 1 \in 1 .. c /\ c \in 1 .. c
      BY <1>4
    <2>5. s[1] <= k
      BY <1>2, <1>6, <2>1, <2>2, <2>4
    <2>6. k <= s[c]
      BY <1>2, <1>6, <2>1, <2>3, <2>4
    <2>7. QED
      BY <1>5, <2>1, <2>5, <2>6
  <1>8. Increasing(s)
    BY <1>2, <1>5 DEF Increasing
  <1>9. QED
    BY <1>1, <1>2, <1>4, <1>5, <1>6, <1>7, <1>8 DEF S, s, c

(* A finite function has a finite range.                                   *)
LEMMA FiniteRange ==
  ASSUME NEW n \in Nat, NEW X, NEW g \in [1 .. n -> X]
  PROVE  IsFiniteSet(Range(g))
  <1>1. g \in Surjection(1 .. n, Range(g))
    BY DEF Surjection, Range
  <1>2. IsFiniteSet(1 .. n)
    BY FS_Interval
  <1>3. QED
    BY <1>1, <1>2, FS_Surjection

(* A memtable is persisted as a file.                                      *)
LEMMA PersistedIs ==
  ASSUME NEW rows \in RowsType, RowKeys(rows) # {}
  PROVE  FileMade(Persisted(rows)) /\ Persisted(rows).rows = rows
  <1> DEFINE S == RowKeys(rows)
             there == Sorted(S)
             column == ValueColumn(rows, there)
             keys == [i \in DOMAIN there |-> Pad(KeyColumn(rows, there)[i])]
             dict == Import(Range(column))
             vals == CompressData(dict, column)
             f == NewFile(there[1], there[Len(there)], dict, keys, vals, rows)
             Strs == Range(column) \ {0}
             deleted(i) == rows[there[i]] = Tombstone
  <1>1. Persisted(rows) = f
    BY DEF Persisted, RowKeys
  <1>2. /\ S \subseteq Key /\ there \in Seq(Nat) /\ there # <<>> /\ there \in Seq(S)
        /\ Len(there) \in Nat \ {0} /\ DOMAIN there = 1 .. Len(there)
        /\ \A i \in 1 .. Len(there) : there[i] \in S
        /\ \A k \in S : /\ there[1] <= k /\ k <= there[Len(there)]
                        /\ \E i \in 1 .. Len(there) : there[i] = k
        /\ Increasing(there) /\ Range(there) = S
    <2>1. /\ S \subseteq Key /\ there \in Seq(Nat) /\ there # <<>> /\ there \in Seq(S)
          /\ \A i \in 1 .. Len(there) : there[i] \in S
          /\ \A k \in S : there[1] <= k /\ k <= there[Len(there)]
          /\ \A k \in S : \E i \in 1 .. Len(there) : there[i] = k
          /\ Increasing(there) /\ Range(there) = S
      BY WrittenIs
    <2> HIDE DEF there, S
    <2>2. QED
      BY <2>1
  <1>3. \A k \in S : rows[k] \in Value \/ rows[k] = Tombstone
    BY DEF RowKeys, RowsType
  <1> HIDE DEF S, there
  <1> DEFINE n == Len(there)
  <1>4. /\ keys = [i \in 1 .. n |-> IF deleted(i) THEN 1 ELSE there[i]]
        /\ column = [i \in 1 .. n |-> IF deleted(i) THEN 0 ELSE rows[there[i]]]
    <2>1. column = [i \in 1 .. n |-> IF deleted(i) THEN 0 ELSE rows[there[i]]]
      BY <1>2 DEF ValueColumn
    <2>2. ASSUME NEW i \in 1 .. n
          PROVE  Pad(KeyColumn(rows, there)[i]) = IF deleted(i) THEN 1 ELSE there[i]
      <3>1. KeyColumn(rows, there)[i] = IF deleted(i) THEN 0 ELSE there[i]
        BY <1>2 DEF KeyColumn
      <3>2. Pad(0) = 1
        BY DEF Pad
      <3>3. Pad(there[i]) = there[i]
        BY <1>2, KeyFacts
      <3>4. QED
        BY <3>1, <3>2, <3>3
    <2>3. keys = [i \in 1 .. n |-> IF deleted(i) THEN 1 ELSE there[i]]
      BY <1>2, <2>2
    <2>4. QED
      BY <2>1, <2>3
  <1>5. /\ keys \in Seq(Nat) /\ Len(keys) = n /\ keys # <<>>
        /\ \A i \in 1 .. n : column[i] \in Value \cup {0}
        /\ DOMAIN column = 1 .. n
        /\ \A i \in 1 .. n : IF deleted(i) THEN column[i] = 0
                             ELSE column[i] = rows[there[i]] /\ column[i] \in Value
    <2>1. \A i \in 1 .. n : there[i] \in Nat
      BY <1>2
    <2>2. \A i \in 1 .. n : deleted(i) \/ rows[there[i]] \in Value
      BY <1>2, <1>3
    <2> HIDE DEF keys, column, deleted
    <2>3. keys \in Seq(Nat) /\ Len(keys) = n
      <3>1. keys = [i \in 1 .. n |-> keys[i]]
        BY <1>4
      <3>2. \A i \in 1 .. n : keys[i] \in Nat
        BY <1>4, <2>1
      <3> HIDE DEF n
      <3>3. n \in Nat
        BY <1>2 DEF n
      <3>4. QED
        BY <3>1, <3>2, <3>3
    <2>4. keys # <<>>
      BY <1>2, <2>3
    <2>5. QED
      BY <1>4, <2>2, <2>3, <2>4
  <1>6. IsFiniteSet(Strs) /\ Strs \subseteq Nat
    <2>1. column = [i \in 1 .. n |-> column[i]]
      BY <1>4
    <2> HIDE DEF column
    <2>2. column \in [1 .. n -> Value \cup {0}] /\ n \in Nat
      <3> HIDE DEF n
      <3>1. n \in Nat
        BY <1>2 DEF n
      <3>2. QED
        BY <1>5, <2>1, <3>1
    <2>3. IsFiniteSet(Range(column)) /\ Range(column) \subseteq Value \cup {0}
      <3> HIDE DEF n
      <3>1. IsFiniteSet(Range(column))
        BY <2>2, FiniteRange
      <3>2. QED
        BY <2>2, <3>1 DEF Range
    <2>4. Value \subseteq Nat
      BY RelFileAssumption
    <2> HIDE DEF column, deleted, n
    <2>5. Strs \subseteq Range(column) /\ Strs \subseteq Nat
      BY <2>3, <2>4
    <2>6. QED
      BY <2>3, <2>5, FS_Subset
  <1>7. dict = Sorted(Strs)
    BY DEF Import
  <1> HIDE DEF Strs, dict
  <1>8. /\ DOMAIN vals = 1 .. n
        /\ \A i \in 1 .. n : vals[i] = GetMapping(dict, column[i])
    <2> HIDE DEF column
    <2>1. QED
      BY <1>5 DEF CompressData
  <1>9. \A i \in 1 .. n : IF deleted(i) THEN vals[i] = NONEINDEX
                          ELSE vals[i] \in Nat /\ GetString(dict, vals[i]) = rows[there[i]]
    <2> TAKE i \in 1 .. n
    <2>1. vals[i] = GetMapping(dict, column[i])
      BY <1>8
    <2>2. CASE deleted(i)
      <3>1. column[i] = 0 /\ 0 \notin Strs
        BY <1>5, <2>2 DEF Strs
      <3> HIDE DEF column, vals, deleted
      <3>2. GetMapping(dict, 0) = NONEINDEX
        BY <1>6, <1>7, <3>1, IndexIs
      <3>3. QED
        BY <2>1, <2>2, <3>1, <3>2
    <2>3. CASE ~deleted(i)
      <3> HIDE DEF vals, deleted, n
      <3>1. column[i] = rows[there[i]] /\ column[i] \in Value /\ i \in DOMAIN column
        BY <1>5, <2>3
      <3>2. 0 \notin Value
        BY RelFileAssumption
      <3> HIDE DEF column
      <3>3. column[i] \in Strs
        BY <3>1, <3>2 DEF Strs, Range
      <3>4. GetMapping(dict, column[i]) \in Nat
            /\ GetString(dict, GetMapping(dict, column[i])) = column[i]
        BY <1>6, <1>7, <3>3, IndexIs
      <3>5. QED
        BY <2>1, <2>3, <3>1, <3>4
    <2> HIDE DEF vals, deleted, column, n
    <2>4. QED
      BY <2>2, <2>3
  <1>10. vals \in Seq(Nat) /\ Len(vals) = n
    <2>1. vals = [i \in 1 .. n |-> vals[i]]
      BY <1>8 DEF CompressData
    <2>2. \A i \in 1 .. n : vals[i] \in Nat
      <3> HIDE DEF vals, deleted, n
      <3>1. NONEINDEX \in Nat
        BY DEF NONEINDEX
      <3>2. QED
        BY <1>9, <3>1
    <2> HIDE DEF vals
    <2>3. QED
      BY <1>2, <2>1, <2>2
  <1> HIDE DEF keys, vals, column, deleted
  <1>11. /\ f.key_min = there[1] /\ f.key_max = there[n] /\ f.dictionary = dict
         /\ f.bloom = Range(keys) /\ f.rows = rows
         /\ Readable(f, keys, vals) /\ KeysAndIdxs(f) = Zip(keys, vals)
    BY <1>5, <1>10, NewFileIs
  <1> HIDE DEF f
  <1>12. ASSUME Clean(rows)
         PROVE  CleanFile(f)
    <2>1. \A i \in 1 .. n : ~deleted(i)
      BY <1>2, <1>12 DEF Clean, deleted
    <2>2. keys = there
      <3>1. keys = [i \in 1 .. n |-> there[i]]
        BY <1>4, <2>1
      <3>2. QED
        BY <1>2, <3>1
    <2>3. \A i \in 1 .. n : GetString(dict, vals[i]) = rows[there[i]]
      BY <1>9, <2>1
    <2>4. OrderedFile(f, there, vals)
      BY <1>2, <1>10, <1>11, <2>2 DEF OrderedFile
    <2>5. f.bloom = S
      BY <1>2, <1>11, <2>2
    <2>6. S = RowKeys(f.rows)
      BY <1>11 DEF S
    <2>7. Holding(f, there, vals)
      BY <1>2, <1>11, <2>3, <2>4, <2>6 DEF Holding
    <2>8. Strs = Values(rows)
      <3>1. \A i \in 1 .. n : column[i] = rows[there[i]] /\ column[i] # 0
        <4>1. 0 \notin Value
          BY RelFileAssumption
        <4>2. QED
          BY <1>5, <2>1, <4>1
      <3>2. Strs = {rows[there[i]] : i \in 1 .. n}
        BY <1>5, <3>1 DEF Strs, Range
      <3>3. Values(rows) = {rows[k] : k \in S}
        BY DEF Values, S
      <3>4. QED
        BY <1>2, <3>2, <3>3
    <2>9. f.dictionary = Sorted(Values(f.rows))
      BY <1>7, <1>11, <2>8
    <2>10. QED
      BY <2>5, <2>6, <2>7, <2>9 DEF CleanFile
  <1>13. ASSUME ~Clean(rows)
         PROVE  \E r \in Range(KeysAndIdxs(f)) : r[2] = NONEINDEX
    <2>1. PICK k \in Key : rows[k] = Tombstone
      BY <1>13 DEF Clean
    <2>2. k \in S
      BY <2>1 DEF S, RowKeys, Absent, Tombstone
    <2>3. PICK i \in 1 .. n : there[i] = k
      BY <1>2, <2>2
    <2>4. vals[i] = NONEINDEX
      BY <1>9, <2>1, <2>3 DEF deleted
    <2> DEFINE z == Zip(keys, vals)
    <2>5. z[i] = <<keys[i], NONEINDEX>> /\ i \in DOMAIN z
      BY <1>5, <2>4 DEF Zip
    <2> HIDE DEF z
    <2>6. z[i] \in Range(z) /\ z[i][2] = NONEINDEX
      BY <2>5 DEF Range
    <2>7. QED
      BY <1>11, <2>6 DEF z
  <1>14. FileMade(f)
    <2>1. RowKeys(f.rows) = S /\ S # {}
      BY <1>11 DEF S
    <2>2. f.key_min \in Nat /\ f.key_max \in Nat
      BY <1>2, <1>11
    <2>3. \A k \in S : f.key_min <= k /\ k <= f.key_max
      BY <1>2, <1>11
    <2>4. QED
      BY <1>11, <1>12, <1>13, <2>1, <2>2, <2>3 DEF FileMade
  <1>15. QED
    BY <1>1, <1>11, <1>14

-----------------------------------------------------------------------------
(* A point read of a file without deleted rows is exact.                   *)
LEMMA FileLookup ==
  ASSUME NEW f, FileMade(f), Clean(f.rows), NEW k \in Key
  PROVE  /\ MayHold(f, k) <=> f.rows[k] # Absent
         /\ FileGet(f, k) = f.rows[k]
  <1>1. f.bloom = RowKeys(f.rows) /\ \E keys, vals : Holding(f, keys, vals)
    BY DEF FileMade, CleanFile
  <1>2. PICK keys, vals : Holding(f, keys, vals)
    BY <1>1
  <1>3. /\ OrderedFile(f, keys, vals) /\ Range(keys) = RowKeys(f.rows)
        /\ \A j \in 1 .. Len(keys) : GetString(f.dictionary, vals[j]) = f.rows[keys[j]]
        /\ keys \in Seq(Nat)
    BY <1>2 DEF Holding, OrderedFile
  <1>4. Pad(k) = k /\ k \in Int
    BY KeyFacts
  <1>5. /\ \A j \in 1 .. Len(keys) :
              keys[j] = k => FileGet(f, k) = GetString(f.dictionary, vals[j])
        /\ (\A j \in 1 .. Len(keys) : keys[j] # k) => FileGet(f, k) = Absent
    <2>1. Pad(k) \in Int
      BY <1>4
    <2>2. /\ \A j \in 1 .. Len(keys) :
              keys[j] = Pad(k) => FileGet(f, k) = GetString(f.dictionary, vals[j])
          /\ (\A j \in 1 .. Len(keys) : keys[j] # Pad(k)) => FileGet(f, k) = Absent
      BY <1>3, <2>1, FileGetIs
    <2>3. QED
      BY <1>4, <2>2
  <1>6. k \in RowKeys(f.rows) <=> \E j \in 1 .. Len(keys) : keys[j] = k
    BY <1>3 DEF Range
  <1>7. FileGet(f, k) = f.rows[k]
    BY <1>3, <1>5, <1>6 DEF RowKeys
  <1>8. MayHold(f, k) <=> f.rows[k] # Absent
    BY <1>1 DEF MayHold, RowKeys
  <1>9. QED
    BY <1>7, <1>8

(* The keys of files, the first file of a key, and the row that is kept.   *)
AllKeys(files) == UNION {RowKeys(files[f].rows) : f \in DOMAIN files}
FilesOf(files, k) == {f \in DOMAIN files : k \in RowKeys(files[f].rows)}
MergedRow(files, k) == files[Min(FilesOf(files, k))].rows[k]

(* Files that can be merged.                                               *)
CleanFiles(files) ==
    /\ Len(files) \in Nat \ {0} /\ DOMAIN files = 1 .. Len(files)
    /\ \A f \in DOMAIN files : FileMade(files[f]) /\ Clean(files[f].rows)

(* Every key of the files has a first file, which has a string for it.     *)
LEMMA AllKeysAre ==
  ASSUME NEW files, CleanFiles(files)
  PROVE  LET K == AllKeys(files)
         IN  /\ IsFiniteSet(K) /\ K \subseteq Key /\ K \subseteq Int /\ K # {}
             /\ \A k \in K : /\ Min(FilesOf(files, k)) \in FilesOf(files, k)
                             /\ FilesOf(files, k) \subseteq Nat
                             /\ Min(FilesOf(files, k)) \in DOMAIN files
                             /\ MergedRow(files, k) \in Value
             /\ \A k \in Key : k \in K <=> FilesOf(files, k) # {}
  <1> DEFINE K == AllKeys(files)
  <1>1. K \subseteq Key
    BY DEF AllKeys, RowKeys
  <1>2. IsFiniteSet(K) /\ K \subseteq Int
    BY <1>1, KeyFacts, FS_Subset
  <1>3. K # {}
    <2>1. 1 \in DOMAIN files
      BY DEF CleanFiles
    <2>2. RowKeys(files[1].rows) # {}
      BY <2>1 DEF CleanFiles, FileMade
    <2>3. RowKeys(files[1].rows) \subseteq K
      BY <2>1 DEF AllKeys
    <2> HIDE DEF K
    <2>4. QED
      BY <2>2, <2>3
  <1>4. \A k : k \in K <=> FilesOf(files, k) # {}
    BY DEF AllKeys, FilesOf
  <1> HIDE DEF K
  <1>5. ASSUME NEW k \in K
        PROVE  /\ Min(FilesOf(files, k)) \in FilesOf(files, k)
               /\ FilesOf(files, k) \subseteq Nat
               /\ Min(FilesOf(files, k)) \in DOMAIN files
               /\ MergedRow(files, k) \in Value
    <2> DEFINE m == Min(FilesOf(files, k))
    <2>1. FilesOf(files, k) \subseteq Nat /\ FilesOf(files, k) # {}
          /\ FilesOf(files, k) \subseteq DOMAIN files
      BY <1>4 DEF FilesOf, CleanFiles
    <2>2. m \in FilesOf(files, k)
      BY <2>1, MinIs
    <2> HIDE DEF m
    <2>3. m \in DOMAIN files /\ k \in RowKeys(files[m].rows)
      BY <2>2 DEF FilesOf
    <2>4. files[m].rows \in RowsType /\ Clean(files[m].rows)
      BY <2>3 DEF CleanFiles, FileMade
    <2>5. files[m].rows[k] \in Value
      BY <1>1, <2>3, <2>4 DEF RowsType, Clean, RowKeys
    <2>6. QED
      BY <2>1, <2>2, <2>3, <2>5 DEF m, MergedRow
  <1>6. QED
    BY <1>1, <1>2, <1>3, <1>4, <1>5 DEF K

(* The merge keeps, key by key in order, the row of the first file.        *)
LEMMA KeptRowsAre ==
  ASSUME NEW files, CleanFiles(files)
  PROVE  LET K == AllKeys(files)
             r == KeptRows(files)
         IN  /\ Len(r) = Cardinality(K) /\ r \in Seq(Range(r)) /\ r # <<>>
             /\ \A i \in 1 .. Len(r) :
                  /\ r[i].key = Sorted(K)[i] /\ Sorted(K)[i] \in K
                  /\ r[i].file = Min(FilesOf(files, Sorted(K)[i]))
                  /\ StringOf(files, r[i]) = MergedRow(files, Sorted(K)[i])
  <1> DEFINE K == AllKeys(files)
             rows == [f \in DOMAIN files |-> KeysAndIdxs(files[f])]
             keys(f) == {rows[f][n][1] : n \in DOMAIN rows[f]}
             kept == Sorted(UNION {keys(f) : f \in DOMAIN files})
             input(k) == Min({f \in DOMAIN files : k \in keys(f)})
             row(k) == Min({n \in DOMAIN rows[input(k)] : rows[input(k)][n][1] = k})
             r == [i \in DOMAIN kept |-> [key |-> kept[i], file |-> input(kept[i]),
                               idx |-> rows[input(kept[i])][row(kept[i])][2]]]
  <1>1. KeptRows(files) = r
    BY DEF KeptRows
  <1>2. ASSUME NEW f \in DOMAIN files
        PROVE  /\ keys(f) = RowKeys(files[f].rows)
               /\ DOMAIN rows[f] \subseteq Nat
               /\ \A n \in DOMAIN rows[f] :
                     GetString(files[f].dictionary, rows[f][n][2])
                     = files[f].rows[rows[f][n][1]]
    <2> DEFINE file == files[f]
    <2>1. FileMade(file) /\ Clean(file.rows)
      BY DEF CleanFiles
    <2> HIDE DEF file
    <2>2. \E ks, vs : Holding(file, ks, vs)
      BY <2>1 DEF FileMade, CleanFile
    <2>3. PICK ks, vs : Holding(file, ks, vs)
      BY <2>2
    <2>4. /\ ks \in Seq(Nat) /\ ks # <<>> /\ vs \in Seq(Nat) /\ Len(vs) = Len(ks)
          /\ Readable(file, ks, vs) /\ Range(ks) = RowKeys(file.rows)
          /\ \A j \in 1 .. Len(ks) : GetString(file.dictionary, vs[j]) = file.rows[ks[j]]
      BY <2>3 DEF Holding, OrderedFile
    <2>5. KeysAndIdxs(file) = Zip(ks, vs)
      BY <2>4, KeysAndIdxsAre
    <2> DEFINE z == rows[f]
    <2>6. z = Zip(ks, vs)
      BY <2>5 DEF file
    <2> HIDE DEF z
    <2>7. DOMAIN z = 1 .. Len(ks) /\ \A n \in DOMAIN z : z[n] = <<ks[n], vs[n]>>
      BY <2>6 DEF Zip
    <2>8. DOMAIN z \subseteq Nat
      BY <2>4, <2>7
    <2>9. \A n \in DOMAIN z : GetString(file.dictionary, z[n][2]) = file.rows[z[n][1]]
      BY <2>4, <2>7
    <2>10. {z[n][1] : n \in DOMAIN z} = Range(ks)
      <3>1. DOMAIN ks = DOMAIN z /\ \A n \in DOMAIN z : z[n][1] = ks[n]
        BY <2>4, <2>7
      <3>2. QED
        BY <3>1 DEF Range
    <2>11. QED
      BY <2>4, <2>8, <2>9, <2>10 DEF z, file
  <1> HIDE DEF keys
  <1>3. kept = Sorted(K) /\ \A k : input(k) = Min(FilesOf(files, k))
    <2>1. UNION {keys(f) : f \in DOMAIN files} = K
      BY <1>2 DEF AllKeys
    <2>2. \A k : {f \in DOMAIN files : k \in keys(f)} = FilesOf(files, k)
      BY <1>2 DEF FilesOf
    <2>3. QED
      BY <2>1, <2>2
  <1>4. /\ IsFiniteSet(K) /\ K \subseteq Int /\ K # {}
        /\ \A k \in K : /\ Min(FilesOf(files, k)) \in FilesOf(files, k)
                        /\ Min(FilesOf(files, k)) \in DOMAIN files
    BY AllKeysAre
  <1> HIDE DEF K, kept
  <1>5. /\ Cardinality(K) \in Nat /\ DOMAIN kept = 1 .. Cardinality(K)
        /\ \A i \in 1 .. Cardinality(K) : kept[i] \in K
        /\ \A x \in K : Place(K, x) + 1 \in 1 .. Cardinality(K)
    <2>1. /\ Cardinality(K) \in Nat /\ Sorted(K) \in [1 .. Cardinality(K) -> K]
          /\ \A x \in K : Place(K, x) + 1 \in 1 .. Cardinality(K)
      BY <1>4, SortedIs
    <2>2. QED
      BY <1>3, <2>1
  <1>6. ASSUME NEW k \in K
        PROVE  /\ input(k) \in DOMAIN files /\ k \in keys(input(k))
               /\ GetString(files[input(k)].dictionary, rows[input(k)][row(k)][2])
                  = MergedRow(files, k)
    <2> DEFINE f == input(k)
               T == {n \in DOMAIN rows[f] : rows[f][n][1] = k}
    <2>1. f \in DOMAIN files /\ f \in FilesOf(files, k) /\ f = Min(FilesOf(files, k))
      BY <1>3, <1>4
    <2> HIDE DEF f, rows
    <2>2. k \in keys(f)
      BY <1>2, <2>1 DEF FilesOf
    <2>3. T # {} /\ T \subseteq Nat
      BY <1>2, <2>1, <2>2 DEF keys
    <2>4. Min(T) \in T
      BY <2>3, MinIs
    <2> DEFINE n == Min(T)
    <2>5. n \in DOMAIN rows[f] /\ rows[f][n][1] = k
      BY <2>4
    <2>6. row(k) = n
      BY DEF f
    <2> HIDE DEF n, T, row
    <2>7. GetString(files[f].dictionary, rows[f][n][2]) = files[f].rows[k]
      BY <1>2, <2>1, <2>5
    <2>8. QED
      BY <2>1, <2>2, <2>6, <2>7 DEF f, MergedRow
  <1> HIDE DEF row, input, rows
  <1>7. /\ DOMAIN r = 1 .. Cardinality(K)
        /\ \A i \in 1 .. Cardinality(K) :
             r[i] = [key |-> kept[i], file |-> input(kept[i]),
                     idx |-> rows[input(kept[i])][row(kept[i])][2]]
        /\ r = [i \in 1 .. Cardinality(K) |-> r[i]]
    BY <1>5
  <1> HIDE DEF r
  <1>8. r \in Seq(Range(r)) /\ Len(r) = Cardinality(K)
    <2>1. \A i \in 1 .. Cardinality(K) : r[i] \in Range(r)
      BY <1>7 DEF Range
    <2>2. r \in [1 .. Cardinality(K) -> Range(r)]
      BY <1>7, <2>1
    <2>3. QED
      BY <1>5, <2>2
  <1>9. r # <<>>
    <2>1. PICK x \in K : TRUE
      BY <1>4
    <2>2. Cardinality(K) \in Nat \ {0}
      BY <1>5, <2>1
    <2>3. QED
      BY <1>8, <2>2
  <1>10. ASSUME NEW i \in 1 .. Len(r)
         PROVE  /\ r[i].key = Sorted(K)[i] /\ Sorted(K)[i] \in K
                /\ r[i].file = Min(FilesOf(files, Sorted(K)[i]))
                /\ StringOf(files, r[i]) = MergedRow(files, Sorted(K)[i])
    <2>1. i \in 1 .. Cardinality(K) /\ kept[i] \in K
      BY <1>5, <1>8
    <2>2. r[i].key = kept[i] /\ r[i].file = input(kept[i])
          /\ r[i].idx = rows[input(kept[i])][row(kept[i])][2]
      BY <1>7, <2>1
    <2>3. StringOf(files, r[i]) = MergedRow(files, kept[i])
      BY <1>6, <2>1, <2>2 DEF StringOf
    <2>4. QED
      BY <1>3, <2>1, <2>2, <2>3
  <1>11. QED
    BY <1>1, <1>8, <1>9, <1>10 DEF K

(* Rows kept of files, by key.                                             *)
PartOf(files, part) ==
    /\ Len(part) \in Nat \ {0} /\ DOMAIN part = 1 .. Len(part)
    /\ \A n \in DOMAIN part :
          /\ part[n].key \in AllKeys(files)
          /\ part[n].file = Min(FilesOf(files, part[n].key))
          /\ StringOf(files, part[n]) = MergedRow(files, part[n].key)
    /\ \A m, n \in DOMAIN part : m < n => part[m].key < part[n].key

(* A file made of them has them, and no other row.                         *)
LEMMA MergedFileIs ==
  ASSUME NEW files, CleanFiles(files), NEW part, PartOf(files, part)
  PROVE  LET f == MergedFile(files, part)
         IN  /\ FileMade(f) /\ Clean(f.rows)
             /\ f.key_min = part[1].key - 1 /\ f.key_max = part[Len(part)].key
             /\ \A n \in DOMAIN part : f.rows[part[n].key] = MergedRow(files, part[n].key)
             /\ RowKeys(f.rows) = {part[n].key : n \in DOMAIN part}
  <1> DEFINE l == Len(part)
             keys == [n \in DOMAIN part |-> part[n].key]
             input(k) == {part[n].file : n \in {n \in DOMAIN part : part[n].key = k}}
             Strs == Strings(files, part)
             vals == [n \in DOMAIN part |-> NewIdx(files, part, part[n])]
             rows == [k \in Key |-> IF input(k) = {} THEN Absent
                                    ELSE files[Min(input(k))].rows[k]]
             dict == Import(Strs)
             f == NewFile(CStr(keys[1]), keys[Len(keys)], dict, keys, vals, rows)
  <1>1. MergedFile(files, part) = f
    BY DEF MergedFile
  <1>2. l \in Nat \ {0} /\ DOMAIN part = 1 .. l
    BY DEF PartOf
  <1>3. \A n \in 1 .. l : /\ part[n].key \in Key /\ part[n].key \in AllKeys(files)
                          /\ MergedRow(files, part[n].key) \in Value
                          /\ StringOf(files, part[n]) = MergedRow(files, part[n].key)
                          /\ part[n].file = Min(FilesOf(files, part[n].key))
    BY <1>2, AllKeysAre DEF PartOf
  <1>4. \A m, n \in 1 .. l : m < n => part[m].key < part[n].key
    BY <1>2 DEF PartOf
  <1>5. /\ keys = [n \in 1 .. l |-> part[n].key] /\ \A n \in 1 .. l : keys[n] = part[n].key
        /\ keys \in Seq(Nat) /\ Len(keys) = l /\ keys # <<>>
    <2>1. keys = [n \in 1 .. l |-> part[n].key]
      BY <1>2
    <2>2. \A n \in 1 .. l : part[n].key \in Nat
      BY <1>3, KeyFacts
    <2> HIDE DEF keys, l
    <2>3. keys \in Seq(Nat) /\ Len(keys) = l
      BY <1>2, <2>1, <2>2
    <2>4. keys # <<>>
      BY <1>2, <2>3
    <2>5. QED
      BY <2>1, <2>3, <2>4
  <1> HIDE DEF keys, l
  <1>6. \A k \in Key : (\E n \in 1 .. l : part[n].key = k) =>
                           input(k) = {Min(FilesOf(files, k))}
    <2> TAKE k \in Key
    <2> HAVE \E n \in 1 .. l : part[n].key = k
    <2>1. PICK n \in 1 .. l : part[n].key = k
      OBVIOUS
    <2>2. \A y : y \in input(k) <=> y = Min(FilesOf(files, k))
      BY <1>2, <1>3, <2>1
    <2> HIDE DEF input
    <2>3. QED
      BY <2>2
  <1>7. \A k \in Key : (\A n \in 1 .. l : part[n].key # k) => input(k) = {}
    BY <1>2
  <1> HIDE DEF input
  <1>8. \A x \in Nat : Min({x}) = x
    BY MinIs
  <1>9. /\ DOMAIN rows = Key
        /\ \A k \in Key : IF \E n \in 1 .. l : part[n].key = k
                          THEN rows[k] = MergedRow(files, k) ELSE rows[k] = Absent
    <2>1. ASSUME NEW k \in Key
          PROVE  IF \E n \in 1 .. l : part[n].key = k
                 THEN rows[k] = MergedRow(files, k) ELSE rows[k] = Absent
      <3>1. CASE \E n \in 1 .. l : part[n].key = k
        <4>1. input(k) = {Min(FilesOf(files, k))}
          BY <1>6, <3>1
        <4>2. Min(FilesOf(files, k)) \in Nat
          <5>1. k \in AllKeys(files)
            BY <1>3, <3>1
          <5>2. Min(FilesOf(files, k)) \in FilesOf(files, k) /\ FilesOf(files, k) \subseteq Nat
            BY <5>1, AllKeysAre
          <5>3. QED
            BY <5>2
        <4>3. Min(input(k)) = Min(FilesOf(files, k)) /\ input(k) # {}
          BY <1>8, <4>1, <4>2
        <4>4. QED
          BY <3>1, <4>3 DEF MergedRow
      <3>2. CASE ~\E n \in 1 .. l : part[n].key = k
        <4>1. input(k) = {}
          BY <1>7, <3>2
        <4>2. QED
          BY <3>2, <4>1
      <3>3. QED
        BY <3>1, <3>2
    <2> HIDE DEF rows
    <2>2. QED
      BY <2>1 DEF rows
  <1>10. rows = [k \in Key |-> rows[k]]
    OBVIOUS
  <1> HIDE DEF rows
  <1>11. /\ rows \in RowsType /\ Clean(rows)
         /\ RowKeys(rows) = {part[n].key : n \in DOMAIN part}
         /\ \A n \in 1 .. l : rows[part[n].key] = MergedRow(files, part[n].key)
    <2>1. \A n \in 1 .. l : rows[part[n].key] = MergedRow(files, part[n].key)
      BY <1>3, <1>9
    <2>2. \A k \in Key : rows[k] \in Value \cup {Absent}
      BY <1>3, <1>9
    <2>3. 0 \notin Value /\ -1 \notin Value
      BY RelFileAssumption
    <2>4. rows \in RowsType /\ Clean(rows)
      BY <1>10, <2>2, <2>3 DEF RowsType, Clean, Absent, Tombstone
    <2>5. RowKeys(rows) = {part[n].key : n \in DOMAIN part}
      <3>1. \A n \in 1 .. l : rows[part[n].key] # Absent
        BY <1>3, <2>1, <2>3 DEF Absent
      <3>2. QED
        BY <1>2, <1>3, <1>9, <3>1 DEF RowKeys
    <2>6. QED
      BY <2>1, <2>4, <2>5
  <1>12. /\ IsFiniteSet(Strs) /\ Strs \subseteq Nat /\ 0 \notin Strs
         /\ \A n \in 1 .. l : StringOf(files, part[n]) \in Strs
    <2> DEFINE g == [n \in 1 .. l |-> StringOf(files, part[n])]
    <2>1. g \in [1 .. l -> Value]
      BY <1>3
    <2>2. IsFiniteSet(Range(g))
      <3> HIDE DEF g
      <3>1. QED
        BY <1>2, <2>1, FiniteRange
    <2>3. Strs = Range(g)
      BY <1>2 DEF Strings, Range
    <2>4. Value \subseteq Nat /\ 0 \notin Value
      BY RelFileAssumption
    <2> HIDE DEF Strs
    <2>5. \A n \in 1 .. l : StringOf(files, part[n]) \in Strs
      BY <1>2 DEF Strings, Strs
    <2>6. Strs \subseteq Value
      BY <2>1, <2>3 DEF Range
    <2>7. QED
      BY <2>2, <2>3, <2>4, <2>5, <2>6
  <1>13. dict = Sorted(Strs)
    <2>1. Strs \ {0} = Strs
      BY <1>12
    <2> HIDE DEF Strs
    <2>2. QED
      BY <2>1 DEF Import
  <1>14. /\ vals = [n \in 1 .. l |-> vals[n]]
         /\ \A n \in 1 .. l : vals[n] = Place(Strs, StringOf(files, part[n]))
    BY <1>2 DEF NewIdx
  <1> HIDE DEF Strs, dict, vals
  <1>15. \A n \in 1 .. l : vals[n] \in Nat
                           /\ GetString(dict, vals[n]) = StringOf(files, part[n])
    BY <1>12, <1>13, <1>14, IndexIs
  <1>16. vals \in Seq(Nat) /\ Len(vals) = l
    BY <1>2, <1>14, <1>15
  <1>17. /\ f.key_min = CStr(keys[1]) /\ f.key_max = keys[l] /\ f.dictionary = dict
         /\ f.bloom = Range(keys) /\ f.rows = rows
         /\ Readable(f, keys, vals) /\ KeysAndIdxs(f) = Zip(keys, vals)
    BY <1>5, <1>16, NewFileIs
  <1> HIDE DEF f
  <1>18. Range(keys) = RowKeys(rows)
    <2>1. DOMAIN keys = DOMAIN part
      BY <1>2, <1>5
    <2>2. QED
      BY <1>2, <1>5, <1>11, <2>1 DEF Range
  <1>19. CleanFile(f)
    <2>1. Increasing(keys)
      BY <1>4, <1>5 DEF Increasing
    <2>2. OrderedFile(f, keys, vals)
      BY <1>5, <1>16, <1>17, <2>1 DEF OrderedFile
    <2>3. \A j \in 1 .. Len(keys) : GetString(f.dictionary, vals[j]) = f.rows[keys[j]]
      <3> SUFFICES ASSUME NEW j \in 1 .. l
                   PROVE  GetString(dict, vals[j]) = rows[keys[j]]
        BY <1>5, <1>17
      <3>1. GetString(dict, vals[j]) = StringOf(files, part[j])
        BY <1>15
      <3>2. StringOf(files, part[j]) = MergedRow(files, part[j].key)
        BY <1>3
      <3>3. rows[keys[j]] = MergedRow(files, part[j].key)
        BY <1>5, <1>11
      <3>4. QED
        BY <3>1, <3>2, <3>3
    <2>4. Holding(f, keys, vals)
      BY <1>17, <1>18, <2>2, <2>3 DEF Holding
    <2>5. Strs = Values(rows)
      <3>1. Strs = {StringOf(files, part[n]) : n \in 1 .. l}
        BY <1>2 DEF Strs, Strings
      <3>2. \A n \in 1 .. l : StringOf(files, part[n]) = rows[part[n].key]
        BY <1>3, <1>11
      <3>3. Strs = {rows[part[n].key] : n \in 1 .. l}
        BY <3>1, <3>2
      <3>4. Values(rows) = {rows[k] : k \in {part[n].key : n \in 1 .. l}}
        BY <1>2, <1>11 DEF Values
      <3>5. QED
        BY <3>3, <3>4
    <2>6. f.dictionary = Sorted(Values(f.rows))
      BY <1>13, <1>17, <2>5
    <2>7. QED
      BY <1>17, <1>18, <2>4, <2>6 DEF CleanFile
  <1>20. 1 \in 1 .. l /\ l \in 1 .. l
    BY <1>2
  <1>21. f.key_min = part[1].key - 1 /\ f.key_max = part[l].key
    BY <1>3, <1>5, <1>17, <1>20, KeyFacts
  <1>22. FileMade(f)
    <2>1. \A n \in 1 .. l : part[n].key \in Nat /\ part[n].key >= 3
      BY <1>3, KeyFacts
    <2>2. f.key_min \in Nat /\ f.key_max \in Nat
      BY <1>20, <1>21, <2>1
    <2>3. \A n \in 1 .. l : f.key_min <= part[n].key /\ part[n].key <= f.key_max
      <3> TAKE n \in 1 .. l
      <3>1. n = 1 \/ 1 < n
        BY <1>2
      <3>2. n = l \/ n < l
        BY <1>2
      <3>3. part[1].key <= part[n].key /\ part[n].key <= part[l].key
        BY <1>4, <1>20, <2>1, <3>1, <3>2
      <3>4. QED
        BY <1>20, <1>21, <2>1, <3>3
    <2>4. RowKeys(f.rows) # {}
      BY <1>2, <1>11, <1>17, <1>20
    <2>5. \A k \in RowKeys(f.rows) : f.key_min <= k /\ k <= f.key_max
      BY <1>2, <1>11, <1>17, <2>3
    <2>6. QED
      BY <1>11, <1>17, <1>19, <2>2, <2>4, <2>5 DEF FileMade
  <1>23. QED
    BY <1>1, <1>2, <1>11, <1>17, <1>21, <1>22 DEF l

(* The files of a level that is in order.                                  *)
OrderedFiles(m) == \A i, j \in DOMAIN m : i < j => m[i].key_max < m[j].key_min

(* A merge keeps of every key the first file's row, in files in order.     *)
LEMMA MergedIs ==
  ASSUME NEW files, CleanFiles(files)
  PROVE  LET m == Merged(files)
         IN  /\ CleanFiles(m) /\ OrderedFiles(m) /\ m \in Seq(Range(m))
             /\ AllKeys(m) = AllKeys(files)
             /\ \A i \in DOMAIN m : \A k \in RowKeys(m[i].rows) :
                   m[i].rows[k] = MergedRow(files, k)
  <1> DEFINE rows == KeptRows(files)
             size == MEM_TABLE_MAX_SIZE
             n == Parts(Len(rows), size)
             part(i) == Part(rows, size, i)
             m == [i \in 1 .. n |-> MergedFile(files, part(i))]
             K == AllKeys(files)
             len(i) == PartLen(Len(rows), size, i)
  <1>1. Merged(files) = m
    BY DEF Merged
  <1>2. /\ Len(rows) = Cardinality(K) /\ rows \in Seq(Range(rows)) /\ rows # <<>>
        /\ \A i \in 1 .. Len(rows) :
             /\ rows[i].key = Sorted(K)[i] /\ Sorted(K)[i] \in K
             /\ rows[i].file = Min(FilesOf(files, Sorted(K)[i]))
             /\ StringOf(files, rows[i]) = MergedRow(files, Sorted(K)[i])
    BY KeptRowsAre
  <1>3. /\ Cardinality(K) \in Nat /\ K \subseteq Key
        /\ \A i, j \in 1 .. Cardinality(K) : i < j => Sorted(K)[i] < Sorted(K)[j]
        /\ \A x \in K : /\ Place(K, x) + 1 \in 1 .. Cardinality(K)
                        /\ Sorted(K)[Place(K, x) + 1] = x
    <2>1. IsFiniteSet(K) /\ K \subseteq Int /\ K \subseteq Key
      BY AllKeysAre
    <2>2. QED
      BY <2>1, SortedIs
  <1> HIDE DEF rows, K
  <1>4. /\ Len(rows) \in Nat \ {0} /\ size \in Nat \ {0}
        /\ \A i \in 1 .. Len(rows) : /\ rows[i].key \in K
                                     /\ rows[i].file = Min(FilesOf(files, rows[i].key))
                                     /\ StringOf(files, rows[i]) = MergedRow(files, rows[i].key)
        /\ \A i, j \in 1 .. Len(rows) : i < j => rows[i].key < rows[j].key
        /\ \A x \in K : \E i \in 1 .. Len(rows) : rows[i].key = x
    <2>1. Len(rows) \in Nat \ {0} /\ size \in Nat \ {0}
      BY <1>2, RelFileAssumption
    <2>2. \A i \in 1 .. Len(rows) : /\ rows[i].key \in K
                                    /\ rows[i].file = Min(FilesOf(files, rows[i].key))
                                    /\ StringOf(files, rows[i]) = MergedRow(files, rows[i].key)
      BY <1>2
    <2>3. \A i, j \in 1 .. Len(rows) : i < j => rows[i].key < rows[j].key
      BY <1>2, <1>3
    <2>4. \A x \in K : \E i \in 1 .. Len(rows) : rows[i].key = x
      BY <1>2, <1>3
    <2>5. QED
      BY <2>1, <2>2, <2>3, <2>4
  <1>5. /\ n \in Nat \ {0}
        /\ \A i \in 1 .. n :
             /\ len(i) \in Nat \ {0} /\ Before(size, i) \in Nat
             /\ Before(size, i) + len(i) <= Before(size, i) + size
             /\ part(i) \in Seq(Range(rows)) /\ Len(part(i)) = len(i)
             /\ \A x \in 1 .. len(i) : /\ part(i)[x] = rows[Before(size, i) + x]
                                       /\ Before(size, i) + x \in 1 .. Len(rows)
    <2>1. n \in Nat \ {0}
      BY <1>4, PartsIs
    <2>2. ASSUME NEW i \in 1 .. n
          PROVE  /\ len(i) \in Nat \ {0} /\ Before(size, i) \in Nat /\ len(i) <= size
                 /\ part(i) \in Seq(Range(rows)) /\ Len(part(i)) = len(i)
                 /\ \A x \in 1 .. len(i) : /\ part(i)[x] = rows[Before(size, i) + x]
                                           /\ Before(size, i) + x \in 1 .. Len(rows)
      BY <1>2, <1>4, PartLenIs, PartIs
    <2> HIDE DEF n, size, len, part
    <2>3. QED
      BY <1>4, <2>1, <2>2
  <1>6. \A i, j \in 1 .. n : i < j => Before(size, i) + len(i) <= Before(size, j)
    <2> TAKE i, j \in 1 .. n
    <2> HAVE i < j
    <2>1. i \in Nat \ {0} /\ j \in Nat \ {0}
      BY <1>5
    <2>2. Before(size, i) + size <= Before(size, j)
      BY <1>4, <2>1, BeforeIs
    <2>3. QED
      <3> HIDE DEF n, size, len
      <3>1. Before(size, i) \in Nat /\ len(i) \in Nat /\ Before(size, j) \in Nat /\ size \in Nat
            /\ Before(size, i) + len(i) <= Before(size, i) + size
        BY <1>4, <1>5
      <3>2. QED
        BY <2>2, <3>1
  <1>7. \A x \in 1 .. Len(rows) : \E i \in 1 .. n : \E y \in 1 .. len(i) : x = Before(size, i) + y
    BY <1>4, PartOfRow
  <1> HIDE DEF n, size, part, len
  <1>8. ASSUME NEW i \in 1 .. n
        PROVE  /\ PartOf(files, part(i))
               /\ DOMAIN part(i) = 1 .. len(i) /\ 1 \in DOMAIN part(i) /\ len(i) \in DOMAIN part(i)
               /\ \A x \in 1 .. len(i) : part(i)[x].key \in K /\ part(i)[x].key \in Key
    <2> DEFINE p == part(i)
               b == Before(size, i)
    <2>1. /\ len(i) \in Nat \ {0} /\ Len(p) = len(i) /\ DOMAIN p = 1 .. len(i) /\ b \in Nat
          /\ \A x \in 1 .. len(i) : /\ p[x] = rows[b + x]
                                    /\ b + x \in 1 .. Len(rows)
      BY <1>5
    <2> HIDE DEF p, b
    <2>2. \A x \in 1 .. len(i) : /\ p[x].key \in K
                                 /\ p[x].file = Min(FilesOf(files, p[x].key))
                                 /\ StringOf(files, p[x]) = MergedRow(files, p[x].key)
      BY <1>4, <2>1
    <2>3. \A x, y \in 1 .. len(i) : x < y => p[x].key < p[y].key
      <3> TAKE x, y \in 1 .. len(i)
      <3> HAVE x < y
      <3>1. b + x < b + y
        BY <2>1
      <3>2. QED
        BY <1>4, <2>1, <3>1
    <2>4. PartOf(files, p)
      BY <2>1, <2>2, <2>3 DEF PartOf, K
    <2>5. 1 \in 1 .. len(i) /\ len(i) \in 1 .. len(i)
      BY <2>1
    <2>6. QED
      BY <1>3, <2>1, <2>2, <2>4, <2>5 DEF p
  <1>9. ASSUME NEW i \in 1 .. n
        PROVE  /\ m[i] = MergedFile(files, part(i))
               /\ FileMade(m[i]) /\ Clean(m[i].rows)
               /\ m[i].key_min = part(i)[1].key - 1 /\ m[i].key_max = part(i)[len(i)].key
               /\ \A x \in 1 .. len(i) : m[i].rows[part(i)[x].key] = MergedRow(files, part(i)[x].key)
               /\ RowKeys(m[i].rows) = {part(i)[x].key : x \in 1 .. len(i)}
    <2> DEFINE f == MergedFile(files, part(i))
    <2>1. /\ FileMade(f) /\ Clean(f.rows)
          /\ f.key_min = part(i)[1].key - 1 /\ f.key_max = part(i)[Len(part(i))].key
          /\ \A x \in DOMAIN part(i) : f.rows[part(i)[x].key] = MergedRow(files, part(i)[x].key)
          /\ RowKeys(f.rows) = {part(i)[x].key : x \in DOMAIN part(i)}
      BY <1>8, MergedFileIs
    <2>2. m[i] = f
      OBVIOUS
    <2> HIDE DEF f, m
    <2>3. Len(part(i)) = len(i) /\ DOMAIN part(i) = 1 .. len(i)
      BY <1>5, <1>8
    <2>4. QED
      BY <2>1, <2>2, <2>3 DEF f
  <1>10. DOMAIN m = 1 .. n /\ Len(m) = n /\ m \in Seq(Range(m))
    <2>1. m \in [1 .. n -> Range(m)]
      BY DEF Range
    <2>2. DOMAIN m = 1 .. n
      OBVIOUS
    <2> HIDE DEF m
    <2>3. QED
      BY <1>5, <2>1, <2>2
  <1> HIDE DEF m
  <1>11. CleanFiles(m)
    BY <1>5, <1>9, <1>10 DEF CleanFiles
  <1>12. OrderedFiles(m)
    <2> SUFFICES ASSUME NEW i \in 1 .. n, NEW j \in 1 .. n, i < j
                 PROVE  m[i].key_max < m[j].key_min
      BY <1>10 DEF OrderedFiles
    <2> DEFINE x == part(i)[len(i)].key
               y == part(j)[1].key
    <2>1. x \in Key /\ y \in Key
      BY <1>8
    <2>2. x < y
      <3>1. /\ part(i)[len(i)] = rows[Before(size, i) + len(i)]
            /\ Before(size, i) + len(i) \in 1 .. Len(rows)
            /\ part(j)[1] = rows[Before(size, j) + 1]
            /\ Before(size, j) + 1 \in 1 .. Len(rows)
        BY <1>5, <1>8
      <3>2. Before(size, i) + len(i) < Before(size, j) + 1
        <4>1. Before(size, i) + len(i) <= Before(size, j)
          BY <1>6
        <4>2. Before(size, i) + len(i) \in Int /\ Before(size, j) \in Int
          BY <1>5
        <4>3. QED
          BY <4>1, <4>2
      <3>3. QED
        BY <1>4, <3>1, <3>2
    <2> HIDE DEF x, y
    <2>3. /\ x \in Nat /\ x % 2 = 1 /\ y \in Nat /\ y % 2 = 1
      BY <2>1, KeyFacts
    <2>4. x < y - 1
      BY <2>2, <2>3
    <2>5. QED
      BY <1>9, <2>4 DEF x, y
  <1>13. \A i \in DOMAIN m : \A k \in RowKeys(m[i].rows) : m[i].rows[k] = MergedRow(files, k)
    BY <1>9, <1>10
  <1>14. AllKeys(m) = K
    <2>1. \A k : k \in AllKeys(m) <=> \E i \in 1 .. n : k \in RowKeys(m[i].rows)
      BY <1>10 DEF AllKeys
    <2>2. ASSUME NEW i \in 1 .. n, NEW k \in RowKeys(m[i].rows)
          PROVE  k \in K
      <3>1. k \in {part(i)[x].key : x \in 1 .. len(i)}
        BY <1>9
      <3>2. PICK x \in 1 .. len(i) : k = part(i)[x].key
        BY <3>1
      <3>3. QED
        BY <1>8, <3>2
    <2>3. ASSUME NEW k \in K
          PROVE  \E i \in 1 .. n : k \in RowKeys(m[i].rows)
      <3>1. PICK x \in 1 .. Len(rows) : rows[x].key = k
        BY <1>4
      <3>2. PICK i \in 1 .. n : \E y \in 1 .. len(i) : x = Before(size, i) + y
        BY <1>7
      <3>3. PICK y \in 1 .. len(i) : x = Before(size, i) + y
        BY <3>2
      <3>4. part(i)[y].key = k
        BY <1>5, <3>1, <3>3
      <3>5. QED
        BY <1>9, <3>4
    <2>4. QED
      BY <2>1, <2>2, <2>3
  <1>15. QED
    BY <1>1, <1>10, <1>11, <1>12, <1>13, <1>14 DEF K

-----------------------------------------------------------------------------
(* Nothing is deleted.                                                     *)
NoDeletes == \A b \in Batch : \A k \in Key : b[k] # Tombstone

(* The files of a level.                                                   *)
LevelOK(files) ==
    /\ files \in Seq(Range(files))
    /\ \A i \in DOMAIN files : /\ FileMade(files[i])
                               /\ NoDeletes => Clean(files[i].rows)

(* The keys the memtables hold.                                            *)
MemKeys == UNION {RowKeys(memtables[n]) : n \in DOMAIN memtables}

(* What the memtables and files are, whatever is put.                      *)
FilesInv ==
    /\ memtables \in Seq(Batch)
    /\ DOMAIN FileIndex = Levels
    /\ \A l \in Levels : LevelOK(FileIndex[l])
    /\ OrderedFiles(FileIndex[1])
    /\ put = MemKeys \cup AllKeys(FileIndex[0]) \cup AllKeys(FileIndex[1])

(* What is put are rows.                                                   *)
LEMMA BatchIs ==
  ASSUME NEW b \in Batch
  PROVE  b \in RowsType /\ RowKeys(b) # {}
  BY ScanMergeAssumption DEF RowsType, RowKeys

(* At first there are memtables only.                                      *)
LEMMA FilesInvInit == Init => FilesInv
  <1> SUFFICES ASSUME Init PROVE FilesInv
    OBVIOUS
  <1>1. Generations \in Nat
    BY ScanMergeAssumption
  <1>2. memtables \in Seq(Batch)
    BY <1>1 DEF Init
  <1>3. /\ DOMAIN FileIndex = Levels /\ \A l \in Levels : FileIndex[l] = <<>>
    BY DEF Init
  <1>4. \A l \in Levels : LevelOK(FileIndex[l]) /\ AllKeys(FileIndex[l]) = {}
    <2>1. LevelOK(<<>>)
      BY DEF LevelOK
    <2>2. AllKeys(<<>>) = {}
      BY DEF AllKeys
    <2>3. QED
      BY <1>3, <2>1, <2>2
  <1>5. OrderedFiles(FileIndex[1])
    BY <1>3 DEF OrderedFiles, Levels
  <1>6. put = MemKeys
    BY DEF Init, MemKeys, RowKeys
  <1>7. QED
    BY <1>2, <1>3, <1>4, <1>5, <1>6 DEF FilesInv, Levels

(* Two levels together are what each is.                                   *)
LEMMA LevelsTogether ==
  ASSUME NEW a, LevelOK(a), NEW c, LevelOK(c)
  PROVE  LevelOK(a \o c) /\ AllKeys(a \o c) = AllKeys(a) \cup AllKeys(c)
  <1> DEFINE X == Range(a) \cup Range(c)
             s == a \o c
  <1>1. a \in Seq(X) /\ c \in Seq(X)
    <2>1. a \in Seq(Range(a)) /\ c \in Seq(Range(c))
      BY DEF LevelOK
    <2>2. (\A i \in 1 .. Len(a) : a[i] \in X) /\ (\A i \in 1 .. Len(c) : c[i] \in X)
      BY <2>1
    <2> HIDE DEF X
    <2>3. QED
      BY <2>1, <2>2
  <1> HIDE DEF X
  <1> DEFINE na == Len(a)
             nc == Len(c)
  <1>2. s \in Seq(X) /\ Len(s) = na + nc /\ na \in Nat /\ nc \in Nat
        /\ \A i \in 1 .. na : s[i] = a[i]
    BY <1>1
  <1>3. \A i \in 1 .. na + nc : i > na => i - na \in 1 .. nc /\ s[i] = c[i - na]
    BY <1>1
  <1>4. DOMAIN s = 1 .. na + nc /\ DOMAIN a = 1 .. na /\ DOMAIN c = 1 .. nc
    BY <1>1, <1>2
  <1> HIDE DEF s, na, nc
  <1>5. \A i \in DOMAIN s : (i \in DOMAIN a /\ s[i] = a[i])
                            \/ (i - na \in DOMAIN c /\ s[i] = c[i - na])
    <2> TAKE i \in DOMAIN s
    <2>1. CASE i <= na
      BY <1>2, <1>4, <2>1
    <2>2. CASE ~(i <= na)
      <3>1. i > na
        BY <1>2, <1>4, <2>2
      <3>2. i - na \in 1 .. nc /\ s[i] = c[i - na]
        BY <1>3, <1>4, <3>1
      <3>3. QED
        BY <1>4, <3>2
    <2>3. QED
      BY <2>1, <2>2
  <1>6. /\ \A i \in DOMAIN a : i \in DOMAIN s /\ s[i] = a[i]
        /\ \A i \in DOMAIN c : na + i \in DOMAIN s /\ s[na + i] = c[i]
    <2>1. \A i \in DOMAIN a : i \in DOMAIN s /\ s[i] = a[i]
      BY <1>2, <1>4
    <2>2. ASSUME NEW i \in DOMAIN c
          PROVE  na + i \in DOMAIN s /\ s[na + i] = c[i]
      <3> DEFINE j == na + i
      <3>1. j \in 1 .. na + nc /\ j > na /\ j - na = i
        BY <1>2, <1>4
      <3> HIDE DEF j
      <3>2. s[j] = c[j - na]
        BY <1>3, <3>1
      <3>3. QED
        BY <1>4, <3>1, <3>2 DEF j
    <2>3. QED
      BY <2>1, <2>2
  <1>7. s \in Seq(Range(s))
    <2>1. \A i \in 1 .. Len(s) : s[i] \in Range(s)
      BY <1>2, <1>4 DEF Range
    <2>2. QED
      BY <1>2, <2>1
  <1>8. LevelOK(s)
    BY <1>5, <1>7 DEF LevelOK
  <1>9. AllKeys(s) = AllKeys(a) \cup AllKeys(c)
    <2>1. \A k : k \in AllKeys(s) => k \in AllKeys(a) \cup AllKeys(c)
      BY <1>5 DEF AllKeys
    <2>2. \A k : k \in AllKeys(a) => k \in AllKeys(s)
      BY <1>6 DEF AllKeys
    <2>3. \A k : k \in AllKeys(c) => k \in AllKeys(s)
      BY <1>6 DEF AllKeys
    <2>4. QED
      BY <2>1, <2>2, <2>3
  <1>10. QED
    BY <1>8, <1>9 DEF s

(* Files that are merged have no deleted row.                              *)
LEMMA MergeableClean ==
  ASSUME NEW files, LevelOK(files), Len(files) > 1, Mergeable(files)
  PROVE  CleanFiles(files)
  <1>1. Len(files) \in Nat \ {0} /\ DOMAIN files = 1 .. Len(files)
    BY DEF LevelOK
  <1>2. ASSUME NEW f \in DOMAIN files PROVE Clean(files[f].rows)
    <2>1. \A r \in Range(KeysAndIdxs(files[f])) : r[2] # NONEINDEX
      BY DEF Mergeable
    <2>2. QED
      BY <2>1 DEF LevelOK, FileMade
  <1>3. QED
    BY <1>1, <1>2 DEF CleanFiles, LevelOK

(* MergeRelFile gives files in order that hold all keys.                   *)
LEMMA MergeRelFileIs ==
  ASSUME NEW files, LevelOK(files), files # <<>>, Mergeable(files)
  PROVE  LET m == MergeRelFile(files)
         IN  LevelOK(m) /\ OrderedFiles(m) /\ AllKeys(m) = AllKeys(files)
  <1>1. Len(files) \in Nat \ {0} /\ DOMAIN files = 1 .. Len(files)
    BY DEF LevelOK
  <1>2. CASE Len(files) = 1
    <2>1. MergeRelFile(files) = files
      BY <1>2 DEF MergeRelFile
    <2>2. OrderedFiles(files)
      BY <1>1, <1>2 DEF OrderedFiles
    <2>3. QED
      BY <2>1, <2>2
  <1>3. CASE Len(files) # 1
    <2>1. CleanFiles(files)
      BY <1>1, <1>3, MergeableClean
    <2> DEFINE m == Merged(files)
    <2>2. MergeRelFile(files) = m
      BY <1>3 DEF MergeRelFile
    <2>3. CleanFiles(m) /\ OrderedFiles(m) /\ m \in Seq(Range(m)) /\ AllKeys(m) = AllKeys(files)
      BY <2>1, MergedIs
    <2> HIDE DEF m
    <2>4. LevelOK(m)
      BY <2>3 DEF LevelOK, CleanFiles
    <2>5. QED
      BY <2>2, <2>3, <2>4
  <1>4. QED
    BY <1>2, <1>3

(* Persist keeps FilesInv, ...                                             *)
LEMMA FilesInvPersist ==
  ASSUME FilesInv, Persist
  PROVE  FilesInv'
  <1> DEFINE mem == memtables[1]
             f == Persisted(mem)
             a == FileIndex[0]
             rest == Tail(memtables)
  <1>1. /\ memtables # <<>> /\ FileIndex' = [FileIndex EXCEPT ![0] = Append(a, f)]
        /\ memtables' = rest /\ put' = put
    BY DEF Persist
  <1>2. /\ memtables \in Seq(Batch) /\ DOMAIN FileIndex = Levels /\ 0 \in Levels /\ 1 \in Levels
        /\ LevelOK(a) /\ LevelOK(FileIndex[1]) /\ OrderedFiles(FileIndex[1])
        /\ put = MemKeys \cup AllKeys(a) \cup AllKeys(FileIndex[1])
    BY DEF FilesInv, Levels
  <1>3. /\ mem \in Batch /\ rest \in Seq(Batch)
        /\ Len(memtables) \in Nat \ {0} /\ Len(rest) = Len(memtables) - 1
        /\ DOMAIN memtables = 1 .. Len(memtables) /\ DOMAIN rest = 1 .. Len(rest)
        /\ \A n \in 1 .. Len(rest) : rest[n] = memtables[n + 1]
    BY <1>1, <1>2
  <1>4. FileMade(f) /\ f.rows = mem
    BY <1>3, BatchIs, PersistedIs
  <1>5. NoDeletes => Clean(f.rows)
    BY <1>3, <1>4 DEF NoDeletes, Clean
  <1> HIDE DEF f, mem, a, rest
  <1>6. LevelOK(<<f>>) /\ AllKeys(<<f>>) = RowKeys(f.rows)
    <2>1. <<f>> \in Seq(Range(<<f>>)) /\ DOMAIN <<f>> = {1} /\ <<f>>[1] = f
      BY DEF Range
    <2>2. LevelOK(<<f>>)
      BY <1>4, <1>5, <2>1 DEF LevelOK
    <2>3. AllKeys(<<f>>) = RowKeys(f.rows)
      BY <2>1 DEF AllKeys
    <2>4. QED
      BY <2>2, <2>3
  <1>7. Append(a, f) = a \o <<f>>
    BY <1>2 DEF LevelOK
  <1>8. LevelOK(Append(a, f)) /\ AllKeys(Append(a, f)) = AllKeys(a) \cup RowKeys(mem)
    BY <1>2, <1>4, <1>6, <1>7, LevelsTogether
  <1>9. /\ DOMAIN FileIndex' = Levels /\ FileIndex'[0] = Append(a, f)
        /\ FileIndex'[1] = FileIndex[1]
    BY <1>1, <1>2 DEF Levels
  <1>10. MemKeys = RowKeys(mem) \cup MemKeys'
    <2> DEFINE l == Len(rest)
    <2>1. l \in Nat /\ DOMAIN memtables = 1 .. l + 1 /\ DOMAIN rest = 1 .. l
      BY <1>3
    <2>2. \A n \in 1 .. l : rest[n] = memtables[n + 1]
      BY <1>3
    <2> HIDE DEF l
    <2>3. ASSUME NEW k \in MemKeys PROVE k \in RowKeys(mem) \cup MemKeys'
      <3>1. PICK n \in 1 .. l + 1 : k \in RowKeys(memtables[n])
        BY <2>1, <2>3 DEF MemKeys
      <3>2. CASE n = 1
        BY <3>1, <3>2 DEF mem
      <3>3. CASE n # 1
        <4>1. n - 1 \in 1 .. l /\ n - 1 + 1 = n
          BY <2>1, <3>3
        <4>2. rest[n - 1] = memtables[n]
          BY <2>2, <4>1
        <4>3. QED
          BY <1>1, <2>1, <3>1, <4>1, <4>2 DEF MemKeys
      <3>4. QED
        BY <3>2, <3>3
    <2>4. ASSUME NEW k \in MemKeys' PROVE k \in MemKeys
      <3>1. PICK n \in 1 .. l : k \in RowKeys(rest[n])
        BY <1>1, <2>1, <2>4 DEF MemKeys
      <3>2. n + 1 \in 1 .. l + 1
        BY <2>1
      <3>3. QED
        BY <2>1, <2>2, <3>1, <3>2 DEF MemKeys
    <2>5. \A k \in RowKeys(mem) : k \in MemKeys
      <3>1. 1 \in 1 .. l + 1
        BY <2>1
      <3>2. QED
        BY <2>1, <3>1 DEF MemKeys, mem
    <2>6. QED
      BY <2>3, <2>4, <2>5
  <1>11. put' = MemKeys' \cup AllKeys(FileIndex'[0]) \cup AllKeys(FileIndex'[1])
    BY <1>1, <1>2, <1>8, <1>9, <1>10
  <1>12. \A l \in Levels : LevelOK(FileIndex'[l])
    BY <1>2, <1>8, <1>9 DEF Levels
  <1>13. QED
    BY <1>1, <1>2, <1>3, <1>9, <1>11, <1>12 DEF FilesInv

(* ... and so does Compact, ...                                            *)
LEMMA FilesInvCompact ==
  ASSUME FilesInv, Compact
  PROVE  FilesInv'
  <1> DEFINE files == FileIndex[0] \o FileIndex[1]
             m == MergeRelFile(files)
  <1>1. /\ FileIndex[0] # <<>> /\ Mergeable(files)
        /\ FileIndex' = [l \in Levels |-> IF l = 0 THEN <<>> ELSE m]
        /\ memtables' = memtables /\ put' = put
    BY DEF Compact
  <1>2. /\ memtables \in Seq(Batch) /\ 0 \in Levels /\ 1 \in Levels
        /\ LevelOK(FileIndex[0]) /\ LevelOK(FileIndex[1])
        /\ put = MemKeys \cup AllKeys(FileIndex[0]) \cup AllKeys(FileIndex[1])
    BY DEF FilesInv, Levels
  <1>3. LevelOK(files) /\ AllKeys(files) = AllKeys(FileIndex[0]) \cup AllKeys(FileIndex[1])
    BY <1>2, LevelsTogether
  <1>4. files # <<>>
    BY <1>1, <1>2 DEF LevelOK
  <1> HIDE DEF files
  <1>5. LevelOK(m) /\ OrderedFiles(m) /\ AllKeys(m) = AllKeys(files)
    BY <1>1, <1>3, <1>4, MergeRelFileIs
  <1> HIDE DEF m
  <1>6. DOMAIN FileIndex' = Levels /\ FileIndex'[0] = <<>> /\ FileIndex'[1] = m
    BY <1>1, <1>2
  <1>7. LevelOK(<<>>) /\ AllKeys(<<>>) = {}
    BY DEF LevelOK, AllKeys
  <1>8. MemKeys' = MemKeys
    BY <1>1 DEF MemKeys
  <1>9. \A l \in Levels : LevelOK(FileIndex'[l])
    BY <1>5, <1>6, <1>7 DEF Levels
  <1>10. put' = MemKeys' \cup AllKeys(FileIndex'[0]) \cup AllKeys(FileIndex'[1])
    BY <1>1, <1>2, <1>3, <1>5, <1>6, <1>7, <1>8
  <1>11. QED
    BY <1>1, <1>2, <1>5, <1>6, <1>9, <1>10 DEF FilesInv

(* ... and every step.                                                     *)
LEMMA FilesInvNext == FilesInv /\ [Next]_vars => FilesInv'
  <1> SUFFICES ASSUME FilesInv, [Next]_vars PROVE FilesInv'
    OBVIOUS
  <1>1. CASE Persist
    BY <1>1, FilesInvPersist
  <1>2. CASE Compact
    BY <1>2, FilesInvCompact
  <1>3. CASE UNCHANGED <<memtables, FileIndex, put>>
    BY <1>3 DEF FilesInv, MemKeys
  <1>4. QED
    BY <1>1, <1>2, <1>3 DEF Next, Open, Advance, vars

(* Every file, whatever was put and through any number of merges, holds the *)
(* rows it was made from, in order, or was left by deletes and cannot be   *)
(* merged; level 1 is in order (RowMemtablePersistence, MergeRelFile).     *)
THEOREM FilesAreMade == Spec => []FilesInv
  BY FilesInvInit, FilesInvNext, PTL DEF Spec

(* A point read of a file none of whose rows is deleted is exact, whatever *)
(* else is put, through any number of merges.                              *)
CleanLookupExact ==
    \A f \in AllFiles : Clean(f.rows) => \A k \in Key :
        (IF MayHold(f, k) THEN FileGet(f, k) ELSE Absent) = f.rows[k]

(* What FilesInv says of one file.                                         *)
LEMMA FilesInvFiles ==
  ASSUME FilesInv, NEW f \in AllFiles
  PROVE  FileMade(f) /\ (NoDeletes => Clean(f.rows))
  <1>1. PICK l \in Levels : f \in Range(FileIndex[l])
    BY DEF AllFiles, Levels
  <1>2. PICK i \in DOMAIN FileIndex[l] : f = FileIndex[l][i]
    BY <1>1 DEF Range
  <1>3. QED
    BY <1>2 DEF FilesInv, LevelOK

(* Such files are read exactly.                                            *)
LEMMA CleanLookup == FilesInv => CleanLookupExact
  <1> SUFFICES ASSUME FilesInv, NEW f \in AllFiles, Clean(f.rows), NEW k \in Key
               PROVE  (IF MayHold(f, k) THEN FileGet(f, k) ELSE Absent) = f.rows[k]
    BY DEF CleanLookupExact
  <1>1. FileMade(f)
    BY FilesInvFiles
  <1>2. QED
    BY <1>1, FileLookup

(* A point read of a file made of rows none of which was deleted is exact, *)
(* through blocks, dictionary and merges (RelFileParser::GetTuple).        *)
THEOREM CleanLookupIsExact == Spec => []CleanLookupExact
  BY FilesAreMade, CleanLookup, PTL

(* If nothing is deleted, a point read of any file finds exactly its rows  *)
(* (LookupExact; RelFileParser::GetTuple, MergeRelFile).                   *)
THEOREM LookupIsExact ==
  ASSUME NoDeletes
  PROVE  Spec => []LookupExact
  <1>1. FilesInv => LookupExact
    <2> SUFFICES ASSUME FilesInv, NEW f \in AllFiles, NEW k \in Key
                 PROVE  (IF MayHold(f, k) THEN FileGet(f, k) ELSE Absent)
                        = (IF f.rows[k] = Tombstone THEN Absent ELSE f.rows[k])
      BY DEF LookupExact
    <2>1. FileMade(f) /\ Clean(f.rows)
      BY FilesInvFiles
    <2>2. f.rows[k] # Tombstone
      BY <2>1 DEF Clean
    <2>3. QED
      BY <2>1, <2>2, FileLookup
  <1>2. QED
    BY <1>1, FilesAreMade, PTL

-----------------------------------------------------------------------------
(* Max of a bounded set of numbers is its greatest.                        *)
LEMMA MaxIs ==
  ASSUME NEW T, T \subseteq Nat, T # {}, NEW b \in Nat, \A n \in T : n <= b
  PROVE  Max(T) \in T /\ \A n \in T : n <= Max(T)
  <1> DEFINE U == {b - n : n \in T}
  <1>1. U \subseteq Nat /\ U # {}
    <2>1. PICK n \in T : TRUE
      OBVIOUS
    <2>2. b - n \in U
      OBVIOUS
    <2>3. \A m \in T : b - m \in Nat
      OBVIOUS
    <2>4. QED
      BY <2>2, <2>3
  <1>2. PICK u \in U : \A v \in U : u <= v
    <2> HIDE DEF U
    <2>1. QED
      BY <1>1, LeastNumber
  <1>3. PICK m \in T : u = b - m
    BY <1>2
  <1>4. \A n \in T : m >= n
    <2> SUFFICES ASSUME NEW n \in T PROVE m >= n
      OBVIOUS
    <2>1. b - n \in U
      OBVIOUS
    <2>2. b - m <= b - n
      BY <1>2, <1>3, <2>1
    <2>3. m \in Nat /\ n \in Nat
      OBVIOUS
    <2>4. QED
      BY <2>2, <2>3
  <1>5. \E m1 \in T : \A n \in T : m1 >= n
    BY <1>3, <1>4
  <1>6. Max(T) \in T /\ \A n \in T : Max(T) >= n
    BY <1>5 DEF Max
  <1>7. QED
    BY <1>6

(* A beginning of 1 .. n is as long as it has elements.                    *)
LEMMA BeginningIs ==
  ASSUME NEW n \in Nat, NEW S, S \subseteq 1 .. n,
         \A i \in S : \A j \in 1 .. i : j \in S
  PROVE  Cardinality(S) \in Nat /\ S = 1 .. Cardinality(S)
  <1> DEFINE c == Cardinality(S)
  <1>1. IsFiniteSet(S) /\ S \subseteq Int
    <2>1. 1 \in Int /\ n \in Int
      OBVIOUS
    <2>2. IsFiniteSet(1 .. n)
      BY <2>1, FS_Interval
    <2>3. IsFiniteSet(S)
      BY <2>2, FS_Subset
    <2>4. QED
      BY <2>3
  <1>2. /\ c \in Nat
        /\ \A i \in 1 .. c : Sorted(S)[i] \in S /\ Place(S, Sorted(S)[i]) = i - 1
        /\ \A x \in S : Place(S, x) + 1 \in 1 .. c
    BY <1>1, SortedIs
  <1>3. ASSUME NEW x \in S PROVE Place(S, x) = x - 1
    <2>1. x \in Nat \ {0}
      OBVIOUS
    <2>2. {y \in S : y < x} = 1 .. x - 1
      <3>1. \A y \in 1 .. x - 1 : y \in S /\ y < x
        BY <2>1
      <3>2. \A y \in S : y < x => y \in 1 .. x - 1
        BY <2>1
      <3>3. QED
        BY <3>1, <3>2
    <2>3. Cardinality(1 .. x - 1) = x - 1
      <3>1. 1 \in Int /\ x - 1 \in Int
        BY <2>1
      <3>2. Cardinality(1 .. x - 1) = IF 1 > x - 1 THEN 0 ELSE x - 1 - 1 + 1
        BY <3>1, FS_Interval
      <3>3. QED
        BY <2>1, <3>2
    <2>4. QED
      BY <2>2, <2>3 DEF Place
  <1> HIDE DEF c
  <1>4. \A x \in S : x \in 1 .. c
    BY <1>2, <1>3
  <1>5. ASSUME NEW i \in 1 .. c PROVE i \in S
    <2> DEFINE x == Sorted(S)[i]
    <2>1. x \in S /\ Place(S, x) = i - 1
      BY <1>2
    <2> HIDE DEF x
    <2>2. x - 1 = i - 1 /\ x \in Int /\ i \in Int
      BY <1>2, <1>3, <2>1
    <2>3. x = i
      BY <2>2
    <2>4. QED
      BY <2>1, <2>3
  <1>6. QED
    BY <1>2, <1>4, <1>5 DEF c

(* The ranges of the files of an ordered level follow one another.         *)
LEMMA FilesInOrder ==
  ASSUME NEW files, LevelOK(files), OrderedFiles(files)
  PROVE  /\ Len(files) \in Nat /\ DOMAIN files = 1 .. Len(files)
         /\ \A i \in DOMAIN files : /\ files[i].key_min \in Nat /\ files[i].key_max \in Nat
                                    /\ files[i].key_min <= files[i].key_max
         /\ \A i, j \in DOMAIN files : i < j => /\ files[i].key_max < files[j].key_min
                                                /\ files[i].key_min < files[j].key_min
  <1>1. Len(files) \in Nat /\ DOMAIN files = 1 .. Len(files)
    BY DEF LevelOK
  <1>2. ASSUME NEW i \in DOMAIN files
        PROVE  /\ files[i].key_min \in Nat /\ files[i].key_max \in Nat
               /\ files[i].key_min <= files[i].key_max
    <2> DEFINE f == files[i]
    <2>1. FileMade(f)
      BY DEF LevelOK
    <2> HIDE DEF f
    <2>2. PICK k \in RowKeys(f.rows) : TRUE
      BY <2>1 DEF FileMade
    <2>3. f.key_min \in Nat /\ f.key_max \in Nat /\ f.key_min <= k /\ k <= f.key_max
      BY <2>1, <2>2 DEF FileMade
    <2>4. k \in Nat
      BY <2>2, KeyFacts DEF RowKeys
    <2>5. f.key_min <= f.key_max
      BY <2>3, <2>4
    <2>6. QED
      BY <2>3, <2>5 DEF f
  <1>3. \A i, j \in DOMAIN files : i < j => files[i].key_max < files[j].key_min
    BY DEF OrderedFiles
  <1>4. QED
    BY <1>1, <1>2, <1>3

(* The first file of a level in order that meets a range is not after any  *)
(* other that does.                                                        *)
LEMMA FirstFileIs ==
  ASSUME NEW files, LevelOK(files), OrderedFiles(files),
         NEW key_min \in Nat, NEW key_max \in Nat, key_min <= key_max
  PROVE  LET first == FirstFile(files, key_min, key_max)
         IN  /\ first \in 0 .. Len(files)
             /\ \A i \in DOMAIN files :
                  files[i].key_max >= key_min /\ files[i].key_min <= key_max
                  => first # 0 /\ first <= i
  <1> DEFINE below == {i \in DOMAIN files : files[i].key_min < key_min}
             x == Cardinality(below) + 1
             n == Len(files)
             lo(i) == files[i].key_min
             hi(i) == files[i].key_max
             first == FirstFile(files, key_min, key_max)
  <1>1. /\ n \in Nat /\ DOMAIN files = 1 .. n
        /\ \A i \in 1 .. n : lo(i) \in Nat /\ hi(i) \in Nat /\ lo(i) <= hi(i)
        /\ \A i, j \in 1 .. n : i < j => hi(i) < lo(j) /\ lo(i) < lo(j)
    BY FilesInOrder
  <1>2. first = IF n = 0 THEN 0
                ELSE IF x = 1 THEN IF lo(1) <= key_max THEN 1 ELSE 0
                ELSE IF hi(x - 1) >= key_min THEN x - 1
                ELSE IF x > n THEN 0
                ELSE IF lo(x) > key_max THEN 0 ELSE x
    BY DEF FirstFile
  <1>3. \A i \in 1 .. n : i \in below <=> lo(i) < key_min
    BY <1>1
  <1>4. below \subseteq 1 .. n
    BY <1>1
  <1> HIDE DEF lo, hi, n, first
  <1>5. Cardinality(below) \in Nat /\ below = 1 .. Cardinality(below)
    <2>1. \A i \in below : \A j \in 1 .. i : j \in below
      <3> SUFFICES ASSUME NEW i \in below, NEW j \in 1 .. i PROVE j \in below
        OBVIOUS
      <3> HIDE DEF below
      <3>1. i \in 1 .. n /\ j \in 1 .. n /\ (j < i \/ j = i) /\ lo(i) < key_min
        BY <1>1, <1>3, <1>4
      <3>2. lo(j) < key_min
        BY <1>1, <3>1
      <3>3. QED
        BY <1>3, <3>1, <3>2
    <2> HIDE DEF below
    <2>2. QED
      BY <1>1, <1>4, <2>1, BeginningIs
  <1>6. x \in 1 .. n + 1
        /\ \A i \in 1 .. n : i < x <=> lo(i) < key_min
    <2> DEFINE c == Cardinality(below)
    <2>1. c \in Nat /\ below = 1 .. c /\ x = c + 1
      BY <1>5
    <2> HIDE DEF c, below, x
    <2>2. c <= n
      <3>1. CASE c = 0
        BY <1>1, <3>1
      <3>2. CASE c # 0
        <4>1. c \in below
          BY <2>1, <3>2
        <4>2. QED
          BY <1>4, <4>1
      <3>3. QED
        BY <3>1, <3>2
    <2>3. \A i \in 1 .. n : i < x <=> i \in below
      BY <1>1, <2>1
    <2>4. QED
      BY <1>1, <1>3, <2>1, <2>2, <2>3
  <1> HIDE DEF x, below
  <1>7. first \in 0 .. n
    BY <1>1, <1>2, <1>6
  <1>8. ASSUME NEW i \in 1 .. n, hi(i) >= key_min, lo(i) <= key_max
        PROVE  first # 0 /\ first <= i
    <2>1. n # 0
      BY <1>1, <1>8
    <2>2. CASE x = 1
      <3>1. 1 \in 1 .. n /\ (i = 1 \/ 1 < i)
        BY <1>1, <1>8
      <3>2. lo(1) <= key_max
        BY <1>1, <1>8, <3>1
      <3>3. QED
        BY <1>1, <1>2, <1>8, <2>1, <2>2, <3>2
    <2>3. CASE x # 1
      <3>1. x - 1 \in 1 .. n /\ lo(x - 1) < key_min
        BY <1>1, <1>6, <2>3
      <3>2. i >= x - 1
        <4> SUFFICES ASSUME i < x - 1 PROVE FALSE
          BY <1>1, <1>6
        <4>1. hi(i) < lo(x - 1)
          BY <1>1, <1>8, <3>1
        <4>2. QED
          BY <1>1, <1>8, <3>1, <4>1
      <3>3. CASE hi(x - 1) >= key_min
        <4>1. first = x - 1
          BY <1>2, <2>1, <2>3, <3>3
        <4>2. QED
          BY <1>1, <1>6, <2>3, <3>2, <4>1
      <3>4. CASE ~(hi(x - 1) >= key_min)
        <4>1. i # x - 1
          BY <1>8, <3>4
        <4>2. i >= x
          BY <1>1, <1>6, <3>2, <4>1
        <4>3. x \in 1 .. n /\ (x = i \/ x < i)
          BY <1>1, <1>6, <4>2
        <4>4. lo(x) <= lo(i)
          BY <1>1, <4>3
        <4>5. ~(lo(x) > key_max)
          BY <1>1, <1>8, <4>3, <4>4
        <4>6. first = x
          BY <1>1, <1>2, <2>1, <2>3, <3>4, <4>3, <4>5
        <4>7. QED
          BY <1>6, <4>2, <4>6
      <3>5. QED
        BY <3>3, <3>4
    <2>4. QED
      BY <2>2, <2>3
  <1>9. QED
    BY <1>1, <1>7, <1>8 DEF first, n, lo, hi

(* The files found on a level: in its order, with every one that meets the *)
(* range.                                                                  *)
LEMMA FilesOnIs ==
  ASSUME FilesInv, NEW l \in Levels, NEW key_min \in Nat, NEW key_max \in Nat,
         key_min <= key_max
  PROVE  LET s == FilesOn(l, key_min, key_max)
         IN  /\ Len(s) \in Nat /\ DOMAIN s = 1 .. Len(s)
             /\ \A j \in 1 .. Len(s) : s[j] \in DOMAIN FileIndex[l]
             /\ \A i, j \in 1 .. Len(s) : i < j => s[i] < s[j]
             /\ \A i \in DOMAIN FileIndex[l] :
                  FileIndex[l][i].key_max >= key_min /\ FileIndex[l][i].key_min <= key_max
                  => \E j \in 1 .. Len(s) : s[j] = i
  <1> DEFINE files == FileIndex[l]
             first == FirstFile(files, key_min, key_max)
             lo(i) == files[i].key_min
             hi(i) == files[i].key_max
             E == {i \in DOMAIN files :
                     IF l = 0 THEN lo(i) <= key_max /\ hi(i) >= key_min
                     ELSE /\ first # 0 /\ i >= first
                          /\ i = first \/ lo(i) <= key_max}
             s == FilesOn(l, key_min, key_max)
             n == Len(files)
  <1>1. s = Sorted(E)
    BY DEF FilesOn
  <1>2. LevelOK(files) /\ (l # 0 => OrderedFiles(files))
    BY DEF FilesInv, Levels
  <1>3. n \in Nat /\ DOMAIN files = 1 .. n
    BY <1>2 DEF LevelOK
  <1>4. ASSUME l # 0
        PROVE  /\ first \in 0 .. n
               /\ \A i \in DOMAIN files :
                    hi(i) >= key_min /\ lo(i) <= key_max => first # 0 /\ first <= i
    <2>1. LevelOK(files) /\ OrderedFiles(files)
      BY <1>2, <1>4
    <2> HIDE DEF files
    <2>2. QED
      BY <2>1, FirstFileIs
  <1>5. l # 0 => first \in Nat
    BY <1>3, <1>4
  <1> HIDE DEF s, files, lo, hi, first, n
  <1>6. \A i \in DOMAIN files : hi(i) >= key_min /\ lo(i) <= key_max => i \in E
    BY <1>3, <1>4, <1>5
  <1>7. IsFiniteSet(E) /\ E \subseteq 1 .. n /\ E \subseteq Int
    <2>1. E \subseteq 1 .. n
      BY <1>3
    <2>2. 1 \in Int /\ n \in Int
      BY <1>3
    <2>3. IsFiniteSet(1 .. n)
      BY <2>2, FS_Interval
    <2> HIDE DEF E
    <2>4. IsFiniteSet(E)
      BY <2>1, <2>3, FS_Subset
    <2>5. QED
      BY <2>1, <2>4
  <1> HIDE DEF E
  <1> DEFINE c == Cardinality(E)
  <1>8. /\ c \in Nat /\ s \in [1 .. c -> E]
        /\ \A i, j \in 1 .. c : i < j => s[i] < s[j]
        /\ \A x \in E : Place(E, x) + 1 \in 1 .. c /\ s[Place(E, x) + 1] = x
    BY <1>1, <1>7, SortedIs
  <1> HIDE DEF c
  <1>9. Len(s) = c /\ DOMAIN s = 1 .. c
    BY <1>8
  <1>10. \A j \in 1 .. c : s[j] \in DOMAIN files
    BY <1>3, <1>7, <1>8
  <1>11. \A i \in E : \E j \in 1 .. c : s[j] = i
    BY <1>8
  <1>12. QED
    BY <1>6, <1>8, <1>9, <1>10, <1>11 DEF s, files, lo, hi

(* Every file of a level has its rows, without deleted ones if nothing is. *)
LEMMA FileOfLevel ==
  ASSUME FilesInv, NoDeletes, NEW l \in Levels, NEW i \in DOMAIN FileIndex[l]
  PROVE  LET f == FileIndex[l][i]
         IN  /\ FileMade(f) /\ Clean(f.rows) /\ CleanFile(f)
             /\ f.key_min \in Nat /\ f.key_max \in Nat /\ i \in Nat
             /\ \A k \in RowKeys(f.rows) : /\ k \in Key /\ k \in Nat
                                           /\ f.key_min <= k /\ k <= f.key_max
                                           /\ f.rows[k] \in Value /\ f.rows[k] # Absent
  <1> DEFINE f == FileIndex[l][i]
  <1>1. FileMade(f) /\ Clean(f.rows) /\ i \in Nat
    BY DEF FilesInv, LevelOK
  <1> HIDE DEF f
  <1>2. /\ CleanFile(f) /\ f.key_min \in Nat /\ f.key_max \in Nat /\ f.rows \in RowsType
        /\ \A k \in RowKeys(f.rows) : f.key_min <= k /\ k <= f.key_max
    BY <1>1 DEF FileMade
  <1>3. \A k \in RowKeys(f.rows) : k \in Key /\ k \in Nat
    BY KeyFacts DEF RowKeys
  <1>4. \A k \in RowKeys(f.rows) : f.rows[k] \in Value /\ f.rows[k] # Absent
    BY <1>1, <1>2 DEF RowKeys, RowsType, Clean
  <1>5. QED
    BY <1>1, <1>2, <1>3, <1>4 DEF f

(* A point read finds a key in the files that have it.                     *)
LEMMA FoundOnIs ==
  ASSUME FilesInv, NoDeletes, NEW l \in Levels, NEW k \in Key
  PROVE  /\ FoundOn(l, k) = FilesOf(FileIndex[l], k)
         /\ \A i \in FilesOf(FileIndex[l], k) :
              FileGet(FileIndex[l][i], k) = FileIndex[l][i].rows[k]
  <1> DEFINE files == FileIndex[l]
             s == FilesOn(l, k, k)
  <1>1. k \in Nat /\ k <= k
    BY KeyFacts
  <1>2. /\ Len(s) \in Nat /\ DOMAIN s = 1 .. Len(s)
        /\ \A j \in 1 .. Len(s) : s[j] \in DOMAIN files
        /\ \A i \in DOMAIN files : files[i].key_max >= k /\ files[i].key_min <= k
                                   => \E j \in 1 .. Len(s) : s[j] = i
    BY <1>1, FilesOnIs
  <1>3. \A i \in DOMAIN files : /\ FileMade(files[i]) /\ Clean(files[i].rows)
                                /\ files[i].key_min \in Nat /\ files[i].key_max \in Nat
                                /\ \A m \in RowKeys(files[i].rows) :
                                     files[i].key_min <= m /\ m <= files[i].key_max
    BY FileOfLevel
  <1>4. FoundOn(l, k) = {i \in Range(s) : /\ k >= files[i].key_min /\ k <= files[i].key_max
                                          /\ MayHold(files[i], k)
                                          /\ FileGet(files[i], k) # Absent}
    BY DEF FoundOn
  <1> HIDE DEF s, files
  <1>5. \A i \in DOMAIN files : /\ MayHold(files[i], k) <=> files[i].rows[k] # Absent
                                /\ FileGet(files[i], k) = files[i].rows[k]
    BY <1>3, FileLookup
  <1>6. \A i \in DOMAIN files : i \in FilesOf(files, k) <=> files[i].rows[k] # Absent
    BY DEF FilesOf, RowKeys
  <1>7. \A i \in FilesOf(files, k) : /\ i \in DOMAIN files
                                     /\ files[i].key_min <= k /\ k <= files[i].key_max
    BY <1>3 DEF FilesOf
  <1>8. \A i \in FilesOf(files, k) : i \in FoundOn(l, k)
    <2> SUFFICES ASSUME NEW i \in FilesOf(files, k) PROVE i \in FoundOn(l, k)
      OBVIOUS
    <2>1. i \in DOMAIN files /\ files[i].key_min <= k /\ k <= files[i].key_max
      BY <1>7
    <2>2. files[i].key_min \in Nat /\ files[i].key_max \in Nat
      BY <1>3, <2>1
    <2>3. k >= files[i].key_min /\ files[i].key_max >= k
      BY <1>1, <2>1, <2>2
    <2>4. i \in Range(s)
      BY <1>2, <2>1, <2>3 DEF Range
    <2>5. QED
      BY <1>4, <1>5, <1>6, <2>1, <2>3, <2>4
  <1>9. \A i \in FoundOn(l, k) : i \in FilesOf(files, k)
    BY <1>2, <1>4, <1>5, <1>6 DEF Range
  <1>10. \A i \in FilesOf(files, k) : FileGet(files[i], k) = files[i].rows[k]
    BY <1>5, <1>7
  <1>11. QED
    BY <1>8, <1>9, <1>10 DEF files

(* A point read gives the newest row of a key: of the last memtable, else  *)
(* of the first file of level 0, else of the file of level 1.              *)
LEMMA GetIs ==
  ASSUME FilesInv, NoDeletes, NEW k \in Key
  PROVE  /\ \A n \in DOMAIN memtables :
              /\ k \in RowKeys(memtables[n])
              /\ \A m \in DOMAIN memtables : n < m => k \notin RowKeys(memtables[m])
              => Get(k) = memtables[n][k]
         /\ (\A n \in DOMAIN memtables : k \notin RowKeys(memtables[n])) =>
              /\ \A i \in FilesOf(FileIndex[0], k) :
                   (\A j \in FilesOf(FileIndex[0], k) : i <= j)
                   => Get(k) = FileIndex[0][i].rows[k]
              /\ FilesOf(FileIndex[0], k) = {} =>
                   \A i \in FilesOf(FileIndex[1], k) : Get(k) = FileIndex[1][i].rows[k]
  <1> DEFINE hits == {n \in DOMAIN memtables : memtables[n][k] \notin {Absent, Tombstone}}
             on(l) == FilesOf(FileIndex[l], k)
             levels == {l \in Levels : FoundOn(l, k) # {}}
             row(l, i) == FileIndex[l][i].rows[k]
  <1>1. memtables \in Seq(Batch) /\ Len(memtables) \in Nat
        /\ DOMAIN memtables = 1 .. Len(memtables)
    BY DEF FilesInv
  <1>2. \A n \in DOMAIN memtables : n \in hits <=> k \in RowKeys(memtables[n])
    BY <1>1 DEF RowKeys, NoDeletes
  <1>3. /\ \A l \in Levels : FoundOn(l, k) = on(l)
        /\ \A l \in Levels : \A i \in on(l) : FileGet(FileIndex[l][i], k) = row(l, i)
    BY FoundOnIs
  <1>4. \A l \in Levels : \A i \in on(l) : row(l, i) # Absent /\ i \in Nat
    BY FileOfLevel DEF FilesOf
  <1>5. 0 \in Levels /\ 1 \in Levels
    BY DEF Levels
  <1>6. Get(k) = IF MemGet(k) # Absent THEN MemGet(k)
                 ELSE IF levels = {} THEN Absent
                 ELSE FileGet(FileIndex[Min(levels)][Min(FoundOn(Min(levels), k))], k)
    BY DEF Get
  <1>7. MemGet(k) = IF hits = {} THEN Absent ELSE memtables[Max(hits)][k]
    BY DEF MemGet
  <1>8. hits \subseteq Nat /\ \A n \in hits : n <= Len(memtables)
    BY <1>1
  <1>9. ASSUME NEW n \in DOMAIN memtables, k \in RowKeys(memtables[n]),
               \A m \in DOMAIN memtables : n < m => k \notin RowKeys(memtables[m])
        PROVE  Get(k) = memtables[n][k]
    <2>1. n \in hits /\ \A m \in hits : ~(n < m)
      BY <1>2, <1>9
    <2>2. memtables[n][k] # Absent
      BY <1>9 DEF RowKeys
    <2> HIDE DEF hits, levels
    <2>3. Max(hits) \in hits /\ \A m \in hits : m <= Max(hits)
      BY <1>1, <1>8, <2>1, MaxIs
    <2>4. Max(hits) = n
      <3>1. Max(hits) \in Nat /\ n \in Nat
        BY <1>8, <2>1, <2>3
      <3>2. n <= Max(hits) /\ ~(n < Max(hits))
        BY <2>1, <2>3
      <3>3. QED
        BY <3>1, <3>2
    <2>5. MemGet(k) = memtables[n][k]
      BY <1>7, <2>1, <2>4
    <2>6. QED
      BY <1>6, <2>2, <2>5
  <1>10. ASSUME \A n \in DOMAIN memtables : k \notin RowKeys(memtables[n])
         PROVE  MemGet(k) = Absent
    BY <1>2, <1>7, <1>10
  <1>11. ASSUME NEW l \in Levels, levels # {}, Min(levels) = l, MemGet(k) = Absent,
                NEW i \in on(l), \A j \in on(l) : i <= j
         PROVE  Get(k) = row(l, i)
    <2>1. FoundOn(l, k) = on(l) /\ on(l) \subseteq Nat
      BY <1>3, <1>4
    <2>2. Min(on(l)) = i
      <3> DEFINE T == on(l)
      <3>1. T \subseteq Nat /\ i \in T /\ \A j \in T : i <= j
        BY <1>11, <2>1
      <3> HIDE DEF T
      <3>2. Min(T) \in T /\ \A j \in T : Min(T) <= j
        BY <3>1, MinIs
      <3>3. Min(T) = i
        <4>1. Min(T) \in Nat /\ i \in Nat
          BY <3>1, <3>2
        <4>2. Min(T) <= i /\ i <= Min(T)
          BY <3>1, <3>2
        <4>3. QED
          BY <4>1, <4>2
      <3>4. QED
        BY <3>3 DEF T
    <2>3. Get(k) = FileGet(FileIndex[l][i], k)
      <3> HIDE DEF levels, on
      <3>1. QED
        BY <1>6, <1>11, <2>1, <2>2
    <2>4. QED
      BY <1>3, <2>3
  <1>12. ASSUME NEW i \in on(0), \A j \in on(0) : i <= j, MemGet(k) = Absent
         PROVE  Get(k) = row(0, i)
    <2>1. 0 \in levels /\ levels \subseteq Nat
      BY <1>3, <1>5, <1>12 DEF Levels
    <2> HIDE DEF levels
    <2>2. Min(levels) \in Nat /\ Min(levels) <= 0
      BY <2>1, MinIs
    <2>3. Min(levels) = 0
      BY <2>2
    <2>4. QED
      BY <1>5, <1>11, <1>12, <2>1, <2>3
  <1>13. ASSUME on(0) = {}, NEW i \in on(1), MemGet(k) = Absent
         PROVE  Get(k) = row(1, i)
    <2>1. levels = {1}
      BY <1>3, <1>5, <1>13 DEF Levels
    <2>2. Min(levels) = 1
      BY <2>1, MinIs
    <2>3. \A j \in on(1) : i = j
      <3> SUFFICES ASSUME NEW j \in on(1), i # j PROVE FALSE
        OBVIOUS
      <3> DEFINE files == FileIndex[1]
      <3>1. \A m \in on(1) : /\ m \in DOMAIN files /\ m \in Nat
                             /\ files[m].key_min \in Nat /\ files[m].key_max \in Nat
                             /\ files[m].key_min <= k /\ k <= files[m].key_max
        BY <1>5, FileOfLevel DEF FilesOf
      <3>2. \A a, b \in DOMAIN files : a < b => files[a].key_max < files[b].key_min
        BY DEF FilesInv, OrderedFiles
      <3>3. k \in Nat
        BY KeyFacts
      <3> HIDE DEF files, on
      <3>4. i < j \/ j < i
        BY <1>13, <3>1
      <3>5. QED
        BY <1>13, <3>1, <3>2, <3>3, <3>4
    <2>4. \A j \in on(1) : i <= j
      BY <1>4, <1>5, <2>3
    <2>5. QED
      BY <1>5, <1>11, <1>13, <2>1, <2>2, <2>4
  <1>14. QED
    BY <1>9, <1>10, <1>12, <1>13

-----------------------------------------------------------------------------
(* A pointer at row idx of a block of file f on level l, whose keys and    *)
(* indices are keys and vals.                                              *)
AtRow(p, l, f, keys, vals) ==
    /\ p.level = l /\ p.file = f
    /\ p.block \in 1 .. FileIndex[l][f].block_count
    /\ p.idx \in 0 .. Length(keys, p.block) - 1
    /\ p.now_key = keys[First(p.block) + p.idx]

(* A pointer into a file.                                                  *)
InFile(p, l, f) ==
    \E keys, vals : Holding(FileIndex[l][f], keys, vals) /\ AtRow(p, l, f, keys, vals)

(* What Holding says, in terms of the rows the file was made from.         *)
LEMMA HoldingIs ==
  ASSUME NEW f, NEW keys, NEW vals, Holding(f, keys, vals)
  PROVE  /\ OrderedFile(f, keys, vals) /\ keys \in Seq(Nat) /\ Len(keys) \in Nat \ {0}
         /\ \A i, j \in 1 .. Len(keys) : i < j => keys[i] < keys[j]
         /\ \A i \in 1 .. Len(keys) : keys[i] \in RowKeys(f.rows) /\ keys[i] \in Nat
         /\ \A k \in RowKeys(f.rows) : \E j \in 1 .. Len(keys) : keys[j] = k
  <1>1. /\ OrderedFile(f, keys, vals) /\ Range(keys) = RowKeys(f.rows)
        /\ keys \in Seq(Nat) /\ keys # <<>> /\ Increasing(keys)
    BY DEF Holding, OrderedFile
  <1>2. DOMAIN keys = 1 .. Len(keys) /\ Len(keys) \in Nat \ {0}
    BY <1>1
  <1>3. \A i \in 1 .. Len(keys) : keys[i] \in RowKeys(f.rows) /\ keys[i] \in Nat
    BY <1>1, <1>2 DEF Range
  <1>4. \A k \in RowKeys(f.rows) : \E j \in 1 .. Len(keys) : keys[j] = k
    BY <1>1, <1>2 DEF Range
  <1>5. \A i, j \in 1 .. Len(keys) : i < j => keys[i] < keys[j]
    BY <1>1 DEF Increasing
  <1>6. QED
    BY <1>1, <1>2, <1>3, <1>4, <1>5

(* Row m of block i.                                                       *)
LEMMA BlockRowIs ==
  ASSUME NEW file, NEW keys, NEW vals, OrderedFile(file, keys, vals),
         NEW i \in 1 .. file.block_count, NEW m \in 0 .. Length(keys, i) - 1
  PROVE  /\ First(i) + m \in 1 .. Len(keys)
         /\ KeyAt(file, Block(file, i), m) = keys[First(i) + m]
         /\ IdxAt(file, Block(file, i), m) = vals[First(i) + m]
  <1>1. \A b \in 1 .. file.block_count : \A n \in 0 .. Length(keys, b) - 1 :
           /\ First(b) + n \in 1 .. Len(keys)
           /\ KeyAt(file, Block(file, b), n) = keys[First(b) + n]
           /\ IdxAt(file, Block(file, b), n) = vals[First(b) + n]
    BY OrderedBlocks
  <1>2. QED
    BY <1>1

(* At is a pointer at its row.                                             *)
LEMMA AtIs ==
  ASSUME NEW l, NEW f, NEW keys, NEW vals, Holding(FileIndex[l][f], keys, vals),
         NEW b \in 1 .. FileIndex[l][f].block_count, NEW n \in 0 .. Length(keys, b) - 1
  PROVE  AtRow(At(l, f, b, n), l, f, keys, vals)
  <1>1. OrderedFile(FileIndex[l][f], keys, vals)
    BY DEF Holding
  <1>2. KeyAt(FileIndex[l][f], Block(FileIndex[l][f], b), n) = keys[First(b) + n]
    BY <1>1, BlockRowIs
  <1>3. QED
    BY <1>2 DEF At, AtRow

(* The tuple of a pointer into a file is the row written there.            *)
LEMMA FileTupleIs ==
  ASSUME FilesInv, NoDeletes, NEW l \in Levels, NEW f \in DOMAIN FileIndex[l],
         NEW p, InFile(p, l, f)
  PROVE  /\ p.now_key \in RowKeys(FileIndex[l][f].rows)
         /\ TupleAt(p) = <<p.now_key, FileIndex[l][f].rows[p.now_key]>>
  <1> DEFINE file == FileIndex[l][f]
  <1>1. \E keys, vals : Holding(file, keys, vals) /\ AtRow(p, l, f, keys, vals)
    BY DEF InFile
  <1>2. PICK keys, vals : Holding(file, keys, vals) /\ AtRow(p, l, f, keys, vals)
    BY <1>1
  <1>3. /\ p.level = l /\ p.file = f /\ p.block \in 1 .. file.block_count
        /\ p.idx \in 0 .. Length(keys, p.block) - 1
        /\ p.now_key = keys[First(p.block) + p.idx]
    BY <1>2 DEF AtRow
  <1>4. p.level # -1
    BY <1>3 DEF Levels
  <1>5. OrderedFile(file, keys, vals)
        /\ \A i \in 1 .. Len(keys) : keys[i] \in RowKeys(file.rows)
    BY <1>2, HoldingIs
  <1>6. \A j \in 1 .. Len(keys) : GetString(file.dictionary, vals[j]) = file.rows[keys[j]]
    BY <1>2 DEF Holding
  <1>7. First(p.block) + p.idx \in 1 .. Len(keys)
        /\ IdxAt(file, Block(file, p.block), p.idx) = vals[First(p.block) + p.idx]
    <2> HIDE DEF file
    <2>1. QED
      BY <1>3, <1>5, BlockRowIs
  <1>8. GetString(file.dictionary, IdxAt(file, Block(file, p.block), p.idx))
        = file.rows[p.now_key]
    BY <1>3, <1>6, <1>7
  <1>9. p.now_key \in RowKeys(file.rows)
    BY <1>3, <1>5, <1>7
  <1>10. file.rows[p.now_key] # Tombstone
    BY <1>9, FileOfLevel DEF RowKeys, Clean
  <1>11. TupleAt(p) = <<p.now_key, file.rows[p.now_key]>>
    BY <1>3, <1>4, <1>8, <1>10 DEF TupleAt
  <1>12. QED
    BY <1>9, <1>11

(* The pointer into a file that is opened at key is not after the first    *)
(* of its keys from key on.                                                *)
LEMMA FileAtIs ==
  ASSUME FilesInv, NoDeletes, NEW l \in Levels, NEW f \in DOMAIN FileIndex[l],
         NEW key \in Nat
  PROVE  LET p == FileAt(l, f, key)
         IN  /\ InFile(p, l, f)
             /\ \A k \in RowKeys(FileIndex[l][f].rows) : k >= key => k >= p.now_key
  <1> DEFINE file == FileIndex[l][f]
             b == BlockFor(file, key)
             n == LowerIdx(file, Block(file, b), key)
             p == FileAt(l, f, key)
  <1>1. \E keys, vals : Holding(file, keys, vals)
    BY FileOfLevel DEF CleanFile
  <1>2. PICK keys, vals : Holding(file, keys, vals)
    BY <1>1
  <1>3. p = At(l, f, b, n)
    BY DEF FileAt
  <1>4. /\ OrderedFile(file, keys, vals) /\ keys \in Seq(Nat) /\ Len(keys) \in Nat \ {0}
        /\ \A i, j \in 1 .. Len(keys) : i < j => keys[i] < keys[j]
        /\ \A i \in 1 .. Len(keys) : keys[i] \in RowKeys(file.rows) /\ keys[i] \in Nat
        /\ \A k \in RowKeys(file.rows) : \E j \in 1 .. Len(keys) : keys[j] = k
    BY <1>2, HoldingIs
  <1>5. b \in 1 .. file.block_count /\ (b = 1 \/ keys[First(b)] <= key)
    <2> HIDE DEF file
    <2>1. QED
      BY <1>4, BlockForIs
  <1>6. /\ n \in 0 .. Length(keys, b) - 1
        /\ \A m \in 0 .. Length(keys, b) - 1 : m < n => keys[First(b) + m] < key
    <2>1. key \in Int
      OBVIOUS
    <2> HIDE DEF file, b
    <2>2. LET q == LowerIdx(file, Block(file, b), key)
          IN  /\ q \in 0 .. Length(keys, b) - 1
              /\ \A m \in 0 .. Length(keys, b) - 1 : m < q => keys[First(b) + m] < key
      BY <1>4, <1>5, <2>1, OrderedLower
    <2>3. QED
      BY <2>2
  <1>7. /\ First(b) \in Nat \ {0} /\ Length(keys, b) \in Nat \ {0}
        /\ First(b) + n \in 1 .. Len(keys) /\ First(b) \in 1 .. Len(keys) /\ First(1) = 1
    <2> HIDE DEF file, b, n
    <2>1. /\ First(b) \in Nat \ {0} /\ Length(keys, b) \in Nat \ {0} /\ First(1) = 1
          /\ First(b) + Length(keys, b) <= Len(keys) + 1
      BY <1>4, <1>5, OrderedBlocks
    <2>2. QED
      BY <1>4, <1>6, <2>1
  <1>8. AtRow(p, l, f, keys, vals)
    <2> HIDE DEF p, b, n
    <2>1. QED
      BY <1>2, <1>3, <1>5, <1>6, AtIs
  <1>9. p.now_key = keys[First(b) + n]
    BY <1>8, <1>2, <1>3, <1>5, <1>6 DEF AtRow, At
  <1> HIDE DEF b, n, file, p
  <1>10. ASSUME NEW j \in 1 .. Len(keys), j < First(b) + n PROVE keys[j] < key
    <2>1. CASE j < First(b)
      <3>1. b # 1
        BY <1>4, <1>7, <2>1
      <3>2. keys[j] < keys[First(b)]
        BY <1>4, <1>7, <2>1
      <3>3. keys[First(b)] <= key /\ keys[First(b)] \in Nat /\ keys[j] \in Nat
        BY <1>4, <1>5, <1>7, <3>1
      <3>4. QED
        BY <3>2, <3>3
    <2>2. CASE ~(j < First(b))
      <3>1. j - First(b) \in 0 .. Length(keys, b) - 1 /\ j - First(b) < n
        <4>1. /\ j \in Nat /\ First(b) \in Nat /\ n \in Nat /\ Length(keys, b) \in Nat
              /\ n <= Length(keys, b) - 1
          BY <1>4, <1>6, <1>7
        <4>2. QED
          BY <1>10, <2>2, <4>1
      <3>2. First(b) + (j - First(b)) = j
        BY <1>7
      <3>3. QED
        BY <1>6, <3>1, <3>2
    <2>3. QED
      BY <2>1, <2>2
  <1>11. ASSUME NEW k \in RowKeys(file.rows), k >= key PROVE k >= p.now_key
    <2>1. PICK j \in 1 .. Len(keys) : keys[j] = k
      BY <1>4
    <2>2. k \in Nat /\ ~(keys[j] < key)
      BY <1>4, <1>11, <2>1
    <2>3. ~(j < First(b) + n)
      BY <1>10, <2>2
    <2>4. First(b) + n = j \/ First(b) + n < j
      BY <1>4, <1>7, <2>3
    <2>5. p.now_key \in Nat /\ (p.now_key = k \/ p.now_key < k)
      <3>1. First(b) + n \in 1 .. Len(keys)
        BY <1>7
      <3>2. p.now_key \in Nat
        BY <1>4, <1>9, <3>1
      <3>3. CASE First(b) + n = j
        BY <1>9, <2>1, <3>2, <3>3
      <3>4. CASE First(b) + n < j
        <4>1. keys[First(b) + n] < keys[j]
          BY <1>4, <3>1, <3>4
        <4>2. QED
          BY <1>9, <2>1, <3>2, <4>1
      <3>5. QED
        BY <2>4, <3>3, <3>4
    <2>6. QED
      BY <2>2, <2>5
  <1>12. QED
    BY <1>2, <1>8, <1>11 DEF InFile, file, p

(* The pointer into a memtable from key on.                                *)
LEMMA MemAtIs ==
  ASSUME FilesInv, NEW n \in DOMAIN memtables, NEW key \in Nat
  PROVE  LET p == MemAt(n, key)
         IN  \/ p = AtEnd /\ \A k \in RowKeys(memtables[n]) : ~(k >= key)
             \/ /\ p.level = -1 /\ p.file = n /\ p.now_key \in RowKeys(memtables[n])
                /\ p.now_key >= key
                /\ \A k \in RowKeys(memtables[n]) : k >= key => k >= p.now_key
  <1> DEFINE on == {k \in Key : memtables[n][k] # Absent /\ k >= key}
             p == MemAt(n, key)
  <1>1. p = IF on = {} THEN AtEnd
            ELSE [level |-> -1, file |-> n, block |-> 0, idx |-> 0, now_key |-> Min(on)]
    BY DEF MemAt
  <1>2. on \subseteq Nat
    BY KeyFacts
  <1>3. \A k : k \in on <=> k \in RowKeys(memtables[n]) /\ k >= key
    BY DEF RowKeys
  <1> HIDE DEF on, p
  <1>4. CASE on = {}
    BY <1>1, <1>3, <1>4 DEF p
  <1>5. CASE on # {}
    <2>1. Min(on) \in on /\ \A k \in on : Min(on) <= k
      BY <1>2, <1>5, MinIs
    <2>2. p.level = -1 /\ p.file = n /\ p.now_key = Min(on)
      BY <1>1, <1>5
    <2>3. \A k \in RowKeys(memtables[n]) : k >= key => k >= Min(on)
      BY <1>2, <1>3, <2>1
    <2>4. QED
      BY <1>3, <2>1, <2>2, <2>3 DEF p
  <1>6. QED
    BY <1>4, <1>5

(* The next row of a file, or its end, where the next file follows below   *)
(* level 0.                                                                *)
LEMMA NextInFile ==
  ASSUME FilesInv, NoDeletes, NEW l \in Levels, NEW f \in DOMAIN FileIndex[l],
         NEW p, InFile(p, l, f)
  PROVE  LET q == NextAt(p)
         IN  \/ /\ InFile(q, l, f) /\ q.now_key > p.now_key
                /\ \A k \in RowKeys(FileIndex[l][f].rows) :
                      k > p.now_key => k >= q.now_key
             \/ /\ \A k \in RowKeys(FileIndex[l][f].rows) : ~(k > p.now_key)
                /\ q = IF l # 0 /\ f < Len(FileIndex[l]) THEN At(l, f + 1, 1, 0) ELSE AtEnd
  <1> DEFINE file == FileIndex[l][f]
             q == NextAt(p)
             b == p.block
             n == p.idx
             last == file.block_count
  <1>1. \E keys, vals : Holding(file, keys, vals) /\ AtRow(p, l, f, keys, vals)
    BY DEF InFile
  <1>2. PICK keys, vals : Holding(file, keys, vals) /\ AtRow(p, l, f, keys, vals)
    BY <1>1
  <1>3. /\ p.level = l /\ p.file = f /\ b \in 1 .. last /\ n \in 0 .. Length(keys, b) - 1
        /\ p.now_key = keys[First(b) + n]
    BY <1>2 DEF AtRow
  <1>4. /\ OrderedFile(file, keys, vals) /\ keys \in Seq(Nat) /\ Len(keys) \in Nat \ {0}
        /\ \A i, j \in 1 .. Len(keys) : i < j => keys[i] < keys[j]
        /\ \A i \in 1 .. Len(keys) : keys[i] \in Nat
        /\ \A k \in RowKeys(file.rows) : \E j \in 1 .. Len(keys) : keys[j] = k
    BY <1>2, HoldingIs
  <1>5. /\ last \in Nat \ {0}
        /\ \A i \in 1 .. last :
             /\ First(i) \in Nat \ {0} /\ Length(keys, i) \in Nat \ {0}
             /\ First(i) + Length(keys, i) <= Len(keys) + 1
             /\ i < last => First(i + 1) = First(i) + Length(keys, i)
             /\ i = last => Len(keys) + 1 = First(i) + Length(keys, i)
             /\ Block(file, i).key_num = Length(keys, i)
    BY <1>4, OrderedBlocks
  <1>6. q = IF n + 1 < Length(keys, b) THEN At(l, f, b, n + 1)
            ELSE IF b < last THEN At(l, f, b + 1, 0)
            ELSE IF l # 0 /\ f < Len(FileIndex[l]) THEN At(l, f + 1, 1, 0)
            ELSE AtEnd
    <2>1. p.level # -1
      BY <1>3 DEF Levels
    <2>2. Block(file, b).key_num = Length(keys, b)
      BY <1>3, <1>5
    <2>3. QED
      BY <1>3, <2>1, <2>2 DEF NextAt
  <1>7. /\ First(b) \in Nat \ {0} /\ Length(keys, b) \in Nat \ {0}
        /\ First(b) + Length(keys, b) <= Len(keys) + 1
        /\ b < last => First(b + 1) = First(b) + Length(keys, b)
        /\ b = last => Len(keys) + 1 = First(b) + Length(keys, b)
    BY <1>3, <1>5
  <1> DEFINE len == Length(keys, b)
             pos == First(b) + n
  <1>8. pos \in 1 .. Len(keys) /\ p.now_key = keys[pos] /\ len \in Nat \ {0}
    BY <1>3, <1>4, <1>7
  <1> HIDE DEF q, file
  <1>9. ASSUME NEW i \in 1 .. last, NEW m \in 0 .. Length(keys, i) - 1,
               q = At(l, f, i, m), First(i) + m = pos + 1
        PROVE  /\ InFile(q, l, f) /\ q.now_key > p.now_key
               /\ \A k \in RowKeys(file.rows) : k > p.now_key => k >= q.now_key
    <2>1. AtRow(q, l, f, keys, vals)
      BY <1>2, <1>9, AtIs DEF file
    <2>2. q.now_key = keys[pos + 1]
      <3>1. q.block = i /\ q.idx = m
        BY <1>9 DEF At
      <3>2. QED
        BY <1>9, <2>1, <3>1 DEF AtRow
    <2>3. First(i) + m \in 1 .. Len(keys)
      BY <1>4, BlockRowIs
    <2>4. pos + 1 \in 1 .. Len(keys) /\ pos \in 1 .. Len(keys)
      BY <1>8, <1>9, <2>3
    <2> HIDE DEF pos, b, n, last
    <2>5. keys[pos] < keys[pos + 1] /\ keys[pos] \in Nat /\ keys[pos + 1] \in Nat
      BY <1>4, <2>4
    <2>6. ASSUME NEW k \in RowKeys(file.rows), k > p.now_key PROVE k >= q.now_key
      <3>1. PICK j \in 1 .. Len(keys) : keys[j] = k
        BY <1>4
      <3>2. k \in Nat /\ ~(j < pos) /\ j # pos
        BY <1>4, <1>8, <2>4, <2>5, <2>6, <3>1
      <3>3. j = pos + 1 \/ pos + 1 < j
        BY <2>4, <3>2
      <3>4. CASE j = pos + 1
        BY <2>2, <2>5, <3>1, <3>4
      <3>5. CASE pos + 1 < j
        <4>1. keys[pos + 1] < keys[j]
          BY <1>4, <2>4, <3>5
        <4>2. QED
          BY <2>2, <2>5, <3>1, <3>2, <4>1
      <3>6. QED
        BY <3>3, <3>4, <3>5
    <2>7. InFile(q, l, f)
      BY <1>2, <2>1 DEF InFile, file
    <2>8. QED
      BY <1>8, <2>2, <2>5, <2>6, <2>7
  <1>10. CASE n + 1 < len
    <2>1. n + 1 \in 0 .. len - 1 /\ First(b) + (n + 1) = pos + 1
      BY <1>3, <1>7, <1>10
    <2>2. q = At(l, f, b, n + 1)
      BY <1>6, <1>10
    <2>3. QED
      BY <1>3, <1>9, <2>1, <2>2 DEF q, file
  <1>11. CASE ~(n + 1 < len) /\ b < last
    <2>1. n + 1 = len
      BY <1>3, <1>7, <1>11
    <2>2. b + 1 \in 1 .. last
      BY <1>3, <1>5, <1>11
    <2>3. First(b + 1) \in Nat /\ Length(keys, b + 1) \in Nat \ {0}
      BY <1>5, <2>2
    <2>4. 0 \in 0 .. Length(keys, b + 1) - 1 /\ First(b + 1) + 0 = pos + 1
      BY <1>3, <1>7, <1>11, <2>1, <2>3
    <2>5. q = At(l, f, b + 1, 0)
      BY <1>6, <1>11
    <2>6. QED
      BY <1>9, <2>2, <2>4, <2>5 DEF q, file
  <1>12. CASE ~(n + 1 < len) /\ ~(b < last)
    <2>1. n + 1 = len /\ b = last
      <3>1. last \in Nat \ {0} /\ b \in 1 .. last /\ n \in 0 .. len - 1
        BY <1>3, <1>5
      <3> HIDE DEF len, last, n, b
      <3>2. QED
        BY <1>8, <1>12, <3>1
    <2>2. pos = Len(keys)
      BY <1>3, <1>4, <1>7, <2>1
    <2> HIDE DEF pos
    <2>3. ASSUME NEW k \in RowKeys(file.rows) PROVE ~(k > p.now_key)
      <3>1. PICK j \in 1 .. Len(keys) : keys[j] = k
        BY <1>4
      <3>2. j = pos \/ j < pos
        BY <1>4, <2>2
      <3>3. keys[j] \in Nat /\ keys[pos] \in Nat /\ (keys[j] = keys[pos] \/ keys[j] < keys[pos])
        BY <1>4, <1>8, <3>2
      <3>4. QED
        BY <1>8, <3>1, <3>3
    <2>4. q = IF l # 0 /\ f < Len(FileIndex[l]) THEN At(l, f + 1, 1, 0) ELSE AtEnd
      BY <1>6, <1>12
    <2>5. QED
      BY <2>3, <2>4 DEF q, file
  <1>13. QED
    BY <1>10, <1>11, <1>12

(* The keys a pointer on level l goes through from file f.                 *)
KeysOn(l, f) == IF l = 0 THEN RowKeys(FileIndex[0][f].rows) ELSE AllKeys(FileIndex[1])

(* The next pointer is at the next key, or there is none.                  *)
LEMMA NextAtIs ==
  ASSUME FilesInv, NoDeletes, NEW l \in Levels, NEW f \in DOMAIN FileIndex[l],
         NEW p, InFile(p, l, f)
  PROVE  LET q == NextAt(p)
         IN  \/ q = AtEnd /\ \A k \in KeysOn(l, f) : ~(k > p.now_key)
             \/ \E g \in DOMAIN FileIndex[l] :
                  /\ InFile(q, l, g) /\ (l = 0 => g = f) /\ q.now_key > p.now_key
                  /\ \A k \in KeysOn(l, f) : k > p.now_key => k >= q.now_key
  <1> DEFINE files == FileIndex[l]
             file == files[f]
             q == NextAt(p)
             keys(g) == RowKeys(files[g].rows)
  <1>1. \/ /\ InFile(q, l, f) /\ q.now_key > p.now_key
           /\ \A k \in keys(f) : k > p.now_key => k >= q.now_key
        \/ /\ \A k \in keys(f) : ~(k > p.now_key)
           /\ q = IF l # 0 /\ f < Len(files) THEN At(l, f + 1, 1, 0) ELSE AtEnd
    BY NextInFile
  <1>2. CASE l = 0
    <2>1. KeysOn(l, f) = keys(f)
      BY <1>2 DEF KeysOn
    <2> HIDE DEF q, keys
    <2>2. QED
      BY <1>1, <1>2, <2>1 DEF q
  <1>3. CASE l # 0
    <2>1. l = 1 /\ KeysOn(l, f) = AllKeys(files)
      BY <1>3 DEF Levels, KeysOn
    <2>2. LevelOK(files) /\ OrderedFiles(files)
      BY <2>1 DEF FilesInv
    <2>3. /\ Len(files) \in Nat /\ DOMAIN files = 1 .. Len(files)
          /\ \A i, j \in DOMAIN files : i < j => files[i].key_max < files[j].key_min
      BY <2>2 DEF LevelOK, OrderedFiles
    <2>4. \A g \in DOMAIN files : /\ files[g].key_min \in Nat /\ files[g].key_max \in Nat
                                  /\ \A k \in keys(g) : /\ k \in Nat /\ files[g].key_min <= k
                                                        /\ k <= files[g].key_max
      BY FileOfLevel
    <2>5. p.now_key \in keys(f)
      BY FileTupleIs
    <2> HIDE DEF q, files
    <2>6. \A k \in AllKeys(files) : \E g \in DOMAIN files : k \in keys(g)
      BY DEF AllKeys
    <2>7. ASSUME NEW g \in DOMAIN files, NEW k \in keys(g), g < f PROVE ~(k > p.now_key)
      <3>1. files[g].key_max < files[f].key_min
        BY <2>3, <2>7 DEF files
      <3>2. /\ k \in Nat /\ p.now_key \in Nat /\ k <= files[g].key_max
            /\ files[f].key_min <= p.now_key
            /\ files[g].key_max \in Nat /\ files[f].key_min \in Nat
        BY <2>4, <2>5, <2>7 DEF files
      <3>3. QED
        BY <3>1, <3>2
    <2>8. ASSUME NEW g \in DOMAIN files, NEW k \in keys(g),
                 NEW h \in DOMAIN files, NEW m \in keys(h), h < g
          PROVE  k > m
      <3>1. files[h].key_max < files[g].key_min
        BY <2>3, <2>8
      <3>2. /\ k \in Nat /\ m \in Nat /\ m <= files[h].key_max
            /\ files[g].key_min <= k
            /\ files[h].key_max \in Nat /\ files[g].key_min \in Nat
        BY <2>4, <2>8
      <3>3. QED
        BY <3>1, <3>2
    <2>9. f \in DOMAIN files /\ f \in Nat
      BY <2>3 DEF files
    <2>10. CASE /\ InFile(q, l, f) /\ q.now_key > p.now_key
                /\ \A k \in keys(f) : k > p.now_key => k >= q.now_key
      <3>1. q.now_key \in keys(f)
        BY <2>10, FileTupleIs DEF files
      <3>2. ASSUME NEW k \in AllKeys(files), k > p.now_key PROVE k >= q.now_key
        <4>1. PICK g \in DOMAIN files : k \in keys(g)
          BY <2>6
        <4>2. CASE g < f
          BY <2>7, <3>2, <4>1, <4>2
        <4>3. CASE g = f
          BY <2>10, <3>2, <4>1, <4>3
        <4>4. CASE f < g
          <5>1. k > q.now_key
            BY <2>8, <2>9, <3>1, <4>1, <4>4
          <5>2. k \in Nat /\ q.now_key \in Nat
            BY <2>4, <2>9, <3>1, <4>1
          <5>3. QED
            BY <5>1, <5>2
        <4>5. QED
          BY <2>3, <2>9, <4>2, <4>3, <4>4
      <3>3. QED
        BY <1>3, <2>1, <2>9, <2>10, <3>2 DEF q, files
    <2>11. CASE /\ \A k \in keys(f) : ~(k > p.now_key)
                /\ q = IF l # 0 /\ f < Len(files) THEN At(l, f + 1, 1, 0) ELSE AtEnd
      <3>1. CASE f < Len(files)
        <4> DEFINE g == f + 1
        <4>1. g \in DOMAIN files /\ f < g /\ g \in Nat
          BY <2>3, <2>9, <3>1
        <4>2. q = At(l, g, 1, 0)
          BY <1>3, <2>11, <3>1
        <4>3. \E ks, vs : Holding(files[g], ks, vs)
          BY <4>1, FileOfLevel DEF CleanFile, files
        <4> HIDE DEF g
        <4>4. PICK ks, vs : Holding(files[g], ks, vs)
          BY <4>3
        <4>5. /\ OrderedFile(files[g], ks, vs) /\ Len(ks) \in Nat \ {0}
              /\ \A i, j \in 1 .. Len(ks) : i < j => ks[i] < ks[j]
              /\ \A i \in 1 .. Len(ks) : ks[i] \in Nat
              /\ \A k \in keys(g) : \E j \in 1 .. Len(ks) : ks[j] = k
          BY <4>4, HoldingIs
        <4>6. /\ files[g].block_count \in Nat \ {0} /\ First(1) = 1
              /\ \A i \in 1 .. files[g].block_count : Length(ks, i) \in Nat \ {0}
          BY <4>5, OrderedBlocks
        <4>7. 1 \in 1 .. files[g].block_count /\ 0 \in 0 .. Length(ks, 1) - 1
          BY <4>6
        <4>8. AtRow(q, l, g, ks, vs)
          BY <4>2, <4>4, <4>7, AtIs DEF files
        <4>9. InFile(q, l, g)
          BY <4>4, <4>8 DEF InFile, files
        <4>10. q.now_key \in keys(g)
          BY <4>1, <4>9, FileTupleIs DEF files
        <4>11. q.now_key > p.now_key
          BY <2>5, <2>8, <2>9, <4>1, <4>10
        <4>12. q.now_key = ks[1] /\ ks[1] \in Nat
          <5>1. q.block = 1 /\ q.idx = 0
            BY <4>2 DEF At
          <5>2. QED
            BY <4>5, <4>6, <4>8, <5>1 DEF AtRow
        <4>13. ASSUME NEW k \in AllKeys(files), k > p.now_key PROVE k >= q.now_key
          <5>1. PICK h \in DOMAIN files : k \in keys(h)
            BY <2>6
          <5>2. h \in Nat /\ (h < f \/ h = f \/ h = g \/ g < h)
            BY <2>3, <2>9, <4>1 DEF g
          <5>3. h # f /\ ~(h < f)
            BY <2>7, <2>11, <4>13, <5>1
          <5>4. CASE h = g
            <6>1. PICK j \in 1 .. Len(ks) : ks[j] = k
              BY <4>5, <5>1, <5>4
            <6>2. 1 \in 1 .. Len(ks) /\ ks[j] \in Nat /\ (j = 1 \/ 1 < j)
              BY <4>5
            <6>3. j = 1 \/ ks[1] < ks[j]
              BY <4>5, <6>2
            <6>4. QED
              BY <4>12, <6>1, <6>2, <6>3
          <5>5. CASE g < h
            <6>1. k > q.now_key
              BY <2>8, <4>1, <4>10, <5>1, <5>5
            <6>2. k \in Nat /\ q.now_key \in Nat
              BY <2>4, <4>1, <4>10, <5>1
            <6>3. QED
              BY <6>1, <6>2
          <5>6. QED
            BY <5>2, <5>3, <5>4, <5>5
        <4>14. QED
          BY <1>3, <2>1, <4>1, <4>9, <4>11, <4>13 DEF q, files
      <3>2. CASE ~(f < Len(files))
        <4>1. q = AtEnd
          BY <2>11, <3>2
        <4>2. ASSUME NEW k \in AllKeys(files) PROVE ~(k > p.now_key)
          <5>1. PICK g \in DOMAIN files : k \in keys(g)
            BY <2>6
          <5>2. g = f \/ g < f
            BY <2>3, <2>9, <3>2
          <5>3. QED
            BY <2>7, <2>11, <5>1, <5>2
        <4>3. QED
          BY <2>1, <4>1, <4>2 DEF q, files
      <3>3. QED
        BY <3>1, <3>2
    <2>12. QED
      BY <1>1, <2>10, <2>11 DEF q, files
  <1>4. QED
    BY <1>2, <1>3

-----------------------------------------------------------------------------
(* What a scan from s reads: the memtables from the newest on, the files   *)
(* of level 0, level 1.                                                    *)
On(l, s) == FilesOn(l, s, KEY_MAX)
UpTo0(s) == Len(memtables) + Len(On(0, s))
Sources(s) == UpTo0(s) + (IF On(1, s) = <<>> THEN 0 ELSE 1)
MemOf(i) == Len(memtables) + 1 - i
FileOf(i, s) == On(0, s)[i - Len(memtables)]

(* The keys of source i.                                                   *)
SourceKeys(i, s) ==
    IF i <= Len(memtables) THEN RowKeys(memtables[MemOf(i)])
    ELSE IF i <= UpTo0(s) THEN RowKeys(FileIndex[0][FileOf(i, s)].rows)
    ELSE AllKeys(FileIndex[1])

(* A pointer at a row of source i.                                         *)
InSource(p, i, s) ==
    \/ /\ i <= Len(memtables)
       /\ p.level = -1 /\ p.file = MemOf(i) /\ p.now_key \in RowKeys(memtables[MemOf(i)])
    \/ i > Len(memtables) /\ i <= UpTo0(s) /\ InFile(p, 0, FileOf(i, s))
    \/ i > UpTo0(s) /\ \E f \in DOMAIN FileIndex[1] : InFile(p, 1, f)

(* A pointer that has not gone beyond the first key of its source from     *)
(* from on.                                                                *)
Reached(p, i, from, s) ==
    \/ p = AtEnd /\ \A k \in SourceKeys(i, s) : ~(k >= from)
    \/ InSource(p, i, s) /\ \A k \in SourceKeys(i, s) : k >= from => k >= p.now_key

(* A key a scan may begin with.                                            *)
StartKey(s) == s \in Nat /\ s <= KEY_MAX

(* RelVersionIterator leaves out no file that reaches beyond the start.    *)
LEMMA OnIs ==
  ASSUME FilesInv, NEW l \in Levels, NEW s, StartKey(s)
  PROVE  /\ Len(On(l, s)) \in Nat /\ DOMAIN On(l, s) = 1 .. Len(On(l, s))
         /\ \A j \in 1 .. Len(On(l, s)) : On(l, s)[j] \in DOMAIN FileIndex[l]
         /\ \A i, j \in 1 .. Len(On(l, s)) : i < j => On(l, s)[i] < On(l, s)[j]
         /\ NoDeletes => \A f \in DOMAIN FileIndex[l] : \A k \in RowKeys(FileIndex[l][f].rows) :
               k >= s => \E j \in 1 .. Len(On(l, s)) : On(l, s)[j] = f
  <1> DEFINE o == On(l, s)
  <1>1. KEY_MAX \in Nat /\ s \in Nat /\ s <= KEY_MAX /\ \A k \in Key : KEY_MAX > k
    BY ScanMergeAssumption DEF StartKey
  <1>2. /\ Len(o) \in Nat /\ DOMAIN o = 1 .. Len(o)
        /\ \A j \in 1 .. Len(o) : o[j] \in DOMAIN FileIndex[l]
        /\ \A i, j \in 1 .. Len(o) : i < j => o[i] < o[j]
        /\ \A i \in DOMAIN FileIndex[l] :
             FileIndex[l][i].key_max >= s /\ FileIndex[l][i].key_min <= KEY_MAX
             => \E j \in 1 .. Len(o) : o[j] = i
    BY <1>1, FilesOnIs DEF On
  <1> HIDE DEF o
  <1>3. ASSUME NoDeletes, NEW f \in DOMAIN FileIndex[l],
               NEW k \in RowKeys(FileIndex[l][f].rows), k >= s
        PROVE  \E j \in 1 .. Len(o) : o[j] = f
    <2>1. /\ FileIndex[l][f].key_min \in Nat /\ FileIndex[l][f].key_max \in Nat
          /\ k \in Key /\ k \in Nat
          /\ FileIndex[l][f].key_min <= k /\ k <= FileIndex[l][f].key_max
      BY <1>3, FileOfLevel
    <2>2. KEY_MAX > k
      BY <1>1, <2>1
    <2>3. FileIndex[l][f].key_max >= s /\ FileIndex[l][f].key_min <= KEY_MAX
      BY <1>1, <1>3, <2>1, <2>2
    <2>4. QED
      BY <1>2, <2>3
  <1>4. QED
    BY <1>2, <1>3 DEF o

(* Every source is a memtable, a file of level 0 or level 1.               *)
LEMMA SourcesAre ==
  ASSUME FilesInv, NEW s, StartKey(s)
  PROVE  /\ Len(memtables) \in Nat /\ DOMAIN memtables = 1 .. Len(memtables)
         /\ UpTo0(s) \in Nat /\ Len(memtables) <= UpTo0(s)
         /\ Sources(s) \in Nat /\ UpTo0(s) <= Sources(s) /\ Sources(s) <= UpTo0(s) + 1
         /\ \A i \in 1 .. Sources(s) :
              /\ i <= Len(memtables) => MemOf(i) \in 1 .. Len(memtables)
              /\ i > Len(memtables) /\ i <= UpTo0(s) =>
                   /\ i - Len(memtables) \in 1 .. Len(On(0, s))
                   /\ FileOf(i, s) \in DOMAIN FileIndex[0]
  <1>1. Len(memtables) \in Nat /\ DOMAIN memtables = 1 .. Len(memtables)
    BY DEF FilesInv
  <1>2. 0 \in Levels
    BY DEF Levels
  <1>3. Len(On(0, s)) \in Nat
        /\ \A j \in 1 .. Len(On(0, s)) : On(0, s)[j] \in DOMAIN FileIndex[0]
    BY <1>2, OnIs
  <1>4. UpTo0(s) = Len(memtables) + Len(On(0, s))
    BY DEF UpTo0
  <1>5. Sources(s) = UpTo0(s) \/ Sources(s) = UpTo0(s) + 1
    BY <1>1, <1>3, <1>4 DEF Sources
  <1>6. ASSUME NEW i \in 1 .. Sources(s), i <= Len(memtables)
        PROVE  MemOf(i) \in 1 .. Len(memtables)
    BY <1>1, <1>6 DEF MemOf
  <1>7. ASSUME NEW i \in 1 .. Sources(s), i > Len(memtables), i <= UpTo0(s)
        PROVE  i - Len(memtables) \in 1 .. Len(On(0, s)) /\ FileOf(i, s) \in DOMAIN FileIndex[0]
    <2>1. i - Len(memtables) \in 1 .. Len(On(0, s))
      BY <1>1, <1>3, <1>4, <1>7
    <2>2. QED
      BY <1>3, <2>1 DEF FileOf
  <1>8. QED
    BY <1>1, <1>3, <1>4, <1>5, <1>6, <1>7

(* The sources hold keys put, from s on all of them.                       *)
LEMMA SourceKeysAre ==
  ASSUME FilesInv, NoDeletes, NEW s, StartKey(s)
  PROVE  /\ \A i \in 1 .. Sources(s) : \A k \in SourceKeys(i, s) :
               k \in put /\ k \in Key /\ k \in Nat /\ KEY_MAX > k
         /\ \A k \in put : k >= s => \E i \in 1 .. Sources(s) : k \in SourceKeys(i, s)
  <1> DEFINE M == Len(memtables)
  <1>1. /\ M \in Nat /\ DOMAIN memtables = 1 .. M
        /\ UpTo0(s) \in Nat /\ M <= UpTo0(s)
        /\ Sources(s) \in Nat /\ UpTo0(s) <= Sources(s) /\ Sources(s) <= UpTo0(s) + 1
        /\ \A i \in 1 .. Sources(s) :
              /\ i <= M => MemOf(i) \in 1 .. M
              /\ i > M /\ i <= UpTo0(s) => FileOf(i, s) \in DOMAIN FileIndex[0]
    BY SourcesAre
  <1>2. put = MemKeys \cup AllKeys(FileIndex[0]) \cup AllKeys(FileIndex[1])
    BY DEF FilesInv
  <1>3. 0 \in Levels /\ 1 \in Levels
    BY DEF Levels
  <1> HIDE DEF M
  <1>4. ASSUME NEW i \in 1 .. Sources(s), NEW k \in SourceKeys(i, s)
        PROVE  k \in put /\ k \in Key /\ k \in Nat /\ KEY_MAX > k
    <2>1. CASE i <= M
      <3>1. k \in RowKeys(memtables[MemOf(i)]) /\ MemOf(i) \in DOMAIN memtables
        BY <1>1, <1>4, <2>1 DEF SourceKeys, M
      <3>2. k \in MemKeys
        BY <3>1 DEF MemKeys
      <3>3. k \in Key
        BY <3>1 DEF RowKeys
      <3>4. QED
        BY <1>2, <3>2, <3>3, KeyFacts, ScanMergeAssumption
    <2>2. CASE i > M /\ i <= UpTo0(s)
      <3>1. ~(i <= M)
        BY <1>1, <2>2
      <3>2. k \in RowKeys(FileIndex[0][FileOf(i, s)].rows)
            /\ FileOf(i, s) \in DOMAIN FileIndex[0]
        BY <1>1, <1>4, <2>2, <3>1 DEF SourceKeys, M
      <3>3. k \in AllKeys(FileIndex[0])
        BY <3>2 DEF AllKeys
      <3>4. k \in Key
        BY <3>2 DEF RowKeys
      <3>5. QED
        BY <1>2, <3>3, <3>4, KeyFacts, ScanMergeAssumption
    <2>3. CASE i > UpTo0(s)
      <3>1. ~(i <= M) /\ ~(i <= UpTo0(s))
        BY <1>1, <2>3
      <3>2. k \in AllKeys(FileIndex[1])
        BY <1>4, <3>1 DEF SourceKeys, M
      <3>3. k \in Key
        BY <3>2 DEF AllKeys, RowKeys
      <3>4. QED
        BY <1>2, <3>2, <3>3, KeyFacts, ScanMergeAssumption
    <2>4. QED
      BY <1>1, <2>1, <2>2, <2>3
  <1>5. ASSUME NEW k \in put, k >= s
        PROVE  \E i \in 1 .. Sources(s) : k \in SourceKeys(i, s)
    <2>1. CASE k \in MemKeys
      <3>1. PICK n \in 1 .. M : k \in RowKeys(memtables[n])
        BY <1>1, <2>1 DEF MemKeys
      <3> DEFINE i == M + 1 - n
      <3>2. i \in 1 .. Sources(s) /\ i <= M /\ MemOf(i) = n
        BY <1>1, <3>1 DEF MemOf, M
      <3> HIDE DEF i
      <3>3. k \in SourceKeys(i, s)
        BY <3>1, <3>2 DEF SourceKeys, M
      <3>4. QED
        BY <3>2, <3>3
    <2>2. CASE k \in AllKeys(FileIndex[0])
      <3>1. PICK f \in DOMAIN FileIndex[0] : k \in RowKeys(FileIndex[0][f].rows)
        BY <2>2 DEF AllKeys
      <3>2. PICK j \in 1 .. Len(On(0, s)) : On(0, s)[j] = f
        BY <1>3, <1>5, <3>1, OnIs
      <3>3. Len(On(0, s)) \in Nat /\ UpTo0(s) = M + Len(On(0, s))
        BY <1>3, OnIs DEF UpTo0, M
      <3> DEFINE i == M + j
      <3>4. i \in 1 .. Sources(s) /\ ~(i <= M) /\ i <= UpTo0(s) /\ i - M = j
        BY <1>1, <3>3
      <3> HIDE DEF i
      <3>5. k \in SourceKeys(i, s)
        BY <3>1, <3>2, <3>4 DEF SourceKeys, FileOf, M
      <3>6. QED
        BY <3>4, <3>5
    <2>3. CASE k \in AllKeys(FileIndex[1])
      <3>1. PICK f \in DOMAIN FileIndex[1] : k \in RowKeys(FileIndex[1][f].rows)
        BY <2>3 DEF AllKeys
      <3>2. PICK j \in 1 .. Len(On(1, s)) : On(1, s)[j] = f
        BY <1>3, <1>5, <3>1, OnIs
      <3>3. On(1, s) # <<>>
        BY <3>2
      <3>4. Sources(s) = UpTo0(s) + 1
        BY <3>3 DEF Sources
      <3>5. Sources(s) \in 1 .. Sources(s) /\ ~(Sources(s) <= M) /\ ~(Sources(s) <= UpTo0(s))
        BY <1>1, <3>4
      <3>6. k \in SourceKeys(Sources(s), s)
        BY <2>3, <3>5 DEF SourceKeys, M
      <3>7. QED
        BY <3>5, <3>6
    <2>4. QED
      BY <1>2, <1>5, <2>1, <2>2, <2>3
  <1>6. QED
    BY <1>4, <1>5

(* A pointer into a source is at one of its keys.                          *)
LEMMA InSourceIs ==
  ASSUME FilesInv, NoDeletes, NEW s, StartKey(s), NEW i \in 1 .. Sources(s),
         NEW p, InSource(p, i, s)
  PROVE  p.now_key \in SourceKeys(i, s)
  <1> DEFINE M == Len(memtables)
  <1>1. /\ M \in Nat /\ UpTo0(s) \in Nat /\ M <= UpTo0(s) /\ i \in Nat
        /\ i > M /\ i <= UpTo0(s) => FileOf(i, s) \in DOMAIN FileIndex[0]
    BY SourcesAre
  <1>2. 0 \in Levels /\ 1 \in Levels
    BY DEF Levels
  <1>3. CASE i <= M
    BY <1>1, <1>3 DEF InSource, SourceKeys
  <1>4. CASE i > M /\ i <= UpTo0(s)
    <2>1. InFile(p, 0, FileOf(i, s))
      BY <1>1, <1>4 DEF InSource
    <2>2. p.now_key \in RowKeys(FileIndex[0][FileOf(i, s)].rows)
      BY <1>1, <1>2, <1>4, <2>1, FileTupleIs
    <2>3. QED
      BY <1>1, <1>4, <2>2 DEF SourceKeys
  <1>5. CASE i > UpTo0(s)
    <2>1. ~(i <= M) /\ ~(i <= UpTo0(s))
      BY <1>1, <1>5
    <2>2. PICK f \in DOMAIN FileIndex[1] : InFile(p, 1, f)
      BY <2>1 DEF InSource
    <2>3. p.now_key \in RowKeys(FileIndex[1][f].rows)
      BY <1>2, <2>2, FileTupleIs
    <2>4. QED
      BY <2>1, <2>2, <2>3 DEF SourceKeys, AllKeys
  <1>6. QED
    BY <1>1, <1>3, <1>4, <1>5

(* The tuple of the first source that has a key is what a point read gives. *)
LEMMA SourceTuple ==
  ASSUME FilesInv, NoDeletes, NEW s, StartKey(s), NEW i \in 1 .. Sources(s),
         NEW p, InSource(p, i, s), p.now_key >= s,
         \A j \in 1 .. Sources(s) : j < i => p.now_key \notin SourceKeys(j, s)
  PROVE  TupleAt(p) = <<p.now_key, Get(p.now_key)>>
  <1> DEFINE M == Len(memtables)
             k == p.now_key
  <1>1. /\ M \in Nat /\ DOMAIN memtables = 1 .. M
        /\ UpTo0(s) \in Nat /\ M <= UpTo0(s) /\ i \in Nat
        /\ Sources(s) \in Nat /\ UpTo0(s) <= Sources(s)
        /\ i <= M => MemOf(i) \in 1 .. M
        /\ i > M /\ i <= UpTo0(s) => /\ i - M \in 1 .. Len(On(0, s))
                                     /\ FileOf(i, s) \in DOMAIN FileIndex[0]
    BY SourcesAre
  <1>2. 0 \in Levels /\ 1 \in Levels
    BY DEF Levels
  <1>3. k \in Key /\ k \in Nat
    BY InSourceIs, SourceKeysAre
  <1>4. /\ \A n \in DOMAIN memtables :
             /\ k \in RowKeys(memtables[n])
             /\ \A m \in DOMAIN memtables : n < m => k \notin RowKeys(memtables[m])
             => Get(k) = memtables[n][k]
        /\ (\A n \in DOMAIN memtables : k \notin RowKeys(memtables[n])) =>
             /\ \A f \in FilesOf(FileIndex[0], k) :
                  (\A g \in FilesOf(FileIndex[0], k) : f <= g)
                  => Get(k) = FileIndex[0][f].rows[k]
             /\ FilesOf(FileIndex[0], k) = {} =>
                  \A f \in FilesOf(FileIndex[1], k) : Get(k) = FileIndex[1][f].rows[k]
    <2> HIDE DEF k
    <2>1. QED
      BY <1>3, GetIs
  <1>5. ASSUME NEW m \in 1 .. M, M + 1 - m < i PROVE k \notin RowKeys(memtables[m])
    <2> DEFINE j == M + 1 - m
    <2>1. j \in 1 .. Sources(s) /\ j <= M /\ j < i /\ MemOf(j) = m
      BY <1>1, <1>5 DEF MemOf
    <2> HIDE DEF j
    <2>2. SourceKeys(j, s) = RowKeys(memtables[m])
      BY <2>1 DEF SourceKeys
    <2>3. QED
      BY <2>1, <2>2
  <1>6. ASSUME i > M, NEW n \in DOMAIN memtables PROVE k \notin RowKeys(memtables[n])
    <2>1. n \in 1 .. M /\ M + 1 - n < i
      BY <1>1, <1>6
    <2>2. QED
      BY <1>5, <2>1
  <1>7. /\ Len(On(0, s)) \in Nat
        /\ \A a, b \in 1 .. Len(On(0, s)) : a < b => On(0, s)[a] < On(0, s)[b]
        /\ \A f \in FilesOf(FileIndex[0], k) :
             \E j \in 1 .. Len(On(0, s)) : On(0, s)[j] = f
    <2>1. /\ Len(On(0, s)) \in Nat
          /\ \A a, b \in 1 .. Len(On(0, s)) : a < b => On(0, s)[a] < On(0, s)[b]
      BY <1>2, OnIs
    <2>2. \A f \in FilesOf(FileIndex[0], k) :
             f \in DOMAIN FileIndex[0] /\ k \in RowKeys(FileIndex[0][f].rows)
      BY DEF FilesOf
    <2>3. \A f \in DOMAIN FileIndex[0] : \A m \in RowKeys(FileIndex[0][f].rows) :
             m >= s => \E j \in 1 .. Len(On(0, s)) : On(0, s)[j] = f
      BY <1>2, OnIs
    <2>4. QED
      BY <2>1, <2>2, <2>3
  <1>8. UpTo0(s) = M + Len(On(0, s))
    BY DEF UpTo0
  <1> HIDE DEF M, k
  <1>9. ASSUME NEW f \in FilesOf(FileIndex[0], k), NEW j \in 1 .. Len(On(0, s)),
               On(0, s)[j] = f
        PROVE  ~(M + j < i)
    <2> SUFFICES ASSUME M + j < i PROVE FALSE
      OBVIOUS
    <2> DEFINE h == M + j
    <2>1. h \in 1 .. Sources(s) /\ ~(h <= M) /\ h <= UpTo0(s) /\ h - M = j /\ h < i
      BY <1>1, <1>7, <1>8
    <2> HIDE DEF h
    <2>2. SourceKeys(h, s) = RowKeys(FileIndex[0][f].rows)
      BY <1>9, <2>1 DEF SourceKeys, FileOf, M
    <2>3. k \in RowKeys(FileIndex[0][f].rows)
      BY <1>9 DEF FilesOf
    <2>4. QED
      BY <2>1, <2>2, <2>3 DEF k
  <1>10. CASE i <= M
    <2> DEFINE n == MemOf(i)
    <2>1. n \in 1 .. M /\ n = M + 1 - i /\ n \in DOMAIN memtables
      BY <1>1, <1>10 DEF MemOf, M
    <2>2. p.level = -1 /\ p.file = n /\ k \in RowKeys(memtables[n])
      BY <1>1, <1>10 DEF InSource, M, k
    <2> HIDE DEF n
    <2>3. ASSUME NEW m \in DOMAIN memtables, n < m PROVE k \notin RowKeys(memtables[m])
      <3>1. m \in 1 .. M /\ M + 1 - m < i
        BY <1>1, <2>1, <2>3
      <3>2. QED
        BY <1>5, <3>1
    <2>4. Get(k) = memtables[n][k]
      BY <1>4, <2>1, <2>2, <2>3
    <2>5. memtables[n] \in Batch
      BY <2>1 DEF FilesInv
    <2>6. memtables[n][k] # Tombstone
      BY <1>3, <2>5 DEF NoDeletes
    <2>7. TupleAt(p) = <<k, memtables[n][k]>>
      BY <2>2, <2>6 DEF TupleAt, k
    <2>8. QED
      BY <2>4, <2>7 DEF k
  <1>11. CASE i > M /\ i <= UpTo0(s)
    <2> DEFINE f == FileOf(i, s)
               a == i - M
    <2>1. f \in DOMAIN FileIndex[0] /\ a \in 1 .. Len(On(0, s)) /\ On(0, s)[a] = f
      BY <1>1, <1>11 DEF FileOf, M
    <2>2. InFile(p, 0, f)
      BY <1>1, <1>11 DEF InSource, M
    <2>3. i = M + a /\ a \in Nat
      BY <1>1, <1>11
    <2> HIDE DEF f, a
    <2>4. k \in RowKeys(FileIndex[0][f].rows)
          /\ TupleAt(p) = <<k, FileIndex[0][f].rows[k]>>
      BY <1>2, <2>1, <2>2, FileTupleIs DEF k
    <2>5. f \in FilesOf(FileIndex[0], k) /\ f \in Nat
      BY <1>2, <2>1, <2>4, FileOfLevel DEF FilesOf
    <2>6. ASSUME NEW g \in FilesOf(FileIndex[0], k) PROVE f <= g
      <3>1. PICK j \in 1 .. Len(On(0, s)) : On(0, s)[j] = g
        BY <1>7
      <3>2. ~(M + j < i)
        BY <1>9, <3>1
      <3>3. a = j \/ a < j
        BY <1>1, <1>7, <2>3, <3>2
      <3>4. g \in Nat
        BY <1>2, FileOfLevel DEF FilesOf
      <3>5. QED
        BY <1>7, <2>1, <2>5, <3>1, <3>3, <3>4
    <2>7. Get(k) = FileIndex[0][f].rows[k]
      BY <1>4, <1>6, <1>11, <2>5, <2>6
    <2>8. QED
      BY <2>4, <2>7 DEF k
  <1>12. CASE i > UpTo0(s)
    <2>1. i > M /\ ~(i <= UpTo0(s)) /\ ~(i <= M)
      BY <1>1, <1>12
    <2>2. PICK f \in DOMAIN FileIndex[1] : InFile(p, 1, f)
      BY <2>1 DEF InSource, M
    <2>3. k \in RowKeys(FileIndex[1][f].rows)
          /\ TupleAt(p) = <<k, FileIndex[1][f].rows[k]>>
      BY <1>2, <2>2, FileTupleIs DEF k
    <2>4. f \in FilesOf(FileIndex[1], k)
      BY <2>2, <2>3 DEF FilesOf
    <2>5. FilesOf(FileIndex[0], k) = {}
      <3> SUFFICES ASSUME NEW g \in FilesOf(FileIndex[0], k) PROVE FALSE
        OBVIOUS
      <3>1. PICK j \in 1 .. Len(On(0, s)) : On(0, s)[j] = g
        BY <1>7
      <3>2. ~(M + j < i)
        BY <1>9, <3>1
      <3>3. QED
        BY <1>1, <1>7, <1>8, <1>12, <3>2
    <2>6. Get(k) = FileIndex[1][f].rows[k]
      BY <1>4, <1>6, <2>1, <2>4, <2>5
    <2>7. QED
      BY <2>3, <2>6 DEF k
  <1>13. QED
    BY <1>1, <1>10, <1>11, <1>12

(* The next pointer of a source has passed this one's key and nothing else. *)
LEMMA NextReached ==
  ASSUME FilesInv, NoDeletes, NEW s, StartKey(s), NEW i \in 1 .. Sources(s),
         NEW p, InSource(p, i, s)
  PROVE  Reached(NextAt(p), i, p.now_key + 1, s) /\ NextAt(p).now_key > p.now_key
  <1> DEFINE M == Len(memtables)
             q == NextAt(p)
             key == p.now_key
  <1>1. /\ M \in Nat /\ DOMAIN memtables = 1 .. M
        /\ UpTo0(s) \in Nat /\ M <= UpTo0(s) /\ i \in Nat
        /\ i <= M => MemOf(i) \in 1 .. M
        /\ i > M /\ i <= UpTo0(s) => FileOf(i, s) \in DOMAIN FileIndex[0]
    BY SourcesAre
  <1>2. 0 \in Levels /\ 1 \in Levels
    BY DEF Levels
  <1>3. \A k \in SourceKeys(i, s) : k \in Nat /\ KEY_MAX > k
    BY SourceKeysAre
  <1>4. key \in SourceKeys(i, s) /\ key \in Nat /\ KEY_MAX > key
    BY <1>3, InSourceIs
  <1>5. \A k \in SourceKeys(i, s) : k >= key + 1 <=> k > key
    BY <1>3, <1>4
  <1>6. AtEnd.now_key = KEY_MAX
    BY DEF AtEnd
  <1> HIDE DEF q, key, M
  <1>7. CASE i <= M
    <2> DEFINE n == MemOf(i)
    <2>1. n \in DOMAIN memtables /\ p.level = -1 /\ p.file = n
      BY <1>1, <1>7 DEF InSource, M
    <2>2. q = MemAt(n, key + 1)
      BY <2>1 DEF NextAt, q, key
    <2>3. SourceKeys(i, s) = RowKeys(memtables[n])
      BY <1>7 DEF SourceKeys, M
    <2> HIDE DEF n
    <2>4. key + 1 \in Nat
      BY <1>4
    <2>5. \/ q = AtEnd /\ \A k \in RowKeys(memtables[n]) : ~(k >= key + 1)
          \/ /\ q.level = -1 /\ q.file = n /\ q.now_key \in RowKeys(memtables[n])
             /\ q.now_key >= key + 1
             /\ \A k \in RowKeys(memtables[n]) : k >= key + 1 => k >= q.now_key
      BY <2>1, <2>2, <2>4, MemAtIs
    <2>6. CASE q = AtEnd /\ \A k \in RowKeys(memtables[n]) : ~(k >= key + 1)
      BY <1>4, <1>6, <2>3, <2>6 DEF Reached, q, key
    <2>7. CASE /\ q.level = -1 /\ q.file = n /\ q.now_key \in RowKeys(memtables[n])
               /\ q.now_key >= key + 1
               /\ \A k \in RowKeys(memtables[n]) : k >= key + 1 => k >= q.now_key
      <3>1. InSource(q, i, s)
        BY <1>7, <2>7 DEF InSource, n, M
      <3>2. q.now_key > key
        BY <1>3, <1>5, <2>3, <2>7
      <3>3. QED
        BY <2>3, <2>7, <3>1, <3>2 DEF Reached, q, key
    <2>8. QED
      BY <2>5, <2>6, <2>7
  <1>8. ASSUME NEW l \in Levels, NEW f \in DOMAIN FileIndex[l], InFile(p, l, f),
               KeysOn(l, f) = SourceKeys(i, s),
               \A g \in DOMAIN FileIndex[l] :
                  InFile(q, l, g) /\ (l = 0 => g = f) => InSource(q, i, s)
        PROVE  Reached(q, i, key + 1, s) /\ q.now_key > key
    <2>1. \/ q = AtEnd /\ \A k \in KeysOn(l, f) : ~(k > key)
          \/ \E g \in DOMAIN FileIndex[l] :
               /\ InFile(q, l, g) /\ (l = 0 => g = f) /\ q.now_key > key
               /\ \A k \in KeysOn(l, f) : k > key => k >= q.now_key
      BY <1>8, NextAtIs DEF q, key
    <2>2. CASE q = AtEnd /\ \A k \in KeysOn(l, f) : ~(k > key)
      BY <1>4, <1>5, <1>6, <1>8, <2>2 DEF Reached
    <2>3. CASE \E g \in DOMAIN FileIndex[l] :
                 /\ InFile(q, l, g) /\ (l = 0 => g = f) /\ q.now_key > key
                 /\ \A k \in KeysOn(l, f) : k > key => k >= q.now_key
      BY <1>5, <1>8, <2>3 DEF Reached
    <2>4. QED
      BY <2>1, <2>2, <2>3
  <1>9. CASE i > M /\ i <= UpTo0(s)
    <2> DEFINE f == FileOf(i, s)
    <2>1. f \in DOMAIN FileIndex[0] /\ ~(i <= M)
      BY <1>1, <1>9
    <2>2. InFile(p, 0, f)
      BY <1>1, <1>9, <2>1 DEF InSource, M
    <2>3. KeysOn(0, f) = SourceKeys(i, s)
      BY <1>9, <2>1 DEF KeysOn, SourceKeys, M
    <2>4. \A g \in DOMAIN FileIndex[0] : InFile(q, 0, g) /\ (0 = 0 => g = f) => InSource(q, i, s)
      BY <1>9 DEF InSource, M
    <2> HIDE DEF f
    <2>5. QED
      BY <1>2, <1>8, <2>1, <2>2, <2>3, <2>4 DEF q, key
  <1>10. CASE i > UpTo0(s)
    <2>1. ~(i <= M) /\ ~(i <= UpTo0(s))
      BY <1>1, <1>10
    <2>2. PICK f \in DOMAIN FileIndex[1] : InFile(p, 1, f)
      BY <2>1 DEF InSource, M
    <2>3. KeysOn(1, f) = SourceKeys(i, s)
      BY <2>1 DEF KeysOn, SourceKeys, M
    <2>4. \A g \in DOMAIN FileIndex[1] : InFile(q, 1, g) /\ (1 = 0 => g = f) => InSource(q, i, s)
      BY <1>10 DEF InSource
    <2>5. QED
      BY <1>2, <1>8, <2>2, <2>3, <2>4 DEF q, key
  <1>11. QED
    BY <1>1, <1>7, <1>9, <1>10

(* Where a scan's pointers begin.                                          *)
LEMMA MemReached ==
  ASSUME FilesInv, NoDeletes, NEW s, StartKey(s), NEW i \in 1 .. Sources(s),
         i <= Len(memtables)
  PROVE  Reached(MemAt(MemOf(i), s), i, s, s)
  <1> DEFINE n == MemOf(i)
             q == MemAt(n, s)
  <1>1. n \in DOMAIN memtables
    BY SourcesAre
  <1>2. SourceKeys(i, s) = RowKeys(memtables[n])
    BY DEF SourceKeys
  <1>3. s \in Nat
    BY DEF StartKey
  <1> HIDE DEF n
  <1>4. \/ q = AtEnd /\ \A k \in RowKeys(memtables[n]) : ~(k >= s)
        \/ /\ q.level = -1 /\ q.file = n /\ q.now_key \in RowKeys(memtables[n])
           /\ q.now_key >= s
           /\ \A k \in RowKeys(memtables[n]) : k >= s => k >= q.now_key
    BY <1>1, <1>3, MemAtIs
  <1> HIDE DEF q
  <1>5. QED
    BY <1>2, <1>4 DEF Reached, InSource, n, q

(* The same for a file of level 0, ...                                     *)
LEMMA FileReached ==
  ASSUME FilesInv, NoDeletes, NEW s, StartKey(s), NEW i \in 1 .. Sources(s),
         i > Len(memtables), i <= UpTo0(s)
  PROVE  Reached(FileAt(0, FileOf(i, s), s), i, s, s)
  <1> DEFINE f == FileOf(i, s)
             q == FileAt(0, f, s)
  <1>1. f \in DOMAIN FileIndex[0] /\ ~(i <= Len(memtables)) /\ 0 \in Levels
    BY SourcesAre DEF Levels
  <1>2. SourceKeys(i, s) = RowKeys(FileIndex[0][f].rows)
    BY <1>1 DEF SourceKeys
  <1>3. s \in Nat
    BY DEF StartKey
  <1> HIDE DEF f
  <1>4. InFile(q, 0, f) /\ \A k \in RowKeys(FileIndex[0][f].rows) : k >= s => k >= q.now_key
    BY <1>1, <1>3, FileAtIs
  <1> HIDE DEF q
  <1>5. QED
    BY <1>2, <1>4 DEF Reached, InSource, f, q

(* ... and for level 1.                                                    *)
LEMMA LevelReached ==
  ASSUME FilesInv, NoDeletes, NEW s, StartKey(s), On(1, s) # <<>>
  PROVE  Reached(FileAt(1, On(1, s)[1], s), Sources(s), s, s)
  <1> DEFINE o == On(1, s)
             f == o[1]
             q == FileAt(1, f, s)
             files == FileIndex[1]
  <1>1. 1 \in Levels /\ s \in Nat
    BY DEF Levels, StartKey
  <1>2. /\ Len(o) \in Nat /\ DOMAIN o = 1 .. Len(o)
        /\ \A j \in 1 .. Len(o) : o[j] \in DOMAIN files
        /\ \A i, j \in 1 .. Len(o) : i < j => o[i] < o[j]
        /\ \A g \in DOMAIN files : \A k \in RowKeys(files[g].rows) :
               k >= s => \E j \in 1 .. Len(o) : o[j] = g
    BY <1>1, OnIs
  <1>3. LevelOK(files) /\ OrderedFiles(files)
    BY <1>1 DEF FilesInv
  <1>4. DOMAIN files = 1 .. Len(files) /\ Len(files) \in Nat
        /\ \A i, j \in DOMAIN files : i < j => files[i].key_max < files[j].key_min
    BY <1>3 DEF LevelOK, OrderedFiles
  <1>5. 1 \in 1 .. Len(o)
    <2>1. o \in Seq(Nat)
      <3>1. \A j \in 1 .. Len(o) : o[j] \in Nat
        BY <1>2, <1>4
      <3>2. o = Sorted({g \in DOMAIN files :
                  /\ FirstFile(files, s, KEY_MAX) # 0 /\ g >= FirstFile(files, s, KEY_MAX)
                  /\ g = FirstFile(files, s, KEY_MAX) \/ files[g].key_min <= KEY_MAX})
        BY DEF On, FilesOn
      <3>3. o = [j \in 1 .. Len(o) |-> o[j]]
        BY <1>2, <3>2 DEF Sorted
      <3> HIDE DEF o
      <3>4. QED
        BY <1>2, <3>1, <3>3
    <2> HIDE DEF o
    <2>2. QED
      BY <2>1 DEF o
  <1>6. f \in DOMAIN files /\ f \in Nat
    BY <1>2, <1>4, <1>5
  <1> HIDE DEF o, f
  <1>7. InFile(q, 1, f) /\ \A k \in RowKeys(files[f].rows) : k >= s => k >= q.now_key
    BY <1>1, <1>6, FileAtIs
  <1>8. q.now_key \in RowKeys(files[f].rows)
    BY <1>1, <1>6, <1>7, FileTupleIs
  <1>9. \A g \in DOMAIN files : /\ files[g].key_min \in Nat /\ files[g].key_max \in Nat
                                /\ \A k \in RowKeys(files[g].rows) :
                                      k \in Nat /\ files[g].key_min <= k /\ k <= files[g].key_max
    BY <1>1, FileOfLevel
  <1> HIDE DEF q, files
  <1>10. ASSUME NEW k \in AllKeys(files), k >= s PROVE k >= q.now_key
    <2>1. PICK g \in DOMAIN files : k \in RowKeys(files[g].rows)
      BY DEF AllKeys
    <2>2. PICK j \in 1 .. Len(o) : o[j] = g
      BY <1>2, <1>10, <2>1 DEF files
    <2>3. j = 1 \/ 1 < j
      BY <1>2, <2>2
    <2>4. g = f \/ f < g
      BY <1>2, <1>5, <2>2, <2>3 DEF f
    <2>5. CASE g = f
      BY <1>7, <1>10, <2>1, <2>5 DEF files
    <2>6. CASE f < g
      <3>1. files[f].key_max < files[g].key_min
        BY <1>4, <1>6, <2>6 DEF files
      <3>2. /\ k \in Nat /\ files[g].key_min <= k /\ files[g].key_min \in Nat
            /\ q.now_key \in Nat /\ q.now_key <= files[f].key_max /\ files[f].key_max \in Nat
        BY <1>6, <1>8, <1>9, <2>1 DEF files
      <3>3. QED
        BY <3>1, <3>2
    <2>7. QED
      BY <2>4, <2>5, <2>6
  <1>11. Sources(s) > UpTo0(s) /\ ~(Sources(s) <= UpTo0(s)) /\ ~(Sources(s) <= Len(memtables))
    <2>1. Len(memtables) \in Nat /\ UpTo0(s) \in Nat /\ Len(memtables) <= UpTo0(s)
      BY SourcesAre
    <2>2. Sources(s) = UpTo0(s) + 1
      BY DEF Sources
    <2>3. QED
      BY <2>1, <2>2
  <1>12. SourceKeys(Sources(s), s) = AllKeys(files)
    BY <1>11 DEF SourceKeys, files
  <1>13. InSource(q, Sources(s), s)
    BY <1>6, <1>7, <1>11 DEF InSource, files
  <1>14. QED
    BY <1>10, <1>12, <1>13 DEF Reached, q, f, o

-----------------------------------------------------------------------------
(* The key of the last tuple a scan gave.                                  *)
LastKey(o) == IF o = <<>> THEN -1 ELSE o[Len(o)][1]
(* The keys from here on have not been given.                              *)
From(o, s) == IF LastKey(o) >= s THEN LastKey(o) + 1 ELSE s

(* Every pointer is beyond the tuples given and not beyond the next.       *)
PointersInv(ptrs, o, s) ==
    /\ DOMAIN ptrs = 1 .. Sources(s)
    /\ \A i \in 1 .. Sources(s) : /\ Reached(ptrs[i], i, From(o, s), s)
                                  /\ ptrs[i].now_key > LastKey(o)

(* What has been given are the first keys asked for.                       *)
OutInv(o, s) ==
    LET asked == Sorted({k \in put : k >= s})
    IN  /\ o \in Seq(Key \X (Value \cup {Absent}))
        /\ \E before \in 0 .. Len(o) :
              /\ \A n \in 1 .. before : o[n][1] < s
              /\ Len(o) - before <= Len(asked)
              /\ \A n \in 1 .. Len(o) - before : o[before + n] = <<asked[n], Get(asked[n])>>

(* What a scan keeps to.                                                   *)
ScanInv ==
    /\ start = -1 => out = <<>>
    /\ start # -1 => /\ StartKey(start)
                     /\ PointersInv(pointers, out, start) /\ OutInv(out, start)

(* The last key is known from what was given.                              *)
LEMMA LastKeyIs ==
  ASSUME NEW o \in Seq(Key \X (Value \cup {Absent}))
  PROVE  /\ LastKey(o) \in Int /\ LastKey(o) >= -1 /\ LastKey(o) < KEY_MAX
         /\ o # <<>> => LastKey(o) = o[Len(o)][1] /\ LastKey(o) \in Key
         /\ \A t \in Key \X (Value \cup {Absent}) : LastKey(Append(o, t)) = t[1]
  <1> DEFINE T == Key \X (Value \cup {Absent})
  <1>1. \A t \in T : t[1] \in Key
    OBVIOUS
  <1>2. KEY_MAX \in Nat /\ \A k \in Key : k \in Nat /\ KEY_MAX > k
    BY KeyFacts, ScanMergeAssumption
  <1> HIDE DEF T
  <1>3. o \in Seq(T)
    BY DEF T
  <1>4. CASE o = <<>>
    <2>1. LastKey(o) = -1
      BY <1>4 DEF LastKey
    <2>2. \A t \in T : LastKey(Append(o, t)) = t[1]
      <3> SUFFICES ASSUME NEW t \in T PROVE LastKey(Append(o, t)) = t[1]
        OBVIOUS
      <3>1. /\ Len(Append(o, t)) = Len(o) + 1 /\ Append(o, t) # <<>>
            /\ Append(o, t)[Len(o) + 1] = t
        BY <1>3
      <3>2. QED
        BY <3>1 DEF LastKey
    <2>3. QED
      BY <1>2, <1>4, <2>1, <2>2 DEF T
  <1>5. CASE o # <<>>
    <2>1. LastKey(o) = o[Len(o)][1] /\ o[Len(o)] \in T
      BY <1>3, <1>5 DEF LastKey
    <2>2. LastKey(o) \in Key /\ LastKey(o) \in Nat /\ KEY_MAX > LastKey(o)
      BY <1>1, <1>2, <2>1
    <2>3. \A t \in T : LastKey(Append(o, t)) = t[1]
      <3> SUFFICES ASSUME NEW t \in T PROVE LastKey(Append(o, t)) = t[1]
        OBVIOUS
      <3>1. /\ Len(Append(o, t)) = Len(o) + 1 /\ Append(o, t) # <<>>
            /\ Append(o, t)[Len(o) + 1] = t
        BY <1>3
      <3>2. QED
        BY <3>1 DEF LastKey
    <2>4. QED
      BY <1>2, <2>1, <2>2, <2>3 DEF T
  <1>6. QED
    BY <1>4, <1>5

(* The keys asked for, in order.                                           *)
LEMMA AskedIs ==
  ASSUME FilesInv, NEW s, StartKey(s)
  PROVE  LET A == {k \in put : k >= s}
             asked == Sorted(A)
         IN  /\ Len(asked) \in Nat
             /\ \A n \in 1 .. Len(asked) : /\ asked[n] \in A /\ asked[n] \in Key
                                           /\ asked[n] \in Nat /\ asked[n] >= s
             /\ \A m, n \in 1 .. Len(asked) : m < n => asked[m] < asked[n]
             /\ \A k \in A : \E n \in 1 .. Len(asked) : asked[n] = k
  <1> DEFINE A == {k \in put : k >= s}
             asked == Sorted(A)
             c == Cardinality(A)
  <1>1. put \subseteq Key
    BY DEF FilesInv, MemKeys, AllKeys, RowKeys
  <1>2. A \subseteq Key
    BY <1>1
  <1>3. \A k \in A : k >= s
    OBVIOUS
  <1> HIDE DEF A
  <1>4. IsFiniteSet(A) /\ A \subseteq Int
    BY <1>2, KeyFacts, FS_Subset
  <1>5. /\ c \in Nat /\ asked \in [1 .. c -> A]
        /\ \A i, j \in 1 .. c : i < j => asked[i] < asked[j]
        /\ \A x \in A : Place(A, x) + 1 \in 1 .. c /\ asked[Place(A, x) + 1] = x
    BY <1>4, SortedIs
  <1> HIDE DEF c, asked
  <1>6. Len(asked) = c /\ \A n \in 1 .. c : asked[n] \in A
    BY <1>5
  <1>7. \A n \in 1 .. c : asked[n] \in Key /\ asked[n] \in Nat /\ asked[n] >= s
    BY <1>2, <1>3, <1>6, KeyFacts
  <1>8. \A k \in A : \E n \in 1 .. c : asked[n] = k
    BY <1>5
  <1>9. QED
    BY <1>5, <1>6, <1>7, <1>8 DEF A, asked

(* A pointer that has reached one key has reached all up to its own.       *)
LEMMA ReachedLater ==
  ASSUME FilesInv, NoDeletes, NEW s, StartKey(s), NEW i \in 1 .. Sources(s),
         NEW p, NEW a \in Int, NEW b \in Int, a <= b, Reached(p, i, a, s)
  PROVE  Reached(p, i, b, s)
  <1>1. \A k \in SourceKeys(i, s) : k \in Nat
    BY SourceKeysAre
  <1>2. \A k \in SourceKeys(i, s) : k >= b => k >= a
    BY <1>1
  <1>3. QED
    BY <1>2 DEF Reached

(* The pointer that is taken, and the others.                              *)
LEMMA LeastIs ==
  ASSUME FilesInv, NoDeletes, NEW s, StartKey(s), NEW o, OutInv(o, s),
         NEW ptrs, PointersInv(ptrs, o, s)
  PROVE  /\ \A i \in 1 .. Sources(s) :
               \/ ptrs[i] = AtEnd /\ ptrs[i].now_key = KEY_MAX
               \/ /\ InSource(ptrs[i], i, s) /\ ptrs[i].now_key \in SourceKeys(i, s)
                  /\ ptrs[i].now_key < KEY_MAX /\ ptrs[i].now_key \in Nat
         /\ Least(ptrs) = 0 => \A i \in 1 .. Sources(s) : ptrs[i] = AtEnd
         /\ Least(ptrs) # 0 =>
               /\ Least(ptrs) \in 1 .. Sources(s)
               /\ ptrs[Least(ptrs)].now_key < KEY_MAX
               /\ InSource(ptrs[Least(ptrs)], Least(ptrs), s)
               /\ \A i \in 1 .. Sources(s) :
                     \/ ptrs[Least(ptrs)].now_key < ptrs[i].now_key
                     \/ ptrs[Least(ptrs)].now_key = ptrs[i].now_key /\ Least(ptrs) <= i
  <1> DEFINE n == Sources(s)
             key(i) == ptrs[i].now_key
             inside == {i \in DOMAIN ptrs : key(i) < KEY_MAX}
             before(i, j) == key(i) < key(j) \/ (key(i) = key(j) /\ i <= j)
  <1>1. n \in Nat /\ DOMAIN ptrs = 1 .. n
    BY SourcesAre DEF PointersInv
  <1>2. KEY_MAX \in Nat /\ AtEnd.now_key = KEY_MAX
    BY ScanMergeAssumption DEF AtEnd
  <1>3. ASSUME NEW i \in 1 .. n
        PROVE  \/ ptrs[i] = AtEnd /\ key(i) = KEY_MAX
               \/ /\ InSource(ptrs[i], i, s) /\ key(i) \in SourceKeys(i, s)
                  /\ key(i) < KEY_MAX /\ key(i) \in Nat
    <2>1. ptrs[i] = AtEnd \/ InSource(ptrs[i], i, s)
      BY DEF PointersInv, Reached
    <2>2. CASE ptrs[i] = AtEnd
      BY <1>2, <2>2
    <2>3. CASE InSource(ptrs[i], i, s)
      <3>1. key(i) \in SourceKeys(i, s)
        BY <2>3, InSourceIs
      <3>2. key(i) \in Nat /\ KEY_MAX > key(i)
        BY <3>1, SourceKeysAre
      <3> HIDE DEF key
      <3>3. key(i) < KEY_MAX
        BY <1>2, <3>2
      <3>4. QED
        BY <2>3, <3>1, <3>2, <3>3 DEF key
    <2>4. QED
      BY <2>1, <2>2, <2>3
  <1>4. Least(ptrs) = IF inside = {} THEN 0
                      ELSE CHOOSE i \in inside : \A j \in inside : before(i, j)
    BY DEF Least
  <1>5. \A i \in 1 .. n : key(i) \in Nat
    BY <1>2, <1>3
  <1>6. \A i \in 1 .. n : i \in inside <=> ptrs[i] # AtEnd
    <2>1. \A i \in 1 .. n : i \in inside <=> key(i) < KEY_MAX
      BY <1>1
    <2> HIDE DEF inside
    <2>2. ASSUME NEW i \in 1 .. n PROVE key(i) < KEY_MAX <=> ptrs[i] # AtEnd
      <3>1. ~(KEY_MAX < KEY_MAX)
        BY <1>2
      <3>2. ptrs[i] = AtEnd => key(i) = KEY_MAX
        BY <1>2
      <3> HIDE DEF key
      <3>3. QED
        BY <1>3, <3>1, <3>2
    <2>3. QED
      BY <2>1, <2>2
  <1>7. inside \subseteq 1 .. n
    BY <1>1
  <1>8. ASSUME inside # {}
        PROVE  /\ Least(ptrs) \in inside
               /\ \A j \in inside : before(Least(ptrs), j)
    <2> DEFINE K == {key(i) : i \in inside}
    <2>1. K \subseteq Nat /\ K # {}
      BY <1>5, <1>7, <1>8
    <2>2. PICK k \in K : \A m \in K : k <= m
      <3> HIDE DEF K
      <3>1. QED
        BY <2>1, LeastNumber
    <2> DEFINE I == {i \in inside : key(i) = k}
    <2>3. I \subseteq Nat /\ I # {}
      BY <1>7, <2>2
    <2>4. PICK i \in I : \A j \in I : i <= j
      <3> HIDE DEF I
      <3>1. QED
        BY <2>3, LeastNumber
    <2>5. i \in inside /\ key(i) = k
      BY <2>4
    <2>6. \A j \in inside : k <= key(j) /\ (key(j) = k => i <= j)
      BY <2>2, <2>4
    <2>7. ASSUME NEW j \in inside PROVE before(i, j)
      <3>1. key(i) \in Nat /\ key(j) \in Nat /\ k <= key(j)
        BY <1>5, <1>7, <2>5, <2>6
      <3>2. CASE key(j) = k
        BY <2>5, <2>6, <3>2
      <3>3. CASE key(j) # k
        <4> HIDE DEF key
        <4>1. key(i) < key(j)
          BY <2>5, <3>1, <3>3
        <4>2. QED
          BY <4>1
      <3>4. QED
        BY <3>2, <3>3
    <2> HIDE DEF before, inside
    <2>8. \E m \in inside : \A j \in inside : before(m, j)
      BY <2>5, <2>7
    <2>9. QED
      BY <1>4, <1>8, <2>8
  <1>9. CASE inside = {}
    <2>1. Least(ptrs) = 0
      BY <1>4, <1>9
    <2>2. \A i \in 1 .. n : ptrs[i] = AtEnd
      <3> HIDE DEF inside
      <3>1. QED
        BY <1>6, <1>9
    <2>3. QED
      BY <1>3, <2>1, <2>2
  <1>10. CASE inside # {}
    <2> DEFINE h == Least(ptrs)
    <2>1. h \in inside /\ \A j \in inside : before(h, j)
      BY <1>8, <1>10
    <2> HIDE DEF h, inside
    <2>2. h \in 1 .. n /\ h # 0 /\ ptrs[h] # AtEnd
      BY <1>1, <1>6, <1>7, <2>1
    <2>3. InSource(ptrs[h], h, s) /\ key(h) < KEY_MAX
      BY <1>3, <2>2
    <2>4. ASSUME NEW i \in 1 .. n PROVE before(h, i)
      <3>1. CASE i \in inside
        BY <2>1, <3>1
      <3>2. CASE i \notin inside
        <4>1. ptrs[i] = AtEnd
          BY <1>6, <3>2
        <4>2. key(i) = KEY_MAX
          BY <1>2, <4>1
        <4>3. key(h) < key(i)
          BY <2>3, <4>2
        <4>4. QED
          BY <4>3
      <3>3. QED
        BY <3>1, <3>2
    <2>5. QED
      BY <1>3, <2>2, <2>3, <2>4 DEF h
  <1>11. QED
    BY <1>9, <1>10

(* before tuples were given below s, and then the first keys asked for.    *)
Given(o, s, before) ==
    LET asked == Sorted({k \in put : k >= s})
    IN  /\ before \in 0 .. Len(o)
        /\ \A n \in 1 .. before : o[n][1] < s
        /\ Len(o) - before <= Len(asked)
        /\ \A n \in 1 .. Len(o) - before : o[before + n] = <<asked[n], Get(asked[n])>>

(* The last key given is the last of those asked for so far.               *)
LEMMA LastGiven ==
  ASSUME FilesInv, NEW s, StartKey(s), NEW o \in Seq(Key \X (Value \cup {Absent})),
         NEW before, Given(o, s, before)
  PROVE  LET asked == Sorted({k \in put : k >= s})
             m == Len(o) - before
         IN  /\ m \in Nat /\ m <= Len(asked)
             /\ m = 0 => LastKey(o) < s
             /\ m # 0 => m \in 1 .. Len(asked) /\ LastKey(o) = asked[m]
  <1> DEFINE asked == Sorted({k \in put : k >= s})
             m == Len(o) - before
  <1>1. Len(o) \in Nat /\ before \in 0 .. Len(o) /\ m \in Nat /\ m <= Len(asked)
    BY DEF Given
  <1>2. Len(asked) \in Nat /\ s \in Nat
    BY AskedIs DEF StartKey
  <1>3. ASSUME m = 0 PROVE LastKey(o) < s
    <2>1. before = Len(o)
      BY <1>1, <1>3
    <2>2. CASE o = <<>>
      BY <1>2, <2>2 DEF LastKey
    <2>3. CASE o # <<>>
      <3>1. Len(o) \in 1 .. before
        BY <1>1, <2>1, <2>3
      <3>2. o[Len(o)][1] < s
        BY <3>1 DEF Given
      <3>3. QED
        BY <2>3, <3>2 DEF LastKey
    <2>4. QED
      BY <2>2, <2>3
  <1>4. ASSUME m # 0 PROVE m \in 1 .. Len(asked) /\ LastKey(o) = asked[m]
    <2>1. m \in 1 .. m /\ before + m = Len(o)
      BY <1>1, <1>4
    <2>2. o[before + m] = <<asked[m], Get(asked[m])>>
      BY <2>1 DEF Given
    <2>3. o # <<>> /\ m \in 1 .. Len(asked)
      BY <1>1, <1>2, <1>4
    <2> HIDE DEF m, asked
    <2>4. o[Len(o)][1] = asked[m]
      BY <2>1, <2>2
    <2>5. QED
      BY <2>3, <2>4 DEF LastKey
  <1>5. QED
    BY <1>1, <1>3, <1>4

(* A key not given is at or after its source's pointer.                    *)
LEMMA NotGiven ==
  ASSUME FilesInv, NoDeletes, NEW s, StartKey(s), NEW o, OutInv(o, s),
         NEW ptrs, PointersInv(ptrs, o, s),
         NEW i \in 1 .. Sources(s), NEW k \in SourceKeys(i, s), k >= s, k > LastKey(o)
  PROVE  ptrs[i] # AtEnd /\ ptrs[i].now_key <= k
  <1>1. LastKey(o) \in Int /\ s \in Nat
    BY LastKeyIs DEF OutInv, StartKey
  <1>2. k \in Nat
    BY SourceKeysAre
  <1>3. k >= From(o, s)
    BY <1>1, <1>2 DEF From
  <1>4. Reached(ptrs[i], i, From(o, s), s)
    BY DEF PointersInv
  <1>5. ~(ptrs[i] = AtEnd /\ \A j \in SourceKeys(i, s) : ~(j >= From(o, s)))
    BY <1>3
  <1>6. InSource(ptrs[i], i, s) /\ \A j \in SourceKeys(i, s) : j >= From(o, s) => j >= ptrs[i].now_key
    BY <1>4, <1>5 DEF Reached
  <1>7. k >= ptrs[i].now_key
    BY <1>3, <1>6
  <1>8. \/ ptrs[i] = AtEnd /\ ptrs[i].now_key = KEY_MAX
        \/ ptrs[i].now_key < KEY_MAX /\ ptrs[i].now_key \in Nat
    BY LeastIs
  <1>9. KEY_MAX \in Nat /\ KEY_MAX > k
    BY SourceKeysAre, ScanMergeAssumption
  <1>10. ptrs[i].now_key \in Nat
    BY <1>8, <1>9
  <1>11. ptrs[i].now_key <= k /\ ptrs[i].now_key # KEY_MAX
    BY <1>2, <1>7, <1>9, <1>10
  <1>12. AtEnd.now_key = KEY_MAX
    BY DEF AtEnd
  <1>13. QED
    BY <1>11, <1>12

(* A pointer's tuple has its key and a string.                             *)
LEMMA SourceTupleType ==
  ASSUME FilesInv, NoDeletes, NEW s, StartKey(s), NEW i \in 1 .. Sources(s),
         NEW p, InSource(p, i, s)
  PROVE  /\ TupleAt(p) \in Key \X (Value \cup {Absent})
         /\ TupleAt(p)[1] = p.now_key
  <1> DEFINE k == p.now_key
  <1>1. /\ Len(memtables) \in Nat /\ DOMAIN memtables = 1 .. Len(memtables)
        /\ UpTo0(s) \in Nat /\ i \in Nat
        /\ i <= Len(memtables) => MemOf(i) \in 1 .. Len(memtables)
        /\ i > Len(memtables) /\ i <= UpTo0(s) => FileOf(i, s) \in DOMAIN FileIndex[0]
    BY SourcesAre
  <1>2. k \in Key
    BY InSourceIs, SourceKeysAre
  <1>3. ASSUME NEW l \in Levels, NEW f \in DOMAIN FileIndex[l], InFile(p, l, f)
        PROVE  \E v \in Value : TupleAt(p) = <<k, v>>
    <2>1. k \in RowKeys(FileIndex[l][f].rows)
          /\ TupleAt(p) = <<k, FileIndex[l][f].rows[k]>>
      BY <1>3, FileTupleIs
    <2>2. FileIndex[l][f].rows[k] \in Value
      BY <2>1, FileOfLevel
    <2>3. QED
      BY <2>1, <2>2
  <1>4. ASSUME i <= Len(memtables), p.level = -1, p.file = MemOf(i),
               k \in RowKeys(memtables[MemOf(i)])
        PROVE  \E v \in Value : TupleAt(p) = <<k, v>>
    <2>1. memtables[MemOf(i)] \in Batch
      BY <1>1, <1>4 DEF FilesInv
    <2>2. memtables[MemOf(i)] \in RowsType /\ memtables[MemOf(i)][k] # Tombstone
      BY <1>2, <2>1, BatchIs DEF NoDeletes
    <2>3. memtables[MemOf(i)][k] \in Value
      BY <1>2, <1>4, <2>2 DEF RowsType, RowKeys
    <2>4. TupleAt(p) = <<k, memtables[MemOf(i)][k]>>
      BY <1>4, <2>2 DEF TupleAt
    <2>5. QED
      BY <2>3, <2>4
  <1>5. \E v \in Value : TupleAt(p) = <<k, v>>
    <2>1. 0 \in Levels /\ 1 \in Levels
      BY DEF Levels
    <2> HIDE DEF k
    <2>2. QED
      BY <1>1, <1>3, <1>4, <2>1 DEF InSource, k
  <1>6. QED
    BY <1>2, <1>5

(* next() keeps PointersInv, ...                                           *)
LEMMA PointersAdvance ==
  ASSUME FilesInv, NoDeletes, NEW s, StartKey(s), NEW o, OutInv(o, s),
         NEW ptrs, PointersInv(ptrs, o, s), Least(ptrs) # 0
  PROVE  LET p == ptrs[Least(ptrs)]
         IN  PointersInv([i \in DOMAIN ptrs |-> IF ptrs[i].now_key = p.now_key
                                               THEN NextAt(ptrs[i]) ELSE ptrs[i]],
                         Append(o, TupleAt(p)), s)
  <1> DEFINE h == Least(ptrs)
             p == ptrs[h]
             key == p.now_key
             o2 == Append(o, TupleAt(p))
             next == [i \in DOMAIN ptrs |-> IF ptrs[i].now_key = key
                                            THEN NextAt(ptrs[i]) ELSE ptrs[i]]
  <1>1. /\ \A i \in 1 .. Sources(s) :
              \/ ptrs[i] = AtEnd /\ ptrs[i].now_key = KEY_MAX
              \/ InSource(ptrs[i], i, s) /\ ptrs[i].now_key < KEY_MAX /\ ptrs[i].now_key \in Nat
        /\ h \in 1 .. Sources(s) /\ key < KEY_MAX /\ InSource(p, h, s)
        /\ \A i \in 1 .. Sources(s) : \/ key < ptrs[i].now_key
                                      \/ key = ptrs[i].now_key /\ h <= i
    BY LeastIs
  <1>2. KEY_MAX \in Nat /\ s \in Nat
    BY ScanMergeAssumption DEF StartKey
  <1>3. LastKey(o) \in Int /\ LastKey(o2) = key
    BY <1>1, LastKeyIs, SourceTupleType DEF OutInv
  <1>4. /\ DOMAIN ptrs = 1 .. Sources(s)
        /\ \A i \in 1 .. Sources(s) : /\ Reached(ptrs[i], i, From(o, s), s)
                                      /\ ptrs[i].now_key > LastKey(o)
    BY DEF PointersInv
  <1> HIDE DEF h
  <1>5. key \in Nat /\ LastKey(o) < key
    <2>1. key \in Nat /\ key > LastKey(o)
      <3>1. ptrs[h].now_key \in Nat
        BY <1>1, <1>2
      <3>2. QED
        BY <1>1, <1>4, <3>1
    <2>2. QED
      BY <1>3, <2>1
  <1> HIDE DEF key, o2
  <1>6. /\ From(o, s) \in Int /\ From(o2, s) \in Int
        /\ From(o, s) <= From(o2, s) /\ key + 1 <= From(o2, s)
    BY <1>2, <1>3, <1>5 DEF From
  <1>7. ASSUME NEW i \in 1 .. Sources(s)
        PROVE  Reached(next[i], i, From(o2, s), s) /\ next[i].now_key > LastKey(o2)
    <2>1. CASE ptrs[i].now_key = key
      <3>1. next[i] = NextAt(ptrs[i])
        BY <1>4, <2>1
      <3>2. InSource(ptrs[i], i, s)
        <4>1. ~(key = KEY_MAX)
          BY <1>1, <1>2, <1>5 DEF key
        <4>2. QED
          BY <1>1, <2>1, <4>1
      <3>3. Reached(next[i], i, key + 1, s) /\ next[i].now_key > key
        BY <2>1, <3>1, <3>2, NextReached
      <3>4. key + 1 \in Int
        BY <1>5
      <3>5. Reached(next[i], i, From(o2, s), s)
        BY <1>6, <3>3, <3>4, ReachedLater
      <3>6. QED
        BY <1>3, <3>3, <3>5
    <2>2. CASE ptrs[i].now_key # key
      <3>1. next[i] = ptrs[i]
        BY <1>4, <2>2
      <3>2. Reached(next[i], i, From(o2, s), s)
        BY <1>4, <1>6, <3>1, ReachedLater
      <3>3. ptrs[i].now_key \in Nat /\ key < ptrs[i].now_key
        BY <1>1, <1>2, <2>2 DEF key
      <3>4. QED
        BY <1>3, <1>5, <3>1, <3>2, <3>3
    <2>3. QED
      BY <2>1, <2>2
  <1>8. DOMAIN next = 1 .. Sources(s)
    BY <1>4
  <1> HIDE DEF next
  <1>9. PointersInv(next, o2, s)
    BY <1>7, <1>8 DEF PointersInv
  <1>10. QED
    BY <1>9 DEF next, o2, key, h

(* ... and the tuple taken is the next one asked for.                      *)
LEMMA OutAdvance ==
  ASSUME FilesInv, NoDeletes, NEW s, StartKey(s), NEW o, OutInv(o, s),
         NEW ptrs, PointersInv(ptrs, o, s), Least(ptrs) # 0
  PROVE  OutInv(Append(o, TupleAt(ptrs[Least(ptrs)])), s)
  <1> DEFINE T == Key \X (Value \cup {Absent})
             h == Least(ptrs)
             p == ptrs[h]
             key == p.now_key
             t == TupleAt(p)
             o2 == Append(o, t)
             asked == Sorted({k \in put : k >= s})
             last == LastKey(o)
  <1>1. /\ h \in 1 .. Sources(s) /\ key < KEY_MAX /\ InSource(p, h, s)
        /\ \A i \in 1 .. Sources(s) : \/ key < ptrs[i].now_key
                                      \/ key = ptrs[i].now_key /\ h <= i
        /\ \A i \in 1 .. Sources(s) :
              ptrs[i].now_key = KEY_MAX \/ ptrs[i].now_key \in Nat
    BY LeastIs
  <1>2. KEY_MAX \in Nat /\ s \in Nat
    BY ScanMergeAssumption DEF StartKey
  <1>3. o \in Seq(T) /\ t \in T /\ t[1] = key
    BY <1>1, SourceTupleType DEF OutInv
  <1>4. key \in SourceKeys(h, s)
    BY <1>1, InSourceIs
  <1>5. key \in put /\ key \in Key /\ key \in Nat
    BY <1>1, <1>4, SourceKeysAre
  <1>6. last \in Int /\ last < key
    <2>1. last \in Int
      BY <1>3, LastKeyIs
    <2>2. key > last
      BY <1>1 DEF PointersInv
    <2> HIDE DEF key, last
    <2>3. QED
      BY <1>5, <2>1, <2>2
  <1>7. PICK before : Given(o, s, before)
    BY DEF OutInv, Given
  <1> DEFINE m == Len(o) - before
  <1>8. /\ m \in Nat /\ m <= Len(asked)
        /\ m = 0 => last < s
        /\ m # 0 => m \in 1 .. Len(asked) /\ last = asked[m]
    BY <1>3, <1>7, LastGiven
  <1>9. /\ Len(asked) \in Nat
        /\ \A n \in 1 .. Len(asked) : /\ asked[n] \in put /\ asked[n] \in Nat /\ asked[n] >= s
        /\ \A i, j \in 1 .. Len(asked) : i < j => asked[i] < asked[j]
        /\ \A k \in {k \in put : k >= s} : \E n \in 1 .. Len(asked) : asked[n] = k
    BY AskedIs
  <1>10. /\ before \in 0 .. Len(o) /\ Len(o) \in Nat
         /\ \A n \in 1 .. before : o[n][1] < s
         /\ \A n \in 1 .. m : o[before + n] = <<asked[n], Get(asked[n])>>
    BY <1>3, <1>7 DEF Given
  <1> HIDE DEF T, h, asked, last
  <1>11. /\ o2 \in Seq(T) /\ Len(o2) = Len(o) + 1 /\ o2[Len(o) + 1] = t
         /\ \A n \in 1 .. Len(o) : o2[n] = o[n]
    BY <1>3
  <1> HIDE DEF o2, p
  <1>12. CASE key < s
    <2>1. m = 0
      <3> SUFFICES ASSUME m # 0 PROVE FALSE
        OBVIOUS
      <3>1. m \in 1 .. Len(asked) /\ last = asked[m]
        BY <1>8
      <3>2. last >= s /\ last \in Nat
        BY <1>9, <3>1
      <3>3. QED
        BY <1>2, <1>5, <1>6, <1>12, <3>2
    <2>2. before = Len(o)
      BY <1>10, <2>1
    <2>3. ASSUME NEW n \in 1 .. Len(o) + 1 PROVE o2[n][1] < s
      <3>1. n \in 1 .. Len(o) \/ n = Len(o) + 1
        BY <1>10
      <3>2. CASE n \in 1 .. Len(o)
        BY <1>10, <1>11, <2>2, <3>2
      <3>3. CASE n = Len(o) + 1
        BY <1>3, <1>11, <1>12, <3>3
      <3>4. QED
        BY <3>1, <3>2, <3>3
    <2> DEFINE b2 == Len(o) + 1
    <2>4. b2 \in 0 .. Len(o2) /\ Len(o2) - b2 = 0
      BY <1>10, <1>11
    <2>5. Given(o2, s, b2)
      <3>1. \A n \in 1 .. Len(o2) - b2 : FALSE
        BY <2>4
      <3>2. Len(o2) - b2 <= Len(asked)
        BY <1>9, <2>4
      <3> HIDE DEF b2
      <3>3. \A n \in 1 .. b2 : o2[n][1] < s
        BY <2>3 DEF b2
      <3>4. QED
        BY <2>4, <3>1, <3>2, <3>3 DEF Given, asked
    <2>6. QED
      BY <1>11, <2>5 DEF OutInv, Given, T, o2, p, h
  <1>13. CASE ~(key < s)
    <2>1. key >= s
      BY <1>2, <1>5, <1>13
    <2>2. PICK j \in 1 .. Len(asked) : asked[j] = key
      BY <1>5, <1>9, <2>1
    <2>3. ~(j <= m)
      <3> SUFFICES ASSUME j <= m PROVE FALSE
        OBVIOUS
      <3>1. m # 0
        BY <1>8, <1>9
      <3>2. m \in 1 .. Len(asked) /\ last = asked[m] /\ (j = m \/ j < m)
        BY <1>8, <1>9, <3>1
      <3>3. asked[j] \in Nat /\ asked[m] \in Nat /\ (asked[j] = asked[m] \/ asked[j] < asked[m])
        BY <1>9, <3>2
      <3>4. QED
        BY <1>5, <1>6, <2>2, <3>2, <3>3
    <2>4. ~(m + 1 < j)
      <3> SUFFICES ASSUME m + 1 < j PROVE FALSE
        OBVIOUS
      <3> DEFINE a == m + 1
                 k == asked[a]
      <3>1. a \in 1 .. Len(asked) /\ a < j
        BY <1>8, <1>9
      <3>2. k \in put /\ k \in Nat /\ k >= s /\ k < key
        BY <1>9, <2>2, <3>1
      <3>3. k > last
        <4>1. CASE m = 0
          <5> HIDE DEF k
          <5>1. QED
            BY <1>2, <1>6, <1>8, <3>2, <4>1
        <4>2. CASE m # 0
          <5>1. m \in 1 .. Len(asked) /\ last = asked[m] /\ m < a
            BY <1>8, <4>2
          <5>2. asked[m] < k
            BY <1>9, <3>1, <5>1
          <5> HIDE DEF k
          <5>3. QED
            BY <1>6, <3>2, <5>1, <5>2
        <4>3. QED
          BY <4>1, <4>2
      <3> HIDE DEF a, k
      <3>4. PICK i \in 1 .. Sources(s) : k \in SourceKeys(i, s)
        BY <3>2, SourceKeysAre
      <3>5. ptrs[i].now_key <= k
        BY <3>2, <3>3, <3>4, NotGiven DEF last
      <3>6. ptrs[i].now_key \in Nat
        BY <1>1, <1>2
      <3>7. key <= ptrs[i].now_key
        BY <1>1, <1>5, <3>6
      <3>8. QED
        BY <1>5, <3>2, <3>5, <3>6, <3>7
    <2>5. j = m + 1
      BY <1>8, <1>9, <2>3, <2>4
    <2>6. t = <<key, Get(key)>>
      <3>1. ASSUME NEW i \in 1 .. Sources(s), i < h PROVE key \notin SourceKeys(i, s)
        <4> SUFFICES ASSUME key \in SourceKeys(i, s) PROVE FALSE
          OBVIOUS
        <4>1. key > last
          BY <1>5, <1>6
        <4>2. ptrs[i].now_key <= key
          BY <2>1, <4>1, NotGiven DEF last
        <4>3. ptrs[i].now_key \in Nat
          BY <1>1, <1>2
        <4>4. ~(h <= i)
          <5>1. Sources(s) \in Nat
            BY SourcesAre
          <5>2. QED
            BY <1>1, <3>1, <5>1
        <4>5. key < ptrs[i].now_key
          BY <1>1, <4>4
        <4>6. QED
          BY <1>5, <4>2, <4>3, <4>5
      <3>2. QED
        BY <1>1, <2>1, <3>1, SourceTuple
    <2>7. Len(o2) - before = m + 1 /\ before \in 0 .. Len(o2) /\ before + (m + 1) = Len(o) + 1
      BY <1>10, <1>11
    <2>8. m + 1 <= Len(asked)
      BY <2>2, <2>5
    <2>9. \A n \in 1 .. before : o2[n][1] < s
      BY <1>10, <1>11
    <2>10. ASSUME NEW n \in 1 .. m + 1
           PROVE  o2[before + n] = <<asked[n], Get(asked[n])>>
      <3>1. n \in 1 .. m \/ n = m + 1
        BY <1>8
      <3>2. CASE n \in 1 .. m
        <4>1. before + n \in 1 .. Len(o)
          BY <1>10, <3>2
        <4>2. QED
          BY <1>10, <1>11, <3>2, <4>1
      <3>3. CASE n = m + 1
        <4>1. before + n = Len(o) + 1
          BY <2>7, <3>3
        <4>2. o2[before + n] = t
          BY <1>11, <4>1
        <4>3. QED
          BY <2>2, <2>5, <2>6, <3>3, <4>2
      <3>4. QED
        BY <3>1, <3>2, <3>3
    <2> HIDE DEF m
    <2>11. Given(o2, s, before)
      BY <2>7, <2>8, <2>9, <2>10 DEF Given, asked
    <2>12. QED
      BY <1>11, <2>11 DEF OutInv, Given, T, o2, p, h
  <1>14. QED
    BY <1>12, <1>13

(* A scan's invariant does not depend on where the scan is.                *)
LEMMA SameTree ==
  ASSUME memtables' = memtables, FileIndex' = FileIndex, put' = put
  PROVE  /\ \A s : StartKey(s)' <=> StartKey(s)
         /\ \A p, o, s : PointersInv(p, o, s)' <=> PointersInv(p, o, s)
         /\ \A o, s : OutInv(o, s)' <=> OutInv(o, s)
  <1>1. \A l, a, b : FilesOn(l, a, b)' = FilesOn(l, a, b)
    BY DEF FilesOn, FirstFile
  <1>2. \A k : MemGet(k)' = MemGet(k)
    BY DEF MemGet
  <1>3. \A l, k : FoundOn(l, k)' = FoundOn(l, k)
    BY <1>1 DEF FoundOn
  <1>4. \A k : Get(k)' = Get(k)
    BY <1>2, <1>3 DEF Get
  <1>5. \A l, s : On(l, s)' = On(l, s)
    BY <1>1 DEF On
  <1>6. \A s : UpTo0(s)' = UpTo0(s) /\ Sources(s)' = Sources(s)
    BY <1>5 DEF UpTo0, Sources
  <1>7. \A i, s : MemOf(i)' = MemOf(i) /\ FileOf(i, s)' = FileOf(i, s)
    BY <1>5 DEF MemOf, FileOf
  <1>8. \A i, s : SourceKeys(i, s)' = SourceKeys(i, s)
    <2>1. \A i : RowKeys(memtables[MemOf(i)])' = RowKeys(memtables[MemOf(i)])
      BY <1>7 DEF RowKeys
    <2>2. \A i, s : RowKeys(FileIndex[0][FileOf(i, s)].rows)'
                   = RowKeys(FileIndex[0][FileOf(i, s)].rows)
      BY <1>7 DEF RowKeys
    <2>3. AllKeys(FileIndex[1])' = AllKeys(FileIndex[1])
      BY DEF AllKeys, RowKeys
    <2>4. Len(memtables)' = Len(memtables)
      OBVIOUS
    <2>5. QED
      BY <1>6, <2>1, <2>2, <2>3, <2>4 DEF SourceKeys
  <1>9. \A p, l, f : InFile(p, l, f)' <=> InFile(p, l, f)
    BY DEF InFile, AtRow
  <1>10. \A p, i, s : InSource(p, i, s)' <=> InSource(p, i, s)
    BY <1>6, <1>7, <1>9 DEF InSource, RowKeys
  <1>11. \A p, i, a, s : Reached(p, i, a, s)' <=> Reached(p, i, a, s)
    BY <1>8, <1>10 DEF Reached
  <1>12. \A p, o, s : PointersInv(p, o, s)' <=> PointersInv(p, o, s)
    BY <1>6, <1>11 DEF PointersInv
  <1>13. \A o, s : OutInv(o, s)' <=> OutInv(o, s)
    BY <1>4 DEF OutInv
  <1>14. \A s : StartKey(s)' <=> StartKey(s)
    BY DEF StartKey
  <1>15. QED
    BY <1>12, <1>13, <1>14

(* What is in two sequences put together.                                  *)
LEMMA Concat ==
  ASSUME NEW X, NEW a \in Seq(X), NEW b \in Seq(X)
  PROVE  /\ a \o b \in Seq(X) /\ Len(a) \in Nat /\ Len(b) \in Nat
         /\ Len(a \o b) = Len(a) + Len(b)
         /\ \A i \in 1 .. Len(a) : (a \o b)[i] = a[i]
         /\ \A i \in 1 .. Len(a) + Len(b) :
               i > Len(a) => i - Len(a) \in 1 .. Len(b) /\ (a \o b)[i] = b[i - Len(a)]
  <1> DEFINE na == Len(a)
             nb == Len(b)
             c == a \o b
  <1>1. c \in Seq(X) /\ Len(c) = na + nb /\ na \in Nat /\ nb \in Nat
    OBVIOUS
  <1>2. \A i \in 1 .. na : c[i] = a[i]
    OBVIOUS
  <1>3. \A i \in 1 .. na + nb : i > na => i - na \in 1 .. nb /\ c[i] = b[i - na]
    OBVIOUS
  <1>4. QED
    BY <1>1, <1>2, <1>3

(* The pointers of a scan that is opened.                                  *)
LEMMA PointersOpen ==
  ASSUME FilesInv, NoDeletes, NEW s, StartKey(s)
  PROVE  LET ptrs == [i \in DOMAIN memtables |-> MemAt(MemOf(i), s)]
                     \o [i \in DOMAIN On(0, s) |-> FileAt(0, On(0, s)[i], s)]
                     \o (IF On(1, s) = <<>> THEN <<>> ELSE <<FileAt(1, On(1, s)[1], s)>>)
         IN  PointersInv(ptrs, <<>>, s)
  <1> DEFINE M == Len(memtables)
             N == Len(On(0, s))
             a == [i \in DOMAIN memtables |-> MemAt(MemOf(i), s)]
             b == [i \in DOMAIN On(0, s) |-> FileAt(0, On(0, s)[i], s)]
             c == IF On(1, s) = <<>> THEN <<>> ELSE <<FileAt(1, On(1, s)[1], s)>>
             X == Range(a) \cup Range(b) \cup Range(c)
             ptrs == a \o b \o c
  <1>1. M \in Nat /\ DOMAIN memtables = 1 .. M
    BY SourcesAre
  <1>2. N \in Nat /\ DOMAIN On(0, s) = 1 .. N
    <2>1. 0 \in Levels
      BY DEF Levels
    <2>2. QED
      BY <2>1, OnIs
  <1> HIDE DEF M, N
  <1>3. a \in Seq(X) /\ Len(a) = M /\ \A i \in 1 .. M : a[i] = MemAt(MemOf(i), s)
    <2>1. \A i \in 1 .. M : a[i] = MemAt(MemOf(i), s) /\ a[i] \in X
      BY <1>1 DEF Range
    <2>2. a = [i \in 1 .. M |-> a[i]]
      BY <1>1
    <2> HIDE DEF a, X
    <2>3. a \in [1 .. M -> X]
      BY <2>1, <2>2
    <2>4. QED
      BY <1>1, <2>1, <2>3
  <1>4. b \in Seq(X) /\ Len(b) = N /\ \A i \in 1 .. N : b[i] = FileAt(0, On(0, s)[i], s)
    <2>1. \A i \in 1 .. N : b[i] = FileAt(0, On(0, s)[i], s) /\ b[i] \in X
      BY <1>2 DEF Range
    <2>2. b = [i \in 1 .. N |-> b[i]]
      BY <1>2
    <2> HIDE DEF b, X
    <2>3. b \in [1 .. N -> X]
      BY <2>1, <2>2
    <2>4. QED
      BY <1>2, <2>1, <2>3
  <1>5. /\ c \in Seq(X)
        /\ On(1, s) = <<>> => Len(c) = 0
        /\ On(1, s) # <<>> => Len(c) = 1 /\ c[1] = FileAt(1, On(1, s)[1], s)
    <2>1. CASE On(1, s) = <<>>
      BY <2>1
    <2>2. CASE On(1, s) # <<>>
      <3> DEFINE x == FileAt(1, On(1, s)[1], s)
      <3>1. c = <<x>>
        BY <2>2
      <3>2. x \in X
        BY <3>1 DEF Range
      <3> HIDE DEF x, c, X
      <3>3. c \in Seq(X) /\ Len(c) = 1 /\ c[1] = x
        BY <3>1, <3>2
      <3>4. QED
        BY <2>2, <3>3 DEF x
    <2>3. QED
      BY <2>1, <2>2
  <1>6. UpTo0(s) = M + N /\ Sources(s) = M + N + Len(c)
    BY <1>5 DEF UpTo0, Sources, M, N
  <1> HIDE DEF a, b, c, X
  <1> DEFINE ab == a \o b
  <1>7. /\ ab \in Seq(X) /\ Len(ab) = M + N
        /\ \A i \in 1 .. M : ab[i] = a[i]
        /\ \A i \in 1 .. M + N : i > M => i - M \in 1 .. N /\ ab[i] = b[i - M]
    BY <1>3, <1>4, Concat
  <1> HIDE DEF ab
  <1>8. /\ ptrs \in Seq(X) /\ Len(ptrs) = Sources(s) /\ Len(c) \in Nat
        /\ \A i \in 1 .. M + N : ptrs[i] = ab[i]
        /\ \A i \in 1 .. M + N + Len(c) : i > M + N =>
               i - (M + N) \in 1 .. Len(c) /\ ptrs[i] = c[i - (M + N)]
    <2>1. ptrs = ab \o c
      BY DEF ab
    <2> HIDE DEF ptrs
    <2>2. QED
      BY <1>5, <1>6, <1>7, <2>1, Concat
  <1> HIDE DEF ptrs
  <1>9. DOMAIN ptrs = 1 .. Sources(s)
    BY <1>8
  <1>10. ASSUME NEW i \in 1 .. Sources(s) PROVE Reached(ptrs[i], i, s, s)
    <2>1. i \in Nat /\ (i <= M \/ (i > M /\ i <= M + N) \/ i > M + N)
      BY <1>1, <1>2
    <2>2. CASE i <= M
      <3>1. i \in 1 .. M /\ i \in 1 .. M + N
        BY <1>1, <1>2, <2>2
      <3>2. ptrs[i] = MemAt(MemOf(i), s)
        BY <1>3, <1>7, <1>8, <3>1
      <3>3. QED
        BY <2>2, <3>2, MemReached DEF M
    <2>3. CASE i > M /\ i <= M + N
      <3>1. i \in 1 .. M + N
        BY <1>1, <1>2, <2>3
      <3>2. i - M \in 1 .. N /\ ptrs[i] = b[i - M]
        BY <1>7, <1>8, <2>3, <3>1
      <3>3. ptrs[i] = FileAt(0, FileOf(i, s), s)
        BY <1>4, <3>2 DEF FileOf, M
      <3>4. QED
        BY <1>6, <2>3, <3>3, FileReached DEF M
    <2>4. CASE i > M + N
      <3>1. i \in 1 .. M + N + Len(c)
        BY <1>6
      <3>2. i - (M + N) \in 1 .. Len(c) /\ ptrs[i] = c[i - (M + N)]
        BY <1>8, <2>4, <3>1
      <3>3. Len(c) # 0
        BY <3>2
      <3>4. On(1, s) # <<>> /\ Len(c) = 1 /\ c[1] = FileAt(1, On(1, s)[1], s)
        BY <1>5, <3>3
      <3>5. i - (M + N) = 1 /\ i = Sources(s)
        BY <1>1, <1>2, <1>6, <3>2, <3>4
      <3>6. QED
        BY <3>2, <3>4, <3>5, LevelReached
    <2>5. QED
      BY <2>1, <2>2, <2>3, <2>4
  <1>11. LastKey(<<>>) = -1 /\ From(<<>>, s) = s
    <2>1. LastKey(<<>>) = -1
      BY DEF LastKey
    <2>2. QED
      BY <2>1 DEF From, StartKey
  <1>12. ASSUME NEW i \in 1 .. Sources(s) PROVE ptrs[i].now_key > -1
    <2>1. CASE ptrs[i] = AtEnd
      BY <2>1, ScanMergeAssumption DEF AtEnd
    <2>2. CASE InSource(ptrs[i], i, s)
      <3>1. ptrs[i].now_key \in Nat
        BY <2>2, InSourceIs, SourceKeysAre
      <3>2. QED
        BY <3>1
    <2>3. QED
      BY <1>10, <2>1, <2>2 DEF Reached
  <1>13. PointersInv(ptrs, <<>>, s)
    BY <1>9, <1>10, <1>11, <1>12 DEF PointersInv
  <1>14. QED
    BY <1>13 DEF ptrs, a, b, c

(* A scan that is opened has given nothing, ...                            *)
LEMMA OutOpen ==
  ASSUME FilesInv, NEW s, StartKey(s) PROVE OutInv(<<>>, s)
  <1> DEFINE asked == Sorted({k \in put : k >= s})
             T == Key \X (Value \cup {Absent})
             o == <<>>
  <1>1. Len(asked) \in Nat
    BY AskedIs
  <1>2. o \in Seq(T) /\ Len(o) = 0
    OBVIOUS
  <1> HIDE DEF o, T, asked
  <1>3. Given(o, s, 0)
    BY <1>1, <1>2 DEF Given, asked
  <1>4. OutInv(o, s)
    BY <1>2, <1>3 DEF OutInv, Given, T
  <1>5. QED
    BY <1>4 DEF o

(* ... and its pointers are where they should be, ...                      *)
LEMMA ScanInvOpen ==
  ASSUME FilesInv, NoDeletes, ScanInv, NEW key \in Key \cup {0}, Open(key)
  PROVE  ScanInv'
  <1> DEFINE ptrs == [i \in DOMAIN memtables |-> MemAt(MemOf(i), key)]
                     \o [i \in DOMAIN On(0, key) |-> FileAt(0, On(0, key)[i], key)]
                     \o (IF On(1, key) = <<>> THEN <<>>
                         ELSE <<FileAt(1, On(1, key)[1], key)>>)
  <1>1. /\ start' = key /\ memtables' = memtables /\ FileIndex' = FileIndex
        /\ put' = put /\ out' = <<>>
    BY DEF Open, ScanInv
  <1>2. pointers' = ptrs
    BY DEF Open, On, MemOf
  <1>3. StartKey(key)
    BY KeyFacts, ScanMergeAssumption DEF StartKey
  <1>4. PointersInv(ptrs, <<>>, key)
    BY <1>3, PointersOpen
  <1> HIDE DEF ptrs
  <1>5. OutInv(<<>>, key)
    BY <1>3, OutOpen
  <1>6. start' # -1
    BY <1>1, <1>3 DEF StartKey
  <1>7. StartKey(start') /\ PointersInv(pointers', out', start') /\ OutInv(out', start')
    BY <1>1, <1>2, <1>3, <1>4, <1>5
  <1>8. QED
    BY <1>1, <1>6, <1>7, SameTree DEF ScanInv

(* ... and stay there when it goes on, ...                                 *)
LEMMA ScanInvAdvance ==
  ASSUME FilesInv, NoDeletes, ScanInv, Advance
  PROVE  ScanInv'
  <1> DEFINE p == pointers[Least(pointers)]
             ptrs == [i \in DOMAIN pointers |-> IF pointers[i].now_key = p.now_key
                                                THEN NextAt(pointers[i]) ELSE pointers[i]]
             o == Append(out, TupleAt(p))
  <1>1. /\ start # -1 /\ Least(pointers) # 0
        /\ start' = start /\ memtables' = memtables /\ FileIndex' = FileIndex /\ put' = put
    BY DEF Advance
  <1>2. out' = o /\ pointers' = ptrs
    BY DEF Advance
  <1>3. StartKey(start) /\ PointersInv(pointers, out, start) /\ OutInv(out, start)
    BY <1>1 DEF ScanInv
  <1>4. PointersInv(ptrs, o, start)
    BY <1>1, <1>3, PointersAdvance
  <1>5. OutInv(o, start)
    BY <1>1, <1>3, OutAdvance
  <1> HIDE DEF ptrs, o
  <1>6. /\ StartKey(start') /\ PointersInv(pointers', out', start') /\ OutInv(out', start')
    BY <1>1, <1>2, <1>3, <1>4, <1>5
  <1>7. QED
    BY <1>1, <1>6, SameTree DEF ScanInv

(* ... so every step keeps ScanInv.                                        *)
LEMMA ScanInvNext == NoDeletes /\ FilesInv /\ ScanInv /\ [Next]_vars => ScanInv'
  <1> SUFFICES ASSUME NoDeletes, FilesInv, ScanInv, [Next]_vars PROVE ScanInv'
    OBVIOUS
  <1>1. CASE Persist
    BY <1>1 DEF Persist, ScanInv
  <1>2. CASE Compact
    BY <1>2 DEF Compact, ScanInv
  <1>3. ASSUME NEW key \in Key \cup {0}, Open(key) PROVE ScanInv'
    BY <1>3, ScanInvOpen
  <1>4. CASE Advance
    BY <1>4, ScanInvAdvance
  <1>5. CASE UNCHANGED vars
    <2>1. /\ memtables' = memtables /\ FileIndex' = FileIndex /\ put' = put
          /\ start' = start /\ pointers' = pointers /\ out' = out
      BY <1>5 DEF vars
    <2>2. QED
      BY <2>1, SameTree DEF ScanInv
  <1>6. QED
    BY <1>1, <1>2, <1>3, <1>4, <1>5 DEF Next

(* At the end all the keys asked for have been given.                      *)
LEMMA ScanInvExact == NoDeletes /\ FilesInv /\ ScanInv => ScanExact
  <1> SUFFICES ASSUME NoDeletes, FilesInv, ScanInv, start # -1 PROVE ScanExact
    BY DEF ScanExact
  <1> DEFINE asked == Sorted({k \in put : k >= start})
             last == LastKey(out)
  <1>1. StartKey(start) /\ PointersInv(pointers, out, start) /\ OutInv(out, start)
    BY DEF ScanInv
  <1>2. out \in Seq(Key \X (Value \cup {Absent}))
    BY <1>1 DEF OutInv
  <1>3. PICK before : Given(out, start, before)
    BY <1>1 DEF OutInv, Given
  <1> DEFINE m == Len(out) - before
  <1>4. /\ m \in Nat /\ m <= Len(asked)
        /\ m = 0 => last < start
        /\ m # 0 => m \in 1 .. Len(asked) /\ last = asked[m]
    BY <1>1, <1>2, <1>3, LastGiven
  <1>5. /\ Len(asked) \in Nat
        /\ \A n \in 1 .. Len(asked) : /\ asked[n] \in put /\ asked[n] \in Nat
                                       /\ asked[n] >= start
        /\ \A i, j \in 1 .. Len(asked) : i < j => asked[i] < asked[j]
    BY <1>1, AskedIs
  <1>6. start \in Nat /\ last \in Int
    BY <1>1, <1>2, LastKeyIs DEF StartKey
  <1> HIDE DEF asked, last
  <1>7. ASSUME Least(pointers) = 0 PROVE m = Len(asked)
    <2> SUFFICES ASSUME m # Len(asked) PROVE FALSE
      OBVIOUS
    <2> DEFINE a == m + 1
               k == asked[a]
    <2>1. a \in 1 .. Len(asked)
      BY <1>4, <1>5
    <2>2. k \in put /\ k \in Nat /\ k >= start
      BY <1>5, <2>1
    <2>3. k > last
      <3>1. CASE m = 0
        <4> HIDE DEF k
        <4>1. QED
          BY <1>4, <1>6, <2>2, <3>1
      <3>2. CASE m # 0
        <4>1. m \in 1 .. Len(asked) /\ last = asked[m] /\ m < a
          BY <1>4, <3>2
        <4>2. asked[m] < k
          BY <1>5, <2>1, <4>1
        <4> HIDE DEF k
        <4>3. QED
          BY <1>6, <2>2, <4>1, <4>2
      <3>3. QED
        BY <3>1, <3>2
    <2> HIDE DEF a, k
    <2>4. PICK i \in 1 .. Sources(start) : k \in SourceKeys(i, start)
      BY <1>1, <2>2, SourceKeysAre
    <2>5. pointers[i] # AtEnd
      BY <1>1, <2>2, <2>3, <2>4, NotGiven DEF last
    <2>6. \A j \in 1 .. Sources(start) : pointers[j] = AtEnd
      BY <1>1, <1>7, LeastIs
    <2>7. QED
      BY <2>5, <2>6
  <1>8. /\ before \in 0 .. Len(out)
        /\ \A n \in 1 .. before : out[n][1] < start
        /\ m <= Len(asked)
        /\ \A n \in 1 .. m : out[before + n] = <<asked[n], Get(asked[n])>>
    BY <1>3 DEF Given, asked
  <1>9. QED
    BY <1>7, <1>8 DEF ScanExact, asked

(* From its start on a scan gives every key put, once, in order and with   *)
(* the tuple of a point read, whatever the memtables, files and merges.    *)
THEOREM ScanIsExact ==
  ASSUME NoDeletes
  PROVE  Spec => []ScanExact
  <1>1. Init => ScanInv
    BY DEF Init, ScanInv
  <1>2. FilesInv /\ ScanInv /\ [Next]_vars => ScanInv'
    BY ScanInvNext
  <1>3. FilesInv /\ ScanInv => ScanExact
    BY ScanInvExact
  <1>4. QED
    BY <1>1, <1>2, <1>3, FilesAreMade, PTL DEF Spec

-----------------------------------------------------------------------------
(* The dictionary of a clean file are its strings, in order.               *)
LEMMA DictionaryIs ==
  ASSUME NEW f, FileMade(f), Clean(f.rows)
  PROVE  LET d == f.dictionary
         IN  /\ Len(d) \in Nat \ {0} /\ DOMAIN d = 1 .. Len(d)
             /\ \A i \in 1 .. Len(d) : d[i] \in Value /\ d[i] \in Nat
             /\ \A i, j \in 1 .. Len(d) : i < j => d[i] < d[j]
  <1> DEFINE V == Values(f.rows)
             d == f.dictionary
  <1>1. d = Sorted(V) BY DEF FileMade, CleanFile
  <1>2. RowKeys(f.rows) # {} /\ f.rows \in RowsType BY DEF FileMade
  <1>3. IsFiniteSet(RowKeys(f.rows)) /\ RowKeys(f.rows) \subseteq Key BY <1>2, WrittenIs
  <1>4. V \subseteq Value BY <1>2 DEF Values, RowKeys, RowsType, Clean
  <1>5. Value \subseteq Nat BY RelFileAssumption
  <1>6. IsFiniteSet(V)
    <2>1. f.rows \in [Key -> Value \cup {Absent, Tombstone}] BY <1>2 DEF RowsType
    <2>2. V = {f.rows[k] : k \in RowKeys(f.rows)} BY DEF Values
    <2> HIDE DEF V
    <2> DEFINE h == [k \in RowKeys(f.rows) |-> f.rows[k]]
    <2>3. h \in Surjection(RowKeys(f.rows), V) BY <2>2 DEF Surjection
    <2> QED BY <2>3, <1>3, FS_Surjection
  <1>7. V # {} BY <1>2 DEF Values
  <1> HIDE DEF V
  <1>8. /\ Cardinality(V) \in Nat /\ Sorted(V) \in [1 .. Cardinality(V) -> V]
        /\ \A i, j \in 1 .. Cardinality(V) : i < j => Sorted(V)[i] < Sorted(V)[j]
    <2>1. V \subseteq Int BY <1>4, <1>5
    <2> QED BY <2>1, <1>6, SortedIs
  <1>9. Cardinality(V) # 0 BY <1>6, <1>7, FS_EmptySet
  <1>10. Len(d) = Cardinality(V) /\ DOMAIN d = 1 .. Cardinality(V) BY <1>1, <1>8
  <1> HIDE DEF d
  <1> SUFFICES /\ Len(d) \in Nat \ {0} /\ DOMAIN d = 1 .. Len(d)
               /\ \A i \in 1 .. Len(d) : d[i] \in Value /\ d[i] \in Nat
               /\ \A i, j \in 1 .. Len(d) : i < j => d[i] < d[j]
    BY DEF d
  <1> QED BY <1>1, <1>4, <1>5, <1>8, <1>9, <1>10

(* A filter on indices selects the strings of the range.                   *)
LEMMA SelectedIs ==
  ASSUME NEW dict, Len(dict) \in Nat \ {0}, DOMAIN dict = 1 .. Len(dict),
         \A i \in 1 .. Len(dict) : dict[i] \in Nat,
         \A i, j \in 1 .. Len(dict) : i < j => dict[i] < dict[j],
         NEW data, \A n \in DOMAIN data : data[n] \in Nat,
         NEW lo \in Nat, NEW hi \in Nat, NEW n \in DOMAIN data, data[n] + 1 \in 1 .. Len(dict)
  PROVE  /\ Matches(dict[data[n] + 1], lo, hi) => n \in Selected(dict, data, lo, hi)
         /\ dict[1] <= hi /\ n \in Selected(dict, data, lo, hi) =>
               Matches(dict[data[n] + 1], lo, hi)
  <1> DEFINE B == {i \in DOMAIN dict : dict[i] < lo}
             A == {i \in DOMAIN dict : dict[i] <= hi}
             v == data[n]
             right == IF Cardinality(A) = 0 THEN NONEINDEX ELSE Cardinality(A) - 1
  <1>1. Cardinality(B) \in Nat /\ B = 1 .. Cardinality(B)
    <2>1. B \subseteq 1 .. Len(dict) OBVIOUS
    <2>2. \A i \in B : \A j \in 1 .. i : j \in B
      <3> TAKE i \in B
      <3> TAKE j \in 1 .. i
      <3>1. j \in 1 .. Len(dict) /\ dict[j] \in Nat /\ dict[i] \in Nat /\ dict[i] < lo OBVIOUS
      <3>2. dict[j] <= dict[i] BY <3>1
      <3> QED BY <3>1, <3>2
    <2> HIDE DEF B
    <2> QED BY <2>1, <2>2, BeginningIs
  <1>2. Cardinality(A) \in Nat /\ A = 1 .. Cardinality(A)
    <2>1. A \subseteq 1 .. Len(dict) OBVIOUS
    <2>2. \A i \in A : \A j \in 1 .. i : j \in A
      <3> TAKE i \in A
      <3> TAKE j \in 1 .. i
      <3>1. j \in 1 .. Len(dict) /\ dict[j] \in Nat /\ dict[i] \in Nat /\ dict[i] <= hi OBVIOUS
      <3>2. dict[j] <= dict[i] BY <3>1
      <3> QED BY <3>1, <3>2
    <2> HIDE DEF A
    <2> QED BY <2>1, <2>2, BeginningIs
  <1>3. Selected(dict, data, lo, hi) =
          IF Cardinality(B) >= Len(dict) THEN {}
          ELSE {m \in DOMAIN data : Cardinality(B) <= data[m] /\ data[m] <= right}
    BY DEF Selected
  <1>4. /\ dict[v + 1] < lo <=> v + 1 <= Cardinality(B)
        /\ dict[v + 1] <= hi <=> v + 1 <= Cardinality(A)
        /\ v \in Nat /\ dict[v + 1] \in Nat /\ v < Len(dict)
    <2>1. v + 1 \in DOMAIN dict /\ v \in Nat /\ v < Len(dict) OBVIOUS
    <2>2. dict[v + 1] < lo <=> v + 1 \in B BY <2>1
    <2>3. dict[v + 1] <= hi <=> v + 1 \in A BY <2>1
    <2> HIDE DEF A, B
    <2> QED BY <2>1, <2>2, <2>3, <1>1, <1>2
  <1>5. dict[1] <= hi => Cardinality(A) # 0
    <2>1. dict[1] <= hi => 1 \in A OBVIOUS
    <2> HIDE DEF A
    <2> QED BY <2>1, <1>2
  <1> HIDE DEF A, B
  <1>6. Matches(dict[v + 1], lo, hi) <=> v + 1 <= Cardinality(A) /\ ~(v + 1 <= Cardinality(B))
    BY <1>4 DEF Matches
  <1>7. n \in Selected(dict, data, lo, hi) <=>
          Cardinality(B) < Len(dict) /\ Cardinality(B) <= v /\ v <= right
    BY <1>3, <1>1
  <1>8. CASE Cardinality(A) = 0
    <2>1. ~(dict[1] <= hi) BY <1>8, <1>5
    <2>2. ~Matches(dict[v + 1], lo, hi) BY <1>8, <1>6, <1>4
    <2> QED BY <2>1, <2>2
  <1>9. CASE Cardinality(A) # 0
    <2>1. right = Cardinality(A) - 1 BY <1>9
    <2> HIDE DEF right
    <2> QED BY <2>1, <1>1, <1>2, <1>4, <1>6, <1>7
  <1> QED BY <1>8, <1>9

(* The keys a range selects in a clean file: those whose string lies in    *)
(* it, and no other if the range is not below every string.                *)
LEMMA RangeKeysAre ==
  ASSUME NEW f, FileMade(f), Clean(f.rows), NEW lo \in Nat, NEW hi \in Nat
  PROVE  /\ \A k \in RowKeys(f.rows) : Matches(f.rows[k], lo, hi) => k \in RangeKeys(f, lo, hi)
         /\ f.dictionary # <<>>
         /\ f.dictionary[1] <= hi => \A k \in RangeKeys(f, lo, hi) :
               k \in RowKeys(f.rows) /\ Matches(f.rows[k], lo, hi)
  <1>1. CleanFile(f) /\ f.rows \in RowsType BY DEF FileMade
  <1>2. PICK keys : \E vals : Holding(f, keys, vals) BY <1>1 DEF CleanFile
  <1>3. PICK vals : Holding(f, keys, vals) BY <1>2
  <1>4. /\ OrderedFile(f, keys, vals) /\ keys \in Seq(Nat) /\ Len(keys) \in Nat \ {0}
        /\ \A i \in 1 .. Len(keys) : keys[i] \in RowKeys(f.rows) /\ keys[i] \in Nat
        /\ \A k \in RowKeys(f.rows) : \E j \in 1 .. Len(keys) : keys[j] = k
    BY <1>3, HoldingIs
  <1>5. vals \in Seq(Nat) /\ Len(vals) = Len(keys) /\ Readable(f, keys, vals) /\ keys # <<>>
    BY <1>4 DEF OrderedFile
  <1>6. \A j \in 1 .. Len(keys) : GetString(f.dictionary, vals[j]) = f.rows[keys[j]]
    BY <1>3 DEF Holding
  <1> DEFINE rows == KeysAndIdxs(f)
             size == STANDARD_VECTOR_SIZE
             vector(i) == Part(rows, size, i)
             data(i) == [n \in DOMAIN vector(i) |-> vector(i)[n][2]]
             found(i) == Selected(f.dictionary, data(i), lo, hi)
             d == f.dictionary
  <1>7. rows = Zip(keys, vals) BY <1>4, <1>5, KeysAndIdxsAre
  <1>8. /\ rows \in Seq(Nat \X Nat) /\ Len(rows) = Len(keys) /\ rows # <<>>
        /\ \A j \in 1 .. Len(keys) : rows[j] = <<keys[j], vals[j]>>
    <2>1. \A j \in 1 .. Len(keys) : keys[j] \in Nat /\ vals[j] \in Nat BY <1>4, <1>5
    <2>2. Len(keys) \in Nat \ {0} BY <1>4
    <2>3. DOMAIN rows = 1 .. Len(keys) /\ Len(rows) = Len(keys) BY <1>7, <2>2 DEF Zip
    <2>4. \A j \in 1 .. Len(keys) : rows[j] = <<keys[j], vals[j]>> BY <1>7, <2>2 DEF Zip
    <2>5. rows = [j \in 1 .. Len(keys) |-> rows[j]] BY <1>7, <2>2 DEF Zip
    <2> HIDE DEF rows
    <2>6. \A j \in 1 .. Len(keys) : rows[j] \in Nat \X Nat
      <3> TAKE j \in 1 .. Len(keys)
      <3>1. keys[j] \in Nat /\ vals[j] \in Nat /\ rows[j] = <<keys[j], vals[j]>> BY <2>1, <2>4
      <3>2. <<keys[j], vals[j]>> \in Nat \X Nat
        <4> DEFINE a == keys[j]  c == vals[j]
        <4>1. a \in Nat /\ c \in Nat BY <3>1
        <4> HIDE DEF a, c
        <4>2. <<a, c>> \in Nat \X Nat BY <4>1
        <4> QED BY <4>2 DEF a, c
      <3> QED BY <3>1, <3>2
    <2>7. rows \in [1 .. Len(keys) -> Nat \X Nat] BY <2>6, <2>5
    <2>8. rows \in Seq(Nat \X Nat) BY <2>2, <2>7
    <2>9. rows # <<>> BY <2>2, <2>3
    <2> QED BY <2>3, <2>4, <2>8, <2>9
  <1>9. size \in Nat \ {0} BY RelFileAssumption
  <1>10. RangeKeys(f, lo, hi) = UNION {{vector(i)[n][1] : n \in found(i)} : i \in 1 .. Parts(Len(rows), size)}
    BY DEF RangeKeys
  <1>11. /\ Len(d) \in Nat \ {0} /\ DOMAIN d = 1 .. Len(d)
         /\ \A i \in 1 .. Len(d) : d[i] \in Value /\ d[i] \in Nat
         /\ \A i, j \in 1 .. Len(d) : i < j => d[i] < d[j]
    BY DictionaryIs
  <1>12. \A j \in 1 .. Len(keys) :
            vals[j] + 1 \in 1 .. Len(d) /\ d[vals[j] + 1] = f.rows[keys[j]]
    <2> TAKE j \in 1 .. Len(keys)
    <2>1. keys[j] \in RowKeys(f.rows) /\ GetString(d, vals[j]) = f.rows[keys[j]] BY <1>4, <1>6
    <2>2. f.rows[keys[j]] # 0 BY <2>1 DEF RowKeys, Absent
    <2> QED BY <2>1, <2>2, <1>11 DEF GetString
  <1>13. ASSUME NEW i \in 1 .. Parts(Len(rows), size),
                NEW m \in 1 .. PartLen(Len(rows), size, i)
         PROVE  /\ Before(size, i) + m \in 1 .. Len(keys)
                /\ vector(i)[m] = <<keys[Before(size, i) + m], vals[Before(size, i) + m]>>
                /\ DOMAIN vector(i) = 1 .. PartLen(Len(rows), size, i)
    <2>1. /\ Part(rows, size, i) \in Seq(Nat \X Nat)
          /\ Len(Part(rows, size, i)) = PartLen(Len(rows), size, i)
          /\ Part(rows, size, i)[m] = rows[Before(size, i) + m]
          /\ Before(size, i) + m \in 1 .. Len(rows)
      <3> HIDE DEF rows, size
      <3> QED BY <1>8, <1>9, PartIs
    <2> HIDE DEF rows, size
    <2> QED BY <2>1, <1>8
  <1>14. ASSUME NEW i \in 1 .. Parts(Len(rows), size),
                NEW m \in 1 .. PartLen(Len(rows), size, i)
         PROVE  LET j == Before(size, i) + m
                IN  /\ m \in DOMAIN data(i) /\ vector(i)[m][1] = keys[j]
                    /\ Matches(f.rows[keys[j]], lo, hi) => m \in found(i)
                    /\ d[1] <= hi /\ m \in found(i) => Matches(f.rows[keys[j]], lo, hi)
    <2> DEFINE j == Before(size, i) + m
    <2>1. \A n \in DOMAIN data(i) : data(i)[n] \in Nat
      <3> TAKE n \in DOMAIN data(i)
      <3>1. n \in 1 .. PartLen(Len(rows), size, i) BY <1>13
      <3>2. vector(i)[n] = <<keys[Before(size, i) + n], vals[Before(size, i) + n]>>
            /\ Before(size, i) + n \in 1 .. Len(keys)
        BY <3>1, <1>13
      <3>3. data(i)[n] = vals[Before(size, i) + n] BY <3>2, <3>1, <1>13
      <3> QED BY <3>2, <3>3, <1>5
    <2>2. m \in DOMAIN data(i) /\ data(i)[m] = vals[j] /\ vector(i)[m][1] = keys[j]
          /\ j \in 1 .. Len(keys)
      <3>1. /\ Before(size, i) + m \in 1 .. Len(keys)
            /\ vector(i)[m] = <<keys[Before(size, i) + m], vals[Before(size, i) + m]>>
            /\ DOMAIN vector(i) = 1 .. PartLen(Len(rows), size, i)
        BY <1>13
      <3>2. m \in DOMAIN vector(i) BY <3>1
      <3>3. m \in DOMAIN data(i) /\ data(i)[m] = vector(i)[m][2] BY <3>2
      <3> HIDE DEF vector, data, rows, size
      <3> QED BY <3>1, <3>3
    <2>3. data(i)[m] + 1 \in 1 .. Len(d) /\ d[data(i)[m] + 1] = f.rows[keys[j]]
      BY <2>2, <1>12
    <2> HIDE DEF data, vector, j, rows, size, d
    <2>4. /\ Matches(d[data(i)[m] + 1], lo, hi) => m \in Selected(d, data(i), lo, hi)
          /\ d[1] <= hi /\ m \in Selected(d, data(i), lo, hi) =>
                 Matches(d[data(i)[m] + 1], lo, hi)
      BY <2>1, <2>2, <2>3, <1>11, SelectedIs
    <2> USE DEF j, d
    <2> QED BY <2>2, <2>3, <2>4
  <1>15. \A k \in RowKeys(f.rows) : Matches(f.rows[k], lo, hi) => k \in RangeKeys(f, lo, hi)
    <2> SUFFICES ASSUME NEW k \in RowKeys(f.rows), Matches(f.rows[k], lo, hi)
                 PROVE  k \in RangeKeys(f, lo, hi)
      OBVIOUS
    <2>1. PICK j \in 1 .. Len(keys) : keys[j] = k BY <1>4
    <2>2. \E i \in 1 .. Parts(Len(rows), size) : \E m \in 1 .. PartLen(Len(rows), size, i) :
              j = Before(size, i) + m
      <3> HIDE DEF rows, size
      <3>1. Len(rows) \in Nat \ {0} /\ j \in 1 .. Len(rows) BY <1>4, <1>8, <2>1
      <3> QED BY <3>1, <1>9, PartOfRow
    <2>3. PICK i \in 1 .. Parts(Len(rows), size) : \E m \in 1 .. PartLen(Len(rows), size, i) :
              j = Before(size, i) + m
      BY <2>2
    <2>4. PICK m \in 1 .. PartLen(Len(rows), size, i) : j = Before(size, i) + m BY <2>3
    <2>5. vector(i)[m][1] = k /\ m \in found(i) BY <2>1, <2>4, <1>14
    <2> HIDE DEF vector, found, rows, size
    <2>6. k \in {vector(i)[n][1] : n \in found(i)} BY <2>5
    <2> QED BY <2>6, <1>10
  <1>16. ASSUME d[1] <= hi, NEW k \in RangeKeys(f, lo, hi)
         PROVE  k \in RowKeys(f.rows) /\ Matches(f.rows[k], lo, hi)
    <2>1. PICK i \in 1 .. Parts(Len(rows), size) : k \in {vector(i)[n][1] : n \in found(i)}
      <3> HIDE DEF vector, found, rows, size
      <3> QED BY <1>16, <1>10
    <2>2. PICK m \in found(i) : k = vector(i)[m][1]
      <3> HIDE DEF vector, found, rows, size
      <3> QED BY <2>1
    <2>3. m \in DOMAIN data(i) BY <2>2 DEF Selected
    <2>4. i \in 1 .. Parts(Len(rows), size) /\ DOMAIN data(i) = DOMAIN vector(i) BY <2>1
    <2>5. DOMAIN vector(i) = 1 .. PartLen(Len(rows), size, i)
      <3>1. /\ Part(rows, size, i) \in Seq(Nat \X Nat)
            /\ Len(Part(rows, size, i)) = PartLen(Len(rows), size, i)
        <4> HIDE DEF rows, size
        <4> QED BY <1>8, <1>9, <2>4, PartIs
      <3> HIDE DEF rows, size
      <3> QED BY <3>1
    <2>6. m \in 1 .. PartLen(Len(rows), size, i) BY <2>3, <2>4, <2>5
    <2>7. /\ k = keys[Before(size, i) + m] /\ Before(size, i) + m \in 1 .. Len(keys)
          /\ Matches(f.rows[k], lo, hi)
      BY <2>6, <2>1, <2>2, <1>13, <1>14, <1>16
    <2> QED BY <2>7, <1>4
  <1>17. d # <<>> BY <1>11
  <1> QED BY <1>15, <1>16, <1>17

-----------------------------------------------------------------------------
(* One step of each of the recursive functions of MultiKeyRead.            *)
Stepped(p, i, x) ==
    CASE p.by = "answers" -> Answers(x, p.more[i])
      [] p.by = "merge" -> MergeStep(p.res, p.am, x)
      [] p.by = "memtable" -> MergeK(p.first[i], x, p.k)
      [] p.by = "file" -> KStep(x, p.on[i], p.key, p.k)
      [] p.by = "block" -> IF i < p.from THEN <<>> ELSE x \o p.kept[i]

(* The n values of such a function b after the first.                      *)
Chain(b, p, init, n) == [i \in 0 .. n |-> IF i = 0 THEN init ELSE Stepped(p, i, b[i - 1])]

(* A function defined by one of them from the value before is there.       *)
LEMMA ChainIs ==
  ASSUME NEW p, NEW init, NEW n \in Nat
  PROVE  \E b : b = Chain(b, p, init, n)
  <1> DEFINE T == {m \in Nat : \E b : b = Chain(b, p, init, m)}
  <1>1. 0 \in T
    <2>1. [i \in 0 .. 0 |-> init] = Chain([i \in 0 .. 0 |-> init], p, init, 0) BY DEF Chain
    <2> QED BY <2>1
  <1>2. ASSUME NEW m \in Nat, m \in T PROVE m + 1 \in T
    <2>1. PICK b : b = Chain(b, p, init, m) BY <1>2
    <2> DEFINE c == [i \in 0 .. m + 1 |-> IF i = m + 1 THEN Stepped(p, i, b[m]) ELSE b[i]]
    <2>2. ASSUME NEW i \in 0 .. m + 1
          PROVE  c[i] = IF i = 0 THEN init ELSE Stepped(p, i, c[i - 1])
      <3>1. CASE i = m + 1
        <4>1. c[i - 1] = b[m] /\ c[i] = Stepped(p, i, b[m]) BY <3>1
        <4> QED BY <3>1, <4>1
      <3>2. CASE i # m + 1
        <4>1. i \in 0 .. m /\ c[i] = b[i] BY <3>2
        <4>2. CASE i = 0 BY <2>1, <4>1, <4>2 DEF Chain
        <4>3. CASE i # 0
          <5>1. i - 1 \in 0 .. m + 1 /\ i - 1 # m + 1 BY <4>1, <4>3
          <5>2. c[i - 1] = b[i - 1] BY <5>1
          <5>3. b[i] = Stepped(p, i, b[i - 1]) BY <2>1, <4>1, <4>3 DEF Chain
          <5> QED BY <4>1, <4>3, <5>2, <5>3
        <4> QED BY <4>2, <4>3
      <3> QED BY <3>1, <3>2
    <2>3. c = Chain(c, p, init, m + 1)
      <3>1. c = [i \in 0 .. m + 1 |-> c[i]] OBVIOUS
      <3> HIDE DEF c
      <3> QED BY <2>2, <3>1 DEF Chain
    <2> HIDE DEF c
    <2> QED BY <2>3
  <1> HIDE DEF T
  <1>3. \A m \in Nat : m \in T BY <1>1, <1>2, Induction
  <1> QED BY <1>3 DEF T

(* An answer is not lost or changed by later ones.                         *)
LEMMA AnswersAre ==
  ASSUME NEW a, NEW b
  PROVE  /\ DOMAIN Answers(a, b) = DOMAIN a \cup DOMAIN b
         /\ \A k \in DOMAIN a : Answers(a, b)[k] = a[k]
         /\ \A k \in DOMAIN b : k \notin DOMAIN a => Answers(a, b)[k] = b[k]
BY DEF Answers

(* Answers collected from n places: of every key the first.                *)
Collected(b, more, n) ==
    /\ \A k \in DOMAIN b[0] : k \in DOMAIN b[n] /\ b[n][k] = b[0][k]
    /\ \A i \in 1 .. n : \A k \in DOMAIN more[i] :
         /\ k \in DOMAIN b[n]
         /\ k \notin DOMAIN b[0] /\ (\A j \in 1 .. i - 1 : k \notin DOMAIN more[j]) =>
               b[n][k] = more[i][k]
    /\ \A k \in DOMAIN b[n] : k \in DOMAIN b[0] \/ \E i \in 1 .. n : k \in DOMAIN more[i]

(* So b collects, whatever the places are.                                 *)
LEMMA AnswersChain ==
  ASSUME NEW n \in Nat, NEW more, NEW b,
         \A i \in 1 .. n : b[i] = Answers(b[i - 1], more[i])
  PROVE  Collected(b, more, n)
  <1> DEFINE P(m) == Collected(b, more, m)
             T == {m \in Nat : m <= n => P(m)}
  <1>1. 0 \in T BY DEF Collected
  <1>2. ASSUME NEW m \in Nat, m \in T PROVE m + 1 \in T
    <2> SUFFICES ASSUME m + 1 <= n PROVE P(m + 1) OBVIOUS
    <2>1. P(m) BY <1>2
    <2> USE DEF Collected
    <2>2. b[m + 1] = Answers(b[m], more[m + 1])
      <3>1. m + 1 \in 1 .. n /\ (m + 1) - 1 = m OBVIOUS
      <3> QED BY <3>1
    <2> DEFINE a == b[m]  c == b[m + 1]  d == more[m + 1]
    <2>3. /\ DOMAIN c = DOMAIN a \cup DOMAIN d
          /\ \A k \in DOMAIN a : c[k] = a[k]
          /\ \A k \in DOMAIN d : k \notin DOMAIN a => c[k] = d[k]
      <3>1. c = Answers(a, d) BY <2>2
      <3> HIDE DEF a, c, d
      <3>2. /\ DOMAIN Answers(a, d) = DOMAIN a \cup DOMAIN d
            /\ \A k \in DOMAIN a : Answers(a, d)[k] = a[k]
            /\ \A k \in DOMAIN d : k \notin DOMAIN a => Answers(a, d)[k] = d[k]
        BY AnswersAre
      <3> QED BY <3>1, <3>2
    <2>4. \A k \in DOMAIN b[0] : k \in DOMAIN c /\ c[k] = b[0][k] BY <2>1, <2>3
    <2>5. ASSUME NEW i \in 1 .. m + 1, NEW k \in DOMAIN more[i]
          PROVE  /\ k \in DOMAIN c
                 /\ k \notin DOMAIN b[0] /\ (\A j \in 1 .. i - 1 : k \notin DOMAIN more[j]) =>
                      c[k] = more[i][k]
      <3>1. CASE i = m + 1
        <4>1. k \in DOMAIN c BY <2>3, <3>1
        <4>2. ASSUME k \notin DOMAIN b[0], \A j \in 1 .. i - 1 : k \notin DOMAIN more[j]
              PROVE  c[k] = more[i][k]
          <5>1. k \notin DOMAIN a BY <2>1, <4>2, <3>1
          <5> QED BY <5>1, <2>3, <3>1
        <4> QED BY <4>1, <4>2
      <3>2. CASE i # m + 1
        <4>1. i \in 1 .. m BY <3>2
        <4> QED BY <4>1, <2>1, <2>3
      <3> QED BY <3>1, <3>2
    <2>6. ASSUME NEW k \in DOMAIN c
          PROVE  k \in DOMAIN b[0] \/ \E i \in 1 .. m + 1 : k \in DOMAIN more[i]
      BY <2>1, <2>3
    <2> QED BY <2>4, <2>5, <2>6
  <1> HIDE DEF T
  <1>3. \A m \in Nat : m \in T BY <1>1, <1>2, Induction
  <1>4. n \in T BY <1>3
  <1> USE DEF T
  <1> QED BY <1>4

-----------------------------------------------------------------------------
(* GetTuplesFromRange collects answers from memtables, then from files.    *)
LEMMA RangeAnswersAre ==
  ASSUME NEW lo, NEW hi, Len(memtables) \in Nat, Len(FileIndex[0] \o FileIndex[1]) \in Nat
  PROVE  \E mem, all :
           LET n == Len(memtables)
               files == FileIndex[0] \o FileIndex[1]
           IN  /\ RangeAnswers(lo, hi) = all[Len(files)]
               /\ mem[0] = <<>>
               /\ \A i \in 1 .. n : mem[i] = Answers(mem[i - 1], MemAnswers(Newest(i), lo, hi))
               /\ all[0] = mem[n]
               /\ \A i \in 1 .. Len(files) :
                     all[i] = Answers(all[i - 1], FileAnswers(files[i], lo, hi))
  <1> DEFINE n == Len(memtables)
             files == FileIndex[0] \o FileIndex[1]
             F(b) == [i \in 0 .. n |-> IF i = 0 THEN <<>>
                                       ELSE Answers(b[i - 1], MemAnswers(Newest(i), lo, hi))]
             mem == CHOOSE b : b = F(b)
             G(b) == [i \in 0 .. Len(files) |-> IF i = 0 THEN mem[n]
                         ELSE Answers(b[i - 1], FileAnswers(files[i], lo, hi))]
             all == CHOOSE b : b = G(b)
  <1>1. RangeAnswers(lo, hi) = all[Len(files)] BY DEF RangeAnswers
  <1>2. mem = F(mem)
    <2> DEFINE p == [by |-> "answers", more |-> [i \in 1 .. n |-> MemAnswers(Newest(i), lo, hi)]]
    <2>1. PICK b : b = Chain(b, p, <<>>, n) BY ChainIs
    <2>2. \A i \in 1 .. n : \A x : Stepped(p, i, x) = Answers(x, MemAnswers(Newest(i), lo, hi))
      BY DEF Stepped
    <2> HIDE DEF p
    <2>3. b = F(b)
      <3>1. \A i \in 0 .. n : i = 0 \/ i \in 1 .. n OBVIOUS
      <3> QED BY <2>1, <2>2, <3>1 DEF Chain
    <2> HIDE DEF F
    <2> QED BY <2>3
  <1>3. all = G(all)
    <2> DEFINE p == [by |-> "answers", more |-> [i \in 1 .. Len(files) |-> FileAnswers(files[i], lo, hi)]]
               init == mem[n]
    <2> HIDE DEF mem
    <2>1. PICK b : b = Chain(b, p, init, Len(files)) BY ChainIs
    <2>2. \A i \in 1 .. Len(files) : \A x : Stepped(p, i, x) = Answers(x, FileAnswers(files[i], lo, hi))
      BY DEF Stepped
    <2> HIDE DEF p, files
    <2>3. b = G(b)
      <3>1. \A i \in 0 .. Len(files) : i = 0 \/ i \in 1 .. Len(files) OBVIOUS
      <3> QED BY <2>1, <2>2, <3>1 DEF Chain
    <2> HIDE DEF G
    <2> QED BY <2>3
  <1> HIDE DEF mem, all
  <1>4. mem[0] = <<>> /\ \A i \in 1 .. n : mem[i] = Answers(mem[i - 1], MemAnswers(Newest(i), lo, hi))
    BY <1>2
  <1>5. all[0] = mem[n] /\ \A i \in 1 .. Len(files) :
                       all[i] = Answers(all[i - 1], FileAnswers(files[i], lo, hi))
    <2> HIDE DEF files
    <2> QED BY <1>3
  <1> QED BY <1>1, <1>4, <1>5

(* The answers of the memtables come before those of the files.            *)
LEMMA RangeFrom ==
  ASSUME NEW lo, NEW hi, FilesInv
  PROVE  LET n == Len(memtables)
             files == FileIndex[0] \o FileIndex[1]
             answers == RangeAnswers(lo, hi)
         IN  /\ \A i \in 1 .. n : \A k \in DOMAIN MemAnswers(Newest(i), lo, hi) :
                  /\ k \in DOMAIN answers
                  /\ (\A j \in 1 .. i - 1 : k \notin DOMAIN MemAnswers(Newest(j), lo, hi)) =>
                        answers[k] = MemAnswers(Newest(i), lo, hi)[k]
             /\ \A i \in 1 .. Len(files) : \A k \in RangeKeys(files[i], lo, hi) : k \in DOMAIN answers
             /\ \A k \in DOMAIN answers :
                  \/ \E i \in 1 .. n : k \in DOMAIN MemAnswers(Newest(i), lo, hi)
                  \/ \E i \in 1 .. Len(files) : k \in RangeKeys(files[i], lo, hi)
  <1> DEFINE n == Len(memtables)
             files == FileIndex[0] \o FileIndex[1]
             fromMem == [i \in 1 .. n |-> MemAnswers(Newest(i), lo, hi)]
             fromFile == [i \in 1 .. Len(files) |-> FileAnswers(files[i], lo, hi)]
             none == [i \in {} |-> i]
  <1>1. n \in Nat BY DEF FilesInv
  <1>2. Len(files) \in Nat
    <2>1. FileIndex[0] \in Seq(Range(FileIndex[0])) /\ FileIndex[1] \in Seq(Range(FileIndex[1]))
      BY DEF FilesInv, LevelOK, Levels
    <2> DEFINE X == Range(FileIndex[0]) \cup Range(FileIndex[1])
               a == FileIndex[0]
               c == FileIndex[1]
    <2>2. a \in Seq(X) /\ c \in Seq(X) BY <2>1
    <2> HIDE DEF a, c, X
    <2>3. Len(a \o c) \in Nat BY <2>2
    <2> QED BY <2>3 DEF a, c
  <1>3. PICK mem, all : 
                 /\ RangeAnswers(lo, hi) = all[Len(files)]
                 /\ mem[0] = <<>>
                 /\ \A i \in 1 .. n : mem[i] = Answers(mem[i - 1], MemAnswers(Newest(i), lo, hi))
                 /\ all[0] = mem[n]
                 /\ \A i \in 1 .. Len(files) :
                       all[i] = Answers(all[i - 1], FileAnswers(files[i], lo, hi))
    BY <1>1, <1>2, RangeAnswersAre
  <1>4. \A i \in 1 .. n : mem[i] = Answers(mem[i - 1], fromMem[i]) BY <1>3
  <1>5. \A i \in 1 .. Len(files) : all[i] = Answers(all[i - 1], fromFile[i])
    <2> HIDE DEF files
    <2> QED BY <1>3
  <1>6. DOMAIN mem[0] = {} BY <1>3
  <1> HIDE DEF files
  <1>7. \A i \in 1 .. n : fromMem[i] = MemAnswers(Newest(i), lo, hi) OBVIOUS
  <1>8. \A i \in 1 .. Len(files) : DOMAIN fromFile[i] = RangeKeys(files[i], lo, hi) BY DEF FileAnswers
  <1> HIDE DEF fromMem, fromFile
  <1>9. /\ \A k \in DOMAIN mem[0] : k \in DOMAIN mem[n] /\ mem[n][k] = mem[0][k]
        /\ \A i \in 1 .. n : \A k \in DOMAIN fromMem[i] :
                /\ k \in DOMAIN mem[n]
                /\ k \notin DOMAIN mem[0] /\ (\A j \in 1 .. i - 1 : k \notin DOMAIN fromMem[j]) =>
                      mem[n][k] = fromMem[i][k]
        /\ \A k \in DOMAIN mem[n] :
                k \in DOMAIN mem[0] \/ \E i \in 1 .. n : k \in DOMAIN fromMem[i]
    <2> HIDE DEF n
    <2>1. Collected(mem, fromMem, n) BY <1>1, <1>4, AnswersChain
    <2> QED BY <2>1 DEF Collected
  <1>10. /\ \A k \in DOMAIN mem[n] : k \in DOMAIN all[Len(files)] /\ all[Len(files)][k] = mem[n][k]
         /\ \A i \in 1 .. Len(files) : \A k \in DOMAIN fromFile[i] : k \in DOMAIN all[Len(files)]
         /\ \A k \in DOMAIN all[Len(files)] :
                k \in DOMAIN mem[n] \/ \E i \in 1 .. Len(files) : k \in DOMAIN fromFile[i]
    <2> DEFINE m == Len(files)
    <2>1. m \in Nat /\ all[0] = mem[n] /\ \A i \in 1 .. m : all[i] = Answers(all[i - 1], fromFile[i])
      BY <1>2, <1>3, <1>5
    <2> HIDE DEF m
    <2>2. Collected(all, fromFile, m) BY <2>1, AnswersChain
    <2>3. /\ \A k \in DOMAIN all[0] : k \in DOMAIN all[m] /\ all[m][k] = all[0][k]
          /\ \A i \in 1 .. m : \A k \in DOMAIN fromFile[i] : k \in DOMAIN all[m]
          /\ \A k \in DOMAIN all[m] :
                k \in DOMAIN all[0] \/ \E i \in 1 .. m : k \in DOMAIN fromFile[i]
      BY <2>2 DEF Collected
    <2> QED BY <2>1, <2>3 DEF m
  <1>11. ASSUME NEW i \in 1 .. n, NEW k \in DOMAIN fromMem[i]
         PROVE  /\ k \in DOMAIN all[Len(files)]
                /\ (\A j \in 1 .. i - 1 : k \notin DOMAIN fromMem[j]) =>
                      all[Len(files)][k] = fromMem[i][k]
    BY <1>6, <1>9, <1>10
  <1>12. \A k \in DOMAIN all[Len(files)] :
            \/ \E i \in 1 .. n : k \in DOMAIN fromMem[i]
            \/ \E i \in 1 .. Len(files) : k \in DOMAIN fromFile[i]
    BY <1>6, <1>9, <1>10
  <1>13. ASSUME NEW i \in 1 .. n, NEW k \in DOMAIN MemAnswers(Newest(i), lo, hi)
         PROVE  /\ k \in DOMAIN RangeAnswers(lo, hi)
                /\ (\A j \in 1 .. i - 1 : k \notin DOMAIN MemAnswers(Newest(j), lo, hi)) =>
                          RangeAnswers(lo, hi)[k] = MemAnswers(Newest(i), lo, hi)[k]
    <2>1. \A j \in 1 .. i - 1 : j \in 1 .. n BY <1>1
    <2> QED BY <1>3, <1>7, <1>11, <2>1
  <1>14. \A i \in 1 .. Len(files) : \A k \in RangeKeys(files[i], lo, hi) :
            k \in DOMAIN RangeAnswers(lo, hi)
    BY <1>3, <1>8, <1>10
  <1>15. \A k \in DOMAIN RangeAnswers(lo, hi) :
            \/ \E i \in 1 .. n : k \in DOMAIN MemAnswers(Newest(i), lo, hi)
            \/ \E i \in 1 .. Len(files) : k \in RangeKeys(files[i], lo, hi)
    BY <1>3, <1>7, <1>8, <1>12
  <1> QED BY <1>13, <1>14, <1>15 DEF files

(* The newest memtable that has a key.                                     *)
LEMMA MemGetIs ==
  ASSUME FilesInv, NoDeletes, NEW k \in Key
  PROVE  \/ MemGet(k) = Absent /\ \A n \in DOMAIN memtables : k \notin RowKeys(memtables[n])
         \/ \E n \in DOMAIN memtables :
              /\ MemGet(k) = memtables[n][k] /\ k \in RowKeys(memtables[n])
              /\ \A m \in DOMAIN memtables : n < m => k \notin RowKeys(memtables[m])
  <1> DEFINE hits == {n \in DOMAIN memtables : memtables[n][k] \notin {Absent, Tombstone}}
  <1>1. memtables \in Seq(Batch) /\ Len(memtables) \in Nat
        /\ DOMAIN memtables = 1 .. Len(memtables)
    BY DEF FilesInv
  <1>2. \A n \in DOMAIN memtables : n \in hits <=> k \in RowKeys(memtables[n])
    BY <1>1 DEF RowKeys, NoDeletes
  <1>3. MemGet(k) = IF hits = {} THEN Absent ELSE memtables[Max(hits)][k] BY DEF MemGet
  <1>4. hits \subseteq Nat /\ (\A n \in hits : n <= Len(memtables)) /\ hits \subseteq DOMAIN memtables
    BY <1>1
  <1> HIDE DEF hits
  <1>5. CASE hits = {} BY <1>2, <1>3, <1>5
  <1>6. CASE hits # {}
    <2>1. Max(hits) \in hits /\ \A n \in hits : n <= Max(hits) BY <1>1, <1>4, <1>6, MaxIs
    <2> DEFINE n == Max(hits)
    <2>2. n \in DOMAIN memtables /\ k \in RowKeys(memtables[n]) /\ MemGet(k) = memtables[n][k]
      BY <2>1, <1>2, <1>3, <1>4, <1>6
    <2>3. \A m \in DOMAIN memtables : n < m => k \notin RowKeys(memtables[m])
      <3>1. n \in Nat BY <2>1, <1>4
      <3>2. \A m \in DOMAIN memtables : m \in Nat BY <1>1
      <3> QED BY <3>1, <3>2, <2>1, <1>2
    <2> QED BY <2>2, <2>3
  <1> QED BY <1>5, <1>6

(* The answers of a memtable.                                              *)
LEMMA MemAnswersAre ==
  ASSUME FilesInv, NoDeletes, NEW n \in DOMAIN memtables, NEW lo, NEW hi
  PROVE  /\ \A k : k \in DOMAIN MemAnswers(n, lo, hi) <=>
               k \in RowKeys(memtables[n]) /\ Matches(memtables[n][k], lo, hi)
         /\ \A k \in DOMAIN MemAnswers(n, lo, hi) : MemAnswers(n, lo, hi)[k] = memtables[n][k]
  <1>1. memtables[n] \in Batch BY DEF FilesInv
  <1>2. \A k \in Key : memtables[n][k] # Tombstone BY <1>1 DEF NoDeletes
  <1>3. {k \in RowKeys(memtables[n]) : Matches(memtables[n][k], lo, hi)} =
          {q \in Key : /\ memtables[n][q] \notin {Absent, Tombstone}
                            /\ Matches(memtables[n][q], lo, hi)}
    BY <1>2 DEF RowKeys
  <1> QED BY <1>3 DEF MemAnswers

(* The files of both levels, one after the other.                          *)
LEMMA FilesTogether ==
  ASSUME FilesInv
  PROVE  LET files == FileIndex[0] \o FileIndex[1]
         IN  /\ \A l \in Levels : \A j \in DOMAIN FileIndex[l] :
                  \E i \in 1 .. Len(files) : files[i] = FileIndex[l][j]
             /\ \A i \in 1 .. Len(files) : files[i] \in AllFiles
  <1> DEFINE a == FileIndex[0]
             c == FileIndex[1]
             X == Range(a) \cup Range(c)
  <1>1. a \in Seq(Range(a)) /\ c \in Seq(Range(c))
    BY DEF FilesInv, LevelOK, Levels
  <1>2. a \in Seq(X) /\ c \in Seq(X) BY <1>1
  <1>3. X = AllFiles BY DEF AllFiles
  <1>4. \A l \in Levels : FileIndex[l] = IF l = 0 THEN a ELSE c BY DEF Levels
  <1> HIDE DEF a, c, X
  <1>5. /\ a \o c \in Seq(X) /\ Len(a) \in Nat /\ Len(c) \in Nat
        /\ Len(a \o c) = Len(a) + Len(c)
        /\ \A i \in 1 .. Len(a) : (a \o c)[i] = a[i]
        /\ \A i \in 1 .. Len(a) + Len(c) :
                 i > Len(a) => i - Len(a) \in 1 .. Len(c) /\ (a \o c)[i] = c[i - Len(a)]
    BY <1>2, Concat
  <1>6. DOMAIN a = 1 .. Len(a) /\ DOMAIN c = 1 .. Len(c) BY <1>2
  <1>7. \A i \in 1 .. Len(a \o c) : (a \o c)[i] \in X BY <1>5
  <1>8. \A j \in DOMAIN a : \E i \in 1 .. Len(a \o c) : (a \o c)[i] = a[j]
    BY <1>5, <1>6
  <1>9. \A j \in DOMAIN c : \E i \in 1 .. Len(a \o c) : (a \o c)[i] = c[j]
    <2> TAKE j \in DOMAIN c
    <2>1. Len(a) + j \in 1 .. Len(a \o c) /\ Len(a) + j > Len(a) /\ (Len(a) + j) - Len(a) = j
      BY <1>5, <1>6
    <2> QED BY <2>1, <1>5
  <1>10. \A l \in Levels : \A j \in DOMAIN FileIndex[l] :
                    \E i \in 1 .. Len(a \o c) : (a \o c)[i] = FileIndex[l][j]
    BY <1>4, <1>8, <1>9
  <1> QED BY <1>3, <1>7, <1>10 DEF a, c

(* A key put whose tuple lies in the range is answered.                    *)
LEMMA RangeFinds ==
  ASSUME FilesInv, NoDeletes, NEW lo \in Nat, NEW hi \in Nat, NEW k \in put,
         Matches(Get(k), lo, hi)
  PROVE  /\ k \in DOMAIN RangeAnswers(lo, hi)
         /\ MemGet(k) # Absent => RangeAnswers(lo, hi)[k] = MemGet(k)
  <1> DEFINE answers == RangeAnswers(lo, hi)
             files == FileIndex[0] \o FileIndex[1]
  <1>1. k \in Key /\ k \in MemKeys \cup AllKeys(FileIndex[0]) \cup AllKeys(FileIndex[1])
    BY DEF FilesInv, MemKeys, AllKeys, RowKeys
  <1>2. /\ \A i \in 1 .. Len(memtables) : \A q \in DOMAIN MemAnswers(Newest(i), lo, hi) :
                    /\ q \in DOMAIN answers
                    /\ (\A j \in 1 .. i - 1 : q \notin DOMAIN MemAnswers(Newest(j), lo, hi)) =>
                          answers[q] = MemAnswers(Newest(i), lo, hi)[q]
        /\ \A i \in 1 .. Len(files) : \A q \in RangeKeys(files[i], lo, hi) : q \in DOMAIN answers
    BY RangeFrom
  <1>3. Len(memtables) \in Nat /\ DOMAIN memtables = 1 .. Len(memtables) BY DEF FilesInv
  <1>4. CASE \A n \in DOMAIN memtables : k \notin RowKeys(memtables[n])
    <2>1. MemGet(k) = Absent BY <1>1, <1>4, MemGetIs
    <2>2. \E l \in Levels : \E i \in FilesOf(FileIndex[l], k) : Get(k) = FileIndex[l][i].rows[k]
      <3>1. k \in AllKeys(FileIndex[0]) \cup AllKeys(FileIndex[1])
        BY <1>1, <1>4 DEF MemKeys
      <3>2. /\ \A i \in FilesOf(FileIndex[0], k) :
                     (\A j \in FilesOf(FileIndex[0], k) : i <= j)
                     => Get(k) = FileIndex[0][i].rows[k]
            /\ FilesOf(FileIndex[0], k) = {} =>
                     \A i \in FilesOf(FileIndex[1], k) : Get(k) = FileIndex[1][i].rows[k]
        BY <1>1, <1>4, GetIs
      <3>3. 0 \in Levels /\ 1 \in Levels BY DEF Levels
      <3>4. CASE FilesOf(FileIndex[0], k) = {}
        <4>1. k \in AllKeys(FileIndex[1]) BY <3>1, <3>4 DEF AllKeys, FilesOf
        <4>2. PICK i \in DOMAIN FileIndex[1] : k \in RowKeys(FileIndex[1][i].rows)
          BY <4>1 DEF AllKeys
        <4>3. i \in FilesOf(FileIndex[1], k) BY <4>2 DEF FilesOf
        <4> QED BY <4>3, <3>2, <3>3, <3>4
      <3>5. CASE FilesOf(FileIndex[0], k) # {}
        <4> DEFINE T == FilesOf(FileIndex[0], k)
        <4>1. FileIndex[0] \in Seq(Range(FileIndex[0])) BY DEF FilesInv, LevelOK, Levels
        <4>2. DOMAIN FileIndex[0] = 1 .. Len(FileIndex[0]) /\ Len(FileIndex[0]) \in Nat BY <4>1
        <4>3. T \subseteq Nat /\ T # {} BY <4>2, <3>5 DEF FilesOf
        <4> HIDE DEF T
        <4>4. PICK i \in T : \A j \in T : i <= j BY <4>3, LeastNumber
        <4> QED BY <4>4, <3>2, <3>3 DEF T
      <3> QED BY <3>4, <3>5
    <2>3. PICK l \in Levels : \E i \in FilesOf(FileIndex[l], k) : Get(k) = FileIndex[l][i].rows[k]
      BY <2>2
    <2>4. PICK i \in FilesOf(FileIndex[l], k) : Get(k) = FileIndex[l][i].rows[k] BY <2>3
    <2>5. i \in DOMAIN FileIndex[l] /\ k \in RowKeys(FileIndex[l][i].rows) BY <2>4 DEF FilesOf
    <2>6. FileMade(FileIndex[l][i]) /\ Clean(FileIndex[l][i].rows) BY <2>5, FileOfLevel
    <2>7. k \in RangeKeys(FileIndex[l][i], lo, hi)
      <3> DEFINE f == FileIndex[l][i]
      <3>1. FileMade(f) /\ Clean(f.rows) /\ k \in RowKeys(f.rows) /\ Matches(f.rows[k], lo, hi)
        BY <2>4, <2>5, <2>6
      <3> HIDE DEF f
      <3>2. k \in RangeKeys(f, lo, hi) BY <3>1, RangeKeysAre
      <3> QED BY <3>2 DEF f
    <2>8. \E j \in 1 .. Len(files) : files[j] = FileIndex[l][i] BY <2>5, FilesTogether
    <2>9. PICK j \in 1 .. Len(files) : files[j] = FileIndex[l][i] BY <2>8
    <2> HIDE DEF answers, files
    <2>10. k \in DOMAIN answers BY <1>2, <2>7, <2>9
    <2> QED BY <2>1, <2>10 DEF answers
  <1>5. CASE ~ \A n \in DOMAIN memtables : k \notin RowKeys(memtables[n])
    <2>1. PICK n \in DOMAIN memtables :
                /\ MemGet(k) = memtables[n][k] /\ k \in RowKeys(memtables[n])
                /\ \A m \in DOMAIN memtables : n < m => k \notin RowKeys(memtables[m])
      BY <1>1, <1>5, MemGetIs
    <2>2. Get(k) = memtables[n][k] BY <1>1, <2>1, GetIs
    <2> DEFINE i == Len(memtables) + 1 - n
    <2>3. i \in 1 .. Len(memtables) /\ Newest(i) = n BY <1>3 DEF Newest
    <2>4. k \in DOMAIN MemAnswers(n, lo, hi) /\ MemAnswers(n, lo, hi)[k] = memtables[n][k]
      <3>1. /\ \A q : q \in DOMAIN MemAnswers(n, lo, hi) <=>
                   q \in RowKeys(memtables[n]) /\ Matches(memtables[n][q], lo, hi)
            /\ \A q \in DOMAIN MemAnswers(n, lo, hi) : MemAnswers(n, lo, hi)[q] = memtables[n][q]
        BY <2>1, MemAnswersAre
      <3>2. k \in RowKeys(memtables[n]) /\ Matches(memtables[n][k], lo, hi) BY <2>1, <2>2
      <3> QED BY <3>1, <3>2
    <2>5. \A j \in 1 .. i - 1 : k \notin DOMAIN MemAnswers(Newest(j), lo, hi)
      <3> TAKE j \in 1 .. i - 1
      <3>1. Newest(j) \in DOMAIN memtables /\ n < Newest(j) BY <1>3 DEF Newest
      <3>2. k \notin RowKeys(memtables[Newest(j)]) BY <3>1, <2>1
      <3> DEFINE m == Newest(j)
      <3> HIDE DEF m
      <3>3. m \in DOMAIN memtables BY <3>1 DEF m
      <3>4. \A q : q \in DOMAIN MemAnswers(m, lo, hi) <=>
                   q \in RowKeys(memtables[m]) /\ Matches(memtables[m][q], lo, hi)
        BY <3>3, MemAnswersAre
      <3>5. k \notin DOMAIN MemAnswers(m, lo, hi) BY <3>2, <3>4 DEF m
      <3> QED BY <3>5 DEF m
    <2> HIDE DEF i, answers
    <2>6. k \in DOMAIN answers /\ answers[k] = memtables[n][k] BY <1>2, <2>3, <2>4, <2>5
    <2> QED BY <2>6, <2>1 DEF answers
  <1> QED BY <1>4, <1>5

(* A key that is answered has a tuple in the range.                        *)
LEMMA RangeKeeps ==
  ASSUME FilesInv, NoDeletes, NEW lo \in Nat, NEW hi \in Nat,
         \A f \in AllFiles : f.dictionary # <<>> /\ f.dictionary[1] <= hi,
         NEW k \in DOMAIN RangeAnswers(lo, hi)
  PROVE  \E value \in Versions(k) : Matches(value, lo, hi)
  <1> DEFINE files == FileIndex[0] \o FileIndex[1]
  <1>1. \/ \E i \in 1 .. Len(memtables) : k \in DOMAIN MemAnswers(Newest(i), lo, hi)
        \/ \E i \in 1 .. Len(files) : k \in RangeKeys(files[i], lo, hi)
    BY RangeFrom
  <1>2. Len(memtables) \in Nat /\ DOMAIN memtables = 1 .. Len(memtables) BY DEF FilesInv
  <1>3. CASE \E i \in 1 .. Len(memtables) : k \in DOMAIN MemAnswers(Newest(i), lo, hi)
    <2>1. PICK i \in 1 .. Len(memtables) : k \in DOMAIN MemAnswers(Newest(i), lo, hi) BY <1>3
    <2> DEFINE n == Newest(i)
    <2>2. n \in DOMAIN memtables BY <1>2 DEF Newest
    <2> HIDE DEF n
    <2>3. k \in RowKeys(memtables[n]) /\ Matches(memtables[n][k], lo, hi)
      <3>1. \A q : q \in DOMAIN MemAnswers(n, lo, hi) <=>
                   q \in RowKeys(memtables[n]) /\ Matches(memtables[n][q], lo, hi)
        BY <2>2, MemAnswersAre
      <3>2. k \in DOMAIN MemAnswers(n, lo, hi) BY <2>1 DEF n
      <3> QED BY <3>1, <3>2
    <2>4. memtables[n][k] \in Versions(k) BY <2>2, <2>3 DEF Versions, RowKeys
    <2> QED BY <2>3, <2>4
  <1>4. CASE \E i \in 1 .. Len(files) : k \in RangeKeys(files[i], lo, hi)
    <2>1. PICK i \in 1 .. Len(files) : k \in RangeKeys(files[i], lo, hi) BY <1>4
    <2> DEFINE f == files[i]
    <2>2. f \in AllFiles BY <2>1, FilesTogether
    <2> HIDE DEF f
    <2>3. FileMade(f) /\ Clean(f.rows) BY <2>2, FilesInvFiles
    <2>4. f.dictionary[1] <= hi BY <2>2
    <2>5. k \in RangeKeys(f, lo, hi) BY <2>1 DEF f
    <2>6. k \in RowKeys(f.rows) /\ Matches(f.rows[k], lo, hi) BY <2>3, <2>4, <2>5, RangeKeysAre
    <2>7. f.rows[k] \in Versions(k) BY <2>2, <2>6 DEF Versions, RowKeys
    <2> QED BY <2>6, <2>7
  <1> QED BY <1>1, <1>3, <1>4

(* If nothing is deleted, GetTuplesFromRange misses no key whose tuple     *)
(* lies in the range and gives the newest tuple of a memtable; what it     *)
(* gives beyond those has an older tuple in the range (RangeExact), for    *)
(* any number of memtables and files and any cut of them into vectors      *)
(* (GetTuplesFromRange, ApplyRangeFilter, AnswerMerger).                   *)
THEOREM RangeIsExact ==
  ASSUME NoDeletes
  PROVE  Spec => []RangeExact
  <1>1. FilesInv => RangeExact
    <2> SUFFICES ASSUME FilesInv, NEW lo \in Value, NEW hi \in Value
                 PROVE  LET answers == RangeAnswers(lo, hi)
                        IN  /\ \A key \in put :
                                  Matches(Get(key), lo, hi) =>
                                      /\ key \in DOMAIN answers
                                      /\ MemGet(key) # Absent => answers[key] = MemGet(key)
                            /\ (\A f \in AllFiles : f.dictionary # <<>> /\ f.dictionary[1] <= hi) =>
                                  \A key \in DOMAIN answers :
                                      \E value \in Versions(key) : Matches(value, lo, hi)
      BY DEF RangeExact
    <2>1. lo \in Nat /\ hi \in Nat BY RelFileAssumption
    <2>2. \A key \in put : Matches(Get(key), lo, hi) =>
             /\ key \in DOMAIN RangeAnswers(lo, hi)
             /\ MemGet(key) # Absent => RangeAnswers(lo, hi)[key] = MemGet(key)
      BY <2>1, RangeFinds
    <2>3. (\A f \in AllFiles : f.dictionary # <<>> /\ f.dictionary[1] <= hi) =>
             \A key \in DOMAIN RangeAnswers(lo, hi) :
                \E value \in Versions(key) : Matches(value, lo, hi)
      BY <2>1, RangeKeeps
    <2> QED BY <2>2, <2>3
  <1> QED BY <1>1, FilesAreMade, PTL

-----------------------------------------------------------------------------
(* Answers of ScanKTuples: keys with strings, ...                          *)
Tuple == Key \X Value
(* ... one after the other, ...                                            *)
Tuples(t) == t \in Seq(Tuple)
(* ... in the order of their keys.                                         *)
Rising(t) == \A i, j \in 1 .. Len(t) : i < j => t[i][1] < t[j][1]
(* There is a tuple of key q.                                              *)
Has(t, q) == \E i \in 1 .. Len(t) : t[i][1] = q
(* q comes after k tuples.                                                 *)
Beyond(t, q, k) == Len(t) = k /\ \A i \in 1 .. Len(t) : t[i][1] < q
(* In order, tuples of the keys of S, with the strings F gives.            *)
TuplesOf(t, S, F) ==
    /\ Tuples(t) /\ Rising(t)
    /\ \A i \in 1 .. Len(t) : t[i][1] \in S /\ t[i][2] = F[t[i][1]]
(* The first k of them, or all if there are not so many.                   *)
FirstOf(t, S, F, k) ==
    /\ TuplesOf(t, S, F) /\ Len(t) <= k
    /\ \A q \in S : Has(t, q) \/ Beyond(t, q, k)

(* What a tuple is.                                                        *)
LEMMA TupleFacts ==
  ASSUME NEW t, Tuples(t)
  PROVE  /\ Len(t) \in Nat /\ DOMAIN t = 1 .. Len(t)
         /\ \A i \in 1 .. Len(t) : /\ t[i] \in Tuple /\ t[i][1] \in Key /\ t[i][1] \in Nat
                                   /\ t[i][2] \in Value /\ t[i] = <<t[i][1], t[i][2]>>
  <1>1. Key \subseteq Nat BY KeyFacts
  <1>2. Len(t) \in Nat /\ DOMAIN t = 1 .. Len(t) /\ \A i \in 1 .. Len(t) : t[i] \in Tuple
    BY DEF Tuples
  <1>3. \A x \in Tuple : x[1] \in Key /\ x[2] \in Value /\ x = <<x[1], x[2]>> BY DEF Tuple
  <1> QED BY <1>1, <1>2, <1>3

(* One tuple more.                                                         *)
LEMMA AppendTuple ==
  ASSUME NEW t, Tuples(t), NEW e \in Tuple
  PROVE  LET u == Append(t, e)
         IN  /\ Tuples(u) /\ Len(u) = Len(t) + 1 /\ u[Len(t) + 1] = e
             /\ \A i \in 1 .. Len(t) : u[i] = t[i]
BY DEF Tuples

(* How far t has been taken into as, in n steps, if its tuples from c on   *)
(* are left.                                                               *)
Took(t, c, as, n) ==
    /\ c \in 1 .. Len(t) + 1 /\ c - 1 <= Len(as)
    /\ \A a \in 1 .. Len(t) : a < c => \E x \in 1 .. Len(as) : x >= a /\ as[x][1] = t[a][1]
    /\ c <= Len(t) => Len(as) = n /\ \A x \in 1 .. Len(as) : as[x][1] < t[c][1]

(* The next tuple of t is taken, ...                                       *)
LEMMA TookOne ==
  ASSUME NEW t, Tuples(t), Rising(t), NEW as, Tuples(as), NEW n \in Nat, Len(as) = n,
         NEW c, Took(t, c, as, n), c <= Len(t), NEW e \in Tuple, e[1] = t[c][1]
  PROVE  Took(t, c + 1, Append(as, e), n + 1)
  <1>1. /\ c \in 1 .. Len(t) + 1 /\ c - 1 <= Len(as)
        /\ \A a \in 1 .. Len(t) : a < c => \E x \in 1 .. Len(as) : x >= a /\ as[x][1] = t[a][1]
        /\ c <= Len(t) => Len(as) = n /\ \A x \in 1 .. Len(as) : as[x][1] < t[c][1]
    BY DEF Took
  <1> DEFINE u == Append(as, e)
  <1>2. /\ Tuples(u) /\ Len(u) = n + 1 /\ u[n + 1] = e
        /\ \A i \in 1 .. n : u[i] = as[i]
    BY AppendTuple
  <1>3. Len(t) \in Nat BY TupleFacts
  <1>4. c \in 1 .. Len(t) + 1 /\ c - 1 <= n BY <1>1
  <1>5. c \in Nat /\ c + 1 \in 1 .. Len(t) + 1 /\ (c + 1) - 1 <= Len(u) BY <1>2, <1>3, <1>4
  <1> HIDE DEF u
  <1>6. ASSUME NEW a \in 1 .. Len(t), a < c + 1
        PROVE  \E x \in 1 .. Len(u) : x >= a /\ u[x][1] = t[a][1]
    <2>1. CASE a < c
      <3>1. PICK x \in 1 .. Len(as) : x >= a /\ as[x][1] = t[a][1] BY <1>1, <2>1
      <3>2. x \in 1 .. n /\ x \in 1 .. Len(u) BY <1>2, <3>1
      <3>3. u[x] = as[x] BY <1>2, <3>2
      <3> QED BY <3>1, <3>2, <3>3
    <2>2. CASE a = c
      <3>1. n + 1 \in 1 .. Len(u) /\ n + 1 >= a BY <1>2, <1>4, <1>5, <2>2
      <3>2. u[n + 1][1] = t[a][1] BY <1>2, <2>2
      <3> QED BY <3>1, <3>2
    <2> QED BY <2>1, <2>2, <1>5, <1>6
  <1>7. ASSUME c + 1 <= Len(t), NEW x \in 1 .. Len(u)
        PROVE  u[x][1] < t[c + 1][1]
    <2>1. t[c][1] < t[c + 1][1] /\ t[c][1] \in Nat /\ t[c + 1][1] \in Nat
      <3>1. c + 1 \in 1 .. Len(t) BY <1>3, <1>5, <1>7
      <3>2. c \in 1 .. Len(t) /\ c < c + 1 BY <1>3, <1>4, <1>5
      <3>3. t[c][1] < t[c + 1][1] BY <3>1, <3>2 DEF Rising
      <3>4. t[c][1] \in Nat /\ t[c + 1][1] \in Nat BY <3>1, <3>2, TupleFacts
      <3> QED BY <3>3, <3>4
    <2>2. CASE x = n + 1
      <3>1. u[x][1] = t[c][1] BY <1>2, <2>2
      <3> QED BY <2>1, <3>1
    <2>3. CASE x # n + 1
      <3>1. x \in 1 .. n BY <1>2, <2>3
      <3>2. u[x] = as[x] BY <1>2, <3>1
      <3>3. u[x][1] = as[x][1] BY <3>2
      <3>4. as[x][1] < t[c][1] BY <3>1, <1>1
      <3>5. as[x][1] \in Nat BY <3>1, TupleFacts
      <3> DEFINE v == u[x][1]  w == as[x][1]  y == t[c][1]  z == t[c + 1][1]
      <3>6. v = w /\ w < y /\ y < z /\ w \in Nat /\ y \in Nat /\ z \in Nat
        BY <3>4, <3>5, <3>3, <2>1
      <3> HIDE DEF v, w, y, z
      <3>7. v < z BY <3>6
      <3> QED BY <3>7 DEF v, z
    <2> QED BY <2>2, <2>3
  <1>8. Took(t, c + 1, u, n + 1) BY <1>2, <1>5, <1>6, <1>7 DEF Took
  <1> QED BY <1>8 DEF u

(* ... or one of a smaller key, from elsewhere.                            *)
LEMMA TookOther ==
  ASSUME NEW t, Tuples(t), NEW as, Tuples(as), NEW n \in Nat, Len(as) = n,
         NEW c, Took(t, c, as, n), NEW e \in Tuple, c <= Len(t) => e[1] < t[c][1]
  PROVE  Took(t, c, Append(as, e), n + 1)
  <1>1. /\ c \in 1 .. Len(t) + 1 /\ c - 1 <= Len(as)
        /\ \A a \in 1 .. Len(t) : a < c => \E x \in 1 .. Len(as) : x >= a /\ as[x][1] = t[a][1]
        /\ c <= Len(t) => Len(as) = n /\ \A x \in 1 .. Len(as) : as[x][1] < t[c][1]
    BY DEF Took
  <1> DEFINE u == Append(as, e)
  <1>2. /\ Tuples(u) /\ Len(u) = n + 1 /\ u[n + 1] = e
        /\ \A i \in 1 .. n : u[i] = as[i]
    BY AppendTuple
  <1>3. Len(t) \in Nat BY TupleFacts
  <1>4. c \in 1 .. Len(t) + 1 /\ c - 1 <= n BY DEF Took
  <1> HIDE DEF u
  <1>5. c - 1 <= Len(u) BY <1>2, <1>3, <1>4
  <1>6. ASSUME NEW a \in 1 .. Len(t), a < c
        PROVE  \E x \in 1 .. Len(u) : x >= a /\ u[x][1] = t[a][1]
    <2>1. PICK x \in 1 .. Len(as) : x >= a /\ as[x][1] = t[a][1] BY <1>1, <1>6
    <2>2. x \in 1 .. n /\ x \in 1 .. Len(u) BY <1>2, <2>1
    <2>3. u[x] = as[x] BY <1>2, <2>2
    <2> QED BY <2>1, <2>2, <2>3
  <1>7. ASSUME c <= Len(t), NEW x \in 1 .. Len(u)
        PROVE  u[x][1] < t[c][1]
    <2>1. CASE x = n + 1
      <3>1. u[x][1] = e[1] BY <1>2, <2>1
      <3> QED BY <1>7, <3>1
    <2>2. CASE x # n + 1
      <3>1. x \in 1 .. n BY <1>2, <2>2
      <3>2. u[x][1] = as[x][1] BY <1>2, <3>1
      <3>3. as[x][1] < t[c][1] BY <1>1, <1>7, <3>1
      <3> QED BY <3>2, <3>3
    <2> QED BY <2>1, <2>2
  <1>8. Took(t, c, u, n + 1) BY <1>2, <1>4, <1>5, <1>6, <1>7 DEF Took
  <1> QED BY <1>8 DEF u

(* What of the first k keys of S is taken in k steps.                      *)
LEMMA TookAll ==
  ASSUME NEW k \in Nat, NEW t, NEW S, S \subseteq Key, NEW F, FirstOf(t, S, F, k),
         NEW as, Tuples(as), Rising(as), Len(as) <= k, NEW c, Took(t, c, as, k),
         NEW q \in S
  PROVE  /\ Has(as, q) \/ Beyond(as, q, k)
         /\ ~Has(t, q) => Beyond(as, q, k)
  <1>1. /\ c \in 1 .. Len(t) + 1 /\ c - 1 <= Len(as)
        /\ \A a \in 1 .. Len(t) : a < c => \E x \in 1 .. Len(as) : x >= a /\ as[x][1] = t[a][1]
        /\ c <= Len(t) => Len(as) = k /\ \A x \in 1 .. Len(as) : as[x][1] < t[c][1]
    BY DEF Took
  <1>2. Tuples(t) /\ Rising(t) /\ Len(t) <= k BY DEF FirstOf, TuplesOf
  <1>3. Len(t) \in Nat /\ Len(as) \in Nat /\ c \in 1 .. Len(t) + 1 /\ q \in Nat
    BY <1>1, <1>2, TupleFacts, KeyFacts
  <1>4. /\ \A i \in 1 .. Len(t) : t[i][1] \in Nat
        /\ \A i \in 1 .. Len(as) : as[i][1] \in Nat
    BY <1>2, TupleFacts
  <1>5. ASSUME NEW a \in 1 .. Len(t), c <= a, t[a][1] <= q
        PROVE  Beyond(as, q, k)
    <2>1. c <= Len(t) /\ c \in 1 .. Len(t) BY <1>3, <1>5
    <2>2. Len(as) = k /\ \A x \in 1 .. Len(as) : as[x][1] < t[c][1] BY <1>1, <2>1
    <2>3. t[c][1] <= t[a][1]
      <3>1. CASE c = a BY <3>1, <1>4
      <3>2. CASE c # a
        <4>1. c < a BY <1>3, <1>5, <3>2
        <4>2. t[c][1] < t[a][1] BY <4>1, <2>1, <1>2 DEF Rising
        <4> QED BY <4>2, <2>1, <1>4
      <3> QED BY <3>1, <3>2
    <2>4. t[c][1] \in Nat /\ t[a][1] \in Nat BY <2>1, <1>4
    <2>5. \A x \in 1 .. Len(as) : as[x][1] < q
      <3> TAKE x \in 1 .. Len(as)
      <3>1. as[x][1] < t[c][1] /\ as[x][1] \in Nat BY <2>2, <1>4
      <3> DEFINE v == as[x][1]  y == t[c][1]  z == t[a][1]
      <3>2. v < y /\ y <= z /\ z <= q /\ v \in Nat /\ y \in Nat /\ z \in Nat /\ q \in Nat
        BY <3>1, <2>3, <2>4, <1>3, <1>5
      <3> HIDE DEF v, y, z
      <3>3. v < q BY <3>2
      <3> QED BY <3>3 DEF v
    <2> QED BY <2>2, <2>5 DEF Beyond
  <1>6. ASSUME ~Has(t, q)
        PROVE  Beyond(as, q, k)
    <2>1. Len(t) = k /\ \A i \in 1 .. Len(t) : t[i][1] < q BY <1>6 DEF FirstOf, Beyond
    <2>2. CASE c <= Len(t)
      <3>1. c \in 1 .. Len(t) /\ c <= c BY <1>3, <2>2
      <3>2. t[c][1] <= q BY <2>1, <3>1, <1>3, <1>4
      <3> QED BY <3>1, <3>2, <1>5
    <2>3. CASE ~(c <= Len(t))
      <3>1. c = k + 1 BY <1>3, <2>1, <2>3
      <3>2. CASE k = 0
        <4>1. Len(as) <= k OBVIOUS
        <4>2. Len(as) = 0
          <5> DEFINE n == Len(as)
          <5>1. n \in Nat /\ n <= k BY <1>3, <4>1
          <5> HIDE DEF n
          <5>2. n = 0 BY <5>1, <3>2
          <5> QED BY <5>2 DEF n
        <4>3. \A i \in 1 .. Len(as) : as[i][1] < q BY <4>2
        <4> QED BY <4>2, <4>3, <3>2 DEF Beyond
      <3>3. CASE k # 0
        <4>1. k \in 1 .. Len(t) /\ k < c BY <2>1, <3>1, <3>3
        <4>2. PICK x \in 1 .. Len(as) : x >= k /\ as[x][1] = t[k][1] BY <1>1, <4>1
        <4>3. x = k /\ Len(as) = k
          <5> DEFINE n == Len(as)
          <5>1. n \in Nat /\ n <= k /\ x \in 1 .. n /\ x >= k BY <4>2, <1>3
          <5> HIDE DEF n
          <5>2. x = k BY <5>1
          <5>3. n = k BY <5>1
          <5> QED BY <5>2, <5>3 DEF n
        <4>4. as[k][1] = t[k][1] BY <4>2, <4>3
        <4>5. as[k][1] < q BY <4>1, <4>4, <2>1
        <4>6. \A y \in 1 .. Len(as) : as[y][1] < q
          <5> TAKE y \in 1 .. Len(as)
          <5>1. CASE y = k BY <4>5, <5>1
          <5>2. CASE y # k
            <6>1. k \in 1 .. Len(as) BY <4>1, <4>3, <1>3
            <6>2. y < k BY <4>3, <5>2
            <6>3. as[y][1] < as[k][1] BY <6>1, <6>2 DEF Rising
            <6>4. as[y][1] \in Nat /\ as[k][1] \in Nat BY <6>1, <1>4
            <6> DEFINE v == as[y][1]  w == as[k][1]
            <6>5. v < w /\ w < q /\ v \in Nat /\ w \in Nat /\ q \in Nat BY <6>3, <6>4, <4>5, <1>3
            <6> HIDE DEF v, w
            <6>6. v < q BY <6>5
            <6> QED BY <6>6 DEF v
          <5> QED BY <5>1, <5>2
        <4> QED BY <4>3, <4>6 DEF Beyond
      <3> QED BY <3>2, <3>3
    <2> QED BY <2>2, <2>3
  <1>7. ASSUME Has(t, q)
        PROVE  Has(as, q) \/ Beyond(as, q, k)
    <2>1. PICK a \in 1 .. Len(t) : t[a][1] = q BY <1>7 DEF Has
    <2>2. CASE a < c
      <3>1. PICK x \in 1 .. Len(as) : x >= a /\ as[x][1] = t[a][1] BY <1>1, <2>2
      <3> QED BY <2>1, <3>1 DEF Has
    <2>3. CASE ~(a < c)
      <3>1. c <= a /\ t[a][1] <= q BY <2>1, <2>3, <1>3
      <3> QED BY <3>1, <1>5
    <2> QED BY <2>2, <2>3
  <1> QED BY <1>6, <1>7

(* A tuple of a greater key keeps the order.                               *)
LEMMA RisingAppend ==
  ASSUME NEW t, Tuples(t), Rising(t), NEW e \in Tuple, \A x \in 1 .. Len(t) : t[x][1] < e[1]
  PROVE  Rising(Append(t, e))
  <1> DEFINE u == Append(t, e)
             n == Len(t)
  <1>1. Tuples(u) /\ Len(u) = n + 1 /\ u[n + 1] = e /\ \A i \in 1 .. n : u[i] = t[i]
    BY AppendTuple
  <1>2. n \in Nat BY TupleFacts
  <1> HIDE DEF u
  <1>3. ASSUME NEW i \in 1 .. Len(u), NEW j \in 1 .. Len(u), i < j
        PROVE  u[i][1] < u[j][1]
    <2>1. i \in 1 .. n
      <3> HIDE DEF n
      <3> QED BY <1>1, <1>2, <1>3
    <2>2. u[i][1] = t[i][1] BY <1>1, <2>1
    <2>3. CASE j = n + 1
      <3>1. u[j][1] = e[1] BY <1>1, <2>3
      <3>2. t[i][1] < e[1] BY <2>1
      <3> QED BY <2>2, <3>1, <3>2
    <2>4. CASE j # n + 1
      <3>1. j \in 1 .. n
        <4> HIDE DEF n
        <4> QED BY <1>1, <1>2, <2>4
      <3>2. u[j][1] = t[j][1] BY <1>1, <3>1
      <3>3. t[i][1] < t[j][1] BY <1>3, <2>1, <3>1 DEF Rising
      <3> QED BY <2>2, <3>2, <3>3
    <2> QED BY <2>3, <2>4
  <1>4. Rising(u) BY <1>3 DEF Rising
  <1> QED BY <1>4 DEF u

(* Every tuple comes from one of both answers, from am if it has the key.  *)
FromOf(as, res, am) ==
    \A x \in 1 .. Len(as) :
       \/ \E b \in 1 .. Len(am) : as[x] = am[b]
       \/ \E a \in 1 .. Len(res) : as[x] = res[a] /\ ~Has(am, res[a][1])

(* What n steps of a merge have made.                                      *)
Merging(s, res, am, n) ==
    /\ Tuples(s.as) /\ Len(s.as) <= n /\ Rising(s.as)
    /\ Took(res, s.i, s.as, n) /\ Took(am, s.j, s.as, n)
    /\ FromOf(s.as, res, am)

(* One tuple more from there.                                              *)
LEMMA FromOne ==
  ASSUME NEW as, Tuples(as), NEW res, NEW am, FromOf(as, res, am), NEW e \in Tuple,
         \/ \E b \in 1 .. Len(am) : e = am[b]
         \/ \E a \in 1 .. Len(res) : e = res[a] /\ ~Has(am, res[a][1])
  PROVE  FromOf(Append(as, e), res, am)
  <1> DEFINE u == Append(as, e)
             n == Len(as)
  <1>1. Len(u) = n + 1 /\ u[n + 1] = e /\ \A i \in 1 .. n : u[i] = as[i]
    BY AppendTuple
  <1>2. n \in Nat BY TupleFacts
  <1> HIDE DEF u
  <1>3. ASSUME NEW x \in 1 .. Len(u)
        PROVE  \/ \E b \in 1 .. Len(am) : u[x] = am[b]
               \/ \E a \in 1 .. Len(res) : u[x] = res[a] /\ ~Has(am, res[a][1])
    <2>1. CASE x = n + 1
      <3>1. u[x] = e BY <1>1, <2>1
      <3> QED BY <3>1
    <2>2. CASE x # n + 1
      <3>1. x \in 1 .. n
        <4> HIDE DEF n
        <4> QED BY <1>1, <1>2, <2>2
      <3>2. u[x] = as[x] BY <1>1, <3>1
      <3>3. \/ \E b \in 1 .. Len(am) : as[x] = am[b]
            \/ \E a \in 1 .. Len(res) : as[x] = res[a] /\ ~Has(am, res[a][1])
        BY <3>1 DEF FromOf
      <3> QED BY <3>2, <3>3
    <2> QED BY <2>1, <2>2
  <1>4. FromOf(u, res, am) BY <1>3 DEF FromOf
  <1> QED BY <1>4 DEF u

(* What Took says of the places.                                           *)
LEMMA TookIs ==
  ASSUME NEW t, Tuples(t), NEW as, NEW n, NEW c, Took(t, c, as, n)
  PROVE  /\ c \in Nat /\ c >= 1 /\ c <= Len(t) + 1 /\ Len(t) \in Nat
         /\ c <= Len(t) => c \in 1 .. Len(t)
         /\ \A a \in 1 .. Len(t) : a < c => \E x \in 1 .. Len(as) : as[x][1] = t[a][1]
         /\ c <= Len(t) => Len(as) = n /\ \A x \in 1 .. Len(as) : as[x][1] < t[c][1]
  <1>1. /\ c \in 1 .. Len(t) + 1 /\ c - 1 <= Len(as)
        /\ \A a \in 1 .. Len(t) : a < c => \E x \in 1 .. Len(as) : x >= a /\ as[x][1] = t[a][1]
        /\ c <= Len(t) => Len(as) = n /\ \A x \in 1 .. Len(as) : as[x][1] < t[c][1]
    BY DEF Took
  <1>2. Len(t) \in Nat BY TupleFacts
  <1>3. c \in Nat /\ c >= 1 /\ c <= Len(t) + 1
    <2> DEFINE m == Len(t)
    <2>1. m \in Nat /\ c \in 1 .. m + 1 BY <1>1, <1>2
    <2> HIDE DEF m
    <2>2. c \in Nat /\ c >= 1 /\ c <= m + 1 BY <2>1
    <2> QED BY <2>2 DEF m
  <1>4. c <= Len(t) => c \in 1 .. Len(t) BY <1>2, <1>3
  <1>5. \A a \in 1 .. Len(t) : a < c => \E x \in 1 .. Len(as) : as[x][1] = t[a][1] BY <1>1
  <1> QED BY <1>1, <1>2, <1>3, <1>4, <1>5

(* A step of a merge keeps that.                                           *)
LEMMA MergeStepIs ==
  ASSUME NEW res, Tuples(res), Rising(res), NEW am, Tuples(am), Rising(am),
         NEW n \in Nat, NEW s, Merging(s, res, am, n)
  PROVE  Merging(MergeStep(res, am, s), res, am, n + 1)
  <1> DEFINE i == s.i
             j == s.j
             as == s.as
             z == MergeStep(res, am, s)
  <1>1. /\ Tuples(as) /\ Len(as) <= n /\ Rising(as)
        /\ Took(res, i, as, n) /\ Took(am, j, as, n) /\ FromOf(as, res, am)
    BY DEF Merging
  <1>2. /\ i \in Nat /\ i >= 1 /\ i <= Len(res) + 1 /\ Len(res) \in Nat
        /\ i <= Len(res) => i \in 1 .. Len(res)
        /\ i <= Len(res) => Len(as) = n /\ \A x \in 1 .. Len(as) : as[x][1] < res[i][1]
    BY <1>1, TookIs
  <1>3. /\ j \in Nat /\ j >= 1 /\ j <= Len(am) + 1 /\ Len(am) \in Nat
        /\ j <= Len(am) => j \in 1 .. Len(am)
        /\ \A a \in 1 .. Len(am) : a < j => \E x \in 1 .. Len(as) : as[x][1] = am[a][1]
        /\ j <= Len(am) => Len(as) = n /\ \A x \in 1 .. Len(as) : as[x][1] < am[j][1]
    BY <1>1, TookIs
  <1>4. /\ \A a \in 1 .. Len(res) : res[a] \in Tuple /\ res[a][1] \in Nat
        /\ \A a \in 1 .. Len(am) : am[a] \in Tuple /\ am[a][1] \in Nat
        /\ \A a \in 1 .. Len(as) : as[a][1] \in Nat
        /\ Len(as) \in Nat
    BY <1>1, TupleFacts
  <1>5. z = IF i <= Len(res) /\ (j > Len(am) \/ res[i][1] < am[j][1])
            THEN [i |-> i + 1, j |-> j, as |-> Append(as, res[i])]
            ELSE IF j <= Len(am)
            THEN [i |-> IF i <= Len(res) /\ res[i][1] = am[j][1] THEN i + 1 ELSE i, j |-> j + 1,
                  as |-> Append(as, am[j])]
            ELSE s
    BY DEF MergeStep
  <1> SUFFICES Merging(z, res, am, n + 1) OBVIOUS
  <1> HIDE DEF i, j, as, z
  <1>6. CASE i <= Len(res) /\ (j > Len(am) \/ res[i][1] < am[j][1])
    <2> DEFINE e == res[i]
    <2>1. z.i = i + 1 /\ z.j = j /\ z.as = Append(as, e) BY <1>5, <1>6
    <2>2. i \in 1 .. Len(res) /\ Len(as) = n /\ e \in Tuple BY <1>2, <1>4, <1>6
    <2>3. \A x \in 1 .. Len(as) : as[x][1] < e[1] BY <1>2, <1>6
    <2>4. Took(res, i + 1, Append(as, e), n + 1)
      <3>1. e[1] = res[i][1] OBVIOUS
      <3> HIDE DEF e
      <3> QED BY <1>1, <1>6, <2>2, <3>1, TookOne
    <2>5. Took(am, j, Append(as, e), n + 1)
      <3>1. j <= Len(am) => e[1] < am[j][1] BY <1>3, <1>6
      <3> HIDE DEF e
      <3> QED BY <1>1, <2>2, <3>1, TookOther
    <2>6. ~Has(am, e[1])
      <3> SUFFICES ASSUME NEW b \in 1 .. Len(am), am[b][1] = e[1] PROVE FALSE BY DEF Has
      <3>1. CASE b < j
        <4>1. PICK x \in 1 .. Len(as) : as[x][1] = am[b][1] BY <1>3, <3>1
        <4>2. as[x][1] < e[1] /\ as[x][1] = e[1] /\ as[x][1] \in Nat BY <2>3, <4>1, <1>4
        <4> QED BY <4>2
      <3>2. CASE ~(b < j)
        <4>1. j <= Len(am) /\ j \in 1 .. Len(am) BY <1>3, <3>2
        <4>2. e[1] < am[j][1] BY <4>1, <1>3, <1>6
        <4>3. am[j][1] \in Nat /\ am[b][1] \in Nat BY <4>1, <1>4
        <4>4. CASE j = b BY <4>2, <4>3, <4>4
        <4>5. CASE j # b
          <5>1. j < b BY <1>3, <3>2, <4>5
          <5>2. am[j][1] < am[b][1] BY <5>1, <4>1 DEF Rising
          <5> DEFINE v == am[j][1]  w == am[b][1]
          <5>3. w < v /\ v < w /\ v \in Nat /\ w \in Nat BY <4>2, <4>3, <5>2
          <5> HIDE DEF v, w
          <5> QED BY <5>3
        <4> QED BY <4>4, <4>5
      <3> QED BY <3>1, <3>2
    <2>7. FromOf(Append(as, e), res, am)
      <3>1. \E a \in 1 .. Len(res) : e = res[a] /\ ~Has(am, res[a][1]) BY <2>2, <2>6
      <3> HIDE DEF e
      <3> QED BY <1>1, <2>2, <3>1, FromOne
    <2> HIDE DEF e
    <2>8. Rising(Append(as, e)) BY <1>1, <2>2, <2>3, RisingAppend
    <2>9. Tuples(Append(as, e)) /\ Len(Append(as, e)) = n + 1 BY <1>1, <2>2, AppendTuple
    <2>10. Len(Append(as, e)) <= n + 1 BY <2>9
    <2> DEFINE u == Append(as, e)
    <2> HIDE DEF u
    <2>11. /\ z.i = i + 1 /\ z.j = j /\ z.as = u
           /\ Tuples(u) /\ Len(u) <= n + 1 /\ Rising(u) /\ FromOf(u, res, am)
           /\ Took(res, i + 1, u, n + 1) /\ Took(am, j, u, n + 1)
      BY <2>1, <2>4, <2>5, <2>7, <2>8, <2>9, <2>10 DEF u
    <2>12. Tuples(z.as) /\ Rising(z.as) /\ FromOf(z.as, res, am) BY <2>11
    <2>13. Len(z.as) <= n + 1 BY <2>11
    <2>14. Took(res, z.i, z.as, n + 1) BY <2>11
    <2>15. Took(am, z.j, z.as, n + 1) BY <2>11
    <2> QED BY Zenon, <2>12, <2>13, <2>14, <2>15 DEF Merging
  <1>7. CASE ~(i <= Len(res) /\ (j > Len(am) \/ res[i][1] < am[j][1])) /\ j <= Len(am)
    <2> DEFINE e == am[j]
               equal == i <= Len(res) /\ res[i][1] = am[j][1]
    <2>1. z.i = (IF equal THEN i + 1 ELSE i) /\ z.j = j + 1 /\ z.as = Append(as, e)
      BY <1>5, <1>7
    <2>2. j \in 1 .. Len(am) /\ Len(as) = n /\ e \in Tuple BY <1>3, <1>4, <1>7
    <2>3. \A x \in 1 .. Len(as) : as[x][1] < e[1] BY <1>3, <1>7
    <2>4. Took(am, j + 1, Append(as, e), n + 1)
      <3>1. e[1] = am[j][1] OBVIOUS
      <3> HIDE DEF e
      <3> QED BY <1>1, <1>7, <2>2, <3>1, TookOne
    <2>5. Took(res, IF equal THEN i + 1 ELSE i, Append(as, e), n + 1)
      <3>1. CASE equal
        <4>1. e[1] = res[i][1] /\ i <= Len(res) BY <3>1
        <4> HIDE DEF e, equal
        <4>2. Took(res, i + 1, Append(as, e), n + 1) BY <1>1, <2>2, <4>1, TookOne
        <4> QED BY <3>1, <4>2
      <3>2. CASE ~equal
        <4>1. i <= Len(res) => e[1] < res[i][1]
          <5> SUFFICES ASSUME i <= Len(res) PROVE e[1] < res[i][1] OBVIOUS
          <5>1. ~(res[i][1] < am[j][1]) /\ res[i][1] # am[j][1] BY <1>7, <3>2
          <5>2. res[i][1] \in Nat /\ am[j][1] \in Nat BY <1>2, <1>4, <2>2
          <5> QED BY <5>1, <5>2
        <4> HIDE DEF e, equal
        <4>2. Took(res, i, Append(as, e), n + 1) BY <1>1, <2>2, <4>1, TookOther
        <4> QED BY <3>2, <4>2
      <3> QED BY <3>1, <3>2
    <2>6. FromOf(Append(as, e), res, am)
      <3>1. \E b \in 1 .. Len(am) : e = am[b] BY <2>2
      <3> HIDE DEF e
      <3> QED BY <1>1, <2>2, <3>1, FromOne
    <2> HIDE DEF e, equal
    <2>7. Rising(Append(as, e)) BY <1>1, <2>2, <2>3, RisingAppend
    <2>8. Tuples(Append(as, e)) /\ Len(Append(as, e)) = n + 1 BY <1>1, <2>2, AppendTuple
    <2>9. Len(Append(as, e)) <= n + 1 BY <2>8
    <2> DEFINE u == Append(as, e)
    <2> HIDE DEF u
    <2>10. /\ z.i = (IF equal THEN i + 1 ELSE i) /\ z.j = j + 1 /\ z.as = u
           /\ Tuples(u) /\ Len(u) <= n + 1 /\ Rising(u) /\ FromOf(u, res, am)
           /\ Took(res, (IF equal THEN i + 1 ELSE i), u, n + 1) /\ Took(am, j + 1, u, n + 1)
      BY <2>1, <2>4, <2>5, <2>6, <2>7, <2>8, <2>9 DEF u
    <2>11. Tuples(z.as) /\ Rising(z.as) /\ FromOf(z.as, res, am) BY <2>10
    <2>12. Len(z.as) <= n + 1 BY <2>10
    <2>13. Took(res, z.i, z.as, n + 1) BY <2>10
    <2>14. Took(am, z.j, z.as, n + 1) BY <2>10
    <2> QED BY Zenon, <2>11, <2>12, <2>13, <2>14 DEF Merging
  <1>8. CASE ~(i <= Len(res) /\ (j > Len(am) \/ res[i][1] < am[j][1])) /\ ~(j <= Len(am))
    <2>1. z = s BY <1>5, <1>8
    <2>2. ~(i <= Len(res)) BY <1>3, <1>8
    <2>3. Took(res, i, as, n + 1) BY <1>1, <2>2 DEF Took
    <2>4. Took(am, j, as, n + 1) BY <1>1, <1>8 DEF Took
    <2>5. Len(as) <= n + 1
      <3> DEFINE m == Len(as)
      <3>1. m \in Nat /\ m <= n BY <1>1, <1>4
      <3> HIDE DEF m
      <3>2. m <= n + 1 BY <3>1
      <3> QED BY <3>2 DEF m
    <2>6. Merging(s, res, am, n + 1)
      <3>1. Tuples(as) /\ Rising(as) /\ FromOf(as, res, am) BY <1>1
      <3> QED BY Zenon, <3>1, <2>3, <2>4, <2>5 DEF Merging, i, j, as
    <2> QED BY <2>1, <2>6
  <1>9. QED
    <2> DEFINE c == i <= Len(res) /\ (j > Len(am) \/ res[i][1] < am[j][1])
               d == j <= Len(am)
               P == Merging(z, res, am, n + 1)
    <2>1. c => P BY Zenon, <1>6
    <2>2. ~c /\ d => P BY Zenon, <1>7
    <2>3. ~c /\ ~d => P BY Zenon, <1>8
    <2> HIDE DEF c, d, P
    <2>4. P BY <2>1, <2>2, <2>3
    <2> QED BY <2>4 DEF P

(* MergeK is k such steps.                                                 *)
LEMMA MergeKIs ==
  ASSUME NEW res, NEW am, NEW k \in Nat
  PROVE  \E m : /\ MergeK(res, am, k) = m[k].as
                /\ m[0] = [i |-> 1, j |-> 1, as |-> <<>>]
                /\ \A n \in 1 .. k : m[n] = MergeStep(res, am, m[n - 1])
  <1> DEFINE init == [i |-> 1, j |-> 1, as |-> <<>>]
             F(b) == [n \in 0 .. k |-> IF n = 0 THEN init ELSE MergeStep(res, am, b[n - 1])]
             m == CHOOSE b : b = F(b)
  <1>1. MergeK(res, am, k) = m[k].as BY DEF MergeK
  <1>2. m = F(m)
    <2> DEFINE p == [by |-> "merge", res |-> res, am |-> am]
    <2> HIDE DEF init
    <2>1. PICK b : b = Chain(b, p, init, k) BY ChainIs
    <2>2. \A i \in 1 .. k : \A x : Stepped(p, i, x) = MergeStep(res, am, x) BY DEF Stepped
    <2> HIDE DEF p
    <2>3. b = F(b)
      <3>1. \A i \in 0 .. k : i = 0 \/ i \in 1 .. k OBVIOUS
      <3> QED BY <2>1, <2>2, <3>1 DEF Chain
    <2> HIDE DEF F
    <2> QED BY <2>3
  <1> HIDE DEF m
  <1>3. m[0] = init /\ \A n \in 1 .. k : m[n] = MergeStep(res, am, m[n - 1])
    <2> HIDE DEF init
    <2> QED BY <1>2
  <1> QED BY <1>1, <1>3

(* So k steps make what Merging says.                                      *)
LEMMA MergeAll ==
  ASSUME NEW res, Tuples(res), Rising(res), NEW am, Tuples(am), Rising(am), NEW k \in Nat
  PROVE  \E s : MergeK(res, am, k) = s.as /\ Merging(s, res, am, k)
  <1>1. PICK m : /\ MergeK(res, am, k) = m[k].as
                 /\ m[0] = [i |-> 1, j |-> 1, as |-> <<>>]
                 /\ \A n \in 1 .. k : m[n] = MergeStep(res, am, m[n - 1])
    BY MergeKIs
  <1> DEFINE T == {n \in Nat : n <= k => Merging(m[n], res, am, n)}
  <1>2. Len(res) \in Nat /\ Len(am) \in Nat BY TupleFacts
  <1>3. Merging(m[0], res, am, 0)
    <2>1. m[0].i = 1 /\ m[0].j = 1 /\ m[0].as = <<>> BY <1>1
    <2>2. Tuples(<<>>) /\ Len(<<>>) = 0 BY DEF Tuples
    <2>3. Rising(<<>>) /\ FromOf(<<>>, res, am) BY DEF Rising, FromOf
    <2>4. Took(res, 1, <<>>, 0) BY <1>2 DEF Took
    <2>5. Took(am, 1, <<>>, 0) BY <1>2 DEF Took
    <2>6. Len(m[0].as) <= 0 BY <2>1
    <2> QED BY <2>1, <2>2, <2>3, <2>4, <2>5, <2>6 DEF Merging
  <1>4. 0 \in T BY <1>3
  <1>5. ASSUME NEW n \in Nat, n \in T PROVE n + 1 \in T
    <2> SUFFICES ASSUME n + 1 <= k PROVE Merging(m[n + 1], res, am, n + 1) OBVIOUS
    <2>1. Merging(m[n], res, am, n) BY <1>5
    <2>2. m[n + 1] = MergeStep(res, am, m[n])
      <3>1. n + 1 \in 1 .. k /\ (n + 1) - 1 = n OBVIOUS
      <3> QED BY <3>1, <1>1
    <2> QED BY <2>1, <2>2, MergeStepIs
  <1> HIDE DEF T
  <1>6. \A n \in Nat : n \in T BY <1>4, <1>5, Induction
  <1>7. Merging(m[k], res, am, k) BY <1>6 DEF T
  <1> QED BY <1>1, <1>7

(* The first k of two answers' tuples, the second preferred.               *)
LEMMA MergeIs ==
  ASSUME NEW k \in Nat, NEW am, NEW S, S \subseteq Key, NEW H, FirstOf(am, S, H, k),
         NEW res, NEW U, U \subseteq Key, NEW G, FirstOf(res, U, G, k),
         \A q \in U \ S : G[q] = H[q]
  PROVE  FirstOf(MergeK(res, am, k), S \cup U, H, k)
  <1>1. /\ Tuples(am) /\ Rising(am) /\ \A i \in 1 .. Len(am) : am[i][1] \in S /\ am[i][2] = H[am[i][1]]
    BY DEF FirstOf, TuplesOf
  <1>2. /\ Tuples(res) /\ Rising(res) /\ \A i \in 1 .. Len(res) : res[i][1] \in U /\ res[i][2] = G[res[i][1]]
    BY DEF FirstOf, TuplesOf
  <1>3. PICK s : MergeK(res, am, k) = s.as /\ Merging(s, res, am, k) BY <1>1, <1>2, MergeAll
  <1> DEFINE as == s.as
  <1>4. /\ Tuples(as) /\ Len(as) <= k /\ Rising(as) /\ Took(res, s.i, as, k) /\ Took(am, s.j, as, k)
        /\ FromOf(as, res, am)
    BY <1>3 DEF Merging
  <1> HIDE DEF as
  <1>5. \A q \in S : Has(as, q) \/ Beyond(as, q, k) BY <1>4, TookAll
  <1>6. \A q \in U : Has(as, q) \/ Beyond(as, q, k) BY <1>4, TookAll
  <1>7. ASSUME NEW x \in 1 .. Len(as)
        PROVE  as[x][1] \in S \cup U /\ as[x][2] = H[as[x][1]]
    <2>1. CASE \E b \in 1 .. Len(am) : as[x] = am[b]
      <3>1. PICK b \in 1 .. Len(am) : as[x] = am[b] BY <2>1
      <3> QED BY <3>1, <1>1
    <2>2. CASE \E a \in 1 .. Len(res) : as[x] = res[a] /\ ~Has(am, res[a][1])
      <3>1. PICK a \in 1 .. Len(res) : as[x] = res[a] /\ ~Has(am, res[a][1]) BY <2>2
      <3> DEFINE q == res[a][1]
      <3>2. q \in U /\ res[a][2] = G[q] /\ as[x][1] = q /\ as[x][2] = res[a][2] BY <3>1, <1>2
      <3>3. q \notin S
        <4> SUFFICES ASSUME q \in S PROVE FALSE OBVIOUS
        <4>1. ~Has(am, q) BY <3>1
        <4> HIDE DEF q
        <4>2. Beyond(as, q, k) BY <1>4, <4>1, TookAll
        <4>3. as[x][1] < q BY <4>2 DEF Beyond
        <4>4. q \in Nat BY <3>2, KeyFacts
        <4> QED BY <3>2, <4>3, <4>4
      <3> HIDE DEF q
      <3>4. G[q] = H[q] BY <3>2, <3>3
      <3> QED BY <3>2, <3>4
    <2> QED BY <2>1, <2>2, <1>4 DEF FromOf
  <1>8. FirstOf(as, S \cup U, H, k) BY <1>4, <1>5, <1>6, <1>7 DEF FirstOf, TuplesOf
  <1> QED BY <1>3, <1>8 DEF as

(* Tuples of all the keys of S.                                            *)
AllOf(t, S, F) == TuplesOf(t, S, F) /\ \A q \in S : Has(t, q)

(* Cutting all of them gives the first ones.                               *)
LEMMA PrefixIs ==
  ASSUME NEW t, NEW S, NEW F, AllOf(t, S, F), NEW k \in Nat
  PROVE  FirstOf(Prefix(t, k), S, F, k)
  <1>1. /\ Tuples(t) /\ Rising(t) /\ (\A i \in 1 .. Len(t) : t[i][1] \in S /\ t[i][2] = F[t[i][1]])
        /\ \A q \in S : Has(t, q)
    BY DEF AllOf, TuplesOf
  <1> DEFINE n == Min({k, Len(t)})
             u == SubSeq(t, 1, n)
  <1>2. Len(t) \in Nat BY <1>1, TupleFacts
  <1>3. n \in Nat /\ n <= k /\ n <= Len(t) /\ (n = k \/ n = Len(t))
    <2> DEFINE T == {k, Len(t)}
    <2>1. T \subseteq Nat /\ T # {} /\ k \in T /\ Len(t) \in T BY <1>2
    <2>2. \A x \in T : x = k \/ x = Len(t) OBVIOUS
    <2> HIDE DEF T
    <2>3. Min(T) \in T /\ \A x \in T : Min(T) <= x BY <2>1, MinIs
    <2>4. Min(T) \in Nat /\ Min(T) <= k /\ Min(T) <= Len(t) /\ (Min(T) = k \/ Min(T) = Len(t))
      BY <2>1, <2>2, <2>3
    <2> QED BY <2>4 DEF T
  <1>4. u = Prefix(t, k) BY DEF Prefix
  <1> HIDE DEF n
  <1>5. Tuples(u) /\ Len(u) = n /\ \A i \in 1 .. n : u[i] = t[i]
    <2>1. t \in Seq(Tuple) BY <1>1 DEF Tuples
    <2>2. u \in Seq(Tuple)
      <3>1. \A i \in 1 .. n : i \in 1 .. Len(t) BY <1>2, <1>3
      <3>2. u = [i \in 1 .. n |-> t[i]] BY <1>2, <1>3, <2>1
      <3>3. \A i \in 1 .. n : t[i] \in Tuple BY <3>1, <2>1
      <3> HIDE DEF u
      <3>4. u \in [1 .. n -> Tuple] BY <3>2, <3>3
      <3> QED BY <3>4, <1>3
    <2>3. Len(u) = n /\ \A i \in 1 .. n : u[i] = t[i] BY <1>2, <1>3, <2>1
    <2> QED BY <2>2, <2>3 DEF Tuples
  <1> HIDE DEF u
  <1>6. \A i \in 1 .. n : i \in 1 .. Len(t) BY <1>2, <1>3
  <1>7. Rising(u)
    <2> SUFFICES ASSUME NEW i \in 1 .. n, NEW j \in 1 .. n, i < j PROVE u[i][1] < u[j][1]
      BY <1>5 DEF Rising
    <2>1. u[i] = t[i] /\ u[j] = t[j] BY <1>5
    <2>2. t[i][1] < t[j][1] BY <1>1, <1>6 DEF Rising
    <2> QED BY <2>1, <2>2
  <1>8. \A i \in 1 .. n : u[i][1] \in S /\ u[i][2] = F[u[i][1]] BY <1>1, <1>5, <1>6
  <1>9. ASSUME NEW q \in S PROVE Has(u, q) \/ Beyond(u, q, k)
    <2>1. PICK a \in 1 .. Len(t) : t[a][1] = q BY <1>1 DEF Has
    <2>2. CASE a \in 1 .. n
      <3>1. u[a][1] = q BY <2>1, <2>2, <1>5
      <3> QED BY <3>1, <2>2, <1>5 DEF Has
    <2>3. CASE a \notin 1 .. n
      <3>1. n < a /\ n = k BY <1>2, <1>3, <2>1, <2>3
      <3>2. ASSUME NEW i \in 1 .. n PROVE u[i][1] < q
        <4>1. i < a /\ i \in 1 .. Len(t) BY <3>1, <1>3, <1>6, <2>1
        <4>2. t[i][1] < t[a][1] BY <4>1, <2>1, <1>1 DEF Rising
        <4>3. u[i][1] = t[i][1] BY <1>5
        <4> QED BY <4>2, <4>3, <2>1
      <3> QED BY <3>1, <3>2, <1>5 DEF Beyond
    <2> QED BY <2>2, <2>3
  <1>10. Len(u) <= k BY <1>3, <1>5
  <1>11. TuplesOf(u, S, F) BY <1>5, <1>7, <1>8 DEF TuplesOf
  <1>12. FirstOf(u, S, F, k) BY <1>9, <1>10, <1>11 DEF FirstOf
  <1> QED BY <1>4, <1>12

(* Keys in order with their strings.                                       *)
LEMMA SortedTuples ==
  ASSUME NEW S, S \subseteq Key, NEW F, \A q \in S : F[q] \in Value
  PROVE  LET s == Sorted(S)
         IN  AllOf([i \in DOMAIN s |-> <<s[i], F[s[i]]>>], S, F)
  <1> DEFINE s == Sorted(S)
             n == Cardinality(S)
             t == [i \in DOMAIN s |-> <<s[i], F[s[i]]>>]
  <1>1. IsFiniteSet(S) /\ S \subseteq Int BY KeyFacts, FS_Subset
  <1>2. /\ n \in Nat /\ s \in [1 .. n -> S]
        /\ \A i, j \in 1 .. n : i < j => s[i] < s[j]
        /\ Range(s) = S
    BY <1>1, SortedIs
  <1> HIDE DEF s, n
  <1>3. DOMAIN t = 1 .. n /\ \A i \in 1 .. n : t[i] = <<s[i], F[s[i]]>> /\ s[i] \in S BY <1>2
  <1>4. t = [i \in 1 .. n |-> t[i]] BY <1>3
  <1> HIDE DEF t
  <1>5. ASSUME NEW i \in 1 .. n PROVE t[i] \in Tuple /\ t[i][1] = s[i] /\ t[i][2] = F[s[i]]
    <2> DEFINE a == s[i]  b == F[s[i]]
    <2>1. t[i] = <<a, b>> /\ a \in Key /\ b \in Value BY <1>3
    <2> HIDE DEF a, b
    <2>2. t[i] \in Tuple BY <2>1 DEF Tuple
    <2>3. t[i][1] = a /\ t[i][2] = b BY <2>1
    <2> QED BY <2>2, <2>3 DEF a, b
  <1>6. t \in [1 .. n -> Tuple] BY <1>4, <1>5
  <1>7. t \in Seq(Tuple) /\ Len(t) = n BY <1>2, <1>6
  <1>8. Rising(t)
    <2> SUFFICES ASSUME NEW i \in 1 .. n, NEW j \in 1 .. n, i < j PROVE t[i][1] < t[j][1]
      BY <1>7 DEF Rising
    <2>1. t[i][1] = s[i] /\ t[j][1] = s[j] /\ s[i] < s[j] BY <1>2, <1>5
    <2> QED BY <2>1
  <1>9. \A i \in 1 .. n : t[i][1] \in S /\ t[i][2] = F[t[i][1]] BY <1>3, <1>5
  <1>10. ASSUME NEW q \in S PROVE Has(t, q)
    <2>1. PICK i \in DOMAIN s : s[i] = q BY <1>2 DEF Range
    <2>2. i \in 1 .. n BY <2>1, <1>2
    <2> QED BY <2>1, <2>2, <1>5, <1>7 DEF Has
  <1>11. AllOf(t, S, F) BY <1>7, <1>8, <1>9, <1>10 DEF AllOf, TuplesOf, Tuples
  <1> QED BY <1>11 DEF t, s

(* The first k tuples of a memtable from key on.                           *)
LEMMA MemFirstIs ==
  ASSUME FilesInv, NoDeletes, NEW n \in DOMAIN memtables, NEW key, NEW k \in Nat
  PROVE  FirstOf(MemFirst(n, key, k), {q \in RowKeys(memtables[n]) : q >= key}, memtables[n], k)
  <1> DEFINE S == {q \in RowKeys(memtables[n]) : q >= key}
             live == {q \in Key : q >= key /\ memtables[n][q] \notin {Absent, Tombstone}}
             F == memtables[n]
  <1>1. F \in Batch BY DEF FilesInv
  <1>2. \A q \in Key : F[q] # Tombstone BY <1>1 DEF NoDeletes
  <1>3. live = S BY <1>2 DEF RowKeys
  <1>4. F \in RowsType BY <1>1, BatchIs
  <1>5. S \subseteq Key /\ \A q \in S : F[q] \in Value BY <1>2, <1>4 DEF RowsType, RowKeys
  <1>6. MemFirst(n, key, k) = Prefix([i \in DOMAIN Sorted(S) |-> <<Sorted(S)[i], F[Sorted(S)[i]]>>], k)
    BY <1>3 DEF MemFirst
  <1> HIDE DEF S, F
  <1>7. AllOf([i \in DOMAIN Sorted(S) |-> <<Sorted(S)[i], F[Sorted(S)[i]]>>], S, F)
    BY <1>5, SortedTuples
  <1>8. FirstOf(MemFirst(n, key, k), S, F, k) BY <1>6, <1>7, PrefixIs
  <1> QED BY <1>8 DEF S, F

(* There are as many keys as tuples.                                       *)
LEMMA KeysCount ==
  ASSUME NEW t, Tuples(t), Rising(t), NEW m \in 0 .. Len(t)
  PROVE  Cardinality({t[j][1] : j \in 1 .. m}) = m
  <1> DEFINE T == {t[j][1] : j \in 1 .. m}
             g == [j \in 1 .. m |-> t[j][1]]
  <1>1. m \in Nat /\ \A j \in 1 .. m : j \in 1 .. Len(t) BY TupleFacts
  <1>2. \A j \in 1 .. Len(t) : t[j][1] \in Nat BY TupleFacts
  <1>3. g \in Surjection(1 .. m, T) BY DEF Surjection
  <1>4. g \in Injection(1 .. m, T)
    <2>1. ASSUME NEW i \in 1 .. m, NEW j \in 1 .. m, i # j PROVE g[i] # g[j]
      <3>1. i < j \/ j < i BY <2>1
      <3>2. i \in 1 .. Len(t) /\ j \in 1 .. Len(t) BY <1>1
      <3>3. t[i][1] < t[j][1] \/ t[j][1] < t[i][1] BY <3>1, <3>2 DEF Rising
      <3>4. t[i][1] \in Nat /\ t[j][1] \in Nat BY <3>2, <1>2
      <3>5. t[i][1] # t[j][1]
        <4> DEFINE v == t[i][1]  w == t[j][1]
        <4>1. (v < w \/ w < v) /\ v \in Nat /\ w \in Nat BY <3>3, <3>4
        <4> HIDE DEF v, w
        <4>2. v # w BY <4>1
        <4> QED BY <4>2 DEF v, w
      <3> QED BY <3>5
    <2>2. g \in [1 .. m -> T] OBVIOUS
    <2> HIDE DEF g
    <2> QED BY <2>1, <2>2 DEF Injection, IsInjective
  <1>5. IsFiniteSet(1 .. m) /\ Cardinality(1 .. m) = m BY <1>1, FS_Interval
  <1> HIDE DEF T, g
  <1>6. Cardinality(T) = m BY <1>3, <1>4, <1>5, FS_Surjection
  <1> QED BY <1>6 DEF T

(* The first k keys of S, by their places.                                 *)
LEMMA FirstPlaces ==
  ASSUME NEW k \in Nat, NEW t, NEW S, S \subseteq Key, NEW F, FirstOf(t, S, F, k)
  PROVE  /\ Len(t) <= k /\ Len(t) <= Cardinality(S) /\ Cardinality(S) \in Nat
         /\ Len(t) = k \/ Len(t) = Cardinality(S)
         /\ \A i \in 1 .. Len(t) : t[i][1] = Sorted(S)[i] /\ t[i][2] = F[t[i][1]]
  <1>1. /\ Tuples(t) /\ Rising(t) /\ Len(t) <= k
        /\ \A i \in 1 .. Len(t) : t[i][1] \in S /\ t[i][2] = F[t[i][1]]
        /\ \A q \in S : Has(t, q) \/ Beyond(t, q, k)
    BY DEF FirstOf, TuplesOf
  <1>2. IsFiniteSet(S) /\ S \subseteq Int /\ S \subseteq Nat BY KeyFacts, FS_Subset
  <1>3. Len(t) \in Nat /\ \A i \in 1 .. Len(t) : t[i][1] \in Nat BY <1>1, TupleFacts
  <1>4. /\ Cardinality(S) \in Nat
        /\ \A x \in S : /\ Place(S, x) + 1 \in 1 .. Cardinality(S)
                        /\ Sorted(S)[Place(S, x) + 1] = x
    BY <1>2, SortedIs
  <1>5. ASSUME NEW i \in 1 .. Len(t)
        PROVE  t[i][1] = Sorted(S)[i] /\ i \in 1 .. Cardinality(S)
    <2> DEFINE x == t[i][1]
    <2>1. {y \in S : y < x} = {t[j][1] : j \in 1 .. i - 1}
      <3>1. ASSUME NEW y \in S, y < x PROVE \E j \in 1 .. i - 1 : y = t[j][1]
        <4>1. ~Beyond(t, y, k)
          <5> SUFFICES ASSUME Beyond(t, y, k) PROVE FALSE OBVIOUS
          <5>1. t[i][1] < y BY DEF Beyond
          <5>2. x < y /\ x \in Nat /\ y \in Nat BY <5>1, <1>2, <1>3
          <5> HIDE DEF x
          <5> QED BY <5>2, <3>1
        <4>2. PICK j \in 1 .. Len(t) : t[j][1] = y BY <4>1, <1>1 DEF Has
        <4>3. j < i
          <5> SUFFICES ASSUME ~(j < i) PROVE FALSE OBVIOUS
          <5>1. j = i \/ i < j OBVIOUS
          <5>2. CASE j = i
            <6>1. x = y BY <5>2, <4>2
            <6>2. x \in Nat BY <1>3
            <6> HIDE DEF x
            <6> QED BY <6>1, <6>2, <3>1
          <5>3. CASE i < j
            <6>1. t[i][1] < t[j][1] BY <5>3, <4>2, <1>1 DEF Rising
            <6>2. x < y /\ x \in Nat /\ y \in Nat BY <6>1, <4>2, <1>2, <1>3
            <6> HIDE DEF x
            <6> QED BY <6>2, <3>1
          <5> QED BY <5>1, <5>2, <5>3
        <4>4. j \in 1 .. i - 1 BY <4>2, <4>3
        <4> QED BY <4>2, <4>4
      <3>2. ASSUME NEW j \in 1 .. i - 1 PROVE t[j][1] \in S /\ t[j][1] < x
        <4>1. j \in 1 .. Len(t) /\ j < i BY <1>3
        <4> QED BY <4>1, <1>1 DEF Rising
      <3> HIDE DEF x
      <3> QED BY <3>1, <3>2
    <2>2. i - 1 \in 0 .. Len(t) /\ i - 1 \in Nat BY <1>3
    <2>3. Cardinality({t[j][1] : j \in 1 .. i - 1}) = i - 1 BY <1>1, <2>2, KeysCount
    <2>4. Place(S, x) = i - 1 BY <2>1, <2>3 DEF Place
    <2>5. x \in S BY <1>1
    <2>6. Place(S, x) + 1 = i BY <2>4
    <2> QED BY <1>4, <2>5, <2>6
  <1>6. Len(t) <= Cardinality(S)
    <2>1. CASE Len(t) = 0 BY <2>1, <1>4
    <2>2. CASE Len(t) # 0
      <3>1. Len(t) \in 1 .. Len(t) BY <1>3, <2>2
      <3>2. Len(t) \in 1 .. Cardinality(S) BY <3>1, <1>5
      <3> QED BY <3>2, <1>4
    <2> QED BY <2>1, <2>2
  <1>7. Len(t) = k \/ Len(t) = Cardinality(S)
    <2> SUFFICES ASSUME Len(t) # k PROVE Len(t) = Cardinality(S) OBVIOUS
    <2>1. S = {t[j][1] : j \in 1 .. Len(t)} BY <1>1 DEF Has, Beyond
    <2>2. Len(t) \in 0 .. Len(t) BY <1>3
    <2>3. Cardinality({t[j][1] : j \in 1 .. Len(t)}) = Len(t) BY <1>1, <2>2, KeysCount
    <2> QED BY <2>1, <2>3
  <1> QED BY <1>1, <1>4, <1>5, <1>6, <1>7

-----------------------------------------------------------------------------
(* Tuples of greater keys are put behind.                                  *)
LEMMA ConcatTuples ==
  ASSUME NEW a, NEW S, NEW c, NEW U, NEW F, TuplesOf(a, S, F), TuplesOf(c, U, F),
         \A p \in S : \A q \in U : p < q
  PROVE  LET t == a \o c
         IN  /\ TuplesOf(t, S \cup U, F) /\ Len(t) = Len(a) + Len(c)
             /\ \A q : Has(a, q) \/ Has(c, q) => Has(t, q)
             /\ \A q \in U : \A m : Beyond(c, q, m) => Beyond(t, q, Len(a) + m)
  <1> DEFINE t == a \o c
  <1>1. Tuples(a) /\ Rising(a) /\ \A i \in 1 .. Len(a) : a[i][1] \in S /\ a[i][2] = F[a[i][1]]
    BY DEF TuplesOf
  <1>2. Tuples(c) /\ Rising(c) /\ \A i \in 1 .. Len(c) : c[i][1] \in U /\ c[i][2] = F[c[i][1]]
    BY DEF TuplesOf
  <1>3. /\ Tuples(t) /\ Len(a) \in Nat /\ Len(c) \in Nat
        /\ Len(t) = Len(a) + Len(c)
        /\ \A i \in 1 .. Len(a) : t[i] = a[i]
        /\ \A i \in 1 .. Len(a) + Len(c) :
                 i > Len(a) => i - Len(a) \in 1 .. Len(c) /\ t[i] = c[i - Len(a)]
    <2>1. a \in Seq(Tuple) /\ c \in Seq(Tuple) BY <1>1, <1>2 DEF Tuples
    <2>2. /\ a \o c \in Seq(Tuple) /\ Len(a) \in Nat /\ Len(c) \in Nat
          /\ Len(a \o c) = Len(a) + Len(c)
          /\ \A i \in 1 .. Len(a) : (a \o c)[i] = a[i]
          /\ \A i \in 1 .. Len(a) + Len(c) :
                 i > Len(a) => i - Len(a) \in 1 .. Len(c) /\ (a \o c)[i] = c[i - Len(a)]
      BY <2>1, Concat
    <2> QED BY <2>2 DEF Tuples
  <1> HIDE DEF t
  <1>4. \A i \in 1 .. Len(t) : i \in 1 .. Len(a) \/ (i > Len(a) /\ i - Len(a) \in 1 .. Len(c))
    <2> DEFINE m == Len(a)  n == Len(c)
    <2>1. m \in Nat /\ n \in Nat /\ Len(t) = m + n BY <1>3
    <2> HIDE DEF m, n
    <2>2. \A i \in 1 .. m + n : i \in 1 .. m \/ (i > m /\ i - m \in 1 .. n) BY <2>1
    <2> QED BY <2>1, <2>2 DEF m, n
  <1>5. \A i \in 1 .. Len(c) : Len(a) + i \in 1 .. Len(t) /\ t[Len(a) + i] = c[i]
    <2> TAKE i \in 1 .. Len(c)
    <2>1. Len(a) + i \in 1 .. Len(a) + Len(c) /\ Len(a) + i > Len(a) /\ (Len(a) + i) - Len(a) = i
      BY <1>3
    <2> QED BY <2>1, <1>3
  <1>6. \A i \in 1 .. Len(t) : i > Len(a) => t[i] = c[i - Len(a)] BY <1>3
  <1>7. ASSUME NEW i \in 1 .. Len(t)
        PROVE  t[i][1] \in S \cup U /\ t[i][2] = F[t[i][1]]
    <2>1. CASE i \in 1 .. Len(a) BY <1>1, <1>3, <2>1
    <2>2. CASE i > Len(a) /\ i - Len(a) \in 1 .. Len(c)
      <3>1. t[i] = c[i - Len(a)] BY <1>6, <2>2
      <3> QED BY <3>1, <2>2, <1>2
    <2> QED BY <2>1, <2>2, <1>4
  <1>8. ASSUME NEW i \in 1 .. Len(t), NEW j \in 1 .. Len(t), i < j
        PROVE  t[i][1] < t[j][1]
    <2>1. CASE j \in 1 .. Len(a)
      <3>1. i \in 1 .. Len(a) BY <1>3, <1>8, <2>1
      <3>2. t[i] = a[i] /\ t[j] = a[j] BY <1>3, <2>1, <3>1
      <3>3. a[i][1] < a[j][1] BY <1>1, <1>8, <2>1, <3>1 DEF Rising
      <3> QED BY <3>2, <3>3
    <2>2. CASE j > Len(a) /\ j - Len(a) \in 1 .. Len(c)
      <3>1. t[j] = c[j - Len(a)] BY <1>6, <2>2
      <3>2. CASE i \in 1 .. Len(a)
        <4>1. t[i] = a[i] /\ a[i][1] \in S BY <1>1, <1>3, <3>2
        <4>2. t[j][1] \in U BY <3>1, <2>2, <1>2
        <4> QED BY <4>1, <4>2
      <3>3. CASE i > Len(a) /\ i - Len(a) \in 1 .. Len(c)
        <4>1. t[i] = c[i - Len(a)] BY <1>6, <3>3
        <4>2. i - Len(a) < j - Len(a) BY <1>3, <1>8
        <4>3. c[i - Len(a)][1] < c[j - Len(a)][1] BY <4>2, <2>2, <3>3, <1>2 DEF Rising
        <4> QED BY <3>1, <4>1, <4>3
      <3> QED BY <3>2, <3>3, <1>4
    <2> QED BY <2>1, <2>2, <1>4
  <1>9. TuplesOf(t, S \cup U, F) BY <1>3, <1>7, <1>8 DEF TuplesOf, Rising
  <1>10. ASSUME NEW q, Has(a, q) \/ Has(c, q) PROVE Has(t, q)
    <2>1. CASE Has(a, q)
      <3>1. PICK i \in 1 .. Len(a) : a[i][1] = q BY <2>1 DEF Has
      <3>2. i \in 1 .. Len(t) /\ t[i] = a[i] BY <1>3, <3>1
      <3> QED BY <3>1, <3>2 DEF Has
    <2>2. CASE Has(c, q)
      <3>1. PICK i \in 1 .. Len(c) : c[i][1] = q BY <2>2 DEF Has
      <3>2. Len(a) + i \in 1 .. Len(t) /\ t[Len(a) + i] = c[i] BY <1>5, <3>1
      <3> QED BY <3>1, <3>2 DEF Has
    <2> QED BY <2>1, <2>2, <1>10
  <1>11. ASSUME NEW q \in U, NEW m, Beyond(c, q, m) PROVE Beyond(t, q, Len(a) + m)
    <2>1. Len(c) = m /\ \A i \in 1 .. Len(c) : c[i][1] < q BY <1>11 DEF Beyond
    <2>2. Len(t) = Len(a) + m BY <1>3, <2>1
    <2>3. ASSUME NEW i \in 1 .. Len(t) PROVE t[i][1] < q
      <3>1. CASE i \in 1 .. Len(a)
        <4>1. t[i] = a[i] /\ a[i][1] \in S BY <1>1, <1>3, <3>1
        <4> QED BY <4>1
      <3>2. CASE i > Len(a) /\ i - Len(a) \in 1 .. Len(c)
        <4>1. t[i] = c[i - Len(a)] BY <1>6, <3>2
        <4>2. c[i - Len(a)][1] < q BY <2>1, <3>2
        <4> QED BY <4>1, <4>2
      <3> QED BY <3>1, <3>2, <1>4
    <2> QED BY <2>2, <2>3 DEF Beyond
  <1>12. Len(t) = Len(a) + Len(c) BY <1>3
  <1> QED BY <1>9, <1>10, <1>11, <1>12 DEF t

(* Of no keys there are no tuples.                                         *)
LEMMA NoTuples ==
  ASSUME NEW F
  PROVE  AllOf(<<>>, {}, F) /\ \A t : AllOf(t, {}, F) => t = <<>>
  <1>1. AllOf(<<>>, {}, F) BY DEF AllOf, TuplesOf, Tuples, Rising
  <1>2. ASSUME NEW t, AllOf(t, {}, F) PROVE t = <<>>
    <2>1. Tuples(t) /\ \A i \in 1 .. Len(t) : t[i][1] \in {} BY <1>2 DEF AllOf, TuplesOf
    <2>2. t \in Seq(Tuple) /\ Len(t) \in Nat BY <2>1, TupleFacts DEF Tuples
    <2>3. Len(t) = 0
      <3> SUFFICES ASSUME Len(t) # 0 PROVE FALSE OBVIOUS
      <3>1. 1 \in 1 .. Len(t) BY <2>2
      <3> QED BY <3>1, <2>1
    <2> QED BY <2>2, <2>3
  <1> QED BY <1>1, <1>2

(* Keys of a file from place a to before place b, from key on.             *)
Between(keys, a, b, key) == {keys[j] : j \in {x \in 1 .. Len(keys) : a <= x /\ x < b /\ keys[x] >= key}}

(* What FileFirst keeps of a block.                                        *)
Kept(file, i, key) ==
    LET b == Block(file, i)
        on == Sorted({n \in 1 .. b.key_num : KeyAt(file, b, n - 1) >= key})
    IN  [n \in DOMAIN on |-> <<KeyAt(file, b, on[n] - 1),
                               GetString(file.dictionary, IdxAt(file, b, on[n] - 1))>>]

(* Those are the block's rows from key on.                                 *)
LEMMA KeptIs ==
  ASSUME NEW f, FileMade(f), Clean(f.rows), NEW keys, NEW vals, Holding(f, keys, vals),
         NEW i \in 1 .. f.block_count, NEW key \in Nat
  PROVE  AllOf(Kept(f, i, key), Between(keys, First(i), First(i) + Length(keys, i), key), f.rows)
  <1> DEFINE b == Block(f, i)
             first == First(i)
             l == Length(keys, i)
             N == {n \in 1 .. b.key_num : KeyAt(f, b, n - 1) >= key}
             on == Sorted(N)
             t == Kept(f, i, key)
             B == Between(keys, first, first + l, key)
  <1>1. /\ OrderedFile(f, keys, vals) /\ Len(keys) \in Nat \ {0}
        /\ \A x, y \in 1 .. Len(keys) : x < y => keys[x] < keys[y]
        /\ \A x \in 1 .. Len(keys) : keys[x] \in RowKeys(f.rows) /\ keys[x] \in Nat
    BY HoldingIs
  <1>2. \A j \in 1 .. Len(keys) : GetString(f.dictionary, vals[j]) = f.rows[keys[j]]
    BY DEF Holding
  <1>3. \A k \in RowKeys(f.rows) : k \in Key /\ f.rows[k] \in Value
    BY DEF FileMade, RowsType, RowKeys, Clean
  <1>4. /\ first \in Nat \ {0} /\ l \in Nat \ {0} /\ first + l <= Len(keys) + 1
        /\ b.key_num = l
        /\ \A m \in 0 .. l - 1 : /\ first + m \in 1 .. Len(keys)
                                 /\ KeyAt(f, b, m) = keys[first + m]
                                 /\ IdxAt(f, b, m) = vals[first + m]
    BY <1>1, OrderedBlocks
  <1>5. t = [n \in DOMAIN on |-> <<KeyAt(f, b, on[n] - 1),
                                   GetString(f.dictionary, IdxAt(f, b, on[n] - 1))>>]
    BY DEF Kept
  <1> HIDE DEF first, l, b
  <1>6. \A n \in N : /\ n \in 1 .. l /\ n - 1 \in 0 .. l - 1
                     /\ first + (n - 1) \in 1 .. Len(keys) /\ keys[first + (n - 1)] >= key
    BY <1>4
  <1>7. \A n \in 1 .. l : keys[first + (n - 1)] >= key => n \in N BY <1>4
  <1>8. N \subseteq Int /\ IsFiniteSet(N)
    <2>1. N \subseteq 1 .. l BY <1>4
    <2>2. IsFiniteSet(1 .. l) BY <1>4, FS_Interval
    <2> HIDE DEF N
    <2>3. N \subseteq Int BY <1>4, <2>1
    <2>4. IsFiniteSet(N) BY <2>1, <2>2, FS_Subset
    <2> QED BY <2>3, <2>4
  <1> DEFINE c == Cardinality(N)
  <1> HIDE DEF N, t
  <1>9. /\ c \in Nat /\ on \in [1 .. c -> N]
        /\ \A x, y \in 1 .. c : x < y => on[x] < on[y]
        /\ Range(on) = N
    BY <1>8, SortedIs
  <1> HIDE DEF on, c
  <1> DEFINE place(n) == first + (on[n] - 1)
  <1>10. ASSUME NEW n \in 1 .. c
         PROVE  /\ place(n) \in 1 .. Len(keys) /\ keys[place(n)] >= key
                /\ place(n) \in Nat /\ first <= place(n) /\ place(n) < first + l
                /\ t[n] = <<keys[place(n)], f.rows[keys[place(n)]]>>
                /\ DOMAIN t = 1 .. c
    <2>1. on[n] \in N BY <1>9
    <2>2. on[n] \in 1 .. l /\ on[n] - 1 \in 0 .. l - 1 BY <2>1, <1>6
    <2>3. place(n) \in 1 .. Len(keys) /\ keys[place(n)] >= key BY <2>1, <1>6
    <2>4. place(n) \in Nat /\ first <= place(n) /\ place(n) < first + l BY <2>2, <1>4
    <2>5. DOMAIN t = 1 .. c /\ n \in DOMAIN on BY <1>5, <1>9
    <2>6. t[n] = <<KeyAt(f, b, on[n] - 1), GetString(f.dictionary, IdxAt(f, b, on[n] - 1))>>
      BY <1>5, <2>5
    <2>7. KeyAt(f, b, on[n] - 1) = keys[place(n)] /\ IdxAt(f, b, on[n] - 1) = vals[place(n)]
      BY <1>4, <2>2
    <2>8. t[n] = <<keys[place(n)], f.rows[keys[place(n)]]>> BY <2>3, <2>6, <2>7, <1>2
    <2> QED BY <2>3, <2>4, <2>5, <2>8
  <1>11. DOMAIN t = 1 .. c BY <1>5, <1>9
  <1>12. t = [n \in 1 .. c |-> t[n]] BY <1>5, <1>11
  <1>13. ASSUME NEW n \in 1 .. c
         PROVE  t[n] \in Tuple /\ t[n][1] = keys[place(n)] /\ t[n][2] = f.rows[t[n][1]]
    <2> DEFINE x == keys[place(n)]  y == f.rows[keys[place(n)]]
    <2>1. t[n] = <<x, y>> /\ x \in Key /\ y \in Value /\ y = f.rows[x] BY <1>1, <1>3, <1>10
    <2> HIDE DEF x, y
    <2>2. t[n] \in Tuple BY <2>1 DEF Tuple
    <2>3. t[n][1] = x /\ t[n][2] = y BY <2>1
    <2> QED BY <2>1, <2>2, <2>3 DEF x
  <1>14. Tuples(t) /\ Len(t) = c
    <2>1. t \in [1 .. c -> Tuple] BY <1>12, <1>13
    <2> QED BY <1>9, <2>1 DEF Tuples
  <1>15. ASSUME NEW x \in 1 .. c, NEW y \in 1 .. c, x < y PROVE t[x][1] < t[y][1]
    <2>1. on[x] < on[y] /\ on[x] \in Nat /\ on[y] \in Nat BY <1>6, <1>9, <1>15
    <2>2. place(x) < place(y) BY <2>1, <1>4
    <2>3. place(x) \in 1 .. Len(keys) /\ place(y) \in 1 .. Len(keys) BY <1>10
    <2> HIDE DEF place
    <2>4. keys[place(x)] < keys[place(y)] BY <2>2, <2>3, <1>1
    <2> QED BY <2>4, <1>13
  <1>16. Rising(t) BY <1>14, <1>15 DEF Rising
  <1>17. ASSUME NEW n \in 1 .. c PROVE t[n][1] \in B
    <2>1. place(n) \in {x \in 1 .. Len(keys) : first <= x /\ x < first + l /\ keys[x] >= key}
      BY <1>10
    <2> HIDE DEF place
    <2> QED BY <2>1, <1>13 DEF Between
  <1>18. ASSUME NEW q \in B PROVE Has(t, q)
    <2>1. PICK x \in 1 .. Len(keys) : first <= x /\ x < first + l /\ keys[x] >= key /\ q = keys[x]
      BY DEF Between
    <2> DEFINE n == x - first + 1
    <2>2. n \in 1 .. l /\ first + (n - 1) = x BY <2>1, <1>4
    <2>3. n \in N BY <2>1, <2>2, <1>7
    <2>4. PICK m \in DOMAIN on : on[m] = n BY <2>3, <1>9 DEF Range
    <2>5. m \in 1 .. c BY <2>4, <1>9
    <2>6. place(m) = x BY <2>2, <2>4
    <2>7. t[m][1] = q BY <2>1, <2>5, <2>6, <1>13
    <2> QED BY <2>5, <2>7, <1>14 DEF Has
  <1> HIDE DEF B
  <1>19. \A n \in 1 .. Len(t) : t[n][1] \in B /\ t[n][2] = f.rows[t[n][1]] BY <1>13, <1>14, <1>17
  <1>20. AllOf(t, B, f.rows) BY <1>14, <1>16, <1>18, <1>19 DEF AllOf, TuplesOf
  <1> QED BY <1>20 DEF t, B, first, l

(* Two answers, the keys of the one before those of the other.             *)
LEMMA ConcatAll ==
  ASSUME NEW a, NEW S, NEW c, NEW U, NEW F, AllOf(a, S, F), AllOf(c, U, F),
         \A p \in S : \A q \in U : p < q
  PROVE  AllOf(a \o c, S \cup U, F) /\ Len(a \o c) = Len(a) + Len(c)
  <1> DEFINE t == a \o c
  <1>1. TuplesOf(a, S, F) /\ TuplesOf(c, U, F) BY DEF AllOf
  <1>2. /\ TuplesOf(t, S \cup U, F) /\ Len(t) = Len(a) + Len(c)
        /\ \A q : Has(a, q) \/ Has(c, q) => Has(t, q)
    BY <1>1, ConcatTuples
  <1>3. (\A q \in S : Has(a, q)) /\ \A q \in U : Has(c, q) BY DEF AllOf
  <1> HIDE DEF t
  <1>4. AllOf(t, S \cup U, F) BY <1>2, <1>3 DEF AllOf
  <1> QED BY <1>2, <1>4 DEF t

(* The keys between two places, in two parts.                              *)
LEMMA BetweenIs ==
  ASSUME NEW keys, Len(keys) \in Nat,
         \A x, y \in 1 .. Len(keys) : x < y => keys[x] < keys[y],
         NEW a \in Nat, NEW b \in Nat, NEW c \in Nat, a <= b, b <= c, NEW key
  PROVE  /\ Between(keys, a, b, key) \cup Between(keys, b, c, key) = Between(keys, a, c, key)
         /\ \A p \in Between(keys, a, b, key) : \A q \in Between(keys, b, c, key) : p < q
         /\ Between(keys, a, a, key) = {}
  <1> DEFINE T(x, y) == {j \in 1 .. Len(keys) : x <= j /\ j < y /\ keys[j] >= key}
  <1>1. T(a, b) \cup T(b, c) = T(a, c)
    <2>1. \A j \in 1 .. Len(keys) : a <= j /\ j < c <=> (a <= j /\ j < b) \/ (b <= j /\ j < c)
      OBVIOUS
    <2> QED BY <2>1
  <1>2. T(a, a) = {} OBVIOUS
  <1>3. \A x \in T(a, b) : \A y \in T(b, c) : keys[x] < keys[y] OBVIOUS
  <1>4. \A x, y : Between(keys, x, y, key) = {keys[j] : j \in T(x, y)} BY DEF Between
  <1> HIDE DEF T
  <1> QED BY <1>1, <1>2, <1>3, <1>4

(* FileFirst collects from the block that may hold key on.                 *)
LEMMA FileFirstFrom ==
  ASSUME NEW f, f.block_count \in Nat, NEW key, BlockFor(f, key) \in 1 .. f.block_count, NEW k
  PROVE  \E rows : /\ FileFirst(f, key, k) = Prefix(rows[f.block_count], k)
                   /\ \A i \in 0 .. f.block_count :
                        /\ i < BlockFor(f, key) => rows[i] = <<>>
                        /\ i >= BlockFor(f, key) => rows[i] = rows[i - 1] \o Kept(f, i, key)
  <1> DEFINE n == f.block_count
             first == BlockFor(f, key)
             R(b) == [i \in 0 .. n |-> IF i < first THEN <<>> ELSE b[i - 1] \o Kept(f, i, key)]
             rows == CHOOSE b : b = R(b)
  <1>1. FileFirst(f, key, k) = Prefix(rows[n], k) BY DEF FileFirst, Kept
  <1>2. rows = R(rows)
    <2> DEFINE p == [by |-> "block", from |-> first, kept |-> [i \in 1 .. n |-> Kept(f, i, key)]]
    <2> HIDE DEF first, n
    <2>1. n \in Nat /\ first \in 1 .. n BY DEF first, n
    <2>2. PICK b : b = Chain(b, p, <<>>, n) BY <2>1, ChainIs
    <2>3. \A i \in 1 .. n : \A x : Stepped(p, i, x) = IF i < first THEN <<>> ELSE x \o Kept(f, i, key)
      BY DEF Stepped
    <2> HIDE DEF p
    <2>4. b = R(b)
      <3>1. \A i \in 0 .. n : (i = 0 /\ i < first) \/ (i # 0 /\ i \in 1 .. n) BY <2>1
      <3>2. b = [i \in 0 .. n |-> IF i = 0 THEN <<>> ELSE Stepped(p, i, b[i - 1])]
        BY <2>2 DEF Chain
      <3>3. \A i \in 0 .. n : (IF i = 0 THEN <<>> ELSE Stepped(p, i, b[i - 1]))
                              = IF i < first THEN <<>> ELSE b[i - 1] \o Kept(f, i, key)
        BY <2>3, <3>1
      <3> QED BY <3>2, <3>3
    <2> HIDE DEF R
    <2> QED BY <2>4
  <1> HIDE DEF rows
  <1>3. \A i \in 0 .. n : /\ i < first => rows[i] = <<>>
                          /\ i >= first => rows[i] = rows[i - 1] \o Kept(f, i, key)
    <2>1. first \in Nat OBVIOUS
    <2> HIDE DEF first, n
    <2>2. \A i \in 0 .. n : rows[i] = IF i < first THEN <<>> ELSE rows[i - 1] \o Kept(f, i, key)
      BY <1>2
    <2>3. \A i \in 0 .. n : i >= first => ~(i < first) BY <2>1
    <2> HIDE DEF R
    <2> QED BY <2>2, <2>3
  <1> QED BY <1>1, <1>3

(* The first k rows of a file from key on.                                 *)
LEMMA FileFirstIs ==
  ASSUME NEW f, FileMade(f), Clean(f.rows), NEW key \in Nat, NEW k \in Nat
  PROVE  FirstOf(FileFirst(f, key, k), {q \in RowKeys(f.rows) : q >= key}, f.rows, k)
  <1>1. CleanFile(f) BY DEF FileMade
  <1>2. PICK keys : \E vals : Holding(f, keys, vals) BY <1>1 DEF CleanFile
  <1>3. PICK vals : Holding(f, keys, vals) BY <1>2
  <1> DEFINE n == f.block_count
             first == BlockFor(f, key)
             a == First(first)
             end(i) == IF i < first THEN a ELSE First(i) + Length(keys, i)
             S == {q \in RowKeys(f.rows) : q >= key}
  <1>4. /\ OrderedFile(f, keys, vals) /\ Len(keys) \in Nat \ {0}
        /\ \A x, y \in 1 .. Len(keys) : x < y => keys[x] < keys[y]
        /\ \A x \in 1 .. Len(keys) : keys[x] \in RowKeys(f.rows) /\ keys[x] \in Nat
        /\ \A q \in RowKeys(f.rows) : \E j \in 1 .. Len(keys) : keys[j] = q
    BY <1>3, HoldingIs
  <1>5. /\ n \in Nat \ {0} /\ First(1) = 1
        /\ \A i \in 1 .. n :
             /\ First(i) \in Nat \ {0} /\ Length(keys, i) \in Nat \ {0}
             /\ First(i) + Length(keys, i) <= Len(keys) + 1
             /\ i < n => First(i + 1) = First(i) + Length(keys, i)
             /\ i = n => Len(keys) + 1 = First(i) + Length(keys, i)
    BY <1>4, OrderedBlocks
  <1>6. key \in Int /\ first \in 1 .. n /\ (first = 1 \/ keys[a] <= key)
    <2>1. key \in Int OBVIOUS
    <2> QED BY <1>4, <2>1, BlockForIs
  <1>7. PICK rows : /\ FileFirst(f, key, k) = Prefix(rows[n], k)
                    /\ \A i \in 0 .. n :
                         /\ i < first => rows[i] = <<>>
                         /\ i >= first => rows[i] = rows[i - 1] \o Kept(f, i, key)
    <2>1. f.block_count \in Nat /\ BlockFor(f, key) \in 1 .. f.block_count BY <1>5, <1>6
    <2> QED BY <2>1, FileFirstFrom
  <1> HIDE DEF n, first
  <1>8. a \in Nat \ {0} /\ a \in 1 .. Len(keys) BY <1>4, <1>5, <1>6
  <1> DEFINE T == {d \in Nat : first - 1 + d <= n =>
                      /\ a <= end(first - 1 + d)
                      /\ AllOf(rows[first - 1 + d], Between(keys, a, end(first - 1 + d), key), f.rows)}
  <1>9. 0 \in T
    <2>1. first - 1 \in 0 .. n /\ first - 1 < first BY <1>5, <1>6
    <2>2. rows[first - 1] = <<>> /\ end(first - 1) = a BY <1>7, <2>1
    <2>3. Between(keys, a, a, key) = {} BY <1>4, <1>8, BetweenIs
    <2>4. AllOf(<<>>, {}, f.rows) BY NoTuples
    <2>5. first - 1 + 0 = first - 1 BY <2>1
    <2> HIDE DEF a, end
    <2>6. a <= end(first - 1) BY <2>2, <1>8
    <2> QED BY <2>2, <2>3, <2>4, <2>5, <2>6
  <1>10. ASSUME NEW d \in Nat, d \in T PROVE d + 1 \in T
    <2> DEFINE i == first - 1 + d  j == i + 1
    <2> SUFFICES ASSUME j <= n
                 PROVE  a <= end(j) /\ AllOf(rows[j], Between(keys, a, end(j), key), f.rows)
      <3>1. first - 1 + (d + 1) = j BY <1>5, <1>6
      <3> HIDE DEF a, end, j
      <3> QED BY <3>1
    <2>1. i \in Nat /\ j \in 1 .. n /\ j >= first /\ i <= n /\ j \in 0 .. n /\ j - 1 = i
      BY <1>5, <1>6
    <2>2. a <= end(i) /\ AllOf(rows[i], Between(keys, a, end(i), key), f.rows) BY <1>10, <2>1
    <2>3. First(j) = end(i)
      <3>1. CASE i < first
        <4>1. j = first BY <1>5, <1>6, <3>1
        <4> QED BY <3>1, <4>1
      <3>2. CASE ~(i < first)
        <4>1. i \in 1 .. n /\ i < n BY <1>5, <1>6, <2>1, <3>2
        <4>2. First(i + 1) = First(i) + Length(keys, i) BY <4>1, <1>5
        <4> QED BY <3>2, <4>2
      <3> QED BY <3>1, <3>2
    <2>4. end(j) = First(j) + Length(keys, j)
      <3>1. ~(j < first) BY <1>6, <2>1
      <3> QED BY <3>1
    <2>5. First(j) \in Nat /\ Length(keys, j) \in Nat BY <1>5, <2>1
    <2>6. end(i) \in Nat /\ end(j) \in Nat /\ end(i) <= end(j) BY <2>3, <2>4, <2>5
    <2>7. AllOf(Kept(f, j, key), Between(keys, end(i), end(j), key), f.rows)
      <3>1. j \in 1 .. f.block_count BY <2>1 DEF n
      <3>2. AllOf(Kept(f, j, key), Between(keys, First(j), First(j) + Length(keys, j), key), f.rows)
        BY <3>1, <1>3, KeptIs
      <3> HIDE DEF end, j, i
      <3> QED BY <3>2, <2>3, <2>4
    <2>8. rows[j] = rows[i] \o Kept(f, j, key) BY <1>7, <2>1
    <2> DEFINE e == end(i)  h == end(j)  t == rows[i]  c == Kept(f, j, key)
               A == Between(keys, a, e, key)  C == Between(keys, e, h, key)
    <2> HIDE DEF a, end, i, j
    <2>9. a \in Nat /\ e \in Nat /\ h \in Nat /\ a <= e /\ e <= h /\ Len(keys) \in Nat
      BY <1>4, <1>8, <2>2, <2>6
    <2> HIDE DEF e, h
    <2>10. A \cup C = Between(keys, a, h, key) /\ \A p \in A : \A q \in C : p < q
      BY <1>4, <2>9, BetweenIs
    <2>11. AllOf(t, A, f.rows) /\ AllOf(c, C, f.rows) BY <2>2, <2>7 DEF e, h
    <2> HIDE DEF t, c, A, C
    <2>12. AllOf(t \o c, A \cup C, f.rows) BY <2>10, <2>11, ConcatAll
    <2>13. AllOf(rows[j], Between(keys, a, end(j), key), f.rows)
      BY <2>8, <2>10, <2>12 DEF t, c, h
    <2>14. a <= end(j) BY <2>9 DEF e, h
    <2> QED BY <2>13, <2>14
  <1> HIDE DEF T
  <1>11. \A d \in Nat : d \in T BY <1>9, <1>10, Induction
  <1>12. AllOf(rows[n], Between(keys, a, end(n), key), f.rows)
    <2> DEFINE d == n - first + 1
    <2>1. d \in Nat /\ first - 1 + d = n /\ n <= n BY <1>5, <1>6
    <2>2. d \in T BY <2>1, <1>11
    <2> HIDE DEF d, a, end
    <2> USE DEF T
    <2> QED BY <2>1, <2>2
  <1>13. end(n) = Len(keys) + 1 BY <1>5, <1>6
  <1>14. Between(keys, a, Len(keys) + 1, key) = S
    <2>1. ASSUME NEW x \in 1 .. Len(keys), keys[x] >= key PROVE a <= x /\ x < Len(keys) + 1
      <3>1. x < Len(keys) + 1 BY <1>4
      <3>2. CASE first = 1 BY <3>1, <3>2, <1>5
      <3>3. CASE keys[a] <= key
        <4>1. a <= x
          <5> SUFFICES ASSUME ~(a <= x) PROVE FALSE OBVIOUS
          <5>1. x < a BY <1>8
          <5>2. keys[x] < keys[a] BY <5>1, <1>4, <1>8
          <5>3. keys[x] \in Nat /\ keys[a] \in Nat BY <1>4, <1>8
          <5> DEFINE v == keys[x]  w == keys[a]
          <5>4. v < w /\ v \in Nat /\ w \in Nat /\ v >= key /\ w <= key
            BY <2>1, <3>3, <5>2, <5>3
          <5> HIDE DEF v, w
          <5> QED BY <5>4
        <4> QED BY <3>1, <4>1
      <3> QED BY <3>2, <3>3, <1>6
    <2> HIDE DEF a
    <2> QED BY <2>1, <1>4 DEF Between
  <1>15. AllOf(rows[n], S, f.rows)
    <2> HIDE DEF a, end, S
    <2> QED BY <1>12, <1>13, <1>14
  <1> HIDE DEF S
  <1>16. FirstOf(Prefix(rows[n], k), S, f.rows, k) BY <1>15, PrefixIs
  <1> QED BY <1>7, <1>16 DEF S

-----------------------------------------------------------------------------
(* What a point read gives.                                                *)
Gets == [q \in Key |-> Get(q)]

(* ScanKTuples' files of a level, and of both.                             *)
Places(l, key) == [i \in DOMAIN On(l, key) |-> <<l, On(l, key)[i]>>]
(* The files of both levels.                                               *)
Asked(key) == Places(0, key) \o Places(1, key)

(* Before the first file.                                                  *)
Begun(am, k) == [am |-> am, res |-> <<>>, left |-> k, passed |-> -1]

(* ScanKTuples goes from memtable to memtable, then from file to file.     *)
LEMMA ScanKFrom ==
  ASSUME NEW k, NEW key, Len(memtables) \in Nat, Len(Asked(key)) \in Nat
  PROVE  \E am, s :
           /\ ScanK(k, key) = s[Len(Asked(key))].am
           /\ am[0] = <<>>
           /\ \A i \in 1 .. Len(memtables) :
                 am[i] = MergeK(MemFirst(Newest(i), key, k), am[i - 1], k)
           /\ s[0] = Begun(am[Len(memtables)], k)
           /\ \A i \in 1 .. Len(Asked(key)) : s[i] = KStep(s[i - 1], Asked(key)[i], key, k)
  <1> DEFINE n == Len(memtables)
             files == Asked(key)
             F(b) == [i \in 0 .. n |-> IF i = 0 THEN <<>>
                                       ELSE MergeK(MemFirst(Newest(i), key, k), b[i - 1], k)]
             am == CHOOSE b : b = F(b)
             G(b) == [i \in 0 .. Len(files) |-> IF i = 0 THEN Begun(am[n], k)
                                                ELSE KStep(b[i - 1], files[i], key, k)]
             s == CHOOSE b : b = G(b)
  <1>1. ScanK(k, key) = s[Len(files)].am BY DEF ScanK, Asked, Places, On, Begun
  <1>2. am = F(am)
    <2> DEFINE p == [by |-> "memtable", k |-> k, first |-> [i \in 1 .. n |-> MemFirst(Newest(i), key, k)]]
    <2>1. PICK b : b = Chain(b, p, <<>>, n) BY ChainIs
    <2>2. \A i \in 1 .. n : \A x : Stepped(p, i, x) = MergeK(MemFirst(Newest(i), key, k), x, k)
      BY DEF Stepped
    <2> HIDE DEF p
    <2>3. b = F(b)
      <3>1. \A i \in 0 .. n : i = 0 \/ i \in 1 .. n OBVIOUS
      <3> QED BY <2>1, <2>2, <3>1 DEF Chain
    <2> HIDE DEF F
    <2> QED BY <2>3
  <1>3. s = G(s)
    <2> DEFINE p == [by |-> "file", on |-> files, key |-> key, k |-> k]
               init == Begun(am[n], k)
    <2> HIDE DEF am
    <2>1. PICK b : b = Chain(b, p, init, Len(files)) BY ChainIs
    <2>2. \A i \in 1 .. Len(files) : \A x : Stepped(p, i, x) = KStep(x, files[i], key, k)
      BY DEF Stepped
    <2> HIDE DEF p, files
    <2>3. b = G(b)
      <3>1. \A i \in 0 .. Len(files) : i = 0 \/ i \in 1 .. Len(files) OBVIOUS
      <3> QED BY <2>1, <2>2, <3>1 DEF Chain
    <2> HIDE DEF G
    <2> QED BY <2>3
  <1> HIDE DEF am, s
  <1>4. am[0] = <<>> /\ \A i \in 1 .. n : am[i] = MergeK(MemFirst(Newest(i), key, k), am[i - 1], k)
    BY <1>2
  <1>5. s[0] = Begun(am[n], k) /\ \A i \in 1 .. Len(files) : s[i] = KStep(s[i - 1], files[i], key, k)
    <2> HIDE DEF files
    <2> QED BY <1>3
  <1> QED BY <1>1, <1>4, <1>5

(* The strings of two functions that agree on the keys.                    *)
LEMMA SameStrings ==
  ASSUME NEW t, NEW S, NEW F, NEW G, NEW k, FirstOf(t, S, F, k), \A q \in S : F[q] = G[q]
  PROVE  FirstOf(t, S, G, k)
BY DEF FirstOf, TuplesOf

(* At first there is nothing.                                              *)
LEMMA NoneOf ==
  ASSUME NEW F, NEW k \in Nat
  PROVE  FirstOf(<<>>, {}, F, k)
  <1>1. AllOf(<<>>, {}, F) BY NoTuples
  <1>2. TuplesOf(<<>>, {}, F) BY <1>1 DEF AllOf
  <1> QED BY <1>2 DEF FirstOf

(* Keys from key on of the newest i memtables.                             *)
NewestKeys(i, key) ==
    {q \in Key : q >= key /\ \E j \in 1 .. i : q \in RowKeys(memtables[Newest(j)])}

(* From all memtables the first k tuples, each as a point read gives it.   *)
LEMMA MemsMerged ==
  ASSUME FilesInv, NoDeletes, NEW key, NEW k \in Nat, NEW am,
         am[0] = <<>>,
         \A i \in 1 .. Len(memtables) :
             am[i] = MergeK(MemFirst(Newest(i), key, k), am[i - 1], k)
  PROVE  FirstOf(am[Len(memtables)], {q \in MemKeys : q >= key}, Gets, k)
  <1> DEFINE n == Len(memtables)
             T == {i \in Nat : i <= n => FirstOf(am[i], NewestKeys(i, key), Gets, k)}
  <1>1. n \in Nat /\ DOMAIN memtables = 1 .. n BY DEF FilesInv
  <1>2. \A i \in 1 .. n : Newest(i) \in 1 .. n /\ Newest(Newest(i)) = i BY <1>1 DEF Newest
  <1>3. 0 \in T
    <2>1. NewestKeys(0, key) = {} BY DEF NewestKeys
    <2> QED BY <2>1, NoneOf
  <1>4. ASSUME NEW i \in Nat, i \in T PROVE i + 1 \in T
    <2> DEFINE j == i + 1  m == Newest(j)
               S == NewestKeys(i, key)
               U == {q \in RowKeys(memtables[m]) : q >= key}
    <2> SUFFICES ASSUME j <= n PROVE FirstOf(am[j], NewestKeys(j, key), Gets, k) OBVIOUS
    <2>1. j \in 1 .. n /\ j - 1 = i /\ i <= n BY <1>1
    <2>2. FirstOf(am[i], S, Gets, k) BY <1>4, <2>1
    <2>3. m \in DOMAIN memtables BY <1>1, <1>2, <2>1
    <2> HIDE DEF n
    <2>4. FirstOf(MemFirst(m, key, k), U, memtables[m], k) BY <2>3, MemFirstIs
    <2>5. am[j] = MergeK(MemFirst(m, key, k), am[i], k) BY <2>1 DEF n
    <2>6. S \subseteq Key /\ U \subseteq Key BY DEF NewestKeys, RowKeys
    <2>7. ASSUME NEW q \in U \ S PROVE memtables[m][q] = Gets[q]
      <3>1. q \in Key /\ q >= key /\ q \in RowKeys(memtables[m]) BY <2>6
      <3>2. ASSUME NEW x \in DOMAIN memtables, m < x PROVE q \notin RowKeys(memtables[x])
        <4>1. Newest(x) \in 1 .. i /\ Newest(Newest(x)) = x
          <5>1. x \in 1 .. n BY <1>1, <3>2 DEF n
          <5>2. m = n + 1 - j /\ Newest(x) = n + 1 - x /\ Newest(n + 1 - x) = n + 1 - (n + 1 - x)
            BY DEF Newest, n
          <5>3. n \in Nat BY <1>1
          <5>4. n + 1 - j < x BY <3>2, <5>2
          <5> HIDE DEF m
          <5>5. n + 1 - x \in 1 .. i BY <2>1, <5>1, <5>3, <5>4
          <5>6. n + 1 - (n + 1 - x) = x BY <5>1, <5>3
          <5> QED BY <5>2, <5>5, <5>6
        <4>2. \A y \in 1 .. i : q \notin RowKeys(memtables[Newest(y)])
          BY <2>7, <3>1 DEF NewestKeys
        <4> QED BY <4>1, <4>2
      <3>3. Get(q) = memtables[m][q] BY <2>3, <3>1, <3>2, GetIs
      <3> QED BY <3>1, <3>3 DEF Gets
    <2>8. S \cup U = NewestKeys(j, key)
      <3>1. \A x \in 1 .. j : x \in 1 .. i \/ x = j BY <2>1
      <3>2. (\A x \in 1 .. i : x \in 1 .. j) /\ j \in 1 .. j BY <2>1
      <3> HIDE DEF j
      <3>3. \A q \in U : q \in Key /\ q >= key /\ q \in RowKeys(memtables[Newest(j)]) BY <2>6 DEF m
      <3> QED BY <3>1, <3>2, <3>3 DEF NewestKeys
    <2> DEFINE F == memtables[m]  res == MemFirst(m, key, k)  a == am[i]
    <2> HIDE DEF S, U, F, res, a, j, m
    <2>9. FirstOf(a, S, Gets, k) /\ FirstOf(res, U, F, k) /\ \A q \in U \ S : F[q] = Gets[q]
      BY <2>2, <2>4, <2>7 DEF F, res, a
    <2>10. FirstOf(MergeK(res, a, k), S \cup U, Gets, k) BY <2>6, <2>9, MergeIs
    <2> QED BY <2>5, <2>8, <2>10 DEF res, a
  <1> HIDE DEF T
  <1>5. \A i \in Nat : i \in T BY <1>3, <1>4, Induction
  <1>6. n \in T /\ n <= n BY <1>1, <1>5
  <1>7. FirstOf(am[n], NewestKeys(n, key), Gets, k)
    <2> HIDE DEF n
    <2> QED BY <1>6 DEF T
  <1>8. NewestKeys(n, key) = {q \in MemKeys : q >= key}
    <2>1. \A x \in 1 .. n : \E y \in 1 .. n : Newest(y) = x BY <1>2
    <2>2. \A x : x \in MemKeys <=> \E y \in 1 .. n : x \in RowKeys(memtables[y]) BY <1>1 DEF MemKeys
    <2>3. \A x \in MemKeys : x \in Key BY <2>2 DEF RowKeys
    <2>4. \A x : x \in MemKeys <=> \E y \in 1 .. n : x \in RowKeys(memtables[Newest(y)])
      BY <1>2, <2>1, <2>2
    <2> HIDE DEF n
    <2> QED BY <2>3, <2>4 DEF NewestKeys
  <1> QED BY <1>7, <1>8

(* The fields of what KStep keeps.                                         *)
Fields == {"am", "res", "left", "passed"}

(* What ScanKTuples does at one file that gives an.                        *)
Stepping(z, s, an, l, k) ==
    /\ DOMAIN z = Fields
    /\ s.passed = l => z = s
    /\ s.passed # l /\ Len(an) < s.left =>
         /\ z.am = s.am /\ z.passed = s.passed
         /\ z.res = s.res \o an /\ z.left = s.left - Len(an)
    /\ s.passed # l /\ ~(Len(an) < s.left) =>
         /\ z.am = MergeK(s.res \o an, s.am, k) /\ z.passed = l
         /\ z.res = <<>> /\ z.left = k

(* That is what KStep does.                                                *)
LEMMA KStepIs ==
  ASSUME NEW s, DOMAIN s = Fields, NEW l, NEW i, NEW key, NEW k
  PROVE  Stepping(KStep(s, <<l, i>>, key, k), s, FileFirst(FileIndex[l][i], key, s.left), l, k)
  <1> DEFINE an == FileFirst(FileIndex[l][i], key, s.left)
             z == KStep(s, <<l, i>>, key, k)
             res == s.res \o an
             left == s.left - Len(an)
             am == MergeK(res, s.am, k)
             less == Len(an) < s.left
  <1>1. z = IF s.passed = l THEN s
            ELSE IF less THEN [s EXCEPT !.res = res, !.left = left]
            ELSE [am |-> am, res |-> <<>>, left |-> k, passed |-> l]
    BY DEF KStep
  <1> HIDE DEF z, res, left, am, less
  <1>2. CASE s.passed = l
    <2>1. Stepping(z, s, an, l, k) BY <1>1, <1>2 DEF Stepping
    <2> QED BY <2>1 DEF z
  <1>3. CASE s.passed # l /\ less
    <2>1. z = [s EXCEPT !.res = res, !.left = left] BY <1>1, <1>3
    <2>2. DOMAIN z = Fields /\ z.am = s.am /\ z.passed = s.passed /\ z.res = res /\ z.left = left
      BY <2>1 DEF Fields
    <2>3. Stepping(z, s, an, l, k) BY <1>3, <2>2 DEF Stepping, res, left, less
    <2> QED BY <2>3 DEF z
  <1>4. CASE s.passed # l /\ ~less
    <2>1. z = [am |-> am, res |-> <<>>, left |-> k, passed |-> l] BY <1>1, <1>4
    <2>2. DOMAIN z = Fields /\ z.am = am /\ z.passed = l /\ z.res = <<>> /\ z.left = k
      BY <2>1 DEF Fields
    <2>3. Stepping(z, s, an, l, k) BY <1>4, <2>2 DEF Stepping, res, am, less
    <2> QED BY <2>3 DEF z
  <1> QED BY <1>2, <1>3, <1>4

(* A file of a level L, of whose keys those of P are collected in res.     *)
LEMMA FileTaken ==
  ASSUME NEW k \in Nat, NEW a, NEW S, S \subseteq Key, FirstOf(a, S, Gets, k),
         NEW L, L \subseteq Key, NEW P, P \subseteq L, NEW K, K \subseteq L, NEW F,
         \A p \in P : \A q \in K : p < q,
         \A q \in L : q \notin P \cup K => \A p \in P \cup K : p < q,
         \A q \in L : q \notin S => F[q] = Gets[q],
         NEW res, AllOf(res, P, F), Len(res) < k,
         NEW an, FirstOf(an, K, F, k - Len(res))
  PROVE  LET t == res \o an
         IN  /\ Len(an) < k - Len(res) =>
                  AllOf(t, P \cup K, F) /\ Len(t) < k /\ k - Len(t) = (k - Len(res)) - Len(an)
             /\ ~(Len(an) < k - Len(res)) => FirstOf(MergeK(t, a, k), S \cup L, Gets, k)
  <1> DEFINE t == res \o an  left == k - Len(res)
  <1>1. TuplesOf(res, P, F) /\ \A q \in P : Has(res, q) BY DEF AllOf
  <1>2. TuplesOf(an, K, F) /\ Len(an) <= left /\ \A q \in K : Has(an, q) \/ Beyond(an, q, left)
    BY DEF FirstOf
  <1>3. /\ TuplesOf(t, P \cup K, F) /\ Len(t) = Len(res) + Len(an)
        /\ \A q : Has(res, q) \/ Has(an, q) => Has(t, q)
        /\ \A q \in K : \A m : Beyond(an, q, m) => Beyond(t, q, Len(res) + m)
    BY <1>1, <1>2, ConcatTuples
  <1>4. Len(res) \in Nat /\ Len(an) \in Nat BY <1>1, <1>2, TupleFacts DEF TuplesOf
  <1>5. left \in Nat /\ Len(res) + left = k
    <2> DEFINE m == Len(res)
    <2>1. m \in Nat /\ m < k BY <1>4
    <2> HIDE DEF m
    <2>2. k - m \in Nat /\ m + (k - m) = k BY <2>1
    <2> QED BY <2>2 DEF m
  <1> HIDE DEF t
  <1>6. ASSUME Len(an) < left
        PROVE  AllOf(t, P \cup K, F) /\ Len(t) < k /\ k - Len(t) = left - Len(an)
    <2>1. \A q \in K : Has(an, q)
      <3> SUFFICES ASSUME NEW q \in K, Beyond(an, q, left) PROVE FALSE BY <1>2
      <3>1. Len(an) = left BY DEF Beyond
      <3> HIDE DEF left
      <3> QED BY <3>1, <1>5, <1>6
    <2>2. AllOf(t, P \cup K, F) BY <1>1, <1>3, <2>1 DEF AllOf
    <2>3. Len(t) < k /\ k - Len(t) = left - Len(an)
      <3> DEFINE m == Len(res)  n == Len(an)
      <3>1. m \in Nat /\ n \in Nat /\ n < k - m /\ Len(t) = m + n BY <1>3, <1>4, <1>6
      <3> HIDE DEF m, n
      <3>2. m + n < k /\ k - (m + n) = (k - m) - n BY <3>1
      <3> QED BY <3>1, <3>2 DEF m, n
    <2> QED BY <2>2, <2>3
  <1>7. ASSUME ~(Len(an) < left)
        PROVE  FirstOf(MergeK(t, a, k), S \cup L, Gets, k)
    <2>1. Len(an) = left
      <3> HIDE DEF left
      <3> QED BY <1>2, <1>4, <1>5, <1>7
    <2> HIDE DEF left
    <2>2. Len(t) = k BY <1>3, <1>5, <2>1
    <2>3. ASSUME NEW q \in L PROVE Has(t, q) \/ Beyond(t, q, k)
      <3>1. CASE q \in P BY <1>1, <1>3, <3>1
      <3>2. CASE q \in K
        <4>1. CASE Has(an, q) BY <4>1, <1>3
        <4>2. CASE Beyond(an, q, left) BY <3>2, <4>2, <1>3, <1>5
        <4> QED BY <3>2, <4>1, <4>2, <1>2
      <3>3. CASE q \notin P \cup K
        <4>1. \A p \in P \cup K : p < q BY <3>3
        <4>2. \A i \in 1 .. Len(t) : t[i][1] \in P \cup K BY <1>3 DEF TuplesOf
        <4> QED BY <2>2, <4>1, <4>2 DEF Beyond
      <3> QED BY <3>1, <3>2, <3>3
    <2>4. TuplesOf(t, L, F)
      <3>1. P \cup K \subseteq L OBVIOUS
      <3> QED BY <1>3, <3>1 DEF TuplesOf
    <2>5. Len(t) <= k BY <2>2
    <2>6. FirstOf(t, L, F, k) BY <2>3, <2>4, <2>5 DEF FirstOf
    <2>7. \A q \in L \ S : F[q] = Gets[q] OBVIOUS
    <2> QED BY <2>6, <2>7, MergeIs
  <1> QED BY <1>6, <1>7 DEF t

(* The keys from key on of the j-th file read on a level, and of the level.*)
RunKeys(l, key, j) == {q \in RowKeys(FileIndex[l][On(l, key)[j]].rows) : q >= key}
(* The level's keys from key on.                                           *)
LevelFrom(l, key) == {q \in AllKeys(FileIndex[l]) : q >= key}

(* The level is one sorted run.                                            *)
LEMMA RunIs ==
  ASSUME FilesInv, NoDeletes, NEW l \in Levels, NEW key, StartKey(key),
         l = 0 => Len(On(0, key)) <= 1
  PROVE  /\ \A i, j \in 1 .. Len(On(l, key)) : i < j =>
               \A p \in RunKeys(l, key, i) : \A q \in RunKeys(l, key, j) : p < q
         /\ \A q : q \in LevelFrom(l, key) <=>
               \E j \in 1 .. Len(On(l, key)) : q \in RunKeys(l, key, j)
         /\ LevelFrom(l, key) \subseteq Key
  <1> DEFINE o == On(l, key)  files == FileIndex[l]
  <1>1. /\ Len(o) \in Nat
        /\ \A j \in 1 .. Len(o) : o[j] \in DOMAIN files
        /\ \A i, j \in 1 .. Len(o) : i < j => o[i] < o[j]
        /\ \A f \in DOMAIN files : \A q \in RowKeys(files[f].rows) :
                 q >= key => \E j \in 1 .. Len(o) : o[j] = f
    BY OnIs
  <1>2. \A f \in DOMAIN files :
          /\ files[f].key_min \in Nat /\ files[f].key_max \in Nat
          /\ \A q \in RowKeys(files[f].rows) : /\ q \in Key /\ q \in Nat
                                               /\ files[f].key_min <= q /\ q <= files[f].key_max
    BY FileOfLevel
  <1>3. l # 0 => \A i, j \in DOMAIN files : i < j => files[i].key_max < files[j].key_min
    BY DEF FilesInv, OrderedFiles, Levels
  <1>4. l = 0 => Len(o) <= 1 OBVIOUS
  <1>5. \A j : RunKeys(l, key, j) = {q \in RowKeys(files[o[j]].rows) : q >= key} BY DEF RunKeys
  <1>6. LevelFrom(l, key) = {q \in AllKeys(files) : q >= key} BY DEF LevelFrom
  <1> HIDE DEF o, files
  <1>7. ASSUME NEW i \in 1 .. Len(o), NEW j \in 1 .. Len(o), i < j,
               NEW p \in RunKeys(l, key, i), NEW q \in RunKeys(l, key, j)
        PROVE  p < q
    <2>1. l # 0 BY <1>1, <1>4, <1>7
    <2>2. o[i] \in DOMAIN files /\ o[j] \in DOMAIN files /\ o[i] < o[j] BY <1>1, <1>7
    <2>3. files[o[i]].key_max < files[o[j]].key_min BY <1>3, <2>1, <2>2
    <2>4. /\ p \in Nat /\ p <= files[o[i]].key_max /\ files[o[i]].key_max \in Nat
          /\ q \in Nat /\ files[o[j]].key_min <= q /\ files[o[j]].key_min \in Nat
      BY <1>2, <1>5, <1>7, <2>2
    <2> DEFINE v == files[o[i]].key_max  w == files[o[j]].key_min
    <2>5. p <= v /\ v < w /\ w <= q /\ p \in Nat /\ v \in Nat /\ w \in Nat /\ q \in Nat
      BY <2>3, <2>4
    <2> HIDE DEF v, w
    <2> QED BY <2>5
  <1>8. \A q : q \in AllKeys(files) <=> \E f \in DOMAIN files : q \in RowKeys(files[f].rows)
    BY DEF AllKeys
  <1>9. \A q : q \in LevelFrom(l, key) <=> \E j \in 1 .. Len(o) : q \in RunKeys(l, key, j)
    BY <1>1, <1>5, <1>6, <1>8
  <1>10. LevelFrom(l, key) \subseteq Key BY <1>2, <1>6, <1>8
  <1> QED BY <1>7, <1>9, <1>10 DEF o

(* The row of a key on a level.                                            *)
RowAt(l, key, j, q) == FileIndex[l][On(l, key)[j]].rows[q]
(* On one sorted run it is the row of the only file that has it.           *)
LevelRow(l, key) ==
    [q \in Key |->
        RowAt(l, key, CHOOSE j \in 1 .. Len(On(l, key)) : q \in RunKeys(l, key, j), q)]

(* Those of the first m files read on it.                                  *)
RunFrom(l, key, m) == {q \in Key : \E j \in 1 .. m : q \in RunKeys(l, key, j)}

(* Of one sorted run only one file has a key.                              *)
LEMMA LevelRowIs ==
  ASSUME FilesInv, NoDeletes, NEW l \in Levels, NEW key, StartKey(key),
         l = 0 => Len(On(0, key)) <= 1,
         NEW j \in 1 .. Len(On(l, key)), NEW q \in RunKeys(l, key, j)
  PROVE  q \in Key /\ q \in Nat /\ LevelRow(l, key)[q] = RowAt(l, key, j, q)
  <1> DEFINE n == Len(On(l, key))
             i == CHOOSE x \in 1 .. n : q \in RunKeys(l, key, x)
  <1>1. /\ \A x, y \in 1 .. n : x < y =>
                 \A p \in RunKeys(l, key, x) : \A r \in RunKeys(l, key, y) : p < r
        /\ q \in LevelFrom(l, key) /\ LevelFrom(l, key) \subseteq Key
    BY RunIs
  <1>2. q \in Key /\ q \in Nat BY <1>1, KeyFacts
  <1>3. i \in 1 .. n /\ q \in RunKeys(l, key, i) OBVIOUS
  <1>4. LevelRow(l, key)[q] = RowAt(l, key, i, q) BY <1>2 DEF LevelRow
  <1> HIDE DEF i
  <1>5. i = j
    <2> SUFFICES ASSUME i # j PROVE FALSE OBVIOUS
    <2>1. i < j \/ j < i BY <1>3
    <2>2. q < q BY <1>1, <1>3, <2>1
    <2> QED BY <1>2, <2>2
  <1> QED BY <1>2, <1>4, <1>5

(* ScanKTuples between two files.                                          *)
Ready(s, S, k) ==
    /\ DOMAIN s = Fields /\ FirstOf(s.am, S, Gets, k)
    /\ s.res = <<>> /\ s.left = k

(* ScanKTuples after m files of level l, if its answer was a, of S.        *)
Walked(s, l, key, m, a, S, k) ==
    /\ DOMAIN s = Fields
    /\ \/ /\ s.passed \in Int /\ s.passed < l /\ s.am = a /\ s.left = k - Len(s.res) /\ Len(s.res) < k
          /\ AllOf(s.res, RunFrom(l, key, m), LevelRow(l, key))
       \/ s.passed = l /\ Ready(s, S \cup LevelFrom(l, key), k)

(* One file more.                                                          *)
LEMMA WalkedOne ==
  ASSUME FilesInv, NoDeletes, NEW l \in Levels, NEW key, StartKey(key),
         l = 0 => Len(On(0, key)) <= 1, NEW k \in Nat, NEW a, NEW S, S \subseteq Key,
         FirstOf(a, S, Gets, k),
         \A q \in LevelFrom(l, key) : q \notin S => LevelRow(l, key)[q] = Gets[q],
         NEW m \in 0 .. Len(On(l, key)) - 1,
         NEW s, Walked(s, l, key, m, a, S, k)
  PROVE  Walked(KStep(s, <<l, On(l, key)[m + 1]>>, key, k), l, key, m + 1, a, S, k)
  <1> DEFINE n == Len(On(l, key))  j == m + 1
             x == On(l, key)[j]
             f == FileIndex[l][x]
             z == KStep(s, <<l, x>>, key, k)
             an == FileFirst(f, key, s.left)
             L == LevelFrom(l, key)
             P == RunFrom(l, key, m)
             K == RunKeys(l, key, j)
             F == LevelRow(l, key)
  <1>1. j \in 1 .. n /\ n \in Nat /\ m \in Nat
    <2>1. n \in Nat BY OnIs
    <2> HIDE DEF n
    <2> QED BY <2>1 DEF n
  <1>2. x \in DOMAIN FileIndex[l] BY <1>1, OnIs
  <1>3. /\ DOMAIN z = Fields
        /\ s.passed = l => z = s
        /\ s.passed # l /\ Len(an) < s.left =>
             /\ z.am = s.am /\ z.passed = s.passed
             /\ z.res = s.res \o an /\ z.left = s.left - Len(an)
        /\ s.passed # l /\ ~(Len(an) < s.left) =>
             /\ z.am = MergeK(s.res \o an, s.am, k) /\ z.passed = l
             /\ z.res = <<>> /\ z.left = k
    <2>1. DOMAIN s = Fields BY DEF Walked
    <2> HIDE DEF x
    <2>2. Stepping(KStep(s, <<l, x>>, key, k), s, FileFirst(FileIndex[l][x], key, s.left), l, k)
      BY <2>1, KStepIs
    <2> HIDE DEF z, an
    <2>3. Stepping(z, s, an, l, k) BY <2>2 DEF z, an
    <2> QED BY <2>3 DEF Stepping
  <1>4. /\ \A i, y \in 1 .. n : i < y =>
                 \A p \in RunKeys(l, key, i) : \A q \in RunKeys(l, key, y) : p < q
        /\ \A q : q \in L <=> \E i \in 1 .. n : q \in RunKeys(l, key, i)
        /\ L \subseteq Key
    BY RunIs
  <1>5. P \cup K = RunFrom(l, key, j)
    <2>1. \A i \in 1 .. j : i \in 1 .. m \/ i = j BY <1>1
    <2>2. (\A i \in 1 .. m : i \in 1 .. j) /\ j \in 1 .. j BY <1>1
    <2>3. K \subseteq Key BY <1>1, <1>4
    <2> HIDE DEF j
    <2> QED BY <2>1, <2>2, <2>3 DEF RunFrom
  <1>6. P \subseteq L /\ K \subseteq L
    <2>1. \A i \in 1 .. m : i \in 1 .. n BY <1>1
    <2> QED BY <1>1, <1>4, <2>1 DEF RunFrom
  <1>7. \A p \in P : \A q \in K : p < q
    <2>1. \A i \in 1 .. m : i \in 1 .. n /\ i < j BY <1>1
    <2> HIDE DEF j, n
    <2> QED BY <1>1, <1>4, <2>1 DEF RunFrom
  <1>8. \A q \in L : q \notin P \cup K => \A p \in P \cup K : p < q
    <2> SUFFICES ASSUME NEW q \in L, q \notin P \cup K, NEW p \in P \cup K PROVE p < q OBVIOUS
    <2>1. PICK y \in 1 .. n : q \in RunKeys(l, key, y) BY <1>4
    <2>2. q \in Key BY <1>4
    <2>3. p \in RunFrom(l, key, j) /\ q \notin RunFrom(l, key, j) BY <1>5
    <2>4. PICK i \in 1 .. j : p \in RunKeys(l, key, i) BY <2>3 DEF RunFrom
    <2>5. y \notin 1 .. j BY <2>1, <2>2, <2>3 DEF RunFrom
    <2>6. i < y /\ i \in 1 .. n BY <1>1, <2>1, <2>4, <2>5
    <2> QED BY <1>4, <2>1, <2>4, <2>6
  <1>9. \A q \in K : F[q] = f.rows[q] /\ f.rows[q] = F[q]
    <2> TAKE q \in K
    <2>1. LevelRow(l, key)[q] = RowAt(l, key, j, q) BY <1>1, LevelRowIs
    <2> QED BY <2>1 DEF RowAt
  <1> HIDE DEF L, P, F
  <1>10. CASE s.passed = l BY <1>3, <1>10 DEF Walked
  <1>11. CASE s.passed # l
    <2>1. /\ s.am = a /\ s.left = k - Len(s.res) /\ Len(s.res) < k /\ AllOf(s.res, P, F)
          /\ s.passed \in Int /\ s.passed < l
      BY <1>11 DEF Walked, P, F
    <2>2. k - Len(s.res) \in Nat
      <3> DEFINE c == Len(s.res)
      <3>1. Tuples(s.res) BY <2>1 DEF AllOf, TuplesOf
      <3>2. c \in Nat /\ c < k BY <2>1, <3>1, TupleFacts
      <3> HIDE DEF c
      <3>3. k - c \in Nat BY <3>2
      <3> QED BY <3>3 DEF c
    <2>3. FirstOf(an, K, f.rows, k - Len(s.res))
      <3>1. FileMade(f) /\ Clean(f.rows) BY <1>2, FileOfLevel
      <3>2. K = {q \in RowKeys(f.rows) : q >= key} BY DEF RunKeys
      <3>3. key \in Nat BY DEF StartKey
      <3> DEFINE c == k - Len(s.res)
      <3>4. c \in Nat /\ an = FileFirst(f, key, c) BY <2>1, <2>2
      <3> HIDE DEF c, f, K, an
      <3>5. FirstOf(FileFirst(f, key, c), {q \in RowKeys(f.rows) : q >= key}, f.rows, c)
        BY <3>1, <3>3, <3>4, FileFirstIs
      <3>6. FirstOf(an, K, f.rows, c) BY <3>2, <3>4, <3>5
      <3> QED BY <3>6 DEF c
    <2>4. FirstOf(an, K, F, k - Len(s.res))
      <3> DEFINE c == k - Len(s.res)  G == f.rows
      <3>1. FirstOf(an, K, G, c) /\ \A q \in K : G[q] = F[q] BY <1>9, <2>3
      <3> HIDE DEF c, G, K, an
      <3>2. FirstOf(an, K, F, c) BY <3>1, SameStrings
      <3> QED BY <3>2 DEF c
    <2> DEFINE res == s.res  t == res \o an
    <2>5. \A q \in L : q \notin S => F[q] = Gets[q] BY DEF L, F
    <2>6. AllOf(res, P, F) /\ Len(res) < k /\ FirstOf(an, K, F, k - Len(res)) BY <2>1, <2>4
    <2>7. P \subseteq L /\ K \subseteq L /\ L \subseteq Key BY <1>4, <1>6
    <2>8. \A p \in P : \A q \in K : p < q BY <1>7
    <2>9. \A q \in L : q \notin P \cup K => \A p \in P \cup K : p < q BY <1>8
    <2>10. /\ Len(an) < k - Len(res) => z.am = a /\ z.passed = s.passed /\ z.res = t /\ z.left = (k - Len(res)) - Len(an)
           /\ ~(Len(an) < k - Len(res)) => /\ z.am = MergeK(t, a, k) /\ z.passed = l
                                           /\ z.res = <<>> /\ z.left = k
      <3> HIDE DEF an, z
      <3> QED BY <1>3, <1>11, <2>1
    <2> HIDE DEF K, an, res
    <2>11. /\ Len(an) < k - Len(res) =>
                AllOf(t, P \cup K, F) /\ Len(t) < k /\ k - Len(t) = (k - Len(res)) - Len(an)
           /\ ~(Len(an) < k - Len(res)) => FirstOf(MergeK(t, a, k), S \cup L, Gets, k)
      BY <2>5, <2>6, <2>7, <2>8, <2>9, FileTaken
    <2> HIDE DEF t, z
    <2>12. DOMAIN z = Fields BY <1>3
    <2>13. CASE Len(an) < k - Len(res)
      <3>1. AllOf(z.res, RunFrom(l, key, j), F) BY <1>5, <2>10, <2>11, <2>13
      <3>2. /\ z.passed \in Int /\ z.passed < l /\ z.am = a
            /\ z.left = k - Len(z.res) /\ Len(z.res) < k
        BY <2>1, <2>10, <2>11, <2>13
      <3>3. Walked(z, l, key, j, a, S, k)
        <4> HIDE DEF j
        <4> QED BY <2>12, <3>1, <3>2 DEF Walked, F
      <3> QED BY <3>3 DEF z
    <2>14. CASE ~(Len(an) < k - Len(res))
      <3>1. FirstOf(z.am, S \cup L, Gets, k) /\ z.passed = l /\ z.res = <<>> /\ z.left = k
        BY <2>10, <2>11, <2>14
      <3>2. Walked(z, l, key, j, a, S, k)
        <4> HIDE DEF j
        <4> QED BY <2>12, <3>1 DEF Walked, Ready, L
      <3> QED BY <3>2 DEF z
    <2> QED BY <2>13, <2>14
  <1> QED BY <1>10, <1>11

(* A level that is one sorted run with k keys to read, or none, is read.   *)
LEMMA LevelWalked ==
  ASSUME FilesInv, NoDeletes, NEW l \in Levels, NEW key, StartKey(key),
         l = 0 => Len(On(0, key)) <= 1, NEW k \in Nat \ {0}, NEW S, S \subseteq Key,
         \A q \in LevelFrom(l, key) : q \notin S => LevelRow(l, key)[q] = Gets[q],
         LevelFrom(l, key) = {} \/ Cardinality(LevelFrom(l, key)) >= k,
         NEW b, Ready(b[0], S, k), b[0].passed \in Int, b[0].passed < l,
         \A j \in 1 .. Len(On(l, key)) : b[j] = KStep(b[j - 1], <<l, On(l, key)[j]>>, key, k)
  PROVE  /\ Ready(b[Len(On(l, key))], S \cup LevelFrom(l, key), k)
         /\ b[Len(On(l, key))].passed \in Int /\ b[Len(On(l, key))].passed <= l
  <1> DEFINE n == Len(On(l, key))
             a == b[0].am
             L == LevelFrom(l, key)
             F == LevelRow(l, key)
             T == {m \in Nat : m <= n => Walked(b[m], l, key, m, a, S, k)}
  <1>1. n \in Nat BY OnIs
  <1>2. FirstOf(a, S, Gets, k) /\ l \in Int BY DEF Ready, Levels
  <1>3. 0 \in T
    <2>1. RunFrom(l, key, 0) = {} BY DEF RunFrom
    <2>2. AllOf(<<>>, {}, F) BY NoTuples
    <2>3. DOMAIN b[0] = Fields /\ b[0].res = <<>> /\ b[0].left = k BY DEF Ready
    <2>4. Len(<<>>) = 0 /\ 0 < k /\ k = k - 0 OBVIOUS
    <2>5. Walked(b[0], l, key, 0, a, S, k) BY <2>1, <2>2, <2>3, <2>4 DEF Walked
    <2> QED BY <2>5
  <1>4. ASSUME NEW m \in Nat, m \in T PROVE m + 1 \in T
    <2> SUFFICES ASSUME m + 1 <= n PROVE Walked(b[m + 1], l, key, m + 1, a, S, k) OBVIOUS
    <2>1. m \in 0 .. n - 1 /\ m + 1 \in 1 .. n /\ (m + 1) - 1 = m /\ m <= n BY <1>1
    <2>2. Walked(b[m], l, key, m, a, S, k) BY <1>4, <2>1
    <2>3. b[m + 1] = KStep(b[m], <<l, On(l, key)[m + 1]>>, key, k) BY <2>1
    <2>4. k \in Nat OBVIOUS
    <2> HIDE DEF a
    <2>5. Walked(KStep(b[m], <<l, On(l, key)[m + 1]>>, key, k), l, key, m + 1, a, S, k)
      BY <1>2, <2>1, <2>2, <2>4, WalkedOne
    <2> QED BY <2>3, <2>5
  <1> HIDE DEF T
  <1>5. \A m \in Nat : m \in T BY <1>3, <1>4, Induction
  <1> DEFINE s == b[n]
  <1>6. Walked(s, l, key, n, a, S, k)
    <2>1. n \in T /\ n <= n BY <1>1, <1>5
    <2> HIDE DEF n
    <2> QED BY <2>1 DEF T
  <1> HIDE DEF s, a
  <1>7. CASE s.passed = l /\ Ready(s, S \cup L, k) BY <1>2, <1>7 DEF s
  <1>8. CASE /\ s.passed \in Int /\ s.passed < l /\ s.am = a /\ s.left = k - Len(s.res)
             /\ Len(s.res) < k /\ AllOf(s.res, RunFrom(l, key, n), F)
    <2>1. RunFrom(l, key, n) = L /\ L \subseteq Key
      <3>1. (\A q : q \in L <=> \E j \in 1 .. n : q \in RunKeys(l, key, j)) /\ L \subseteq Key
        BY RunIs
      <3> HIDE DEF L, n
      <3> QED BY <3>1 DEF RunFrom
    <2> HIDE DEF L, F
    <2>2. AllOf(s.res, L, F) BY <1>8, <2>1
    <2> DEFINE res == s.res
    <2>3. TuplesOf(res, L, F) /\ (\A q \in L : Has(res, q)) /\ Len(res) < k BY <1>8, <2>2 DEF AllOf
    <2>4. Len(res) \in Nat BY <2>3, TupleFacts DEF TuplesOf
    <2> HIDE DEF res
    <2>5. Len(res) <= k /\ k \in Nat BY <2>3, <2>4
    <2>6. FirstOf(res, L, F, k) BY <2>3, <2>5 DEF FirstOf
    <2>7. Cardinality(L) \in Nat /\ (Len(res) = k \/ Len(res) = Cardinality(L))
      BY <2>1, <2>5, <2>6, FirstPlaces
    <2>8. ~(Cardinality(L) >= k)
      <3> DEFINE c == Cardinality(L)  m == Len(res)
      <3>1. c \in Nat /\ (m = k \/ m = c) /\ m \in Nat /\ m < k BY <2>3, <2>4, <2>7
      <3> HIDE DEF c, m
      <3>2. ~(c >= k) BY <3>1
      <3> QED BY <3>2 DEF c
    <2>9. L = {} BY <2>8 DEF L
    <2>10. s.res = <<>>
      <3>1. AllOf(s.res, {}, F) BY <2>2, <2>9
      <3> QED BY <3>1, NoTuples
    <2>11. s.left = k /\ DOMAIN s = Fields
      <3>1. Len(<<>>) = 0 /\ k - 0 = k OBVIOUS
      <3> QED BY <1>8, <2>10, <3>1, <1>6 DEF Walked
    <2>12. S \cup L = S BY <2>9
    <2>13. FirstOf(s.am, S \cup L, Gets, k) BY <1>2, <1>8, <2>12
    <2>14. Ready(s, S \cup L, k) BY <2>10, <2>11, <2>13 DEF Ready
    <2>15. s.passed \in Int /\ s.passed <= l BY <1>2, <1>8
    <2> QED BY <2>14, <2>15 DEF s, L
  <1>9. \/ s.passed = l /\ Ready(s, S \cup L, k)
        \/ /\ s.passed \in Int /\ s.passed < l /\ s.am = a /\ s.left = k - Len(s.res)
           /\ Len(s.res) < k /\ AllOf(s.res, RunFrom(l, key, n), F)
    BY <1>6 DEF Walked
  <1> QED BY <1>7, <1>8, <1>9

(* The files asked, by level.                                              *)
LEMMA AskedFiles ==
  ASSUME FilesInv, NEW key, StartKey(key)
  PROVE  LET n0 == Len(On(0, key))  n1 == Len(On(1, key))
         IN  /\ n0 \in Nat /\ n1 \in Nat /\ Len(Asked(key)) = n0 + n1
             /\ \A j \in 1 .. n0 : Asked(key)[j] = <<0, On(0, key)[j]>>
             /\ \A j \in 1 .. n1 : Asked(key)[n0 + j] = <<1, On(1, key)[j]>>
  <1> DEFINE X == {0, 1} \X Nat
             n0 == Len(On(0, key))  n1 == Len(On(1, key))
             a == Places(0, key)  c == Places(1, key)
  <1>1. 0 \in Levels /\ 1 \in Levels BY DEF Levels
  <1>2. ASSUME NEW l \in Levels
        PROVE  /\ Places(l, key) \in Seq(X) /\ Len(Places(l, key)) = Len(On(l, key))
               /\ Len(On(l, key)) \in Nat
               /\ \A j \in 1 .. Len(On(l, key)) : Places(l, key)[j] = <<l, On(l, key)[j]>>
    <2> DEFINE n == Len(On(l, key))  p == Places(l, key)
    <2>1. n \in Nat /\ DOMAIN On(l, key) = 1 .. n
          /\ \A j \in 1 .. n : On(l, key)[j] \in DOMAIN FileIndex[l]
      BY OnIs
    <2>2. \A j \in DOMAIN FileIndex[l] : j \in Nat BY DEF FilesInv, LevelOK
    <2>3. p = [i \in 1 .. n |-> <<l, On(l, key)[i]>>] BY <2>1 DEF Places
    <2>4. l \in {0, 1} BY DEF Levels
    <2> HIDE DEF p, n
    <2>5. p \in [1 .. n -> X] BY <2>1, <2>2, <2>3, <2>4
    <2>6. \A j \in 1 .. n : p[j] = <<l, On(l, key)[j]>> BY <2>3
    <2> HIDE DEF X
    <2>7. p \in Seq(X) /\ Len(p) = n BY <2>1, <2>5
    <2> QED BY <2>1, <2>6, <2>7 DEF p, n
  <1>3. a \in Seq(X) /\ c \in Seq(X) /\ Len(a) = n0 /\ Len(c) = n1 /\ n0 \in Nat /\ n1 \in Nat
    BY <1>1, <1>2
  <1>4. /\ \A j \in 1 .. n0 : a[j] = <<0, On(0, key)[j]>>
        /\ \A j \in 1 .. n1 : c[j] = <<1, On(1, key)[j]>>
    BY <1>1, <1>2
  <1> HIDE DEF X, a, c, n0, n1
  <1>5. /\ Len(a \o c) = Len(a) + Len(c)
        /\ \A i \in 1 .. Len(a) : (a \o c)[i] = a[i]
        /\ \A i \in 1 .. Len(a) + Len(c) :
                 i > Len(a) => i - Len(a) \in 1 .. Len(c) /\ (a \o c)[i] = c[i - Len(a)]
    BY <1>3, Concat
  <1>6. \A j \in 1 .. n1 : n0 + j \in 1 .. n0 + n1 /\ n0 + j > n0 /\ (n0 + j) - n0 = j BY <1>3
  <1>7. \A j \in 1 .. n1 : (a \o c)[n0 + j] = c[j] BY <1>3, <1>5, <1>6
  <1>8. Asked(key) = a \o c BY DEF Asked, a, c
  <1> QED BY <1>3, <1>4, <1>5, <1>7, <1>8 DEF n0, n1

(* What a level's files say of keys that no newer place has.               *)
LEMMA LevelRead ==
  ASSUME FilesInv, NoDeletes, NEW key, StartKey(key), Len(On(0, key)) <= 1
  PROVE  /\ \A q \in LevelFrom(0, key) : q \notin MemKeys => LevelRow(0, key)[q] = Gets[q]
         /\ \A q \in LevelFrom(1, key) :
              q \notin MemKeys \cup AllKeys(FileIndex[0]) => LevelRow(1, key)[q] = Gets[q]
  <1>1. 0 \in Levels /\ 1 \in Levels /\ 1 # 0 BY DEF Levels
  <1>2. \A q \in Key : q \notin MemKeys => \A n \in DOMAIN memtables : q \notin RowKeys(memtables[n])
    BY DEF MemKeys
  <1>3. ASSUME NEW l \in Levels, NEW q \in LevelFrom(l, key)
        PROVE  \E j \in 1 .. Len(On(l, key)) :
                 /\ LevelRow(l, key)[q] = FileIndex[l][On(l, key)[j]].rows[q]
                 /\ On(l, key)[j] \in FilesOf(FileIndex[l], q)
                 /\ q \in Key /\ q \in Nat /\ q >= key
    <2>1. l = 0 => Len(On(0, key)) <= 1 OBVIOUS
    <2>2. PICK j \in 1 .. Len(On(l, key)) : q \in RunKeys(l, key, j) BY <2>1, RunIs
    <2>3. q \in Key /\ q \in Nat /\ LevelRow(l, key)[q] = RowAt(l, key, j, q)
      BY <2>1, <2>2, LevelRowIs
    <2>4. q >= key /\ q \in RowKeys(FileIndex[l][On(l, key)[j]].rows) BY <2>2 DEF RunKeys
    <2>5. On(l, key)[j] \in DOMAIN FileIndex[l] BY <2>2, OnIs
    <2>6. On(l, key)[j] \in FilesOf(FileIndex[l], q) BY <2>4, <2>5 DEF FilesOf
    <2> QED BY <2>2, <2>3, <2>4, <2>6 DEF RowAt
  <1>4. ASSUME NEW q \in LevelFrom(0, key), q \notin MemKeys PROVE LevelRow(0, key)[q] = Gets[q]
    <2>1. PICK j \in 1 .. Len(On(0, key)) :
                 /\ LevelRow(0, key)[q] = FileIndex[0][On(0, key)[j]].rows[q]
                 /\ On(0, key)[j] \in FilesOf(FileIndex[0], q)
                 /\ q \in Key /\ q \in Nat /\ q >= key
      BY <1>1, <1>3
    <2>2. ASSUME NEW i \in FilesOf(FileIndex[0], q) PROVE i = On(0, key)[j]
      <3>1. i \in DOMAIN FileIndex[0] /\ q \in RowKeys(FileIndex[0][i].rows) BY DEF FilesOf
      <3>2. PICK x \in 1 .. Len(On(0, key)) : On(0, key)[x] = i BY <1>1, <2>1, <3>1, OnIs
      <3>3. x = j
        <4> DEFINE n == Len(On(0, key))
        <4>1. n \in Nat /\ n <= 1 /\ x \in 1 .. n /\ j \in 1 .. n BY <1>1, <2>1, <3>2, OnIs
        <4> HIDE DEF n
        <4> QED BY <4>1
      <3> QED BY <3>2, <3>3
    <2>3. On(0, key)[j] \in Nat BY <2>1 DEF FilesOf, FilesInv, LevelOK, Levels
    <2> DEFINE x == On(0, key)[j]
    <2>4. \A i \in FilesOf(FileIndex[0], q) : x <= i BY <2>2, <2>3
    <2>5. Get(q) = FileIndex[0][x].rows[q]
      <3>1. \A n \in DOMAIN memtables : q \notin RowKeys(memtables[n]) BY <1>2, <1>4, <2>1
      <3> HIDE DEF x
      <3> QED BY <2>1, <2>4, <3>1, GetIs DEF x
    <2> QED BY <2>1, <2>5 DEF Gets
  <1>5. ASSUME NEW q \in LevelFrom(1, key), q \notin MemKeys \cup AllKeys(FileIndex[0])
        PROVE  LevelRow(1, key)[q] = Gets[q]
    <2>1. PICK j \in 1 .. Len(On(1, key)) :
                 /\ LevelRow(1, key)[q] = FileIndex[1][On(1, key)[j]].rows[q]
                 /\ On(1, key)[j] \in FilesOf(FileIndex[1], q)
                 /\ q \in Key /\ q \in Nat /\ q >= key
      BY <1>1, <1>3
    <2>2. FilesOf(FileIndex[0], q) = {} BY <1>5 DEF FilesOf, AllKeys
    <2>3. \A n \in DOMAIN memtables : q \notin RowKeys(memtables[n]) BY <1>2, <1>5, <2>1
    <2> DEFINE x == On(1, key)[j]
    <2>4. Get(q) = FileIndex[1][x].rows[q]
      <3> HIDE DEF x
      <3> QED BY <2>1, <2>2, <2>3, GetIs DEF x
    <2> QED BY <2>1, <2>4 DEF Gets
  <1> QED BY <1>4, <1>5

(* The first k of c places.                                                *)
Cut(u, s, c, k) ==
    \E m \in Nat : /\ m <= k /\ m <= c /\ (m = k \/ m = c)
                  /\ DOMAIN u = 1 .. m /\ \A i \in 1 .. m : u[i] = s[i]

(* Prefix cuts to those.                                                   *)
LEMMA PrefixSeq ==
  ASSUME NEW X, NEW c \in Nat, NEW s \in [1 .. c -> X], NEW k \in Nat
  PROVE  Cut(Prefix(s, k), s, c, k)
  <1> DEFINE m == Min({k, Len(s)})
  <1>1. s \in Seq(X) /\ Len(s) = c OBVIOUS
  <1>2. m \in Nat /\ m <= k /\ m <= c /\ (m = k \/ m = c)
    <2> DEFINE T == {k, Len(s)}
    <2>1. T \subseteq Nat /\ T # {} /\ k \in T /\ c \in T BY <1>1
    <2>2. \A x \in T : x = k \/ x = c BY <1>1
    <2> HIDE DEF T
    <2>3. Min(T) \in T /\ \A x \in T : Min(T) <= x BY <2>1, MinIs
    <2>4. Min(T) \in Nat /\ Min(T) <= k /\ Min(T) <= c /\ (Min(T) = k \/ Min(T) = c)
      BY <2>1, <2>2, <2>3
    <2> QED BY <2>4 DEF T
  <1>3. Prefix(s, k) = SubSeq(s, 1, m) BY DEF Prefix
  <1> HIDE DEF m
  <1>4. DOMAIN SubSeq(s, 1, m) = 1 .. m /\ \A i \in 1 .. m : SubSeq(s, 1, m)[i] = s[i]
    BY <1>1, <1>2
  <1> QED BY <1>2, <1>3, <1>4 DEF Cut

(* What RunsOf asks of a level is about the keys its files are read for.   *)
LEMMA RunsAre ==
  ASSUME NEW k, NEW key, RunsOf(k, key)
  PROVE  /\ Len(On(0, key)) <= 1
         /\ \A l \in Levels : LevelFrom(l, key) = {} \/ Cardinality(LevelFrom(l, key)) >= k
  <1>1. Len(On(0, key)) <= 1 BY DEF RunsOf, On
  <1>2. ASSUME NEW l \in Levels
        PROVE  LevelFrom(l, key) = {} \/ Cardinality(LevelFrom(l, key)) >= k
    <2> DEFINE keys == {q \in Key : q >= key /\ \E f \in Range(FileIndex[l]) : f.rows[q] # Absent}
    <2>1. keys = {} \/ Cardinality(keys) >= k BY DEF RunsOf
    <2>2. keys = LevelFrom(l, key) BY DEF LevelFrom, AllKeys, RowKeys, Range
    <2> QED BY <2>1, <2>2
  <1> QED BY <1>1, <1>2

(* What is read of the memtables, level 0 and level 1.                     *)
LEMMA ScanKIs ==
  ASSUME FilesInv, NoDeletes, NEW key, StartKey(key), NEW k \in Nat \ {0}, RunsOf(k, key)
  PROVE  FirstOf(ScanK(k, key), {q \in put : q >= key}, Gets, k)
  <1> DEFINE n == Len(memtables)
             n0 == Len(On(0, key))  n1 == Len(On(1, key))
             files == Asked(key)
             M == {q \in MemKeys : q >= key}
             L0 == LevelFrom(0, key)  L1 == LevelFrom(1, key)
  <1>1. n \in Nat BY DEF FilesInv
  <1>2. /\ n0 \in Nat /\ n1 \in Nat /\ Len(files) = n0 + n1
        /\ \A j \in 1 .. n0 : files[j] = <<0, On(0, key)[j]>>
        /\ \A j \in 1 .. n1 : files[n0 + j] = <<1, On(1, key)[j]>>
    BY AskedFiles
  <1>3. Len(files) \in Nat
    <2> HIDE DEF files, n0, n1
    <2> QED BY <1>2
  <1>4. PICK am, s : /\ ScanK(k, key) = s[Len(files)].am
                     /\ am[0] = <<>>
                     /\ \A i \in 1 .. n : am[i] = MergeK(MemFirst(Newest(i), key, k), am[i - 1], k)
                     /\ s[0] = Begun(am[n], k)
                     /\ \A i \in 1 .. Len(files) : s[i] = KStep(s[i - 1], files[i], key, k)
    BY <1>1, <1>3, ScanKFrom
  <1>5. /\ 0 \in Levels /\ 1 \in Levels /\ n0 <= 1
        /\ \A l \in Levels : LevelFrom(l, key) = {} \/ Cardinality(LevelFrom(l, key)) >= k
    BY RunsAre DEF Levels
  <1>6. FirstOf(am[n], M, Gets, k) BY <1>4, MemsMerged
  <1>7. M \subseteq Key BY DEF MemKeys, RowKeys
  <1>8. L0 \subseteq Key /\ L1 \subseteq Key
    <2>1. 1 # 0 OBVIOUS
    <2> QED BY <1>5, <2>1, RunIs
  <1>9. /\ \A q \in L0 : q \notin M => LevelRow(0, key)[q] = Gets[q]
        /\ \A q \in L1 : q \notin M \cup L0 => LevelRow(1, key)[q] = Gets[q]
    <2>1. /\ \A q \in L0 : q >= key
          /\ \A q \in L1 : q >= key
      BY DEF LevelFrom
    <2>2. /\ \A q \in L0 : q \notin MemKeys => LevelRow(0, key)[q] = Gets[q]
          /\ \A q \in L1 :
                q \notin MemKeys \cup AllKeys(FileIndex[0]) => LevelRow(1, key)[q] = Gets[q]
      BY <1>5, LevelRead
    <2>3. \A q : q >= key /\ q \notin M => q \notin MemKeys OBVIOUS
    <2>4. \A q : q >= key /\ q \notin L0 => q \notin AllKeys(FileIndex[0]) BY DEF LevelFrom
    <2> HIDE DEF M, L0, L1
    <2> QED BY <2>1, <2>2, <2>3, <2>4
  <1> HIDE DEF M
  <1>10. Ready(s[0], M, k) /\ s[0].passed = -1
    <2>1. s[0] = [am |-> am[n], res |-> <<>>, left |-> k, passed |-> -1] BY <1>4 DEF Begun
    <2>2. DOMAIN s[0] = Fields /\ s[0].am = am[n] /\ s[0].res = <<>> /\ s[0].left = k
          /\ s[0].passed = -1
      BY <2>1 DEF Fields
    <2> QED BY <2>2, <1>6 DEF Ready
  <1>11. Ready(s[n0], M \cup L0, k) /\ s[n0].passed \in Int /\ s[n0].passed <= 0
    <2>1. \A j \in 1 .. n0 : s[j] = KStep(s[j - 1], <<0, On(0, key)[j]>>, key, k)
      <3> HIDE DEF n0, n1, files
      <3>1. \A j \in 1 .. n0 : j \in 1 .. Len(files) BY <1>2
      <3> QED BY <1>2, <1>4, <3>1
    <2>2. s[0].passed \in Int /\ s[0].passed < 0 BY <1>10
    <2>3. LevelFrom(0, key) = {} \/ Cardinality(LevelFrom(0, key)) >= k BY <1>5
    <2>4. \A q \in LevelFrom(0, key) : q \notin M => LevelRow(0, key)[q] = Gets[q] BY <1>9
    <2> QED BY <1>5, <1>7, <1>10, <2>1, <2>2, <2>3, <2>4, LevelWalked
  <1> DEFINE b == [j \in 0 .. n1 |-> s[n0 + j]]
  <1>12. \A j \in 0 .. n1 : b[j] = s[n0 + j] OBVIOUS
  <1> HIDE DEF b
  <1>13. Ready(b[n1], (M \cup L0) \cup L1, k)
    <2>1. ASSUME NEW j \in 1 .. n1 PROVE b[j] = KStep(b[j - 1], <<1, On(1, key)[j]>>, key, k)
      <3> HIDE DEF n0, n1, files
      <3>1. /\ n0 + j \in 1 .. Len(files) /\ (n0 + j) - 1 = n0 + (j - 1)
            /\ j \in 0 .. n1 /\ j - 1 \in 0 .. n1
        BY <1>2
      <3>2. s[n0 + j] = KStep(s[n0 + (j - 1)], files[n0 + j], key, k) BY <1>4, <3>1
      <3> QED BY <1>2, <1>12, <3>1, <3>2
    <2>2. b[0] = s[n0]
      <3> HIDE DEF n0, n1, files
      <3>1. 0 \in 0 .. n1 /\ n0 + 0 = n0 BY <1>2
      <3> QED BY <1>12, <3>1
    <2>3. Ready(b[0], M \cup L0, k) /\ b[0].passed \in Int /\ b[0].passed < 1 BY <1>11, <2>2
    <2>4. 1 = 0 => n0 <= 1 OBVIOUS
    <2>5. LevelFrom(1, key) = {} \/ Cardinality(LevelFrom(1, key)) >= k BY <1>5
    <2> DEFINE S == M \cup L0
    <2>6. S \subseteq Key BY <1>7, <1>8
    <2>7. \A q \in LevelFrom(1, key) : q \notin S => LevelRow(1, key)[q] = Gets[q] BY <1>9
    <2> HIDE DEF S
    <2>8. Ready(b[0], S, k) BY <2>3 DEF S
    <2>9. Ready(b[n1], S \cup LevelFrom(1, key), k)
      BY <1>5, <2>1, <2>3, <2>4, <2>5, <2>6, <2>7, <2>8, LevelWalked
    <2> QED BY <2>9 DEF S
  <1>14. ScanK(k, key) = b[n1].am
    <2> HIDE DEF n0, n1, files
    <2>1. n1 \in 0 .. n1 /\ Len(files) = n0 + n1 BY <1>2
    <2> QED BY <1>4, <1>12, <2>1
  <1>15. (M \cup L0) \cup L1 = {q \in put : q >= key}
    <2>1. put = MemKeys \cup AllKeys(FileIndex[0]) \cup AllKeys(FileIndex[1]) BY DEF FilesInv
    <2> QED BY <2>1 DEF M, LevelFrom
  <1> QED BY <1>13, <1>14, <1>15 DEF Ready

(* ScanKTuples gives the first k tuples, if each level is one sorted run.  *)
LEMMA ScanKTuplesIs ==
  ASSUME FilesInv, NoDeletes, NEW key, StartKey(key), NEW k \in Nat \ {0}, RunsOf(k, key)
  PROVE  LET first == Prefix(Sorted({q \in put : q >= key}), k)
         IN  ScanK(k, key) = [i \in DOMAIN first |-> <<first[i], Get(first[i])>>]
  <1> DEFINE A == {q \in put : q >= key}
             first == Prefix(Sorted(A), k)
             t == ScanK(k, key)
             c == Cardinality(A)
  <1>1. FirstOf(t, A, Gets, k) BY ScanKIs
  <1>2. A \subseteq Key BY DEF FilesInv, MemKeys, AllKeys, RowKeys
  <1>3. k \in Nat OBVIOUS
  <1> HIDE DEF A, t
  <1>4. /\ Len(t) <= k /\ Len(t) <= c /\ c \in Nat /\ (Len(t) = k \/ Len(t) = c)
        /\ \A i \in 1 .. Len(t) : t[i][1] = Sorted(A)[i] /\ t[i][2] = Gets[t[i][1]]
    BY <1>1, <1>2, <1>3, FirstPlaces
  <1>5. Tuples(t) BY <1>1 DEF FirstOf, TuplesOf
  <1>6. /\ Len(t) \in Nat
        /\ \A i \in 1 .. Len(t) : t[i] = <<t[i][1], t[i][2]>> /\ t[i][1] \in Key
    BY <1>5, TupleFacts
  <1>7. t = [i \in 1 .. Len(t) |-> t[i]] BY <1>5 DEF Tuples
  <1>8. IsFiniteSet(A) /\ A \subseteq Int BY <1>2, KeyFacts, FS_Subset
  <1>9. Sorted(A) \in [1 .. c -> A] BY <1>8, SortedIs
  <1>10. PICK m \in Nat : /\ m <= k /\ m <= c /\ (m = k \/ m = c)
                          /\ DOMAIN first = 1 .. m
                          /\ \A i \in 1 .. m : first[i] = Sorted(A)[i]
    <2> DEFINE s == Sorted(A)
    <2>1. first = Prefix(s, k) /\ s \in [1 .. c -> A] BY <1>9
    <2> HIDE DEF s, c, first
    <2>2. c \in Nat /\ k \in Nat BY <1>3, <1>4
    <2>3. Cut(Prefix(s, k), s, c, k) BY <2>1, <2>2, PrefixSeq
    <2> QED BY <2>1, <2>3 DEF s, Cut
  <1> HIDE DEF first
  <1>11. m = Len(t)
    <2> DEFINE n == Len(t)
    <2>1. n \in Nat /\ n <= k /\ n <= c /\ (n = k \/ n = c) /\ c \in Nat BY <1>4, <1>6
    <2> HIDE DEF n, c
    <2>2. m = n BY <1>3, <1>10, <2>1
    <2> QED BY <2>2 DEF n
  <1>12. \A i \in 1 .. m : t[i] = <<first[i], Get(first[i])>>
    <2> TAKE i \in 1 .. m
    <2>1. t[i][1] = first[i] /\ t[i][2] = Gets[t[i][1]] /\ t[i] = <<t[i][1], t[i][2]>>
          /\ t[i][1] \in Key
      BY <1>4, <1>6, <1>10, <1>11
    <2>2. t[i][2] = Get(first[i]) BY <2>1 DEF Gets
    <2> QED BY <2>1, <2>2
  <1>13. t = [i \in 1 .. m |-> <<first[i], Get(first[i])>>] BY <1>7, <1>11, <1>12
  <1>14. t = [i \in DOMAIN first |-> <<first[i], Get(first[i])>>] BY <1>10, <1>13
  <1> QED BY <1>14 DEF t, first, A

(* So ScanKExact holds wherever FilesInv does.                             *)
LEMMA ScanKFollows == FilesInv /\ NoDeletes => ScanKExact
  <1> SUFFICES ASSUME FilesInv, NoDeletes, NEW key \in Key \cup {0},
                      NEW k \in 1 .. Cardinality(Key), RunsOf(k, key)
               PROVE  LET first == Prefix(Sorted({q \in put : q >= key}), k)
                      IN  ScanK(k, key) = [i \in DOMAIN first |-> <<first[i], Get(first[i])>>]
    BY DEF ScanKExact
  <1>1. Cardinality(Key) \in Nat BY KeyFacts, FS_CardinalityType
  <1>2. k \in Nat \ {0} BY <1>1
  <1>3. StartKey(key) BY KeyFacts, ScanMergeAssumption DEF StartKey
  <1> QED BY <1>2, <1>3, ScanKTuplesIs

(* If nothing is deleted, ScanKTuples gives the first k tuples from key on,*)
(* each as a point read gives it, whenever every level is one sorted run   *)
(* that has k keys from there on or none (ScanKExact;                      *)
(* Transaction::ScanKTuples, RelFileParser::GetKTuple).                    *)
THEOREM ScanKIsExact ==
  ASSUME NoDeletes
  PROVE  Spec => []ScanKExact
  <1>1. FilesInv => ScanKExact BY ScanKFollows
  <1> QED BY <1>1, FilesAreMade, PTL
=============================================================================
