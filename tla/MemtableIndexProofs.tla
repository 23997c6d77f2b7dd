------------------------ MODULE MemtableIndexProofs -------------------------
(***************************************************************************)
(* Proofs about MemtableIndex for every number of writers, keys, slabs,    *)
(* indices and epochs.                                                     *)
(***************************************************************************)
EXTENDS MemtableIndex, WellFoundedInduction, TLAPS

(***************************************************************************)
(* Induction over the numbers, with a set for the predicate, and what a    *)
(* recursive function is.                                                  *)
(***************************************************************************)
(* A set of numbers has a least, ...                                       *)
LEMMA Least ==
  ASSUME NEW T, T \subseteq Nat, T # {}
  PROVE  \E m \in T : \A n \in T : m <= n
  <1> DEFINE R == OpToRel(<, Nat)
  <1>1. PICK m \in T : \A n \in T : ~(<<n, m>> \in R)
    BY NatLessThanWellFounded, WFMin
  <1>2. \A n \in T : n < m => <<n, m>> \in R
    BY DEF OpToRel
  <1>3. \A n \in T : ~(n < m)
    BY <1>1, <1>2
  <1>4. \A n \in T : m <= n
    <2> HIDE DEF R
    <2>1. QED
      BY <1>3
  <1> HIDE DEF R
  <1>5. QED
    BY <1>4

(* ... what holds of 0 and of each one's successor holds of all, ...       *)
LEMMA Induction ==
  ASSUME NEW T, 0 \in T, \A n \in Nat : n \in T => n + 1 \in T
  PROVE  \A n \in Nat : n \in T
  <1> SUFFICES ASSUME NEW k \in Nat, k \notin T PROVE FALSE
    OBVIOUS
  <1>1. PICK m \in Nat \ T : \A n \in Nat \ T : m <= n
    BY Least
  <1>2. m # 0 /\ m - 1 \in T
    BY <1>1
  <1>3. QED
    BY <1>1, <1>2

(* ... and a value and a step make a function.                             *)
LEMMA Recursion ==
  ASSUME NEW X, NEW b \in X, NEW st \in [X -> X]
  PROVE  \E f \in [Nat -> X] : f[0] = b /\ \A n \in Nat : f[n + 1] = st[f[n]]
  <1> DEFINE Upto(n) == {g \in [0 .. n -> X] :
                           g[0] = b /\ \A m \in 0 .. n : m # n => g[m + 1] = st[g[m]]}
  <1>1. \A n \in Nat : Upto(n) # {}
    <2> DEFINE T == {n \in Nat : Upto(n) # {}}
    <2>1. 0 \in T
      <3>1. [m \in 0 .. 0 |-> b] \in Upto(0)
        OBVIOUS
      <3>2. QED
        BY <3>1
    <2>2. ASSUME NEW n \in Nat, n \in T PROVE n + 1 \in T
      <3>1. PICK g : g \in Upto(n)
        BY <2>2
      <3> DEFINE h == [m \in 0 .. n + 1 |-> IF m = n + 1 THEN st[g[n]] ELSE g[m]]
      <3>2. h \in [0 .. n + 1 -> X]
        BY <3>1
      <3>3. h[0] = b
        BY <3>1
      <3>4. ASSUME NEW m \in 0 .. n + 1, m # n + 1 PROVE h[m + 1] = st[h[m]]
        <4>1. m \in 0 .. n /\ m + 1 \in 0 .. n + 1 /\ h[m] = g[m]
          BY <3>4
        <4>2. CASE m = n
          BY <4>1, <4>2
        <4>3. CASE m # n
          BY <3>1, <4>1, <4>3
        <4>4. QED
          BY <4>2, <4>3
      <3>5. h \in Upto(n + 1)
        BY <3>2, <3>3, <3>4
      <3> HIDE DEF h, Upto
      <3>6. QED
        BY <3>5
    <2> HIDE DEF T
    <2>3. \A n \in Nat : n \in T
      BY <2>1, <2>2, Induction
    <2>4. QED
      BY <2>3 DEF T
  <1>2. ASSUME NEW n \in Nat, NEW g \in Upto(n), NEW h \in Upto(n + 1)
        PROVE  \A m \in Nat : m <= n => g[m] = h[m]
    <2> DEFINE T == {m \in Nat : m <= n => g[m] = h[m]}
    <2>1. 0 \in T
      BY <1>2
    <2>2. ASSUME NEW m \in Nat, m \in T PROVE m + 1 \in T
      <3>1. SUFFICES ASSUME m + 1 <= n PROVE g[m + 1] = h[m + 1]
        OBVIOUS
      <3>2. m \in 0 .. n /\ m # n /\ m \in 0 .. n + 1 /\ m # n + 1
        BY <3>1
      <3>3. QED
        BY <1>2, <2>2, <3>2
    <2> HIDE DEF T
    <2>3. \A m \in Nat : m \in T
      BY <2>1, <2>2, Induction
    <2>4. QED
      BY <2>3 DEF T
  <1> DEFINE u == [n \in Nat |-> CHOOSE g : g \in Upto(n)]
             f == [n \in Nat |-> u[n][n]]
  <1>3. \A n \in Nat : u[n] \in Upto(n)
    BY <1>1
  <1> HIDE DEF u
  <1>4. \A n \in Nat : f[n] \in X
    BY <1>3
  <1>5. f[0] = b
    BY <1>3
  <1>6. ASSUME NEW n \in Nat PROVE f[n + 1] = st[f[n]]
    <2>1. u[n] \in Upto(n) /\ u[n + 1] \in Upto(n + 1)
      BY <1>3
    <2>2. u[n + 1][n + 1] = st[u[n + 1][n]]
      BY <2>1
    <2>3. u[n + 1][n] = u[n][n]
      <3> HIDE DEF Upto, f
      <3>1. n \in Nat /\ n <= n
        OBVIOUS
      <3>2. QED
        BY <1>2, <2>1, <3>1
    <2>4. QED
      BY <2>2, <2>3
  <1>7. f \in [Nat -> X]
    BY <1>4
  <1> HIDE DEF f
  <1>8. QED
    BY <1>5, <1>6, <1>7

-----------------------------------------------------------------------------
(* The writers that have an index and have not filled its slot yet.        *)
Holding == {w \in Writer : pc[w] \in {"slab", "grab", "allocate", "store"}}
Allocating == {w \in Writer : pc[w] = "allocate"}

(* What a writer has read stays valid until it has linked its entry.       *)
ThreadInv ==
    \A w \in Writer :
        /\ pc[w] # "idle" => key[w] \in Key /\ epoch[w] # 0
        /\ pc[w] \notin {"idle", "find", "claim"} => pos[w] \in Index
        /\ w \in Searching => Leads(found[w], key[w])
        /\ pc[w] = "claim" /\ found[w] # NONEINDEX => found[w] < cnt
        /\ w \in Holding /\ found[w] # NONEINDEX => found[w] < pos[w]
        /\ pc[w] = "link" => array[pos[w]].key = key[w]

(* An index has one owner until it is stored at, and is stored at once.    *)
SlotsOwned ==
    /\ \A w \in Holding : pos[w] < cnt /\ \A s \in stored : s[1] # pos[w]
    /\ \A v, w \in Holding : pos[v] = pos[w] => v = w
    /\ \A s \in stored : s[1] < cnt

(* A slab has one allocator, who is done before anybody stores into it.    *)
SlabsOnce ==
    /\ \A s \in stored : SlabOf(s[1]) \in allocated
    /\ \A b \in allocated : empty[b]
    /\ \A w \in Writer : pc[w] = "store" => SlabOf(pos[w]) \in allocated
    /\ \A w \in Allocating : empty[SlabOf(pos[w])] /\ SlabOf(pos[w]) \notin allocated
    /\ \A v, w \in Allocating : SlabOf(pos[v]) = SlabOf(pos[w]) => v = w

(* The slots hold what was stored, and nothing else.                       *)
Written ==
    /\ EntriesStay
    /\ \A i \in Index : array[i] # Empty => <<i, array[i]>> \in stored

IInv ==
    /\ TypeOK
    /\ ThreadInv
    /\ SlotsOwned
    /\ SlabsOnce
    /\ Written
    /\ ChainsAreSound

-----------------------------------------------------------------------------
LEMMA InitInv == Init => IInv
  <1> SUFFICES ASSUME Init PROVE IInv
    OBVIOUS
  <1> USE DEF Init
  <1>1. TypeOK
    <2>1. /\ tuple_index \in [Key -> Place] /\ array \in [Index -> Entry \cup {Empty}]
          /\ allocated \subseteq Slab /\ empty \in [Slab -> BOOLEAN]
      BY DEF Place
    <2>2. /\ cnt \in 0 .. LastIndex + 1 /\ next_epoch \in 1 .. LastEpoch + 1
          /\ max_key \in Key \cup {NoKey} /\ min_key \in Key \cup {NoKey}
      BY MemtableIndexAssumption
    <2>3. /\ epoch \in [Writer -> Epoch \cup {0}] /\ pc \in [Writer -> Control]
          /\ key \in [Writer -> Key \cup {NoKey}]
          /\ found \in [Writer -> Place] /\ pos \in [Writer -> Place]
      BY DEF Place, Control
    <2>4. /\ stored \subseteq Index \X Entry /\ finished \subseteq Index
          /\ raced \subseteq Key /\ range_raced \in BOOLEAN
      OBVIOUS
    <2>5. QED
      BY <2>1, <2>2, <2>3, <2>4 DEF TypeOK
  <1>2. ThreadInv
    BY DEF ThreadInv, Searching, Holding
  <1>3. SlotsOwned
    BY DEF SlotsOwned, Holding
  <1>4. SlabsOnce
    BY DEF SlabsOnce, Allocating, Marked
  <1>5. Written
    BY DEF Written, EntriesStay
  <1>6. ChainsAreSound
    BY DEF ChainsAreSound, Leads
  <1>7. QED
    BY <1>1, <1>2, <1>3, <1>4, <1>5, <1>6 DEF IInv

(* The slab a writer allocates holds no entry: the slots stay as they are. *)
LEMMA AllocateKeepsSlots ==
  ASSUME IInv, NEW w \in Writer, Allocate(w)
  PROVE  array' = array
  <1>1. \A i \in Index : SlabOf(i) = SlabOf(pos[w]) => array[i] = Empty
    <2>1. SlabOf(pos[w]) \notin allocated
      BY DEF IInv, SlabsOnce, Allocating, Allocate, Goto
    <2>2. SUFFICES ASSUME NEW i \in Index, array[i] # Empty
                   PROVE  SlabOf(i) \in allocated
      BY <2>1
    <2>3. <<i, array[i]>> \in stored
      BY <2>2 DEF IInv, Written
    <2>4. QED
      BY <2>3 DEF IInv, SlabsOnce
  <1>2. array' = [i \in Index |-> array[i]]
    BY <1>1 DEF Allocate
  <1>3. QED
    BY <1>2 DEF IInv, TypeOK

(* A writer stores into a slot nobody has written.                         *)
LEMMA StoreIntoEmpty ==
  ASSUME IInv, NEW w \in Writer, Store(w)
  PROVE  /\ pos[w] \in Index /\ array[pos[w]] = Empty
         /\ NewEntry(w) \in Entry /\ NewEntry(w) # Empty
         /\ array' = [array EXCEPT ![pos[w]] = NewEntry(w)]
         /\ array'[pos[w]] = NewEntry(w)
         /\ array'[pos[w]].key = key[w] /\ array'[pos[w]].next = found[w]
  <1>1. pc[w] = "store" /\ w \in Holding
    BY DEF Store, Goto, Holding
  <1>2. pos[w] \in Index /\ key[w] \in Key /\ epoch[w] # 0
    BY <1>1 DEF IInv, ThreadInv
  <1>3. \A s \in stored : s[1] # pos[w]
    BY <1>1 DEF IInv, SlotsOwned
  <1>4. array[pos[w]] = Empty
    BY <1>2, <1>3 DEF IInv, Written
  <1>5. NewEntry(w) \in Entry
    BY <1>2 DEF IInv, TypeOK, NewEntry, Entry
  <1>6. NewEntry(w) # Empty
    BY <1>2, MemtableIndexAssumption DEF NewEntry, Empty
  <1>7. array' = [array EXCEPT ![pos[w]] = NewEntry(w)]
    BY DEF Store
  <1>8. array'[pos[w]] = NewEntry(w)
    BY <1>2, <1>7 DEF IInv, TypeOK
  <1>9. NewEntry(w).key = key[w] /\ NewEntry(w).next = found[w]
    BY DEF NewEntry
  <1>10. QED
    BY <1>2, <1>4, <1>5, <1>6, <1>7, <1>8, <1>9

(* A slot once written is not written again.                               *)
LEMMA SlotsGrow ==
  ASSUME IInv, [Next]_vars
  PROVE  \A i \in Index : array[i] # Empty => array'[i] = array[i]
  <1>1. ASSUME NEW w \in Writer, Store(w)
        PROVE  \A i \in Index : array[i] # Empty => array'[i] = array[i]
    BY <1>1, StoreIntoEmpty DEF IInv, TypeOK
  <1>2. ASSUME NEW w \in Writer, Allocate(w) PROVE array' = array
    BY <1>2, AllocateKeepsSlots
  <1>3. CASE UNCHANGED vars
    BY <1>3 DEF vars, poolVars
  <1>4. ASSUME NEW w \in Writer, ~Store(w), ~Allocate(w),
               BeginWrite(w) \/ EndWrite(w) \/ StartPut(w) \/ PutStep(w)
        PROVE  array' = array
    BY <1>4 DEF BeginWrite, EndWrite, StartPut, PutStep, Find, Claim, LoadSlab,
                Grab, Link, CompareMax, SetMax, CompareMin, SetMin, FillMin, poolVars
  <1>5. QED
    BY <1>1, <1>2, <1>3, <1>4 DEF Next, PutStep

(* What led to a key's entry still does.                                   *)
LEMMA LeadsOn ==
  ASSUME IInv, [Next]_vars
  PROVE  \A i \in Place, k \in Key : Leads(i, k) => Leads(i, k)'
  <1>1. \A i \in Index, k \in Key : array[i].key = k => array[i] # Empty
    BY MemtableIndexAssumption DEF Empty
  <1>2. QED
    BY <1>1, SlotsGrow DEF Leads, Place

-----------------------------------------------------------------------------
(* The steps that leave the pool and its owners alone.                     *)
Bystander(w) ==
    \/ BeginWrite(w) \/ EndWrite(w) \/ StartPut(w) \/ Find(w) \/ Link(w)
    \/ CompareMax(w) \/ SetMax(w) \/ CompareMin(w) \/ SetMin(w) \/ FillMin(w)

LEMMA BystanderStep ==
  ASSUME TypeOK, NEW w \in Writer, Bystander(w)
  PROVE  /\ UNCHANGED <<poolVars, stored, pos>>
         /\ Holding' = Holding /\ Allocating' = Allocating
         /\ \A v \in Writer : pc'[v] = "store" <=> pc[v] = "store"
  <1>1. UNCHANGED <<poolVars, stored, pos>>
    BY DEF Bystander, BeginWrite, EndWrite, StartPut, Find, Link, CompareMax, SetMax,
           CompareMin, SetMin, FillMin, poolVars, putVars, histVars
  <1>2. \A v \in Writer : \/ pc'[v] = pc[v]
                         \/ {pc[v], pc'[v]} \cap {"slab", "grab", "allocate", "store"} = {}
    BY DEF TypeOK, Goto, Bystander, BeginWrite, EndWrite, StartPut, Find, Link,
           CompareMax, SetMax, CompareMin, SetMin, FillMin
  <1>3. QED
    BY <1>1, <1>2 DEF Holding, Allocating

(* Claim, LoadSlab, Grab, Allocate and Store move through Holding.         *)
LEMMA NextSplit ==
  ASSUME [Next]_vars
  PROVE  \/ UNCHANGED vars
         \/ \E w \in Writer : \/ Bystander(w) \/ Claim(w) \/ LoadSlab(w) \/ Grab(w)
                             \/ Allocate(w) \/ Store(w)
  BY DEF Next, PutStep, Bystander

-----------------------------------------------------------------------------
(* One lemma per conjunct of the invariant: no step disturbs it.           *)
LEMMA TypeStep ==
  ASSUME IInv, [Next]_vars
  PROVE  TypeOK'
  <1> USE DEF IInv, TypeOK, ThreadInv, Goto, Control, poolVars, rangeVars, txnVars,
              putVars, histVars
  <1>1. CASE UNCHANGED vars
    BY <1>1 DEF vars
  <1>2. ASSUME NEW w \in Writer, BeginWrite(w) PROVE TypeOK'
    BY <1>2, MemtableIndexAssumption DEF BeginWrite, Epoch
  <1>3. ASSUME NEW w \in Writer, EndWrite(w) PROVE TypeOK'
    BY <1>3 DEF EndWrite, Epoch
  <1>4. ASSUME NEW w \in Writer, StartPut(w) PROVE TypeOK'
    BY <1>4 DEF StartPut
  <1>5. ASSUME NEW w \in Writer, Find(w) PROVE TypeOK'
    BY <1>5 DEF Find, Searching
  <1>6. ASSUME NEW w \in Writer, Claim(w) PROVE TypeOK'
    BY <1>6, MemtableIndexAssumption DEF Claim, Index, Place
  <1>7. ASSUME NEW w \in Writer, LoadSlab(w) PROVE TypeOK'
    BY <1>7 DEF LoadSlab
  <1>8. ASSUME NEW w \in Writer, Grab(w) PROVE TypeOK'
    BY <1>8 DEF Grab, Slab
  <1>9. ASSUME NEW w \in Writer, Allocate(w) PROVE TypeOK'
    BY <1>9, AllocateKeepsSlots DEF Allocate, Slab
  <1>10. ASSUME NEW w \in Writer, Store(w) PROVE TypeOK'
    <2>1. array' \in [Index -> Entry \cup {Empty}] /\ stored' \subseteq Index \X Entry
      <3>1. /\ pos[w] \in Index /\ NewEntry(w) \in Entry
            /\ array' = [array EXCEPT ![pos[w]] = NewEntry(w)]
        BY <1>10, StoreIntoEmpty
      <3>2. stored' = stored \cup {<<pos[w], NewEntry(w)>>}
        BY <1>10 DEF Store
      <3>3. array \in [Index -> Entry \cup {Empty}] /\ stored \subseteq Index \X Entry
        OBVIOUS
      <3> HIDE DEF IInv, TypeOK, ThreadInv
      <3>4. QED
        BY <3>1, <3>2, <3>3
    <2>2. pc' \in [Writer -> Control]
      BY <1>10 DEF Store
    <2>3. QED
      BY <1>10, <2>1, <2>2 DEF Store
  <1>11. ASSUME NEW w \in Writer, Link(w) PROVE TypeOK'
    BY <1>11 DEF Link
  <1>12. ASSUME NEW w \in Writer, CompareMax(w) PROVE TypeOK'
    BY <1>12 DEF CompareMax
  <1>13. ASSUME NEW w \in Writer, SetMax(w) PROVE TypeOK'
    BY <1>13 DEF SetMax
  <1>14. ASSUME NEW w \in Writer, CompareMin(w) PROVE TypeOK'
    BY <1>14 DEF CompareMin
  <1>15. ASSUME NEW w \in Writer, SetMin(w) PROVE TypeOK'
    BY <1>15 DEF SetMin
  <1>16. ASSUME NEW w \in Writer, FillMin(w) PROVE TypeOK'
    BY <1>16 DEF FillMin
  <1>17. QED
    BY <1>1, <1>2, <1>3, <1>4, <1>5, <1>6, <1>7, <1>8, <1>9, <1>10, <1>11, <1>12,
       <1>13, <1>14, <1>15, <1>16 DEF Next, PutStep

LEMMA SlotsStep ==
  ASSUME IInv, [Next]_vars
  PROVE  SlotsOwned'
  <1> USE DEF IInv, SlotsOwned
  <1>1. CASE UNCHANGED vars
    BY <1>1 DEF vars, poolVars, putVars, histVars, Holding
  <1>2. ASSUME NEW w \in Writer, Bystander(w) PROVE SlotsOwned'
    BY <1>2, BystanderStep DEF poolVars
  <1>3. ASSUME NEW w \in Writer, Claim(w) PROVE SlotsOwned'
    <2>1. /\ Holding' = Holding \cup {w} /\ w \notin Holding
          /\ pos'[w] = cnt /\ \A v \in Writer \ {w} : pos'[v] = pos[v]
          /\ cnt' = cnt + 1 /\ cnt \in Nat /\ stored' = stored
      BY <1>3 DEF Claim, Goto, Holding, TypeOK, histVars
    <2>2. \A v \in Holding : v \in Writer /\ v # w /\ pos[v] \in Nat
      BY <2>1 DEF Holding, ThreadInv, Index
    <2>3. \A s \in stored : s[1] \in Nat
      BY DEF TypeOK, Index
    <2>4. QED
      BY <2>1, <2>2, <2>3
  <1>4. ASSUME NEW w \in Writer, LoadSlab(w) \/ Grab(w) \/ Allocate(w)
        PROVE  SlotsOwned'
    <2>1. Holding' = Holding /\ UNCHANGED <<pos, cnt, stored>>
      BY <1>4 DEF LoadSlab, Grab, Allocate, Goto, Holding, TypeOK, poolVars, putVars,
                  histVars
    <2>2. QED
      BY <2>1
  <1>5. ASSUME NEW w \in Writer, Store(w) PROVE SlotsOwned'
    <2>1. /\ w \in Holding /\ Holding' = Holding \ {w}
          /\ stored' = stored \cup {<<pos[w], NewEntry(w)>>} /\ UNCHANGED <<pos, cnt>>
      BY <1>5 DEF Store, Goto, Holding, TypeOK, putVars
    <2>2. QED
      BY <2>1
  <1>6. QED
    BY <1>1, <1>2, <1>3, <1>4, <1>5, NextSplit

LEMMA SlabsStep ==
  ASSUME IInv, [Next]_vars
  PROVE  SlabsOnce'
  <1> USE DEF IInv, SlabsOnce
  <1>1. CASE UNCHANGED vars
    BY <1>1 DEF vars, poolVars, putVars, histVars, Allocating
  <1>2. ASSUME NEW w \in Writer, Bystander(w) PROVE SlabsOnce'
    BY <1>2, BystanderStep DEF poolVars
  <1>3. ASSUME NEW w \in Writer, Claim(w) PROVE SlabsOnce'
    <2>1. /\ Allocating' = Allocating /\ w \notin Allocating
          /\ \A v \in Writer : pc'[v] = "store" <=> pc[v] = "store"
          /\ pc[w] = "claim" /\ \A v \in Writer \ {w} : pos'[v] = pos[v]
          /\ UNCHANGED <<allocated, empty, stored>>
      BY <1>3 DEF Claim, Goto, Allocating, TypeOK, histVars
    <2>2. QED
      BY <2>1 DEF Allocating
  <1>4. ASSUME NEW w \in Writer, LoadSlab(w) PROVE SlabsOnce'
    <2>1. /\ Allocating' = Allocating /\ UNCHANGED <<allocated, empty, stored, pos>>
          /\ \A v \in Writer : pc'[v] = "store" =>
                 pc[v] = "store" \/ SlabOf(pos[v]) \in allocated
      BY <1>4 DEF LoadSlab, Goto, Allocating, TypeOK, poolVars, putVars, histVars
    <2>2. QED
      BY <2>1
  <1>5. ASSUME NEW w \in Writer, Grab(w) PROVE SlabsOnce'
    <2>1. UNCHANGED <<allocated, stored, pos>>
      BY <1>5 DEF Grab, putVars, histVars
    <2>2. \A v \in Writer : pc'[v] = "store" <=> pc[v] = "store"
      BY <1>5 DEF Grab, Goto, TypeOK
    <2>3. CASE empty[SlabOf(pos[w])]
      <3>1. Allocating' = Allocating /\ UNCHANGED empty
        BY <1>5, <2>3 DEF Grab, Goto, TypeOK, Allocating
      <3>2. QED
        BY <2>1, <2>2, <3>1
    <2>4. CASE ~empty[SlabOf(pos[w])]
      <3>1. /\ Allocating' = Allocating \cup {w}
            /\ empty' = [empty EXCEPT ![SlabOf(pos[w])] = TRUE]
            /\ pos[w] \in Index
        BY <1>5, <2>4 DEF Grab, Goto, TypeOK, Allocating, ThreadInv
      <3>2. SlabOf(pos[w]) \in Slab /\ empty \in [Slab -> BOOLEAN]
        BY <3>1 DEF Slab, TypeOK
      <3>3. /\ empty'[SlabOf(pos[w])] = TRUE
            /\ \A b \in Slab : empty[b] => empty'[b]
        BY <3>1, <3>2
      <3>4. SlabOf(pos[w]) \notin allocated
        BY <2>4
      <3>5. \A v \in Allocating : /\ SlabOf(pos[v]) # SlabOf(pos[w])
                                  /\ SlabOf(pos[v]) \in Slab
        BY <2>4 DEF Allocating, ThreadInv, Slab
      <3>6. allocated \subseteq Slab
        BY DEF TypeOK
      <3>7. QED
        BY <2>1, <2>2, <3>1, <3>3, <3>4, <3>5, <3>6
    <2>5. QED
      BY <2>3, <2>4
  <1>6. ASSUME NEW w \in Writer, Allocate(w) PROVE SlabsOnce'
    <2>1. /\ w \in Allocating /\ Allocating' = Allocating \ {w}
          /\ allocated' = allocated \cup {SlabOf(pos[w])}
          /\ UNCHANGED <<empty, stored, pos>>
          /\ \A v \in Writer : pc'[v] = "store" <=> pc[v] = "store"
      BY <1>6 DEF Allocate, Goto, TypeOK, Allocating, putVars, histVars
    <2>2. \A v \in Allocating \ {w} : SlabOf(pos[v]) # SlabOf(pos[w])
      BY <2>1
    <2>3. QED
      BY <2>1, <2>2
  <1>7. ASSUME NEW w \in Writer, Store(w) PROVE SlabsOnce'
    <2>1. /\ pc[w] = "store" /\ stored' = stored \cup {<<pos[w], NewEntry(w)>>}
          /\ Allocating' = Allocating /\ UNCHANGED <<allocated, empty, pos>>
          /\ \A v \in Writer : pc'[v] = "store" => pc[v] = "store"
      BY <1>7 DEF Store, Goto, TypeOK, Allocating, putVars
    <2>2. QED
      BY <2>1
  <1>8. QED
    BY <1>1, <1>2, <1>3, <1>4, <1>5, <1>6, <1>7, NextSplit

LEMMA WrittenStep ==
  ASSUME IInv, [Next]_vars
  PROVE  Written'
  <1>1. CASE UNCHANGED <<array, stored>>
    BY <1>1 DEF IInv, Written, EntriesStay
  <1>2. ASSUME NEW w \in Writer, Store(w) PROVE Written'
    <2>1. /\ pos[w] \in Index /\ array[pos[w]] = Empty
          /\ array' = [array EXCEPT ![pos[w]] = NewEntry(w)]
          /\ array'[pos[w]] = NewEntry(w)
          /\ stored' = stored \cup {<<pos[w], NewEntry(w)>>}
      BY <1>2, StoreIntoEmpty DEF Store
    <2>2. \A i \in Index \ {pos[w]} : array'[i] = array[i]
      BY <2>1 DEF IInv, TypeOK
    <2>3. \A s \in stored : s[1] # pos[w] /\ s[1] \in Index /\ array[s[1]] = s[2]
      BY <1>2 DEF IInv, SlotsOwned, Written, EntriesStay, TypeOK, Store, Goto, Holding
    <2>4. EntriesStay'
      BY <2>1, <2>2, <2>3 DEF EntriesStay
    <2>5. \A i \in Index : array'[i] # Empty => <<i, array'[i]>> \in stored'
      BY <2>1, <2>2 DEF IInv, Written
    <2>6. QED
      BY <2>4, <2>5 DEF Written
  <1>3. ASSUME NEW w \in Writer, Allocate(w) PROVE UNCHANGED <<array, stored>>
    BY <1>3, AllocateKeepsSlots DEF Allocate, histVars
  <1>4. ASSUME NEW w \in Writer, Bystander(w) PROVE UNCHANGED <<array, stored>>
    BY <1>4, BystanderStep DEF IInv, poolVars
  <1>5. ASSUME NEW w \in Writer, Claim(w) \/ LoadSlab(w) \/ Grab(w)
        PROVE  UNCHANGED <<array, stored>>
    BY <1>5 DEF Claim, LoadSlab, Grab, poolVars, histVars
  <1>6. CASE UNCHANGED vars
    BY <1>1, <1>6 DEF vars, poolVars, histVars
  <1>7. QED
    BY <1>1, <1>2, <1>3, <1>4, <1>5, <1>6, NextSplit

(* A chain leads to entries written before: below the counter.             *)
LEMMA LeadsBelow ==
  ASSUME IInv, NEW i \in Index, NEW k \in Key, array[i].key = k
  PROVE  array[i] # Empty /\ i < cnt
  <1>1. array[i] # Empty
    BY MemtableIndexAssumption DEF Empty
  <1>2. <<i, array[i]>> \in stored
    BY <1>1 DEF IInv, Written
  <1>3. QED
    BY <1>1, <1>2 DEF IInv, SlotsOwned

(* A step of one writer leaves what the others have read alone.            *)
LEMMA OthersStay ==
  ASSUME TypeOK, NEW w \in Writer,
         BeginWrite(w) \/ EndWrite(w) \/ StartPut(w) \/ PutStep(w)
  PROVE  \A v \in Writer \ {w} : UNCHANGED <<pc[v], key[v], found[v], pos[v], epoch[v]>>
  BY DEF TypeOK, Goto, BeginWrite, EndWrite, StartPut, PutStep, Find, Claim,
         LoadSlab, Grab, Allocate, Store, Link, CompareMax, SetMax, CompareMin, SetMin,
         FillMin, txnVars, putVars

LEMMA ThreadStep ==
  ASSUME IInv, [Next]_vars
  PROVE  ThreadInv'
  <1> DEFINE Good(v) ==
        /\ pc[v] # "idle" => key[v] \in Key /\ epoch[v] # 0
        /\ pc[v] \notin {"idle", "find", "claim"} => pos[v] \in Index
        /\ v \in Searching => Leads(found[v], key[v])
        /\ pc[v] = "claim" /\ found[v] # NONEINDEX => found[v] < cnt
        /\ v \in Holding /\ found[v] # NONEINDEX => found[v] < pos[v]
        /\ pc[v] = "link" => array[pos[v]].key = key[v]
  <1>1. \A v \in Writer : Good(v)
    BY DEF IInv, ThreadInv
  <1>2. cnt' \in Nat /\ cnt \in Nat /\ cnt <= cnt'
    BY NextSplit, BystanderStep
    DEF IInv, TypeOK, Claim, LoadSlab, Grab, Allocate, Store, poolVars, vars
  <1>3. ASSUME NEW v \in Writer,
               UNCHANGED <<pc[v], key[v], found[v], pos[v], epoch[v]>>
        PROVE  Good(v)'
    <2>1. v \in Searching' <=> v \in Searching
      BY <1>3 DEF Searching
    <2>2. v \in Holding' <=> v \in Holding
      BY <1>3 DEF Holding
    <2>3. v \in Searching => Leads(found[v], key[v])'
      <3>1. v \in Searching => key[v] \in Key /\ found[v] \in Place
        BY <1>1 DEF Searching, IInv, TypeOK
      <3>2. QED
        BY <1>1, <1>3, <3>1, LeadsOn DEF Leads
    <2>4. pc[v] = "claim" /\ found[v] # NONEINDEX => found[v] < cnt'
      BY <1>1, <1>2 DEF IInv, TypeOK, Place, Index
    <2>5. pc[v] = "link" => array'[pos[v]].key = key[v]
      <3>1. SUFFICES ASSUME pc[v] = "link" PROVE array'[pos[v]].key = key[v]
        OBVIOUS
      <3>2. pos[v] \in Index /\ key[v] \in Key /\ array[pos[v]].key = key[v]
        BY <1>1, <3>1
      <3>3. QED
        BY <3>2, LeadsBelow, SlotsGrow
    <2>6. QED
      BY <1>1, <1>3, <2>1, <2>2, <2>3, <2>4, <2>5
  <1>4. ASSUME NEW w \in Writer, BeginWrite(w) \/ EndWrite(w) \/ StartPut(w) \/ PutStep(w)
        PROVE  \A v \in Writer \ {w} :
                   UNCHANGED <<pc[v], key[v], found[v], pos[v], epoch[v]>>
    BY <1>4, OthersStay DEF IInv
  <1>5. ASSUME NEW w \in Writer, BeginWrite(w) \/ EndWrite(w) \/ StartPut(w)
        PROVE  Good(w)'
    BY <1>1, <1>5
    DEF IInv, TypeOK, Goto, BeginWrite, EndWrite, StartPut, txnVars, putVars,
        Searching, Holding
  <1>6. ASSUME NEW w \in Writer, Find(w) PROVE Good(w)'
    <2>1. /\ pc'[w] = "claim" /\ found'[w] = tuple_index[key[w]] /\ key[w] \in Key
          /\ tuple_index[key[w]] \in Place
          /\ UNCHANGED <<key, epoch, cnt, array>> /\ epoch[w] # 0
      BY <1>1, <1>6 DEF Find, Goto, IInv, TypeOK, poolVars, txnVars
    <2>2. Leads(tuple_index[key[w]], key[w])
      BY <2>1 DEF IInv, ChainsAreSound
    <2>3. tuple_index[key[w]] # NONEINDEX => tuple_index[key[w]] < cnt
      BY <2>1, <2>2, LeadsBelow DEF Leads, Place
    <2>4. QED
      BY <2>1, <2>2, <2>3 DEF Leads, Holding
  <1>7. ASSUME NEW w \in Writer, Claim(w) PROVE Good(w)'
    <2>1. /\ pc[w] = "claim" /\ pc'[w] = "slab" /\ pos'[w] = cnt /\ cnt \in Index
          /\ UNCHANGED <<key, epoch, found, array>>
      BY <1>7 DEF Claim, Goto, IInv, TypeOK, Index, txnVars
    <2>2. QED
      BY <1>1, <2>1 DEF Leads, Searching, Holding
  <1>8. ASSUME NEW w \in Writer, LoadSlab(w) \/ Grab(w) \/ Allocate(w) PROVE Good(w)'
    <2>1. array' = array
      BY <1>8, AllocateKeepsSlots DEF LoadSlab, Grab, poolVars
    <2>2. /\ {pc[w], pc'[w]} \subseteq {"slab", "grab", "allocate", "store"}
          /\ UNCHANGED <<key, epoch, found, pos>>
      BY <1>8 DEF LoadSlab, Grab, Allocate, Goto, IInv, TypeOK, txnVars, putVars
    <2>3. QED
      BY <1>1, <2>1, <2>2 DEF Leads, Searching, Holding
  <1>9. ASSUME NEW w \in Writer, Store(w) PROVE Good(w)'
    <2>1. /\ pc[w] = "store" /\ pc'[w] = "link"
          /\ UNCHANGED <<key, epoch, found, pos>>
      BY <1>9 DEF Store, Goto, IInv, TypeOK, txnVars, putVars
    <2>2. array'[pos[w]].key = key[w]
      BY <1>9, StoreIntoEmpty
    <2>3. key[w] \in Key /\ found[w] \in Place /\ Leads(found[w], key[w])
      BY <1>1, <2>1 DEF Searching, IInv, TypeOK
    <2>4. Leads(found[w], key[w])'
      BY <2>1, <2>3, LeadsOn DEF Leads
    <2>5. QED
      BY <1>1, <2>1, <2>2, <2>4 DEF Holding
  <1>10. ASSUME NEW w \in Writer,
                \/ Link(w) \/ CompareMax(w) \/ SetMax(w) \/ CompareMin(w)
                \/ SetMin(w) \/ FillMin(w)
         PROVE  Good(w)'
    BY <1>1, <1>10
    DEF IInv, TypeOK, Goto, Link, CompareMax, SetMax, CompareMin, SetMin, FillMin,
        txnVars, putVars, Searching, Holding
  <1> HIDE DEF Good
  <1>11. ASSUME NEW w \in Writer, BeginWrite(w) \/ EndWrite(w) \/ StartPut(w) \/ PutStep(w)
         PROVE  \A v \in Writer : Good(v)'
    BY <1>3, <1>4, <1>5, <1>6, <1>7, <1>8, <1>9, <1>10, <1>11 DEF PutStep
  <1>12. ASSUME UNCHANGED vars PROVE \A v \in Writer : Good(v)'
    BY <1>3, <1>12 DEF vars, txnVars, putVars
  <1>13. \A v \in Writer : Good(v)'
    BY <1>11, <1>12 DEF Next
  <1>14. QED
    BY <1>13 DEF ThreadInv, Good

LEMMA ChainsStep ==
  ASSUME IInv, [Next]_vars
  PROVE  ChainsAreSound'
  <1>1. CASE UNCHANGED <<array, tuple_index>>
    BY <1>1 DEF IInv, ChainsAreSound, Leads
  <1>2. ASSUME NEW w \in Writer, Store(w) PROVE ChainsAreSound'
    <2>1. /\ pc[w] = "store" /\ pos[w] \in Index /\ key[w] \in Key
          /\ UNCHANGED <<tuple_index, pos>> /\ found[w] \in Place
          /\ Leads(found[w], key[w])
          /\ found[w] # NONEINDEX => found[w] < pos[w]
          /\ array' = [array EXCEPT ![pos[w]] = NewEntry(w)]
          /\ array'[pos[w]].key = key[w] /\ array'[pos[w]].next = found[w]
      BY <1>2, StoreIntoEmpty
      DEF Store, Goto, IInv, ThreadInv, TypeOK, Searching, Holding, putVars
    <2>2. \A k \in Key : Leads(tuple_index[k], k)'
      BY <2>1, LeadsOn DEF IInv, ChainsAreSound, TypeOK, Leads
    <2>3. ASSUME NEW i \in Index \ {pos[w]}, array'[i] # Empty
          PROVE  /\ Leads(array[i].next, array[i].key)'
                 /\ array'[i].next # NONEINDEX => array'[i].next < i
      <3>1. array'[i] = array[i] /\ array[i] \in Entry
        BY <2>1, <2>3 DEF IInv, TypeOK
      <3>2. /\ Leads(array[i].next, array[i].key)
            /\ array[i].next # NONEINDEX => array[i].next < i
            /\ array[i].next \in Place /\ array[i].key \in Key
        BY <2>3, <3>1 DEF IInv, ChainsAreSound, Entry
      <3>3. array[i].next # NONEINDEX => array'[array[i].next].key = array[i].key
        BY <3>2, LeadsOn DEF Leads
      <3>4. QED
        BY <3>1, <3>2, <3>3 DEF Leads
    <2>4. Leads(array[pos[w]].next, array[pos[w]].key)'
      <3>1. found[w] # NONEINDEX => array'[found[w]].key = key[w]
        BY <2>1, LeadsOn DEF Leads
      <3>2. QED
        BY <2>1, <3>1 DEF Leads
    <2>5. array'[pos[w]].next # NONEINDEX => array'[pos[w]].next < pos[w]
      BY <2>1
    <2>6. QED
      BY <2>1, <2>2, <2>3, <2>4, <2>5 DEF ChainsAreSound
  <1>3. ASSUME NEW w \in Writer, Link(w) PROVE ChainsAreSound'
    <2>1. pos[w] \in Index /\ array[pos[w]].key = key[w] /\ array' = array
      BY <1>3 DEF Link, Goto, IInv, ThreadInv, poolVars
    <2>2. \A k \in Key : \/ tuple_index'[k] = tuple_index[k]
                         \/ k = key[w] /\ tuple_index'[k] = pos[w]
      <3>1. \/ tuple_index' = tuple_index
            \/ tuple_index' = [tuple_index EXCEPT ![key[w]] = pos[w]]
        BY <1>3 DEF Link
      <3>2. tuple_index \in [Key -> Place]
        BY DEF IInv, TypeOK
      <3>3. QED
        BY <3>1, <3>2
    <2>3. QED
      BY <2>1, <2>2 DEF IInv, ChainsAreSound, Leads
  <1>4. ASSUME NEW w \in Writer, Allocate(w) PROVE UNCHANGED <<array, tuple_index>>
    BY <1>4, AllocateKeepsSlots DEF Allocate
  <1>5. ASSUME NEW w \in Writer, ~Store(w), ~Link(w), ~Allocate(w),
               BeginWrite(w) \/ EndWrite(w) \/ StartPut(w) \/ PutStep(w)
        PROVE  UNCHANGED <<array, tuple_index>>
    BY <1>5 DEF BeginWrite, EndWrite, StartPut, PutStep, Find, Claim, LoadSlab, Grab,
                CompareMax, SetMax, CompareMin, SetMin, FillMin, poolVars
  <1>6. CASE UNCHANGED vars
    BY <1>1, <1>6 DEF vars, poolVars
  <1>7. QED
    BY <1>1, <1>2, <1>3, <1>4, <1>5, <1>6 DEF Next, PutStep

-----------------------------------------------------------------------------
LEMMA Invariance == Spec => []IInv
  <1>1. IInv /\ [Next]_vars => IInv'
    BY TypeStep, ThreadStep, SlotsStep, SlabsStep, WrittenStep, ChainsStep DEF IInv
  <1>2. QED
    BY <1>1, InitInv, PTL DEF Spec

(* Every variable stays in its range: the indices a put claims and the     *)
(* places a chain leads to are slots of the pool (push_back, PutTuple).    *)
THEOREM TypeCorrect == Spec => []TypeOK
  BY Invariance, PTL DEF IInv

(* No index is given out twice and no slab is allocated over another: what *)
(* push_back has stored stays where its index says.                        *)
THEOREM EntriesStayStored == Spec => []EntriesStay
  <1>1. IInv => EntriesStay
    BY DEF IInv, Written
  <1>2. QED
    BY <1>1, Invariance, PTL

(* A reader, which takes no lock, finds under a key's pointer a written    *)
(* entry of that key, and older ones from there on, however puts race      *)
(* (PutTuple, GetTuple).                                                   *)
THEOREM ChainsStaySound == Spec => []ChainsAreSound
  BY Invariance, PTL DEF IInv

-----------------------------------------------------------------------------
(* Met satisfies its equation.                                             *)
LEMMA MetDef ==
  ASSUME TypeOK
  PROVE  \E f :
           /\ Met = f
           /\ f[0] = [i \in Place |-> {}]
           /\ \A n \in Nat : f[n + 1] =
                [i \in Place |-> IF i = NONEINDEX THEN {} ELSE {i} \cup f[n][array[i].next]]
  <1> DEFINE X == [Place -> SUBSET Index]
             b == [i \in Place |-> {}]
             st == [g \in X |-> [i \in Place |-> IF i = NONEINDEX THEN {}
                                                ELSE {i} \cup g[array[i].next]]]
             F(f) == [n \in Nat |->
                        [i \in Place |-> IF i = NONEINDEX \/ n = 0 THEN {}
                                         ELSE {i} \cup f[n - 1][array[i].next]]]
  <1>1. \A i \in Index : array[i].next \in Place
    BY DEF TypeOK, Entry, Empty, Place
  <1>2. b \in X /\ st \in [X -> X]
    BY <1>1 DEF Place
  <1>3. PICK f \in [Nat -> X] : f[0] = b /\ \A n \in Nat : f[n + 1] = st[f[n]]
    <2> HIDE DEF X, b, st
    <2>1. QED
      BY <1>2, Recursion
  <1>4. f = F(f)
    <2>1. ASSUME NEW n \in Nat PROVE f[n] = F(f)[n]
      <3>1. CASE n = 0
        BY <1>3, <3>1
      <3>2. CASE n # 0
        <4>1. f[n] = st[f[n - 1]] /\ f[n - 1] \in X
          <5>1. n - 1 \in Nat /\ (n - 1) + 1 = n
            BY <3>2
          <5> HIDE DEF X, b, st, F
          <5>2. QED
            BY <1>3, <5>1
        <4>2. st[f[n - 1]] = [i \in Place |-> IF i = NONEINDEX THEN {}
                                             ELSE {i} \cup f[n - 1][array[i].next]]
          BY <4>1
        <4>3. F(f)[n] = [i \in Place |-> IF i = NONEINDEX \/ n = 0 THEN {}
                                         ELSE {i} \cup f[n - 1][array[i].next]]
          OBVIOUS
        <4> HIDE DEF X, st, F
        <4>4. QED
          BY <3>2, <4>1, <4>2, <4>3
      <3>3. QED
        BY <3>1, <3>2
    <2> DEFINE h == F(f)
    <2>2. f \in [Nat -> X] /\ \A n \in Nat : f[n] = h[n]
      BY <1>3, <2>1
    <2>3. DOMAIN h = Nat /\ h = [n \in Nat |-> h[n]]
      OBVIOUS
    <2> HIDE DEF h
    <2>4. f = h
      BY <2>2, <2>3
    <2>5. QED
      BY <2>4 DEF h
  <1>5. \E h : h = F(h) /\ Met = h
    <2> DEFINE h == CHOOSE g : g = F(g)
    <2>1. Met = h
      BY DEF Met
    <2>2. \E g : g = F(g)
      BY <1>4
    <2> HIDE DEF F
    <2>3. h = F(h)
      BY <2>2
    <2>4. QED
      BY <2>1, <2>3
  <1>6. ASSUME NEW g, g = F(g)
        PROVE  /\ g[0] = b
               /\ \A n \in Nat : g[n + 1] =
                    [i \in Place |-> IF i = NONEINDEX THEN {}
                                     ELSE {i} \cup g[n][array[i].next]]
    <2>1. g[0] = [i \in Place |-> IF i = NONEINDEX \/ 0 = 0 THEN {}
                                  ELSE {i} \cup g[0 - 1][array[i].next]]
      BY <1>6
    <2>2. ASSUME NEW n \in Nat
          PROVE  g[n + 1] = [i \in Place |-> IF i = NONEINDEX THEN {}
                                             ELSE {i} \cup g[n][array[i].next]]
      <3>1. n + 1 \in Nat /\ n + 1 # 0 /\ (n + 1) - 1 = n
        OBVIOUS
      <3>2. g[n + 1] = [i \in Place |-> IF i = NONEINDEX \/ n + 1 = 0 THEN {}
                                        ELSE {i} \cup g[(n + 1) - 1][array[i].next]]
        BY <1>6, <3>1
      <3> HIDE DEF F
      <3>3. QED
        BY <3>1, <3>2
    <2>3. QED
      BY <2>1, <2>2
  <1>7. PICK h : h = F(h) /\ Met = h
    BY <1>5
  <1>8. /\ h[0] = b
        /\ \A n \in Nat : h[n + 1] =
             [i \in Place |-> IF i = NONEINDEX THEN {} ELSE {i} \cup h[n][array[i].next]]
    <2> HIDE DEF F, b
    <2>1. QED
      BY <1>6, <1>7
  <1> HIDE DEF F, X, st
  <1>9. QED
    BY <1>7, <1>8

(* And so does the function FirstVisible is a value of.                    *)
LEMMA FirstDef ==
  ASSUME TypeOK, NEW t \in Epoch
  PROVE  \E f :
           /\ FirstVisible(t) = f[LastIndex + 1]
           /\ f[0] = [i \in Place |-> NONEINDEX]
           /\ \A n \in Nat : f[n + 1] =
                [i \in Place |-> IF i = NONEINDEX THEN NONEINDEX
                                 ELSE IF array[i].time <= t THEN i
                                 ELSE f[n][array[i].next]]
  <1> DEFINE X == [Place -> Place]
             b == [i \in Place |-> NONEINDEX]
             st == [g \in X |-> [i \in Place |-> IF i = NONEINDEX THEN NONEINDEX
                                                ELSE IF array[i].time <= t THEN i
                                                ELSE g[array[i].next]]]
             F(f) == [n \in Nat |->
                        [i \in Place |-> IF i = NONEINDEX \/ n = 0 THEN NONEINDEX
                                         ELSE IF array[i].time <= t THEN i
                                         ELSE f[n - 1][array[i].next]]]
  <1>1. \A i \in Index : array[i].next \in Place
    BY DEF TypeOK, Entry, Empty, Place
  <1>2. b \in X /\ st \in [X -> X]
    BY <1>1 DEF Place
  <1>3. PICK f \in [Nat -> X] : f[0] = b /\ \A n \in Nat : f[n + 1] = st[f[n]]
    <2> HIDE DEF X, b, st
    <2>1. QED
      BY <1>2, Recursion
  <1>4. f = F(f)
    <2>1. ASSUME NEW n \in Nat PROVE f[n] = F(f)[n]
      <3>1. CASE n = 0
        BY <1>3, <3>1
      <3>2. CASE n # 0
        <4>1. f[n] = st[f[n - 1]] /\ f[n - 1] \in X
          <5>1. n - 1 \in Nat /\ (n - 1) + 1 = n
            BY <3>2
          <5> HIDE DEF X, b, st, F
          <5>2. QED
            BY <1>3, <5>1
        <4>2. st[f[n - 1]] = [i \in Place |-> IF i = NONEINDEX THEN NONEINDEX
                                             ELSE IF array[i].time <= t THEN i
                                             ELSE f[n - 1][array[i].next]]
          BY <4>1
        <4>3. F(f)[n] = [i \in Place |-> IF i = NONEINDEX \/ n = 0 THEN NONEINDEX
                                         ELSE IF array[i].time <= t THEN i
                                         ELSE f[n - 1][array[i].next]]
          OBVIOUS
        <4> HIDE DEF X, st, F
        <4>4. QED
          BY <3>2, <4>1, <4>2, <4>3
      <3>3. QED
        BY <3>1, <3>2
    <2> DEFINE h == F(f)
    <2>2. f \in [Nat -> X] /\ \A n \in Nat : f[n] = h[n]
      BY <1>3, <2>1
    <2>3. DOMAIN h = Nat /\ h = [n \in Nat |-> h[n]]
      OBVIOUS
    <2> HIDE DEF h
    <2>4. f = h
      BY <2>2, <2>3
    <2>5. QED
      BY <2>4 DEF h
  <1>5. \E h : h = F(h) /\ FirstVisible(t) = h[LastIndex + 1]
    <2> DEFINE h == CHOOSE g : g = F(g)
    <2>1. FirstVisible(t) = h[LastIndex + 1]
      BY DEF FirstVisible
    <2>2. \E g : g = F(g)
      BY <1>4
    <2> HIDE DEF F
    <2>3. h = F(h)
      BY <2>2
    <2>4. QED
      BY <2>1, <2>3
  <1>6. ASSUME NEW g, g = F(g)
        PROVE  /\ g[0] = b
               /\ \A n \in Nat : g[n + 1] =
                    [i \in Place |-> IF i = NONEINDEX THEN NONEINDEX
                                     ELSE IF array[i].time <= t THEN i
                                     ELSE g[n][array[i].next]]
    <2>1. g[0] = [i \in Place |-> IF i = NONEINDEX \/ 0 = 0 THEN NONEINDEX
                                  ELSE IF array[i].time <= t THEN i
                                  ELSE g[0 - 1][array[i].next]]
      BY <1>6
    <2>2. ASSUME NEW n \in Nat
          PROVE  g[n + 1] = [i \in Place |-> IF i = NONEINDEX THEN NONEINDEX
                                             ELSE IF array[i].time <= t THEN i
                                             ELSE g[n][array[i].next]]
      <3>1. n + 1 \in Nat /\ n + 1 # 0 /\ (n + 1) - 1 = n
        OBVIOUS
      <3>2. g[n + 1] = [i \in Place |-> IF i = NONEINDEX \/ n + 1 = 0 THEN NONEINDEX
                                        ELSE IF array[i].time <= t THEN i
                                        ELSE g[(n + 1) - 1][array[i].next]]
        BY <1>6, <3>1
      <3> HIDE DEF F
      <3>3. QED
        BY <3>1, <3>2
    <2>3. g[0] = b
      BY <2>1
    <2> HIDE DEF F, b
    <2>4. QED
      BY <2>3, <2>2
  <1>7. PICK h : h = F(h) /\ FirstVisible(t) = h[LastIndex + 1]
    BY <1>5
  <1>8. /\ h[0] = b
        /\ \A n \in Nat : h[n + 1] =
             [i \in Place |-> IF i = NONEINDEX THEN NONEINDEX
                              ELSE IF array[i].time <= t THEN i
                              ELSE h[n][array[i].next]]
    <2> HIDE DEF F, b
    <2>1. QED
      BY <1>6, <1>7
  <1> HIDE DEF F, X, st
  <1>9. QED
    BY <1>7, <1>8

(* Chains lead downwards, so a walk is over after as many steps as there   *)
(* are indices: one more changes nothing.                                  *)
LEMMA WalkEnds ==
  ASSUME IInv, NEW f,
         \A n \in Nat : f[n + 1][NONEINDEX] = f[n][NONEINDEX],
         \A n \in Nat : \A i \in Index :
            f[n + 1][array[i].next] = f[n][array[i].next] => f[(n + 1) + 1][i] = f[n + 1][i]
  PROVE  \A i \in Place : f[(LastIndex + 1) + 1][i] = f[LastIndex + 1][i]
  <1> DEFINE T == {n \in Nat : \A i \in Place :
                     i = NONEINDEX \/ i < n => f[n + 1][i] = f[n][i]}
  <1>1. 0 \in T
    BY DEF Place, Index
  <1>2. ASSUME NEW n \in Nat, n \in T PROVE n + 1 \in T
    <2>1. SUFFICES ASSUME NEW i \in Place, i = NONEINDEX \/ i < n + 1
                   PROVE  f[(n + 1) + 1][i] = f[n + 1][i]
      OBVIOUS
    <2>2. CASE i = NONEINDEX
      BY <2>2
    <2>3. CASE i # NONEINDEX
      <3>1. i \in Index /\ array[i].next \in Place
        BY <2>3 DEF Place, IInv, TypeOK, Entry, Empty
      <3>2. array[i].next = NONEINDEX \/ array[i].next < i
        BY <3>1 DEF IInv, ChainsAreSound, Empty
      <3>3. array[i].next = NONEINDEX \/ array[i].next < n
        BY <2>1, <2>3, <3>1, <3>2 DEF Place, Index
      <3>4. f[n + 1][array[i].next] = f[n][array[i].next]
        BY <1>2, <3>1, <3>3
      <3>5. QED
        BY <3>1, <3>4
    <2>4. QED
      BY <2>2, <2>3
  <1>3. \A n \in Nat : n \in T
    <2> HIDE DEF T
    <2>1. QED
      BY <1>1, <1>2, Induction
  <1>4. LastIndex + 1 \in Nat /\ \A i \in Place : i = NONEINDEX \/ i < LastIndex + 1
    BY MemtableIndexAssumption DEF Place, Index
  <1>5. LastIndex + 1 \in T
    <2> HIDE DEF T
    <2>1. QED
      BY <1>3, <1>4
  <1>6. QED
    BY <1>4, <1>5

(* The equations of a whole chain, without the bound on its length.        *)
ChainEquation ==
    /\ Met[LastIndex + 1][NONEINDEX] = {}
    /\ \A i \in Index : Met[LastIndex + 1][i]
                          = {i} \cup Met[LastIndex + 1][array[i].next]

LEMMA ChainUnfolds ==
  ASSUME IInv
  PROVE  ChainEquation
  <1>1. LastIndex \in Nat /\ LastIndex + 1 \in Nat /\ NONEINDEX \in Place
        /\ NONEINDEX \notin Index /\ Index \subseteq Place
    BY MemtableIndexAssumption DEF Place, Index
  <1>2. \A i \in Index : array[i].next \in Place
    BY DEF IInv, TypeOK, Entry, Empty, Place
  <1>3. PICK f :
          /\ Met = f
          /\ f[0] = [i \in Place |-> {}]
          /\ \A n \in Nat : f[n + 1] =
               [i \in Place |-> IF i = NONEINDEX THEN {} ELSE {i} \cup f[n][array[i].next]]
    BY MetDef DEF IInv
  <1>4. ASSUME NEW n \in Nat, NEW i \in Place
        PROVE  f[n + 1][i] = IF i = NONEINDEX THEN {} ELSE {i} \cup f[n][array[i].next]
    <2>1. f[n + 1] =
            [j \in Place |-> IF j = NONEINDEX THEN {} ELSE {j} \cup f[n][array[j].next]]
      BY <1>3
    <2>2. QED
      BY <2>1
  <1>5. ASSUME NEW n \in Nat PROVE f[n][NONEINDEX] = {}
    <2>1. CASE n = 0
      BY <1>1, <1>3, <2>1
    <2>2. CASE n # 0
      <3>1. n - 1 \in Nat /\ (n - 1) + 1 = n
        BY <2>2
      <3>2. f[(n - 1) + 1][NONEINDEX] = {}
        BY <1>1, <1>4, <3>1
      <3>3. QED
        BY <3>1, <3>2
    <2>3. QED
      BY <2>1, <2>2
  <1>6. ASSUME NEW n \in Nat, NEW i \in Index
        PROVE  f[n + 1][i] = {i} \cup f[n][array[i].next]
    BY <1>1, <1>4
  <1>7. ASSUME NEW n \in Nat, NEW i \in Index,
               f[n + 1][array[i].next] = f[n][array[i].next]
        PROVE  f[(n + 1) + 1][i] = f[n + 1][i]
    <2>1. n + 1 \in Nat
      OBVIOUS
    <2>2. f[(n + 1) + 1][i] = {i} \cup f[n + 1][array[i].next]
      BY <1>6, <2>1
    <2>3. f[n + 1][i] = {i} \cup f[n][array[i].next]
      BY <1>6
    <2>4. QED
      BY <1>7, <2>2, <2>3
  <1>8. \A i \in Place : f[(LastIndex + 1) + 1][i] = f[LastIndex + 1][i]
    <2>1. ASSUME NEW n \in Nat PROVE f[n + 1][NONEINDEX] = f[n][NONEINDEX]
      <3>1. n + 1 \in Nat
        OBVIOUS
      <3>2. QED
        BY <1>5, <3>1
    <2>2. QED
      BY <1>7, <2>1, WalkEnds
  <1>9. f[LastIndex + 1][NONEINDEX] = {}
    BY <1>1, <1>5
  <1>10. ASSUME NEW i \in Index
         PROVE  f[LastIndex + 1][i] = {i} \cup f[LastIndex + 1][array[i].next]
    <2>1. f[(LastIndex + 1) + 1][i] = {i} \cup f[LastIndex + 1][array[i].next]
      BY <1>1, <1>6
    <2>2. QED
      BY <1>1, <1>8, <2>1
  <1>11. QED
    BY <1>3, <1>9, <1>10 DEF ChainEquation

VisibleEquation(t) ==
    /\ FirstVisible(t)[NONEINDEX] = NONEINDEX
    /\ \A i \in Index : FirstVisible(t)[i] =
          IF array[i].time <= t THEN i ELSE FirstVisible(t)[array[i].next]

LEMMA VisibleUnfolds ==
  ASSUME IInv, NEW t \in Epoch
  PROVE  VisibleEquation(t)
  <1>1. LastIndex \in Nat /\ LastIndex + 1 \in Nat /\ NONEINDEX \in Place
        /\ NONEINDEX \notin Index /\ Index \subseteq Place
    BY MemtableIndexAssumption DEF Place, Index
  <1>2. \A i \in Index : array[i].next \in Place
    BY DEF IInv, TypeOK, Entry, Empty, Place
  <1>3. PICK f :
          /\ FirstVisible(t) = f[LastIndex + 1]
          /\ f[0] = [i \in Place |-> NONEINDEX]
          /\ \A n \in Nat : f[n + 1] =
               [i \in Place |-> IF i = NONEINDEX THEN NONEINDEX
                                ELSE IF array[i].time <= t THEN i
                                ELSE f[n][array[i].next]]
    BY FirstDef DEF IInv
  <1>4. \A n \in Nat : \A i \in Place :
           f[n + 1][i] = IF i = NONEINDEX THEN NONEINDEX
                         ELSE IF array[i].time <= t THEN i ELSE f[n][array[i].next]
    <2>1. SUFFICES ASSUME NEW n \in Nat, NEW i \in Place
                   PROVE  f[n + 1][i] = IF i = NONEINDEX THEN NONEINDEX
                                        ELSE IF array[i].time <= t THEN i
                                        ELSE f[n][array[i].next]
      OBVIOUS
    <2>2. f[n + 1] = [j \in Place |-> IF j = NONEINDEX THEN NONEINDEX
                                     ELSE IF array[j].time <= t THEN j
                                     ELSE f[n][array[j].next]]
      BY <1>3
    <2>3. QED
      BY <2>2
  <1>5. \A n \in Nat : f[n][NONEINDEX] = NONEINDEX
    <2>1. ASSUME NEW n \in Nat PROVE f[n][NONEINDEX] = NONEINDEX
      <3>1. CASE n = 0
        BY <1>1, <1>3, <3>1
      <3>2. CASE n # 0
        <4>1. n - 1 \in Nat /\ (n - 1) + 1 = n
          BY <3>2
        <4>2. f[(n - 1) + 1][NONEINDEX] = NONEINDEX
          BY <1>1, <1>4, <4>1
        <4>3. QED
          BY <4>1, <4>2
      <3>3. QED
        BY <3>1, <3>2
    <2>2. QED
      BY <2>1
  <1>6. \A n \in Nat : \A i \in Index :
           f[n + 1][i] = IF array[i].time <= t THEN i ELSE f[n][array[i].next]
    BY <1>1, <1>4
  <1>7. ASSUME NEW n \in Nat, NEW i \in Index,
               f[n + 1][array[i].next] = f[n][array[i].next]
        PROVE  f[(n + 1) + 1][i] = f[n + 1][i]
    <2>1. n + 1 \in Nat
      OBVIOUS
    <2>2. QED
      BY <1>6, <1>7, <2>1
  <1>8. \A i \in Place : f[(LastIndex + 1) + 1][i] = f[LastIndex + 1][i]
    <2>1. \A n \in Nat : f[n + 1][NONEINDEX] = f[n][NONEINDEX]
      BY <1>5
    <2>2. QED
      BY <1>7, <2>1, WalkEnds
  <1>9. QED
    BY <1>1, <1>3, <1>5, <1>6, <1>8 DEF VisibleEquation

-----------------------------------------------------------------------------
(* What holds of the last entry of a chain and of each entry whose next it *)
(* holds of, holds of all entries.                                         *)
LEMMA ChainInduction ==
  ASSUME IInv, NEW G,
         \A i \in Index : /\ array[i] # Empty
                          /\ array[i].next # NONEINDEX =>
                               /\ array[i].next \in Index
                               /\ array[array[i].next] # Empty
                               /\ array[i].next \in G
                          => i \in G
  PROVE  \A i \in Index : array[i] # Empty => i \in G
  <1> DEFINE T == {i \in Index : array[i] # Empty /\ i \notin G}
  <1>1. SUFFICES ASSUME T # {} PROVE FALSE
    OBVIOUS
  <1>2. T \subseteq Nat
    BY DEF Index
  <1>3. PICK m \in T : \A i \in T : m <= i
    BY <1>1, <1>2, Least
  <1>4. m \in Index /\ array[m] # Empty /\ m \notin G /\ array[m] \in Entry
    BY <1>3 DEF IInv, TypeOK
  <1>5. /\ Leads(array[m].next, array[m].key) /\ array[m].key \in Key
        /\ array[m].next # NONEINDEX => array[m].next < m
        /\ array[m].next \in Place
    BY <1>4 DEF IInv, ChainsAreSound, Entry
  <1>6. ASSUME array[m].next # NONEINDEX
        PROVE  /\ array[m].next \in Index /\ array[array[m].next] # Empty
               /\ array[m].next \in G
    <2>1. array[m].next \in Index /\ array[array[m].next].key \in Key
      BY <1>5, <1>6 DEF Place, Leads
    <2>2. array[array[m].next] # Empty
      BY <2>1, MemtableIndexAssumption DEF Empty
    <2>3. array[m].next \notin T
      BY <1>3, <1>5, <1>6, <2>1 DEF Index
    <2>4. QED
      BY <2>1, <2>2, <2>3
  <1>7. m \in G
    BY <1>4, <1>6
  <1>8. QED
    BY <1>4, <1>7

LEMMA UnfoldsNext ==
  (IInv => ChainEquation /\ \A t \in Epoch : VisibleEquation(t))'
  <1>1. IInv => ChainEquation /\ \A t \in Epoch : VisibleEquation(t)
    BY ChainUnfolds, VisibleUnfolds
  <1>2. QED
    BY <1>1, PTL

(* What a chain holds from a written entry on stays the same.              *)
LEMMA MetStays ==
  ASSUME IInv, IInv', [Next]_vars
  PROVE  \A i \in Place : i = NONEINDEX \/ array[i] # Empty =>
            Met'[LastIndex + 1][i] = Met[LastIndex + 1][i]
  <1> DEFINE M == Met[LastIndex + 1]
             N == Met'[LastIndex + 1]
  <1>1. M[NONEINDEX] = {} /\ N[NONEINDEX] = {}
    BY ChainUnfolds, UnfoldsNext DEF ChainEquation
  <1>2. \A i \in Index : /\ M[i] = {i} \cup M[array[i].next]
                         /\ N[i] = {i} \cup N[array'[i].next]
    BY ChainUnfolds, UnfoldsNext DEF ChainEquation
  <1> HIDE DEF M, N
  <1> DEFINE G == {i \in Index : N[i] = M[i]}
  <1>3. ASSUME NEW i \in Index, array[i] # Empty,
               array[i].next # NONEINDEX => array[i].next \in G
        PROVE  i \in G
    <2>1. array'[i] = array[i]
      BY <1>3, SlotsGrow
    <2>2. N[array[i].next] = M[array[i].next]
      BY <1>1, <1>3
    <2>3. N[i] = {i} \cup N[array[i].next] /\ M[i] = {i} \cup M[array[i].next]
      BY <1>2, <2>1
    <2>4. QED
      BY <2>2, <2>3
  <1>4. \A i \in Index : array[i] # Empty => i \in G
    <2> HIDE DEF G
    <2>1. QED
      BY <1>3, ChainInduction
  <1>5. QED
    BY <1>1, <1>4 DEF M, N, Place

(* Nor does what a snapshot sees from a written entry on change.           *)
LEMMA VisibleStays ==
  ASSUME IInv, IInv', [Next]_vars, NEW t \in Epoch
  PROVE  \A i \in Place : i = NONEINDEX \/ array[i] # Empty =>
            FirstVisible(t)'[i] = FirstVisible(t)[i]
  <1> DEFINE M == FirstVisible(t)
             N == FirstVisible(t)'
  <1>1. M[NONEINDEX] = NONEINDEX /\ N[NONEINDEX] = NONEINDEX
    BY VisibleUnfolds, UnfoldsNext DEF VisibleEquation
  <1>2. \A i \in Index :
           /\ M[i] = IF array[i].time <= t THEN i ELSE M[array[i].next]
           /\ N[i] = IF array'[i].time <= t THEN i ELSE N[array'[i].next]
    BY VisibleUnfolds, UnfoldsNext DEF VisibleEquation
  <1> HIDE DEF M, N
  <1> DEFINE G == {i \in Index : N[i] = M[i]}
  <1>3. ASSUME NEW i \in Index, array[i] # Empty,
               array[i].next # NONEINDEX => array[i].next \in G
        PROVE  i \in G
    <2>1. array'[i] = array[i]
      BY <1>3, SlotsGrow
    <2>2. N[array[i].next] = M[array[i].next]
      BY <1>1, <1>3
    <2>3. /\ N[i] = IF array[i].time <= t THEN i ELSE N[array[i].next]
          /\ M[i] = IF array[i].time <= t THEN i ELSE M[array[i].next]
      BY <1>2, <2>1
    <2>4. QED
      BY <2>2, <2>3
  <1>4. \A i \in Index : array[i] # Empty => i \in G
    <2> HIDE DEF G
    <2>1. QED
      BY <1>3, ChainInduction
  <1>5. QED
    BY <1>1, <1>4 DEF M, N, Place

-----------------------------------------------------------------------------
(* Of the puts of one key at most one is between its search and its link,  *)
(* and what it has found is still what the key's node holds, unless two of *)
(* them have overlapped.                                                   *)
SearchInv ==
    /\ \A w \in Searching : key[w] \in raced \/ found[w] = tuple_index[key[w]]
    /\ \A v, w \in Searching : key[v] = key[w] => key[w] \in raced \/ v = w
    /\ \A w \in Writer : pc[w] = "link" => array[pos[w]] = NewEntry(w)

LEMMA RacedGrows ==
  ASSUME TypeOK, [Next]_vars
  PROVE  raced \subseteq raced'
  BY DEF Next, PutStep, vars, BeginWrite, EndWrite, StartPut, Find, Claim,
         LoadSlab, Grab, Allocate, Store, Link, CompareMax, SetMax, CompareMin, SetMin,
         FillMin, histVars

(* Only Link changes the nodes, and only its key's.                        *)
LEMMA LinkSets ==
  ASSUME IInv, SearchInv, NEW w \in Writer, Link(w)
  PROVE  /\ pc[w] = "link" /\ pc'[w] = "max" /\ w \in Searching
         /\ key[w] \in Key /\ pos[w] \in Index
         /\ array[pos[w]] = NewEntry(w) /\ array[pos[w]] # Empty
         /\ UNCHANGED <<array, key, pos, found, epoch, raced, finished>>
         /\ key[w] \in raced \/ tuple_index' = [tuple_index EXCEPT ![key[w]] = pos[w]]
         /\ \A k \in Key \ {key[w]} : tuple_index'[k] = tuple_index[k]
  <1>1. /\ pc[w] = "link" /\ pc'[w] = "max"
        /\ UNCHANGED <<array, key, pos, found, epoch, raced, finished>>
    BY DEF Link, Goto, IInv, TypeOK, poolVars, putVars, txnVars
  <1>2. w \in Searching /\ key[w] \in Key /\ pos[w] \in Index
    BY <1>1 DEF Searching, IInv, ThreadInv
  <1>3. array[pos[w]] = NewEntry(w)
    BY <1>1 DEF SearchInv
  <1>4. array[pos[w]] # Empty
    BY <1>2, <1>3, MemtableIndexAssumption DEF NewEntry, Empty
  <1>5. key[w] \in raced \/ found[w] = tuple_index[key[w]]
    BY <1>2 DEF SearchInv
  <1>6. /\ \/ tuple_index' = tuple_index
           \/ tuple_index' = [tuple_index EXCEPT ![key[w]] = pos[w]]
        /\ key[w] \in raced \/ tuple_index' = [tuple_index EXCEPT ![key[w]] = pos[w]]
    BY <1>5 DEF Link
  <1>7. \A k \in Key \ {key[w]} : tuple_index'[k] = tuple_index[k]
    BY <1>6 DEF IInv, TypeOK
  <1>8. QED
    BY <1>1, <1>2, <1>3, <1>4, <1>6, <1>7

LEMMA IndexStays ==
  ASSUME TypeOK, NEW w \in Writer, ~Link(w),
         BeginWrite(w) \/ EndWrite(w) \/ StartPut(w) \/ PutStep(w)
  PROVE  tuple_index' = tuple_index
  BY DEF PutStep, BeginWrite, EndWrite, StartPut, Find, Claim,
         LoadSlab, Grab, Allocate, Store, CompareMax, SetMax, CompareMin, SetMin, FillMin

LEMMA SearchStep ==
  ASSUME IInv, SearchInv, [Next]_vars
  PROVE  SearchInv'
  <1>1. raced \subseteq raced'
    BY RacedGrows DEF IInv
  <1>2. ASSUME NEW v \in Writer, pc[v] = "link", pc'[v] = "link",
               UNCHANGED <<key[v], found[v], pos[v], epoch[v]>>
        PROVE  array'[pos'[v]] = NewEntry(v)'
    <2>1. array[pos[v]] = NewEntry(v) /\ pos[v] \in Index /\ key[v] \in Key
      BY <1>2 DEF SearchInv, IInv, ThreadInv
    <2>2. array[pos[v]] # Empty
      BY <2>1, MemtableIndexAssumption DEF NewEntry, Empty
    <2>3. array'[pos[v]] = array[pos[v]]
      BY <2>1, <2>2, SlotsGrow
    <2>4. NewEntry(v)' = NewEntry(v)
      BY <1>2 DEF NewEntry
    <2>5. QED
      BY <1>2, <2>1, <2>3, <2>4
  <1>3. CASE UNCHANGED vars
    <2>1. /\ Searching' = Searching
          /\ UNCHANGED <<tuple_index, found, key, raced, pos, pc, array, epoch>>
      BY <1>3 DEF vars, poolVars, txnVars, putVars, histVars, Searching
    <2>2. \A v \in Writer : NewEntry(v)' = NewEntry(v)
      BY <2>1 DEF NewEntry
    <2>3. QED
      BY <2>1, <2>2 DEF SearchInv
  <1>4. ASSUME NEW w \in Writer,
               BeginWrite(w) \/ EndWrite(w) \/ StartPut(w) \/ PutStep(w)
        PROVE  SearchInv'
    <2>1. \A v \in Writer \ {w} : UNCHANGED <<pc[v], key[v], found[v], pos[v], epoch[v]>>
      BY <1>4, OthersStay DEF IInv
    <2>2. \A v \in Writer \ {w} : v \in Searching' <=> v \in Searching
      BY <2>1 DEF Searching
    <2>3. \A v \in Writer \ {w} : pc'[v] = "link" => array'[pos'[v]] = NewEntry(v)'
      BY <1>2, <2>1
    <2>4. \A v \in Searching : key[v] \in Key
      BY DEF Searching, IInv, ThreadInv
    <2>5. CASE Find(w)
      <3>1. /\ pc[w] = "find" /\ pc'[w] = "claim" /\ key[w] \in Key
            /\ UNCHANGED <<tuple_index, key, array>>
            /\ found'[w] = tuple_index[key[w]]
            /\ raced' = raced \cup {key[v] : v \in {u \in Searching : key[u] = key[w]}}
        BY <2>5 DEF Find, Goto, IInv, TypeOK, ThreadInv, poolVars
      <3>2. w \notin Searching /\ Searching' = Searching \cup {w}
        BY <2>2, <3>1 DEF Searching
      <3>3. \A v \in Searching : key[v] = key[w] => key[w] \in raced'
        BY <3>1
      <3>4. \A v \in Searching : v # w /\ found'[v] = found[v]
        BY <2>1, <3>2 DEF Searching
      <3>5. \A v \in Searching' : key'[v] \in raced' \/ found'[v] = tuple_index'[key'[v]]
        BY <1>1, <3>1, <3>2, <3>4 DEF SearchInv
      <3>6. \A u, v \in Searching' : key'[u] = key'[v] => key'[v] \in raced' \/ u = v
        BY <1>1, <3>1, <3>2, <3>3 DEF SearchInv
      <3>7. pc'[w] # "link"
        BY <3>1
      <3>8. QED
        BY <2>3, <3>5, <3>6, <3>7 DEF SearchInv
    <2>6. CASE Link(w)
      <3>1. /\ pc'[w] = "max" /\ w \in Searching /\ UNCHANGED <<key, found>>
            /\ key[w] \in Key
            /\ \A k \in Key \ {key[w]} : tuple_index'[k] = tuple_index[k]
        BY <2>6, LinkSets
      <3>2. Searching' = Searching \ {w}
        BY <2>2, <3>1 DEF Searching
      <3>3. ASSUME NEW v \in Searching'
            PROVE  key'[v] \in raced' \/ found'[v] = tuple_index'[key'[v]]
        <4>1. v \in Searching /\ v # w
          BY <3>2
        <4>2. CASE key[v] = key[w]
          BY <1>1, <3>1, <4>1, <4>2 DEF SearchInv
        <4>3. CASE key[v] # key[w]
          BY <1>1, <2>4, <3>1, <4>1, <4>3 DEF SearchInv
        <4>4. QED
          BY <4>2, <4>3
      <3>4. \A u, v \in Searching' : key'[u] = key'[v] => key'[v] \in raced' \/ u = v
        BY <1>1, <3>1, <3>2 DEF SearchInv
      <3>5. QED
        BY <2>3, <3>1, <3>3, <3>4 DEF SearchInv
    <2>7. CASE ~Find(w) /\ ~Link(w)
      <3>1. tuple_index' = tuple_index
        BY <1>4, <2>7, IndexStays DEF IInv
      <3>2. w \in Searching' => w \in Searching /\ UNCHANGED <<key[w], found[w]>>
        <4>1. CASE Claim(w) \/ LoadSlab(w) \/ Grab(w) \/ Allocate(w) \/ Store(w)
          BY <4>1 DEF Claim, LoadSlab, Grab, Allocate, Store, Goto, Searching, IInv,
             TypeOK, putVars
        <4>2. CASE BeginWrite(w) \/ EndWrite(w) \/ StartPut(w)
          BY <4>2 DEF BeginWrite, EndWrite, StartPut, Goto, Searching, IInv, TypeOK
        <4>3. CASE \/ CompareMax(w) \/ SetMax(w) \/ CompareMin(w) \/ SetMin(w)
                   \/ FillMin(w)
          BY <4>3 DEF CompareMax, SetMax, CompareMin, SetMin, FillMin, Goto, Searching,
             IInv, TypeOK
        <4>4. QED
          BY <1>4, <2>7, <4>1, <4>2, <4>3 DEF PutStep
      <3>3. \A v \in Searching' : v \in Searching /\ UNCHANGED <<key[v], found[v]>>
        BY <2>1, <2>2, <3>2 DEF Searching
      <3>4. pc'[w] = "link" => array'[pos'[w]] = NewEntry(w)'
        <4>1. CASE Store(w)
          <5>1. array'[pos[w]] = NewEntry(w) /\ UNCHANGED <<pos, key, found, epoch>>
            BY <4>1, StoreIntoEmpty DEF Store, putVars, txnVars
          <5>2. QED
            BY <5>1 DEF NewEntry
        <4>2. CASE ~Store(w)
          BY <1>4, <2>7, <4>2 DEF BeginWrite, EndWrite, StartPut, PutStep, Claim,
             LoadSlab, Grab, Allocate, CompareMax, SetMax, CompareMin, SetMin, FillMin,
             Goto, IInv, TypeOK
        <4>3. QED
          BY <4>1, <4>2
      <3>5. \A v \in Searching' : key'[v] \in raced' \/ found'[v] = tuple_index'[key'[v]]
        BY <1>1, <3>1, <3>3 DEF SearchInv
      <3>6. \A u, v \in Searching' : key'[u] = key'[v] => key'[v] \in raced' \/ u = v
        BY <1>1, <3>3 DEF SearchInv
      <3>7. QED
        BY <2>3, <3>4, <3>5, <3>6 DEF SearchInv
    <2>8. QED
      BY <2>5, <2>6, <2>7
  <1>5. QED
    BY <1>3, <1>4 DEF Next

(* A key's node leads to a written entry; a step that does not link leaves *)
(* its chain alone.                                                        *)
LEMMA NodeWritten ==
  ASSUME IInv, NEW k \in Key
  PROVE  /\ tuple_index[k] \in Place
         /\ tuple_index[k] = NONEINDEX \/ array[tuple_index[k]] # Empty
  <1>1. tuple_index[k] \in Place /\ Leads(tuple_index[k], k)
    BY DEF IInv, TypeOK, ChainsAreSound
  <1>2. QED
    BY <1>1, MemtableIndexAssumption DEF Leads, Empty

(* Without a race, Link puts an entry before the chain its key had.        *)
LEMMA LinkPrepends ==
  ASSUME IInv, SearchInv, NEW w \in Writer, Link(w), key[w] \notin raced
  PROVE  /\ tuple_index'[key[w]] = pos[w]
         /\ array'[pos[w]].next = tuple_index[key[w]]
         /\ array'[pos[w]].time = epoch[w]
  <1>1. /\ w \in Searching /\ key[w] \in Key /\ array' = array
        /\ array[pos[w]] = NewEntry(w)
        /\ tuple_index' = [tuple_index EXCEPT ![key[w]] = pos[w]]
    BY LinkSets
  <1>2. found[w] = tuple_index[key[w]]
    BY <1>1 DEF SearchInv
  <1>3. NewEntry(w).next = found[w] /\ NewEntry(w).time = epoch[w]
    BY DEF NewEntry
  <1>4. QED
    BY <1>1, <1>2, <1>3 DEF IInv, TypeOK

(* What is in a chain stays there, and what is linked comes into it, if no *)
(* two puts of the key overlap.                                            *)
InChainNext(i, k) == i \in Met'[LastIndex + 1][tuple_index'[k]]

LEMMA InChainStays ==
  ASSUME IInv, IInv', SearchInv, [Next]_vars,
         NEW k \in Key, k \notin raced', NEW i, InChain(i, k)
  PROVE  InChainNext(i, k)
  <1>1. Met'[LastIndex + 1][tuple_index[k]] = Met[LastIndex + 1][tuple_index[k]]
    BY NodeWritten, MetStays
  <1>2. i \in Met'[LastIndex + 1][tuple_index[k]]
    BY <1>1 DEF InChain
  <1>3. CASE tuple_index'[k] = tuple_index[k]
    BY <1>2, <1>3 DEF InChainNext
  <1>4. ASSUME NEW w \in Writer, Link(w), key[w] = k
        PROVE  InChainNext(i, k)
    <2>1. k \notin raced
      BY RacedGrows DEF IInv
    <2>2. tuple_index'[k] = pos[w] /\ array'[pos[w]].next = tuple_index[k]
      BY <1>4, <2>1, LinkPrepends
    <2>3. pos[w] \in Index
      BY <1>4, LinkSets
    <2>4. Met'[LastIndex + 1][pos[w]] = {pos[w]} \cup Met'[LastIndex + 1][array'[pos[w]].next]
      BY <2>3, UnfoldsNext DEF ChainEquation
    <2>5. QED
      BY <1>2, <2>2, <2>4 DEF InChainNext
  <1>5. tuple_index'[k] = tuple_index[k] \/ \E w \in Writer : Link(w) /\ key[w] = k
    <2>1. CASE UNCHANGED vars
      BY <2>1 DEF vars
    <2>2. ASSUME NEW w \in Writer, Link(w), key[w] # k
          PROVE  tuple_index'[k] = tuple_index[k]
      BY <2>2, LinkSets
    <2>3. QED
      BY <2>1, <2>2, IndexStays DEF Next, IInv
  <1>6. QED
    BY <1>3, <1>4, <1>5

LEMMA LinkedInChain ==
  ASSUME IInv, IInv', SearchInv, NEW w \in Writer, Link(w), key[w] \notin raced
  PROVE  InChainNext(pos[w], key[w])
  <1>1. /\ pos[w] \in Index /\ UNCHANGED <<pos, key>> /\ tuple_index'[key[w]] = pos[w]
    BY LinkSets, LinkPrepends
  <1>2. Met'[LastIndex + 1][pos[w]] = {pos[w]} \cup Met'[LastIndex + 1][array'[pos[w]].next]
    BY <1>1, UnfoldsNext DEF ChainEquation
  <1>3. QED
    BY <1>1, <1>2 DEF InChainNext

-----------------------------------------------------------------------------
(* From its link on, a put's entry is in its key's chain.                  *)
ReachInv ==
    /\ \A w \in Ranging :
          /\ array[pos[w]] # Empty /\ array[pos[w]].key = key[w]
          /\ key[w] \in raced \/ InChain(pos[w], key[w])
    /\ \A i \in finished : array[i] # Empty
    /\ PutsReachable

LEMMA ReachStep ==
  ASSUME IInv, IInv', SearchInv, ReachInv, [Next]_vars
  PROVE  ReachInv'
  <1>1. raced \subseteq raced'
    BY RacedGrows DEF IInv
  <1>2. ASSUME NEW i \in Index, array[i] # Empty
        PROVE  /\ array'[i] # Empty /\ array'[i].key = array[i].key
               /\ array[i].key \in Key
    BY <1>2, SlotsGrow DEF IInv, TypeOK, Entry
  <1>3. \A v \in Ranging : pos[v] \in Index /\ key[v] \in Key
    BY DEF Ranging, IInv, ThreadInv
  <1>4. ASSUME NEW v \in Ranging
        PROVE  /\ array'[pos[v]] # Empty /\ array'[pos[v]].key = key[v]
               /\ key[v] \in raced' \/ InChainNext(pos[v], key[v])
    <2>1. pos[v] \in Index /\ key[v] \in Key
      BY <1>3
    <2>2. array[pos[v]] # Empty /\ array[pos[v]].key = key[v]
      BY DEF ReachInv
    <2>3. array'[pos[v]] # Empty /\ array'[pos[v]].key = key[v]
      BY <1>2, <2>1, <2>2
    <2>4. ASSUME key[v] \notin raced' PROVE InChainNext(pos[v], key[v])
      <3>1. InChain(pos[v], key[v])
        BY <1>1, <2>4 DEF ReachInv
      <3>2. QED
        BY <2>1, <2>4, <3>1, InChainStays
    <2>5. QED
      BY <2>3, <2>4
  <1>5. ASSUME NEW i \in finished
        PROVE  /\ array'[i] # Empty
               /\ array'[i].key \in raced' \/ InChainNext(i, array'[i].key)
    <2>1. i \in Index /\ array[i] # Empty
      BY DEF IInv, TypeOK, ReachInv
    <2>2. array'[i].key = array[i].key /\ array[i].key \in Key /\ array'[i] # Empty
      BY <1>2, <2>1
    <2>3. array[i].key \in raced \/ InChain(i, array[i].key)
      BY DEF ReachInv, PutsReachable
    <2>4. array[i].key \in raced' \/ InChainNext(i, array[i].key)
      BY <1>1, <2>2, <2>3, InChainStays
    <2>5. QED
      BY <2>2, <2>4
  <1>6. ASSUME NEW w \in Writer, FillMin(w)
        PROVE  /\ w \in Ranging /\ Ranging' = Ranging \ {w}
               /\ UNCHANGED <<key, pos>> /\ finished' = finished \cup {pos[w]}
    BY <1>6 DEF FillMin, Goto, Ranging, IInv, TypeOK, putVars
  <1>7. ASSUME NEW w \in Writer, Link(w)
        PROVE  /\ Ranging' = Ranging \cup {w} /\ UNCHANGED <<key, pos, finished>>
               /\ array'[pos[w]] # Empty /\ array'[pos[w]].key = key[w]
               /\ key[w] \in raced' \/ InChainNext(pos[w], key[w])
    <2>1. /\ pc'[w] = "max" /\ array[pos[w]] = NewEntry(w) /\ array[pos[w]] # Empty
          /\ UNCHANGED <<array, key, pos, finished>>
      BY <1>7, LinkSets
    <2>2. Ranging' = Ranging \cup {w}
      BY <1>7, <2>1, OthersStay DEF Ranging, IInv, PutStep
    <2>3. key[w] \in raced' \/ InChainNext(pos[w], key[w])
      BY <1>1, <1>7, LinkedInChain
    <2>4. QED
      BY <2>1, <2>2, <2>3 DEF NewEntry
  <1>8. ASSUME NEW w \in Writer, ~FillMin(w), ~Link(w),
               BeginWrite(w) \/ EndWrite(w) \/ StartPut(w) \/ PutStep(w)
        PROVE  /\ Ranging' = Ranging /\ finished' = finished
               /\ \A v \in Ranging : UNCHANGED <<key[v], pos[v]>>
    <2>1. /\ w \in Ranging' <=> w \in Ranging
          /\ w \in Ranging => UNCHANGED <<key[w], pos[w]>>
          /\ finished' = finished
      <3>1. CASE BeginWrite(w) \/ EndWrite(w) \/ StartPut(w)
        BY <3>1 DEF BeginWrite, EndWrite, StartPut, Goto, Ranging, IInv, TypeOK,
           putVars, histVars
      <3>2. CASE \/ Find(w) \/ Claim(w) \/ LoadSlab(w) \/ Grab(w) \/ Allocate(w)
                 \/ Store(w)
        BY <3>2 DEF Find, Claim, LoadSlab, Grab, Allocate, Store, Goto, Ranging, IInv,
           TypeOK, histVars
      <3>3. CASE CompareMax(w) \/ SetMax(w) \/ CompareMin(w) \/ SetMin(w)
        BY <3>3 DEF CompareMax, SetMax, CompareMin, SetMin, Goto, Ranging, IInv, TypeOK,
           putVars, histVars
      <3>4. QED
        BY <1>8, <3>1, <3>2, <3>3 DEF PutStep
    <2>2. \A v \in Writer \ {w} : UNCHANGED <<pc[v], key[v], pos[v]>>
      BY <1>8, OthersStay DEF IInv
    <2>3. QED
      BY <2>1, <2>2 DEF Ranging
  <1>9. ASSUME UNCHANGED vars
        PROVE  /\ Ranging' = Ranging /\ UNCHANGED <<finished, key, pos>>
    BY <1>9 DEF vars, putVars, histVars, Ranging
  <1>10. ASSUME NEW v \in Ranging'
         PROVE  /\ array'[pos'[v]] # Empty /\ array'[pos'[v]].key = key'[v]
                /\ key'[v] \in raced' \/ InChainNext(pos'[v], key'[v])
    <2>1. CASE v \in Ranging /\ UNCHANGED <<key[v], pos[v]>>
      BY <1>4, <2>1 DEF InChainNext
    <2>2. ASSUME NEW w \in Writer, Link(w), v = w
          PROVE  /\ array'[pos'[v]] # Empty /\ array'[pos'[v]].key = key'[v]
                 /\ key'[v] \in raced' \/ InChainNext(pos'[v], key'[v])
      BY <1>7, <2>2 DEF InChainNext
    <2>3. QED
      BY <1>6, <1>7, <1>8, <1>9, <1>10, <2>1, <2>2 DEF Next
  <1>11. ASSUME NEW i \in finished'
         PROVE  /\ array'[i] # Empty
                /\ array'[i].key \in raced' \/ InChainNext(i, array'[i].key)
    <2>1. CASE i \in finished
      BY <1>5, <2>1
    <2>2. ASSUME NEW w \in Writer, FillMin(w), i = pos[w]
          PROVE  /\ array'[i] # Empty
                 /\ array'[i].key \in raced' \/ InChainNext(i, array'[i].key)
      BY <1>4, <1>6, <2>2 DEF InChainNext
    <2>3. QED
      BY <1>6, <1>7, <1>8, <1>9, <1>11, <2>1, <2>2 DEF Next
  <1>12. QED
    BY <1>10, <1>11 DEF ReachInv, PutsReachable, InChain, InChainNext

-----------------------------------------------------------------------------
(* One writer at a time is in UpdateMinMax, and the range covers what the  *)
(* lines it has passed have seen to, unless two updates have overlapped.   *)
Ranged(w) ==
    /\ pc[w] = "set_max" => max_key < key[w]
    /\ pc[w] \in {"min", "set_min", "fill_min"} => key[w] <= max_key
    /\ pc[w] = "set_min" => key[w] < min_key
    /\ pc[w] = "fill_min" => min_key <= key[w]

Covered(i) ==
    min_key # NoKey /\ min_key <= array[i].key /\ array[i].key <= max_key

RangeInv ==
    \/ range_raced
    \/ /\ \A v, w \in Ranging : v = w
       /\ \A w \in Ranging : Ranged(w)
       /\ \A i \in finished : Covered(i)

LEMMA RangeStep ==
  ASSUME IInv, ReachInv, RangeInv, [Next]_vars
  PROVE  RangeInv'
  <1> SUFFICES ASSUME ~range_raced' PROVE RangeInv'
    BY DEF RangeInv
  <1>1. ~range_raced
    BY DEF Next, PutStep, vars, BeginWrite, EndWrite, StartPut, Find, Claim,
           LoadSlab, Grab, Allocate, Store, Link, CompareMax, SetMax, CompareMin, SetMin,
           FillMin, histVars
  <1>2. /\ \A v, w \in Ranging : v = w
        /\ \A w \in Ranging : Ranged(w)
        /\ \A i \in finished : Covered(i)
    BY <1>1 DEF RangeInv
  <1>3. \A i \in finished : i \in Index /\ array'[i] = array[i] /\ array[i].key \in Key
    BY SlotsGrow DEF ReachInv, IInv, TypeOK, Entry
  <1>4. \A w \in Ranging : key[w] \in Key /\ key[w] \in Nat /\ key[w] > NoKey
    BY MemtableIndexAssumption DEF Ranging, IInv, ThreadInv
  <1>5. max_key \in Nat /\ min_key \in Nat /\ NoKey \in Nat
        /\ \A k \in Key : k \in Nat /\ k > NoKey
    BY MemtableIndexAssumption DEF IInv, TypeOK
  <1>6. CASE UNCHANGED <<Ranging, max_key, min_key, finished>>
             /\ \A w \in Ranging : UNCHANGED <<pc[w], key[w]>>
    BY <1>2, <1>3, <1>6 DEF RangeInv, Ranged, Covered
  <1>7. ASSUME NEW w \in Writer,
               CompareMax(w) \/ SetMax(w) \/ CompareMin(w) \/ SetMin(w)
        PROVE  RangeInv'
    <2>1. /\ w \in Ranging /\ Ranging' = Ranging /\ UNCHANGED <<key, finished>>
      BY <1>7 DEF CompareMax, SetMax, CompareMin, SetMin, Goto, Ranging, IInv, TypeOK,
         putVars, histVars
    <2>2. Ranging = {w} /\ Ranged(w) /\ key[w] \in Nat
      BY <1>2, <1>4, <2>1
    <2>3. /\ Ranged(w)' /\ max_key <= max_key' /\ max_key' \in Nat
          /\ min_key' = min_key \/ (min_key' = key[w] /\ key[w] < min_key)
      <3>1. CASE CompareMax(w)
        BY <1>5, <2>2, <3>1 DEF CompareMax, Goto, IInv, TypeOK, Ranged, rangeVars, putVars
      <3>2. CASE SetMax(w)
        BY <1>5, <2>2, <3>2 DEF SetMax, Goto, IInv, TypeOK, Ranged, putVars
      <3>3. CASE CompareMin(w)
        BY <1>5, <2>2, <3>3 DEF CompareMin, Goto, IInv, TypeOK, Ranged, rangeVars, putVars
      <3>4. CASE SetMin(w)
        BY <1>5, <2>2, <3>4 DEF SetMin, Goto, IInv, TypeOK, Ranged, putVars
      <3>5. QED
        BY <1>7, <3>1, <3>2, <3>3, <3>4
    <2>4. ASSUME NEW i \in finished' PROVE Covered(i)'
      <3>1. /\ array'[i] = array[i] /\ array[i].key \in Nat /\ i \in finished
            /\ min_key # NoKey /\ min_key <= array[i].key /\ array[i].key <= max_key
        BY <1>2, <1>3, <1>5, <2>1, <2>4 DEF Covered
      <3>2. min_key' # NoKey /\ min_key' <= array[i].key /\ array[i].key <= max_key'
        BY <1>4, <1>5, <2>1, <2>3, <3>1
      <3>3. QED
        BY <3>1, <3>2 DEF Covered
    <2>5. QED
      BY <2>1, <2>2, <2>3, <2>4 DEF RangeInv
  <1>8. ASSUME NEW w \in Writer, FillMin(w)
        PROVE  RangeInv'
    <2>1. /\ w \in Ranging /\ Ranging' = Ranging \ {w} /\ pc[w] = "fill_min"
          /\ UNCHANGED <<key, pos, array, max_key>>
          /\ finished' = finished \cup {pos[w]}
          /\ min_key' = IF min_key = NoKey THEN key[w] ELSE min_key
      BY <1>8 DEF FillMin, Goto, Ranging, IInv, TypeOK, putVars, poolVars
    <2>2. Ranging' = {} /\ min_key <= key[w] /\ key[w] <= max_key /\ key[w] > NoKey
      BY <1>2, <1>4, <2>1 DEF Ranged
    <2>3. array[pos[w]].key = key[w]
      BY <2>1 DEF ReachInv
    <2>4. Covered(pos[w])'
      <3>1. min_key' # NoKey /\ min_key' <= key[w]
        BY <1>4, <1>5, <2>1, <2>2
      <3>2. Covered(pos[w])' <=>
               /\ min_key' # NoKey /\ min_key' <= array'[pos'[w]].key
               /\ array'[pos'[w]].key <= max_key'
        BY DEF Covered
      <3>3. QED
        BY <2>1, <2>2, <2>3, <3>1, <3>2
    <2>5. ASSUME NEW i \in finished PROVE Covered(i)'
      BY <1>2, <2>1, <2>5 DEF Covered
    <2>6. ASSUME NEW i \in finished' PROVE Covered(i)'
      BY <2>1, <2>4, <2>5, <2>6 DEF Covered
    <2>7. QED
      BY <2>2, <2>6 DEF RangeInv
  <1>9. ASSUME NEW w \in Writer, Link(w)
        PROVE  RangeInv'
    <2>1. /\ Ranging = {} /\ pc'[w] = "max"
          /\ UNCHANGED <<max_key, min_key, finished, array>>
      BY <1>1, <1>9 DEF Link, Goto, IInv, TypeOK, rangeVars, poolVars
    <2>2. Ranging' = {w}
      BY <1>9, <2>1, OthersStay DEF Ranging, IInv, PutStep
    <2>3. Ranged(w)'
      BY <2>1 DEF Ranged
    <2>4. QED
      BY <1>2, <2>1, <2>2, <2>3 DEF RangeInv, Covered
  <1>10. ASSUME NEW w \in Writer,
                \/ BeginWrite(w) \/ EndWrite(w) \/ StartPut(w) \/ Find(w) \/ Claim(w)
                \/ LoadSlab(w) \/ Grab(w) \/ Allocate(w) \/ Store(w)
         PROVE  /\ UNCHANGED <<Ranging, max_key, min_key, finished>>
                /\ \A v \in Ranging : UNCHANGED <<pc[v], key[v]>>
    <2>1. /\ w \notin Ranging /\ pc'[w] \notin {"max", "set_max", "min", "set_min", "fill_min"}
          /\ UNCHANGED <<max_key, min_key, finished>>
      <3>1. CASE BeginWrite(w) \/ EndWrite(w) \/ StartPut(w)
        BY <3>1 DEF BeginWrite, EndWrite, StartPut, Goto, Ranging, IInv, TypeOK,
           rangeVars, histVars
      <3>2. CASE Find(w) \/ Claim(w) \/ LoadSlab(w)
        BY <3>2 DEF Find, Claim, LoadSlab, Goto, Ranging, IInv, TypeOK, rangeVars, histVars
      <3>3. CASE Grab(w) \/ Allocate(w) \/ Store(w)
        BY <3>3 DEF Grab, Allocate, Store, Goto, Ranging, IInv, TypeOK, rangeVars, histVars
      <3>4. QED
        BY <1>10, <3>1, <3>2, <3>3
    <2>2. \A v \in Writer \ {w} : UNCHANGED <<pc[v], key[v]>>
      BY <1>10, OthersStay DEF IInv, PutStep
    <2>3. QED
      BY <2>1, <2>2 DEF Ranging
  <1>11. CASE UNCHANGED vars
    BY <1>6, <1>11 DEF vars, rangeVars, putVars, histVars, Ranging
  <1>12. QED
    BY <1>6, <1>7, <1>8, <1>9, <1>10, <1>11 DEF Next, PutStep

-----------------------------------------------------------------------------
LEMMA ReachInvariance == Spec => [](IInv /\ SearchInv /\ ReachInv /\ RangeInv)
  <1>1. Init => SearchInv /\ ReachInv /\ RangeInv
    BY DEF Init, SearchInv, ReachInv, RangeInv, Searching, Ranging, PutsReachable
  <1>2. IInv /\ IInv' /\ SearchInv /\ ReachInv /\ RangeInv /\ [Next]_vars
          => SearchInv' /\ ReachInv' /\ RangeInv'
    BY SearchStep, ReachStep, RangeStep
  <1>3. QED
    BY Invariance, <1>1, <1>2, PTL DEF Spec

(* A put that returned is found under its key's node, unless it overlapped *)
(* with another of the same key between search and link: puts of other     *)
(* keys, slab allocations and failed insertions do not lose it (PutTuple). *)
THEOREM PutsStayReachable == Spec => []PutsReachable
  <1>1. ReachInv => PutsReachable
    BY DEF ReachInv
  <1>2. QED
    BY ReachInvariance, <1>1, PTL

(* The key range of a memtable covers every put that returned, unless two  *)
(* updates of it overlapped: UpdateMinMax takes no lock, and the range     *)
(* goes into the file's metadata.                                          *)
THEOREM RangeAlwaysCovers == Spec => []RangeCovers
  <1>1. RangeInv => RangeCovers
    BY DEF RangeInv, Covered, RangeCovers
  <1>2. QED
    BY ReachInvariance, <1>1, PTL

(* What a read of a time sees of a key changes only by the link of a put   *)
(* of the key with an epoch not after the time, and then to that put,      *)
(* unless puts of the key overlapped: an entry is linked before all others *)
(* and leads to them, and none is ever written again (GetTuple).           *)
THEOREM SnapshotsStayStable == Spec => SnapshotsStable
  <1> DEFINE Shown(k, t) == \E w \in Writer : /\ Link(w) /\ key[w] = k
                                              /\ epoch[w] <= t
                                              /\ Visible(k, t)' = pos[w]
             Stable == \A k \in Key \ raced', t \in Epoch :
                          Visible(k, t)' # Visible(k, t) =>
                              \E w \in Writer : /\ Link(w) /\ key[w] = k
                                               /\ epoch[w] <= t
                                               /\ Visible(k, t)' = pos[w]
  <1>1. ASSUME IInv, IInv', SearchInv, [Next]_vars PROVE Stable
    <2> SUFFICES ASSUME NEW k \in Key \ raced', NEW t \in Epoch
                 PROVE  Visible(k, t)' = Visible(k, t) \/ Shown(k, t)
      OBVIOUS
    <2>1. FirstVisible(t)'[tuple_index[k]] = FirstVisible(t)[tuple_index[k]]
      BY <1>1, NodeWritten, VisibleStays
    <2>2. CASE tuple_index'[k] = tuple_index[k]
      BY <2>1, <2>2 DEF Visible
    <2>3. ASSUME NEW w \in Writer, Link(w), key[w] = k
          PROVE  Visible(k, t)' = Visible(k, t) \/ Shown(k, t)
      <3>1. k \notin raced
        BY <1>1, RacedGrows DEF IInv
      <3>2. /\ tuple_index'[k] = pos[w] /\ array'[pos[w]].next = tuple_index[k]
            /\ array'[pos[w]].time = epoch[w]
        BY <1>1, <2>3, <3>1, LinkPrepends
      <3>3. pos[w] \in Index
        BY <1>1, <2>3, LinkSets
      <3>4. FirstVisible(t)'[pos[w]] =
               IF array'[pos[w]].time <= t THEN pos[w]
               ELSE FirstVisible(t)'[array'[pos[w]].next]
        BY <1>1, <3>3, UnfoldsNext DEF VisibleEquation
      <3>5. CASE epoch[w] <= t
        <4>1. Visible(k, t)' = pos[w]
          BY <3>2, <3>4, <3>5 DEF Visible
        <4>2. QED
          BY <2>3, <3>5, <4>1
      <3>6. CASE ~(epoch[w] <= t)
        <4>1. FirstVisible(t)'[pos[w]] = FirstVisible(t)'[tuple_index[k]]
          BY <3>2, <3>4, <3>6
        <4>2. QED
          BY <2>1, <3>2, <4>1 DEF Visible
      <3>7. QED
        BY <3>5, <3>6
    <2>4. tuple_index'[k] = tuple_index[k] \/ \E w \in Writer : Link(w) /\ key[w] = k
      <3>1. CASE UNCHANGED vars
        BY <3>1 DEF vars
      <3>2. ASSUME NEW w \in Writer, Link(w), key[w] # k
            PROVE  tuple_index'[k] = tuple_index[k]
        BY <1>1, <3>2, LinkSets
      <3>3. QED
        BY <1>1, <3>1, <3>2, IndexStays DEF Next, IInv
    <2>5. QED
      BY <2>2, <2>3, <2>4
  <1>2. IInv /\ IInv' /\ SearchInv /\ [Next]_vars => Stable
    BY <1>1
  <1>3. Stable => [Stable]_vars
    OBVIOUS
  <1> HIDE DEF Stable
  <1>4. Spec => [][Stable]_vars
    BY ReachInvariance, <1>2, <1>3, PTL DEF Spec
  <1>5. QED
    BY <1>4 DEF Stable, SnapshotsStable
=============================================================================
