-------------------------- MODULE WritePathProofs ---------------------------
(***************************************************************************)
(* Proofs about WritePath for every number of writers, flushers, puts and  *)
(* memtables and every size of the counter.                                *)
(***************************************************************************)
EXTENDS WritePath, FiniteSetTheorems, TLAPS

LEMMA ModRange ==
  ASSUME NEW i \in Int
  PROVE  i % (SIZE_MAX + 1) \in 0 .. SIZE_MAX
  BY WritePathAssumption

LEMMA ModNext ==
  ASSUME NEW i \in Int
  PROVE  ((i % (SIZE_MAX + 1)) + 1) % (SIZE_MAX + 1) = (i + 1) % (SIZE_MAX + 1)
  BY WritePathAssumption

LEMMA ModPrevious ==
  ASSUME NEW i \in Int
  PROVE  ((i % (SIZE_MAX + 1)) + SIZE_MAX) % (SIZE_MAX + 1) = (i - 1) % (SIZE_MAX + 1)
  BY WritePathAssumption

-----------------------------------------------------------------------------
(* Types.  A writer that has begun has a put in hand.                      *)
HasPut == \A w \in Writer : pc[w] # "idle" => put[w] \in Write

Typed == TypeOK /\ HasPut

LEMMA InitTyped == Init => Typed
  <1> SUFFICES ASSUME Init PROVE Typed
    OBVIOUS
  <1> USE DEF Init
  <1>1. 0 \in Memtable /\ 1 \in 0 .. SIZE_MAX
    BY WritePathAssumption DEF Memtable
  <1>2. HighCompactionList \in Seq(Memtable)
    OBVIOUS
  <1>3. pc \in [Thread -> Control] /\ HasPut
    BY DEF Thread, Control, HasPut
  <1>4. QED
    BY <1>1, <1>2, <1>3 DEF Typed, TypeOK

LEMMA PutTyped ==
  ASSUME Typed, NEW w \in Writer, StartPut(w) \/ PutStep(w)
  PROVE  Typed'
  <1> USE DEF Typed, TypeOK, HasPut, Thread, Control, Goto, memVars, lockVars,
              stallVars, threadVars
  <1>1. CASE StartPut(w)
    BY <1>1 DEF StartPut
  <1>2. CASE NameLock(w)
    BY <1>2 DEF NameLock
  <1>3. CASE TakeShared(w)
    BY <1>3 DEF TakeShared
  <1>4. CASE CheckImmutable(w)
    BY <1>4 DEF CheckImmutable
  <1>5. CASE Insert(w)
    <2>1. /\ entries' \in [Memtable -> SUBSET Write] /\ strayed' \subseteq Write
          /\ pc' \in [Thread -> Control] /\ pc'[w] # "idle"
      BY <1>5 DEF Insert
    <2>2. data_count' \in [Memtable -> Nat]
      <3>1. CASE UNCHANGED data_count
        BY <3>1
      <3>2. CASE data_count' = [data_count EXCEPT ![target[w]] = @ + 1]
        BY <3>2
      <3>3. QED
        BY <1>5, <3>1, <3>2 DEF Insert
    <2>3. QED
      BY <1>5, <2>1, <2>2 DEF Insert
  <1>6. CASE CheckFull(w)
    BY <1>6 DEF CheckFull
  <1>7. CASE Exchange(w)
    BY <1>7 DEF Exchange
  <1>8. CASE Swap(w)
    <2>1. current' \in Memtable
      BY <1>8, WritePathAssumption DEF Swap, Memtable
    <2>2. QED
      BY <1>8, <2>1 DEF Swap
  <1>9. CASE Enqueue(w)
    <2>1. HighCompactionList' \in Seq(Memtable)
      BY <1>9 DEF Enqueue
    <2>2. QED
      BY <1>9, <2>1 DEF Enqueue
  <1>10. CASE CountUp(w)
    <2>1. memtable_cnt' \in 0 .. SIZE_MAX
      BY <1>10, ModRange DEF CountUp
    <2>2. QED
      BY <1>10, <2>1 DEF CountUp
  <1>11. CASE Compare(w)
    BY <1>11 DEF Compare
  <1>12. CASE StallWrite(w)
    BY <1>12 DEF StallWrite
  <1>13. CASE Return(w)
    BY <1>13, WritePathAssumption DEF Return, Memtable
  <1>14. QED
    BY <1>1, <1>2, <1>3, <1>4, <1>5, <1>6, <1>7, <1>8, <1>9, <1>10, <1>11,
       <1>12, <1>13 DEF PutStep

LEMMA FlushTyped ==
  ASSUME Typed, NEW f \in Flusher, FlushStep(f)
  PROVE  Typed'
  <1> USE WritePathAssumption
      DEF Typed, TypeOK, HasPut, Thread, Control, Goto, memVars, lockVars,
          stallVars, threadVars
  <1>1. CASE PopMemtable(f)
    <2>1. HighCompactionList' \in Seq(Memtable) /\ Head(HighCompactionList) \in Memtable
      BY <1>1 DEF PopMemtable
    <2>2. QED
      BY <1>1, <2>1 DEF PopMemtable
  <1>2. CASE TakeAlone(f)
    BY <1>2 DEF TakeAlone
  <1>3. CASE BuildFile(f)
    BY <1>3 DEF BuildFile
  <1>4. CASE CountDown(f)
    <2>1. memtable_cnt' \in 0 .. SIZE_MAX
      BY <1>4, ModRange DEF CountDown
    <2>2. QED
      BY <1>4, <2>1 DEF CountDown
  <1>5. CASE StayStalled(f)
    BY <1>5 DEF StayStalled, Release, Memtable
  <1>6. CASE Recompare(f)
    BY <1>6 DEF Recompare
  <1>7. CASE ResumeWrite(f)
    <2>1. owner' \in [Memtable -> SUBSET Flusher] /\ target' \in [Thread -> Memtable]
      BY <1>7 DEF ResumeWrite, Release, Memtable
    <2>2. QED
      BY <1>7, <2>1 DEF ResumeWrite
  <1>8. QED
    BY <1>1, <1>2, <1>3, <1>4, <1>5, <1>6, <1>7 DEF FlushStep

LEMMA NextTyped == Typed /\ [Next]_vars => Typed'
  <1> SUFFICES ASSUME Typed, [Next]_vars PROVE Typed'
    OBVIOUS
  <1>1. CASE UNCHANGED vars
    BY <1>1 DEF Typed, TypeOK, HasPut, vars, memVars, lockVars, stallVars, threadVars
  <1>2. QED
    BY <1>1, PutTyped, FlushTyped DEF Next

(* Every variable keeps its type; above all memtable_cnt stays a size_t    *)
(* and a writer past check_write_stall has a put in hand.                  *)
THEOREM TypeCorrect == Spec => []TypeOK
  BY InitTyped, NextTyped, PTL DEF Spec, Typed

-----------------------------------------------------------------------------
(* What the steps of a put and of a flush do to those who hold a memtable  *)
(* on its way to a file.                                                   *)
Swapping == {w \in Writer : pc[w] = "swap"}
Handing == {w \in Writer : pc[w] = "enqueue"}
Flushing == {f \in Flusher : pc[f] \in {"own", "build"}}

(* One thread at a time replaces the current memtable, which it has made   *)
(* immutable, and no later one is immutable yet; a memtable on its way to  *)
(* a file is an earlier one and in one place.                              *)
HandInv ==
    /\ \A u, v \in Swapping : u = v
    /\ Swapping # {} => immutable[current]
    /\ \A m \in Memtable : m > current => ~immutable[m]
    /\ \A m \in Replaced \cup InList \cup Persisting : m < current
    /\ Replaced \cap InList = {} /\ Replaced \cap Persisting = {}
    /\ InList \cap Persisting = {}
    /\ \A u, v \in Handing : target[u] = target[v] => u = v
    /\ \A j, k \in DOMAIN HighCompactionList :
          HighCompactionList[j] = HighCompactionList[k] => j = k
    /\ \A f, g \in Flushing : target[f] = target[g] => f = g

(* Most steps do not touch any of it.                                      *)
Quiet ==
    /\ UNCHANGED <<current, immutable, HighCompactionList, Swapping, Handing, Flushing>>
    /\ \A t \in Handing \cup Flushing : target'[t] = target[t]

LEMMA QuietHands ==
  ASSUME Typed, HandInv, Quiet
  PROVE  HandInv' /\ UNCHANGED <<Replaced, InList, Persisting>>
  <1>1. UNCHANGED <<Replaced, InList, Persisting>>
    BY DEF Quiet, Replaced, InList, Persisting, Handing, Flushing
  <1>2. QED
    BY <1>1 DEF Quiet, HandInv

QuietPut(w) ==
    \/ StartPut(w) \/ NameLock(w) \/ TakeShared(w) \/ CheckImmutable(w)
    \/ Insert(w) \/ CheckFull(w) \/ (Exchange(w) /\ immutable[current])
    \/ CountUp(w) \/ Compare(w) \/ StallWrite(w) \/ Return(w)

QuietFlush(f) ==
    \/ TakeAlone(f) \/ CountDown(f) \/ StayStalled(f) \/ Recompare(f)
    \/ ResumeWrite(f)

LEMMA QuietPutSteps ==
  ASSUME Typed, NEW w \in Writer, QuietPut(w)
  PROVE  Quiet
  <1>1. /\ UNCHANGED <<current, HighCompactionList>>
        /\ pc[w] \notin {"swap", "enqueue"} /\ pc'[w] \notin {"swap", "enqueue"}
        /\ \A t \in Thread \ {w} : pc'[t] = pc[t] /\ target'[t] = target[t]
    <2> USE DEF Goto, memVars, threadVars, Typed, TypeOK, Thread
    <2>1. CASE StartPut(w) \/ NameLock(w) \/ TakeShared(w) \/ CountUp(w) \/ StallWrite(w)
      BY <2>1 DEF StartPut, NameLock, TakeShared, CountUp, StallWrite
    <2>2. CASE CheckImmutable(w) \/ Return(w)
      BY <2>2 DEF CheckImmutable, Return
    <2>3. CASE Insert(w) \/ CheckFull(w)
      BY <2>3 DEF Insert, CheckFull
    <2>4. CASE (Exchange(w) /\ immutable[current]) \/ Compare(w)
      BY <2>4 DEF Exchange, Compare
    <2>5. QED
      BY <2>1, <2>2, <2>3, <2>4 DEF QuietPut
  <1>2. UNCHANGED immutable
    <2>1. CASE Exchange(w) /\ immutable[current]
      BY <2>1 DEF Exchange, Typed, TypeOK
    <2>2. QED
      BY <2>1 DEF QuietPut, StartPut, NameLock, TakeShared, CheckImmutable, Insert,
         CheckFull, CountUp, Compare, StallWrite, Return, memVars
  <1>3. w \notin Flusher
    BY WritePathAssumption
  <1>4. QED
    BY <1>1, <1>2, <1>3 DEF Quiet, Swapping, Handing, Flushing, Thread

LEMMA QuietFlushSteps ==
  ASSUME Typed, NEW f \in Flusher, QuietFlush(f)
  PROVE  Quiet
  <1>1. /\ UNCHANGED <<current, immutable, HighCompactionList>>
        /\ pc[f] \in {"own", "build"} <=> pc'[f] \in {"own", "build"}
        /\ pc[f] \in {"own", "build"} => target'[f] = target[f]
        /\ \A t \in Thread \ {f} : pc'[t] = pc[t] /\ target'[t] = target[t]
    <2> USE DEF Goto, memVars, threadVars, Typed, TypeOK, Thread
    <2>1. CASE TakeAlone(f) \/ CountDown(f) \/ Recompare(f)
      BY <2>1 DEF TakeAlone, CountDown, Recompare
    <2>2. CASE StayStalled(f) \/ ResumeWrite(f)
      BY <2>2 DEF StayStalled, ResumeWrite, Release
    <2>3. QED
      BY <2>1, <2>2 DEF QuietFlush
  <1>2. f \notin Writer
    BY WritePathAssumption
  <1>3. QED
    BY <1>1, <1>2 DEF Quiet, Swapping, Handing, Flushing, Thread

LEMMA QuietStutter == UNCHANGED vars => Quiet
  BY DEF Quiet, vars, memVars, threadVars, Swapping, Handing, Flushing

-----------------------------------------------------------------------------
(* The five steps that do touch it.                                        *)
LEMMA ExchangeHands ==
  ASSUME Typed, HandInv, NEW w \in Writer, Exchange(w), ~immutable[current]
  PROVE  HandInv'
  <1>1. /\ UNCHANGED <<current, HighCompactionList, target, Handing, Flushing>>
        /\ Swapping' = Swapping \cup {w}
    BY WritePathAssumption DEF Exchange, Goto, threadVars, Typed, TypeOK, Thread,
       Swapping, Handing, Flushing
  <1>2. UNCHANGED <<Replaced, InList, Persisting>>
    BY <1>1 DEF Replaced, InList, Persisting, Handing, Flushing
  <1>3. Swapping = {}
    BY DEF HandInv
  <1>4. /\ immutable'[current] /\ current \in Nat
        /\ \A m \in Memtable : m > current => ~immutable'[m]
    BY DEF HandInv, Exchange, Typed, TypeOK, Memtable
  <1>5. QED
    BY <1>1, <1>2, <1>3, <1>4 DEF HandInv

LEMMA SwapHands ==
  ASSUME Typed, HandInv, NEW w \in Writer, Swap(w)
  PROVE  HandInv'
  <1>1. /\ UNCHANGED <<immutable, HighCompactionList, Flushing>>
        /\ w \in Swapping /\ w \notin Handing /\ w \notin Flusher
        /\ Swapping' = Swapping \ {w} /\ Handing' = Handing \cup {w}
        /\ target'[w] = current
        /\ \A t \in Thread \ {w} : target'[t] = target[t]
        /\ current \in Nat /\ current' = current + 1
    BY WritePathAssumption DEF Swap, Goto, Typed, TypeOK, Thread, Memtable,
       Swapping, Handing, Flushing
  <1>2. /\ UNCHANGED <<InList, Persisting>> /\ Replaced' = Replaced \cup {current}
    BY <1>1 DEF Replaced, InList, Persisting, Handing, Flushing, Thread
  <1>3. Swapping' = {}
    BY <1>1 DEF HandInv
  <1>4. \A m \in Replaced \cup InList \cup Persisting : m \in Memtable
    BY DEF Replaced, InList, Persisting, Typed, TypeOK, Thread
  <1>5. \A m \in Replaced' \cup InList' \cup Persisting' : m < current'
    BY <1>1, <1>2, <1>4 DEF HandInv, Memtable
  <1>6. current \notin Replaced \cup InList \cup Persisting
    BY <1>1 DEF HandInv
  <1>7. \A m \in Memtable : m > current' => ~immutable'[m]
    BY <1>1 DEF HandInv, Memtable
  <1>8. \A u \in Handing : target'[u] = target[u] /\ target[u] # current
    BY <1>1, <1>6 DEF Handing, Replaced, Thread
  <1>9. \A f \in Flushing : target'[f] = target[f]
    BY <1>1 DEF Flushing, Thread
  <1>10. \A u, v \in Handing' : target'[u] = target'[v] => u = v
    BY <1>1, <1>8 DEF HandInv
  <1>11. QED
    BY <1>1, <1>2, <1>3, <1>5, <1>6, <1>7, <1>9, <1>10 DEF HandInv

LEMMA EnqueueHands ==
  ASSUME Typed, HandInv, NEW w \in Writer, Enqueue(w)
  PROVE  HandInv'
  <1>1. /\ UNCHANGED <<current, immutable, target, Swapping, Flushing>>
        /\ w \in Handing /\ Handing' = Handing \ {w}
    BY WritePathAssumption DEF Enqueue, Goto, memVars, threadVars, Typed, TypeOK,
       Thread, Swapping, Handing, Flushing
  <1>2. target[w] \in Replaced
    BY <1>1 DEF Replaced, Handing
  <1>3. Persisting' = Persisting /\ Replaced' = Replaced \ {target[w]}
    BY <1>1 DEF HandInv, Replaced, Persisting, Handing, Flushing
  <1>4. /\ DOMAIN HighCompactionList' = DOMAIN HighCompactionList
                                          \cup {Len(HighCompactionList) + 1}
        /\ HighCompactionList'[Len(HighCompactionList) + 1] = target[w]
        /\ \A k \in DOMAIN HighCompactionList :
              HighCompactionList'[k] = HighCompactionList[k]
    BY WritePathAssumption DEF Enqueue, Typed, TypeOK, Thread
  <1>5. InList' = InList \cup {target[w]}
    BY <1>4 DEF InList
  <1>6. \A k \in DOMAIN HighCompactionList : HighCompactionList[k] # target[w]
    BY <1>2 DEF HandInv, InList
  <1>7. \A j, k \in DOMAIN HighCompactionList' :
           HighCompactionList'[j] = HighCompactionList'[k] => j = k
    BY <1>4, <1>6 DEF HandInv
  <1>8. QED
    BY <1>1, <1>2, <1>3, <1>5, <1>7 DEF HandInv

LEMMA PopHands ==
  ASSUME Typed, HandInv, NEW f \in Flusher, PopMemtable(f)
  PROVE  HandInv'
  <1> DEFINE q == HighCompactionList
  <1>1. /\ UNCHANGED <<current, immutable, Swapping, Handing>>
        /\ f \notin Flushing /\ Flushing' = Flushing \cup {f} /\ f \notin Writer
        /\ target'[f] = Head(q)
        /\ \A t \in Thread \ {f} : target'[t] = target[t]
    BY WritePathAssumption DEF PopMemtable, Goto, memVars, Typed, TypeOK, Thread,
       Swapping, Handing, Flushing
  <1>2. /\ q \in Seq(Memtable) /\ q # <<>> /\ q' = Tail(q)
    BY DEF PopMemtable, Typed, TypeOK
  <1>3. /\ Head(q) = q[1] /\ 1 \in DOMAIN q
        /\ \A k \in DOMAIN q' : k + 1 \in DOMAIN q /\ q'[k] = q[k + 1] /\ k \in Nat \ {0}
        /\ \A k \in DOMAIN q \ {1} : k - 1 \in DOMAIN q' /\ q'[k - 1] = q[k]
    BY <1>2
  <1> HIDE DEF q
  <1>4. \A j, k \in DOMAIN q : q[j] = q[k] => j = k
    BY DEF HandInv, q
  <1>5. \A j, k \in DOMAIN q' : q'[j] = q'[k] => j = k
    BY <1>3, <1>4
  <1>6. InList' = InList \ {Head(q)} /\ Head(q) \in InList
    <2>1. InList = {q[k] : k \in DOMAIN q} /\ InList' = {q'[k] : k \in DOMAIN q'}
      BY DEF InList, q
    <2>2. QED
      BY <2>1, <1>3, <1>4
  <1>7. Replaced' = Replaced /\ Persisting' = Persisting \cup {Head(q)}
    BY <1>1 DEF Replaced, Persisting, Handing, Flushing, Thread
  <1>8. \A u \in Handing : target'[u] = target[u]
    BY <1>1 DEF Handing, Thread
  <1>9. \A g \in Flushing : target'[g] = target[g] /\ target[g] # Head(q)
    BY <1>1, <1>6 DEF Flushing, Thread, Persisting, HandInv
  <1>10. \A g, h \in Flushing' : target'[g] = target'[h] => g = h
    BY <1>1, <1>9 DEF HandInv
  <1>11. \A j, k \in DOMAIN HighCompactionList' :
            HighCompactionList'[j] = HighCompactionList'[k] => j = k
    BY <1>5 DEF q
  <1>12. QED
    BY <1>1, <1>6, <1>7, <1>8, <1>10, <1>11 DEF HandInv

LEMMA BuildHands ==
  ASSUME Typed, HandInv, NEW f \in Flusher, BuildFile(f)
  PROVE  HandInv'
  <1>1. /\ UNCHANGED <<current, immutable, HighCompactionList, target, Swapping, Handing>>
        /\ f \in Flushing /\ Flushing' = Flushing \ {f}
    BY WritePathAssumption DEF BuildFile, Goto, memVars, threadVars, Typed, TypeOK,
       Thread, Swapping, Handing, Flushing
  <1>2. UNCHANGED <<Replaced, InList>> /\ Persisting' \subseteq Persisting
    BY <1>1 DEF Replaced, InList, Persisting, Handing, Flushing
  <1>3. QED
    BY <1>1, <1>2 DEF HandInv

LEMMA InitHands == Init => HandInv
  <1> SUFFICES ASSUME Init PROVE HandInv
    OBVIOUS
  <1>1. /\ Swapping = {} /\ Handing = {} /\ Flushing = {}
        /\ Replaced = {} /\ InList = {} /\ Persisting = {}
        /\ DOMAIN HighCompactionList = {}
    BY DEF Init, Thread, Swapping, Handing, Flushing, Replaced, InList, Persisting
  <1>2. \A m \in Memtable : ~immutable[m]
    BY DEF Init
  <1>3. QED
    BY <1>1, <1>2 DEF HandInv

LEMMA NextHands == Typed /\ HandInv /\ [Next]_vars => HandInv'
  <1> SUFFICES ASSUME Typed, HandInv, [Next]_vars PROVE HandInv'
    OBVIOUS
  <1>1. CASE Quiet
    BY <1>1, QuietHands
  <1>2. ASSUME NEW w \in Writer, StartPut(w) \/ PutStep(w) PROVE HandInv'
    <2>1. CASE QuietPut(w)
      BY <2>1, <1>1, QuietPutSteps
    <2>2. CASE Exchange(w) /\ ~immutable[current]
      BY <2>2, ExchangeHands
    <2>3. CASE Swap(w) \/ Enqueue(w)
      BY <2>3, SwapHands, EnqueueHands
    <2>4. QED
      BY <1>2, <2>1, <2>2, <2>3 DEF PutStep, QuietPut
  <1>3. ASSUME NEW f \in Flusher, FlushStep(f) PROVE HandInv'
    <2>1. CASE QuietFlush(f)
      BY <2>1, <1>1, QuietFlushSteps
    <2>2. QED
      BY <1>3, <2>1, PopHands, BuildHands DEF FlushStep, QuietFlush
  <1>4. QED
    BY <1>1, <1>2, <1>3, QuietStutter DEF Next

(* Every memtable that is replaced is persisted by exactly one thread,     *)
(* although CheckAndImmute and immute_memtable read currentMemTable at     *)
(* three different times: the exchange on immutable lets one thread swap.  *)
THEOREM PersistedOnce == Spec => []ReplacedOnce
  <1>1. Typed /\ HandInv => ReplacedOnce
    <2> SUFFICES ASSUME Typed, HandInv PROVE ReplacedOnce
      OBVIOUS
    <2>1. current \notin InList \cup Persisting
      BY DEF HandInv, Typed, TypeOK, Memtable
    <2>2. QED
      BY <2>1 DEF HandInv, ReplacedOnce, Swapping, Handing, Flushing
  <1>2. QED
    BY InitTyped, NextTyped, InitHands, NextHands, <1>1, PTL DEF Spec

-----------------------------------------------------------------------------
(* The memtables whose way to a file a flusher has not counted off, and    *)
(* the writers that have not counted theirs.                               *)
Uncounted == {f \in Flusher : pc[f] \in {"own", "build", "uncount"}}
Counting == {w \in Writer : pc[w] = "count"}

Balance == 1 + Len(HighCompactionList) + Cardinality(Uncounted)
             - Cardinality(Counting)

LEMMA CountIsBalance == CountExact <=> memtable_cnt = Balance % (SIZE_MAX + 1)
  BY DEF CountExact, Balance, Uncounted, Counting

LEMMA CountedFinite ==
  /\ IsFiniteSet(Uncounted) /\ IsFiniteSet(Counting)
  /\ Cardinality(Uncounted) \in Nat /\ Cardinality(Counting) \in Nat
  <1>1. Uncounted \in SUBSET Flusher /\ Counting \in SUBSET Writer
    BY DEF Uncounted, Counting
  <1>2. IsFiniteSet(Uncounted) /\ IsFiniteSet(Counting)
    BY <1>1, WritePathAssumption, FS_Subset
  <1>3. QED
    BY <1>2, FS_CardinalityType

LEMMA BalanceKept ==
  ASSUME CountExact,
         UNCHANGED <<HighCompactionList, memtable_cnt, Uncounted, Counting>>
  PROVE  CountExact'
  BY CountIsBalance DEF Balance, CountExact, Uncounted, Counting

LEMMA PutCount ==
  ASSUME Typed, CountExact, NEW w \in Writer, StartPut(w) \/ PutStep(w)
  PROVE  CountExact'
  <1> USE DEF Goto, stallVars, Typed, TypeOK, Thread
  <1>1. \A t \in Thread \ {w} : pc'[t] = pc[t]
    BY DEF PutStep, StartPut, NameLock, TakeShared, CheckImmutable, Insert,
       CheckFull, Exchange, Swap, Enqueue, CountUp, Compare, StallWrite, Return
  <1>2. Uncounted' = Uncounted
    BY <1>1, WritePathAssumption DEF Uncounted
  <1>3. CASE Enqueue(w)
    <2>1. w \notin Counting /\ Counting' = Counting \cup {w}
      BY <1>1, <1>3 DEF Enqueue, Counting
    <2>2. Cardinality(Counting') = Cardinality(Counting) + 1
      BY <2>1, CountedFinite, FS_AddElement
    <2>3. /\ Len(HighCompactionList') = Len(HighCompactionList) + 1
          /\ Len(HighCompactionList) \in Nat /\ memtable_cnt' = memtable_cnt
      BY <1>3 DEF Enqueue
    <2>4. Balance' = Balance
      BY <1>2, <2>2, <2>3, CountedFinite DEF Balance
    <2>5. QED
      BY <2>3, <2>4, CountIsBalance DEF CountExact, Balance, Uncounted, Counting
  <1>4. CASE CountUp(w)
    <2>1. w \in Counting /\ Counting' = Counting \ {w}
      BY <1>1, <1>4 DEF CountUp, Counting
    <2>2. Cardinality(Counting') = Cardinality(Counting) - 1
      BY <2>1, CountedFinite, FS_RemoveElement
    <2>3. /\ Len(HighCompactionList') = Len(HighCompactionList)
          /\ Len(HighCompactionList) \in Nat
          /\ memtable_cnt' = (memtable_cnt + 1) % (SIZE_MAX + 1)
      BY <1>4 DEF CountUp
    <2>4. Balance' = Balance + 1 /\ Balance \in Int
      <3>1. Balance \in Int
        BY <2>3, CountedFinite DEF Balance
      <3>2. Balance' = 1 + Len(HighCompactionList) + Cardinality(Uncounted)
                         - (Cardinality(Counting) - 1)
        BY <1>2, <2>2, <2>3 DEF Balance
      <3>3. ASSUME NEW l \in Int, NEW u \in Int, NEW c \in Int
            PROVE  1 + l + u - (c - 1) = 1 + l + u - c + 1
        OBVIOUS
      <3>4. Len(HighCompactionList) \in Int
        BY <2>3
      <3>5. QED
        BY <3>1, <3>2, <3>3, <3>4, CountedFinite DEF Balance
    <2>5. memtable_cnt' = Balance' % (SIZE_MAX + 1)
      BY <2>3, <2>4, CountIsBalance, ModNext
    <2>6. QED
      BY <2>5 DEF CountExact, Balance, Uncounted, Counting
  <1>5. CASE ~Enqueue(w) /\ ~CountUp(w)
    <2>1. UNCHANGED <<HighCompactionList, memtable_cnt>>
      BY <1>5 DEF PutStep, StartPut, NameLock, TakeShared, CheckImmutable, Insert,
         CheckFull, Exchange, Swap, Compare, StallWrite, Return
    <2>2. pc[w] # "count" /\ pc'[w] # "count"
      <3>1. CASE StartPut(w) \/ NameLock(w) \/ TakeShared(w) \/ CheckImmutable(w)
        BY <3>1 DEF StartPut, NameLock, TakeShared, CheckImmutable
      <3>2. CASE CheckFull(w) \/ Exchange(w) \/ Compare(w)
        BY <3>2 DEF CheckFull, Exchange, Compare
      <3>3. CASE Insert(w) \/ Swap(w) \/ StallWrite(w) \/ Return(w)
        BY <3>3 DEF Insert, Swap, StallWrite, Return
      <3>4. QED
        BY <1>5, <3>1, <3>2, <3>3 DEF PutStep
    <2>3. Counting' = Counting
      BY <1>1, <2>2 DEF Counting
    <2>4. QED
      BY <1>2, <2>1, <2>3, BalanceKept
  <1>6. QED
    BY <1>3, <1>4, <1>5

LEMMA FlushCount ==
  ASSUME Typed, CountExact, NEW f \in Flusher, FlushStep(f)
  PROVE  CountExact'
  <1> USE DEF Goto, stallVars, Typed, TypeOK, Thread
  <1>1. \A t \in Thread \ {f} : pc'[t] = pc[t]
    BY DEF FlushStep, PopMemtable, TakeAlone, BuildFile, CountDown, StayStalled,
       Recompare, ResumeWrite
  <1>2. Counting' = Counting
    BY <1>1, WritePathAssumption DEF Counting
  <1>3. CASE PopMemtable(f)
    <2>1. f \notin Uncounted /\ Uncounted' = Uncounted \cup {f}
      BY <1>1, <1>3 DEF PopMemtable, Uncounted
    <2>2. Cardinality(Uncounted') = Cardinality(Uncounted) + 1
      BY <2>1, CountedFinite, FS_AddElement
    <2>3. /\ Len(HighCompactionList') = Len(HighCompactionList) - 1
          /\ Len(HighCompactionList) \in Nat /\ memtable_cnt' = memtable_cnt
      BY <1>3 DEF PopMemtable
    <2>4. Balance' = Balance
      BY <1>2, <2>2, <2>3, CountedFinite DEF Balance
    <2>5. QED
      BY <2>3, <2>4, CountIsBalance DEF CountExact, Balance, Uncounted, Counting
  <1>4. CASE CountDown(f)
    <2>1. f \in Uncounted /\ Uncounted' = Uncounted \ {f}
      BY <1>1, <1>4 DEF CountDown, Uncounted
    <2>2. Cardinality(Uncounted') = Cardinality(Uncounted) - 1
      BY <2>1, CountedFinite, FS_RemoveElement
    <2>3. /\ Len(HighCompactionList') = Len(HighCompactionList)
          /\ Len(HighCompactionList) \in Nat
          /\ memtable_cnt' = (memtable_cnt + SIZE_MAX) % (SIZE_MAX + 1)
      BY <1>4 DEF CountDown
    <2>4. Balance' = Balance - 1 /\ Balance \in Int
      BY <1>2, <2>2, <2>3, CountedFinite DEF Balance
    <2>5. memtable_cnt' = Balance' % (SIZE_MAX + 1)
      BY <2>3, <2>4, CountIsBalance, ModPrevious
    <2>6. QED
      BY <2>5 DEF CountExact, Balance, Uncounted, Counting
  <1>5. CASE ~PopMemtable(f) /\ ~CountDown(f)
    <2>1. UNCHANGED <<HighCompactionList, memtable_cnt>>
      BY <1>5 DEF FlushStep, TakeAlone, BuildFile, StayStalled, Recompare, ResumeWrite
    <2>2. pc[f] \in {"own", "build", "uncount"} <=> pc'[f] \in {"own", "build", "uncount"}
      BY <1>5 DEF FlushStep, TakeAlone, BuildFile, StayStalled, Recompare, ResumeWrite
    <2>3. Uncounted' = Uncounted
      BY <1>1, <2>2 DEF Uncounted
    <2>4. QED
      BY <1>2, <2>1, <2>3, BalanceKept
  <1>6. QED
    BY <1>3, <1>4, <1>5

(* memtable_cnt, on which a write stall is decided, never drifts from the  *)
(* memtables that wait to be persisted: apart from the writers between the *)
(* queue and fetch_add it is their number, and it wraps when flushers are  *)
(* faster than those writers.                                              *)
THEOREM CountCorrect == Spec => []CountExact
  <1>1. Init => CountExact
    <2> SUFFICES ASSUME Init PROVE CountExact
      OBVIOUS
    <2>1. Uncounted = {} /\ Counting = {}
      BY DEF Init, Uncounted, Counting, Thread
    <2>2. Len(HighCompactionList) = 0 /\ memtable_cnt = 1
      BY DEF Init
    <2>3. Balance = 1
      BY <2>1, <2>2, FS_EmptySet DEF Balance
    <2>4. 1 % (SIZE_MAX + 1) = 1
      BY WritePathAssumption
    <2>5. QED
      BY <2>2, <2>3, <2>4, CountIsBalance
  <1>2. Typed /\ CountExact /\ [Next]_vars => CountExact'
    <2>1. CountExact /\ UNCHANGED vars => CountExact'
      BY BalanceKept DEF vars, stallVars, Uncounted, Counting
    <2>2. QED
      BY <2>1, PutCount, FlushCount DEF Next
  <1>3. QED
    BY InitTyped, NextTyped, <1>1, <1>2, PTL DEF Spec

-----------------------------------------------------------------------------
(* The memtables that are current or on their way to a file.               *)
Hands == {current} \cup Replaced \cup InList \cup Persisting

(* A memtable leaves them only when BuildFile has put it into a file.      *)
LEMMA HandsStep ==
  ASSUME Typed, [Next]_vars, NEW m \in Hands
  PROVE  \/ m \in Hands'
         \/ \E f \in Flusher : BuildFile(f) /\ target[f] = m
  <1>1. CASE Quiet
    <2>1. UNCHANGED <<Replaced, InList, Persisting>>
      BY <1>1 DEF Quiet, Replaced, InList, Persisting, Handing, Flushing
    <2>2. QED
      BY <1>1, <2>1 DEF Hands, Quiet
  <1>2. ASSUME NEW w \in Writer, Exchange(w) \/ Swap(w) \/ Enqueue(w)
        PROVE  m \in Hands'
    <2>1. \A t \in Flusher : pc'[t] = pc[t] /\ target'[t] = target[t]
      BY <1>2, WritePathAssumption DEF Exchange, Swap, Enqueue,
         Goto, Typed, TypeOK, Thread, memVars, threadVars
    <2>2. Persisting' = Persisting
      BY <2>1 DEF Persisting, Thread
    <2>3. CASE Exchange(w)
      <3>1. UNCHANGED <<current, HighCompactionList, Handing, target>>
        BY <2>3 DEF Exchange, Handing,
           Goto, Typed, TypeOK, Thread, memVars, threadVars
      <3>2. UNCHANGED <<Replaced, InList>>
        BY <3>1 DEF Replaced, InList, Handing
      <3>3. QED
        BY <2>2, <3>1, <3>2 DEF Hands
    <2>4. CASE Swap(w)
      <3>1. /\ w \notin Handing /\ Handing' = Handing \cup {w}
            /\ target'[w] = current /\ UNCHANGED HighCompactionList
            /\ \A u \in Handing : target'[u] = target[u]
        BY <2>4 DEF Swap, Handing,
           Goto, Typed, TypeOK, Thread, memVars, threadVars
      <3>2. Replaced' = Replaced \cup {current} /\ InList' = InList
        BY <3>1 DEF Replaced, InList, Handing
      <3>3. QED
        BY <2>2, <3>2 DEF Hands
    <2>5. CASE Enqueue(w)
      <3>1. /\ UNCHANGED <<current, target>> /\ Handing' = Handing \ {w}
        BY <2>5 DEF Enqueue, Handing,
           Goto, Typed, TypeOK, Thread, memVars, threadVars
      <3>2. Replaced \subseteq Replaced' \cup {target[w]}
        BY <3>1 DEF Replaced, Handing
      <3>3. /\ DOMAIN HighCompactionList' = DOMAIN HighCompactionList
                                              \cup {Len(HighCompactionList) + 1}
            /\ HighCompactionList'[Len(HighCompactionList) + 1] = target[w]
            /\ \A k \in DOMAIN HighCompactionList :
                  HighCompactionList'[k] = HighCompactionList[k]
        BY <2>5 DEF Enqueue,
           Goto, Typed, TypeOK, Thread, memVars, threadVars
      <3>4. InList' = InList \cup {target[w]}
        BY <3>3 DEF InList
      <3>5. QED
        BY <2>2, <3>1, <3>2, <3>4 DEF Hands
    <2>6. QED
      BY <1>2, <2>3, <2>4, <2>5
  <1>3. ASSUME NEW f \in Flusher, PopMemtable(f)
        PROVE  m \in Hands'
    <2>1. \A t \in Thread \ {f} : pc'[t] = pc[t] /\ target'[t] = target[t]
      BY <1>3 DEF PopMemtable,
         Goto, Typed, TypeOK, Thread, memVars, threadVars
    <2>2. current' = current /\ Replaced' = Replaced
      BY <1>3, <2>1, WritePathAssumption DEF PopMemtable, Replaced,
         Goto, Typed, TypeOK, Thread, memVars, threadVars
    <2>3. /\ pc[f] = "idle" /\ pc'[f] = "own"
          /\ target'[f] = HighCompactionList[1]
      BY <1>3 DEF PopMemtable,
         Goto, Typed, TypeOK, Thread, memVars, threadVars
    <2>4. Persisting' = Persisting \cup {HighCompactionList[1]}
      BY <2>1, <2>3 DEF Persisting, Thread
    <2>5. \A k \in DOMAIN HighCompactionList \ {1} :
             /\ k - 1 \in DOMAIN HighCompactionList'
             /\ HighCompactionList'[k - 1] = HighCompactionList[k]
      BY <1>3 DEF PopMemtable,
         Goto, Typed, TypeOK, Thread, memVars, threadVars
    <2>6. InList \subseteq InList' \cup {HighCompactionList[1]}
      BY <2>5 DEF InList
    <2>7. QED
      BY <2>2, <2>4, <2>6 DEF Hands
  <1>4. ASSUME NEW f \in Flusher, BuildFile(f)
        PROVE  m \in Hands' \/ target[f] = m
    <2>1. /\ UNCHANGED <<current, HighCompactionList, target>>
          /\ \A t \in Thread \ {f} : pc'[t] = pc[t]
      BY <1>4 DEF BuildFile,
         Goto, Typed, TypeOK, Thread, memVars, threadVars
    <2>2. UNCHANGED <<Replaced, InList>>
      BY <2>1, WritePathAssumption DEF Replaced, InList, Thread
    <2>3. Persisting \subseteq Persisting' \cup {target[f]}
      BY <2>1 DEF Persisting, Thread
    <2>4. QED
      BY <2>1, <2>2, <2>3 DEF Hands
  <1>5. QED
    BY <1>1, <1>2, <1>3, <1>4, QuietStutter, QuietPutSteps, QuietFlushSteps
       DEF Next, PutStep, FlushStep, QuietPut, QuietFlush

LEMMA KeptIs == \A d : Kept(d) <=> d \in persisted \/ \E m \in Hands : d \in entries[m]
  BY DEF Kept, Hands

(* A put once kept stays kept.                                             *)
LEMMA KeptStays ==
  ASSUME Typed, [Next]_vars, NEW d, Kept(d)
  PROVE  Kept(d)'
  <1>1. persisted \subseteq persisted'
        /\ \A m \in Memtable : entries[m] \subseteq entries'[m]
    <2>1. CASE UNCHANGED vars
      BY <2>1 DEF vars, memVars
    <2>2. ASSUME NEW w \in Writer, StartPut(w) \/ PutStep(w)
          PROVE  UNCHANGED persisted
                 /\ \A m \in Memtable : entries[m] \subseteq entries'[m]
      <3>1. CASE Insert(w)
        BY <3>1 DEF Insert, Typed, TypeOK
      <3>2. QED
        BY <2>2, <3>1 DEF PutStep, StartPut, NameLock, TakeShared, CheckImmutable,
           CheckFull, Exchange, Swap, Enqueue, CountUp, Compare, StallWrite,
           Return, memVars
    <2>3. ASSUME NEW f \in Flusher, FlushStep(f)
          PROVE  persisted \subseteq persisted' /\ UNCHANGED entries
      BY <2>3 DEF FlushStep, PopMemtable, TakeAlone, BuildFile, CountDown,
         StayStalled, Recompare, ResumeWrite, memVars
    <2>4. QED
      BY <2>1, <2>2, <2>3 DEF Next
  <1>2. CASE d \in persisted
    BY <1>1, <1>2 DEF Kept
  <1>3. ASSUME NEW m \in Hands, d \in entries[m]
        PROVE  Kept(d)'
    <2>1. m \in Memtable
      BY DEF Hands, Replaced, InList, Persisting, Typed, TypeOK, Thread
    <2>2. CASE m \in Hands'
      BY <1>1, <1>3, <2>1, <2>2 DEF Kept, Hands
    <2>3. ASSUME NEW f \in Flusher, BuildFile(f), target[f] = m
          PROVE  Kept(d)'
      BY <1>3, <2>3 DEF BuildFile, Kept
    <2>4. QED
      BY <2>2, <2>3, HandsStep
  <1>4. QED
    BY <1>2, <1>3, KeptIs

-----------------------------------------------------------------------------
HoldsShared == {"check", "insert", "full", "exchange", "swap", "enqueue",
                "count", "compare", "stall", "unlock"}
Inserted == HoldsShared \ {"check", "insert"}
HoldsAlone == {"build", "uncount", "recompare", "resume"}

(* The memtables' mutexes: shared or alone, by the threads between taking  *)
(* them and giving them back.                                              *)
LockInv ==
    /\ \A m \in Memtable : readers[m] = {} \/ owner[m] = {}
    /\ \A w \in Writer : pc[w] \in HoldsShared => w \in readers[locked[w]]
    /\ \A f \in Flusher : pc[f] \in HoldsAlone => owner[target[f]] = {f}

(* While a writer inserts into the memtable it has locked, that memtable   *)
(* cannot have been written to its file.                                   *)
InsertInv ==
    \A w \in Writer : pc[w] = "insert" /\ locked[w] = target[w] => target[w] \in Hands

(* What is inserted is kept, before and after the put returns.             *)
KeptInv ==
    /\ \A w \in Writer : pc[w] \in Inserted /\ put[w] \notin strayed => Kept(put[w])
    /\ LockedPutsKept

LEMMA LockStep ==
  ASSUME Typed, LockInv, [Next]_vars
  PROVE  LockInv'
  <1> USE DEF Goto, lockVars, threadVars, Typed, TypeOK, Thread, HoldsShared, HoldsAlone
  <1>1. CASE UNCHANGED vars
    BY <1>1 DEF vars, LockInv
  <1>2. ASSUME NEW w \in Writer, StartPut(w) \/ PutStep(w)
        PROVE  LockInv'
    <2>1. /\ UNCHANGED owner
          /\ \A f \in Flusher : pc'[f] = pc[f] /\ target'[f] = target[f]
          /\ \A u \in Writer \ {w} : pc'[u] = pc[u] /\ locked'[u] = locked[u]
      <3>1. CASE StartPut(w) \/ NameLock(w) \/ TakeShared(w) \/ CountUp(w)
                 \/ StallWrite(w) \/ Enqueue(w)
        BY <3>1, WritePathAssumption
           DEF StartPut, NameLock, TakeShared, CountUp, StallWrite, Enqueue
      <3>2. CASE CheckImmutable(w) \/ Return(w) \/ Swap(w)
        BY <3>2, WritePathAssumption DEF CheckImmutable, Return, Swap
      <3>3. CASE Insert(w) \/ CheckFull(w) \/ Exchange(w) \/ Compare(w)
        BY <3>3, WritePathAssumption DEF Insert, CheckFull, Exchange, Compare
      <3>4. QED
        BY <1>2, <3>1, <3>2, <3>3 DEF PutStep
    <2>2. CASE TakeShared(w)
      <3>1. /\ locked' = locked /\ owner[locked[w]] = {} /\ locked[w] \in Memtable
            /\ readers' = [readers EXCEPT ![locked[w]] = @ \cup {w}]
        BY <2>2 DEF TakeShared
      <3>2. \A m \in Memtable : readers'[m] = {} \/ owner'[m] = {}
        BY <2>1, <3>1 DEF LockInv
      <3>3. \A u \in Writer \ {w} : pc'[u] \in HoldsShared => u \in readers[locked[u]]
        BY <2>1 DEF LockInv
      <3>4. \A u \in Writer : pc'[u] \in HoldsShared => u \in readers'[locked'[u]]
        BY <3>1, <3>3
      <3>5. \A f \in Flusher : pc'[f] \in HoldsAlone => owner'[target'[f]] = {f}
        BY <2>1 DEF LockInv
      <3>6. QED
        BY <3>2, <3>4, <3>5 DEF LockInv
    <2>3. CASE Return(w)
      <3>1. /\ locked[w] \in Memtable
            /\ readers' = [readers EXCEPT ![locked[w]] = @ \ {w}]
            /\ pc'[w] = "idle"
        BY <2>3 DEF Return
      <3>2. \A m \in Memtable : readers'[m] \subseteq readers[m]
        BY <3>1
      <3>3. \A m \in Memtable : readers'[m] = {} \/ owner'[m] = {}
        BY <2>1, <3>2 DEF LockInv
      <3>4. ASSUME NEW u \in Writer, pc'[u] \in HoldsShared
            PROVE  u \in readers'[locked'[u]]
        <4>1. u # w /\ locked'[u] = locked[u] /\ u \in readers[locked[u]]
          BY <2>1, <3>1, <3>4 DEF LockInv
        <4>2. QED
          BY <3>1, <4>1
      <3>5. \A f \in Flusher : pc'[f] \in HoldsAlone => owner'[target'[f]] = {f}
        BY <2>1 DEF LockInv
      <3>6. QED
        BY <3>3, <3>4, <3>5 DEF LockInv
    <2>4. CASE StartPut(w) \/ NameLock(w)
      <3>1. readers' = readers /\ pc'[w] \in {"name", "lock"}
        BY <2>4 DEF StartPut, NameLock
      <3>2. QED
        BY <2>1, <3>1 DEF LockInv
    <2>5. CASE ~(TakeShared(w) \/ Return(w) \/ StartPut(w) \/ NameLock(w))
      <3>1. UNCHANGED <<readers, locked>> /\ pc[w] \in HoldsShared
        BY <1>2, <2>5 DEF PutStep, CheckImmutable, Insert, CheckFull, Exchange, Swap,
           Enqueue, CountUp, Compare, StallWrite
      <3>2. QED
        BY <2>1, <3>1 DEF LockInv
    <2>6. QED
      BY <2>2, <2>3, <2>4, <2>5
  <1>3. ASSUME NEW f \in Flusher, FlushStep(f)
        PROVE  LockInv'
    <2>1. /\ UNCHANGED <<readers, locked>>
          /\ \A w \in Writer : pc'[w] = pc[w]
          /\ \A g \in Flusher \ {f} : pc'[g] = pc[g] /\ target'[g] = target[g]
      <3>1. CASE PopMemtable(f) \/ TakeAlone(f) \/ BuildFile(f) \/ CountDown(f)
                 \/ Recompare(f)
        BY <3>1, WritePathAssumption
           DEF PopMemtable, TakeAlone, BuildFile, CountDown, Recompare
      <3>2. CASE StayStalled(f) \/ ResumeWrite(f)
        BY <3>2, WritePathAssumption DEF StayStalled, ResumeWrite, Release
      <3>3. QED
        BY <1>3, <3>1, <3>2 DEF FlushStep
    <2>2. CASE PopMemtable(f)
      BY <2>1, <2>2 DEF PopMemtable, LockInv
    <2>3. CASE TakeAlone(f)
      <3>1. /\ target[f] \in Memtable /\ target' = target
            /\ readers[target[f]] = {} /\ owner[target[f]] = {}
            /\ owner' = [owner EXCEPT ![target[f]] = {f}]
        BY <2>3 DEF TakeAlone
      <3>2. ASSUME NEW g \in Flusher, g # f, pc'[g] \in HoldsAlone
            PROVE  owner'[target'[g]] = {g}
        <4>1. owner[target[g]] = {g}
          BY <2>1, <3>2 DEF LockInv
        <4>2. target[g] # target[f]
          BY <3>1, <4>1
        <4>3. QED
          BY <3>1, <4>1, <4>2
      <3>3. owner'[target'[f]] = {f}
        BY <3>1
      <3>4. \A m \in Memtable : readers'[m] = {} \/ owner'[m] = {}
        BY <2>1, <3>1 DEF LockInv
      <3>5. QED
        BY <2>1, <3>2, <3>3, <3>4 DEF LockInv
    <2>4. CASE BuildFile(f) \/ CountDown(f) \/ Recompare(f)
      BY <2>1, <2>4 DEF BuildFile, CountDown, Recompare, LockInv
    <2>5. CASE StayStalled(f) \/ ResumeWrite(f)
      <3>1. /\ pc[f] \in HoldsAlone /\ pc'[f] = "idle"
            /\ owner' = [owner EXCEPT ![target[f]] = {}]
        BY <2>5 DEF StayStalled, ResumeWrite, Release
      <3>2. owner[target[f]] = {f}
        BY <3>1 DEF LockInv
      <3>3. ASSUME NEW g \in Flusher, pc'[g] \in HoldsAlone
            PROVE  owner'[target'[g]] = {g}
        <4>1. g # f /\ pc[g] \in HoldsAlone /\ target'[g] = target[g]
          BY <2>1, <3>1, <3>3
        <4>2. owner[target[g]] = {g}
          BY <4>1 DEF LockInv
        <4>3. target[g] # target[f]
          BY <3>2, <4>1, <4>2
        <4>4. QED
          BY <3>1, <4>1, <4>2, <4>3
      <3>4. \A m \in Memtable : owner'[m] \subseteq owner[m]
        BY <3>1
      <3>5. QED
        BY <2>1, <3>3, <3>4 DEF LockInv
    <2>6. QED
      BY <1>3, <2>2, <2>3, <2>4, <2>5 DEF FlushStep
  <1>4. QED
    BY <1>1, <1>2, <1>3 DEF Next

LEMMA InsertStep ==
  ASSUME Typed, LockInv, InsertInv, [Next]_vars
  PROVE  InsertInv'
  <1> SUFFICES ASSUME NEW w \in Writer, pc'[w] = "insert", locked'[w] = target'[w]
               PROVE  target'[w] \in Hands'
    BY DEF InsertInv
  <1>1. CASE CheckImmutable(w)
    BY <1>1 DEF CheckImmutable, memVars, Hands, Typed, TypeOK, Thread
  <1>2. CASE ~CheckImmutable(w)
    <2>1. pc[w] = "insert" /\ locked[w] = locked'[w] /\ target[w] = target'[w]
      <3> USE DEF Goto, threadVars, Typed, TypeOK, Thread
      <3>1. CASE UNCHANGED vars
        BY <3>1 DEF vars
      <3>2. ASSUME NEW u \in Writer, StartPut(u) \/ PutStep(u)
            PROVE  pc[w] = "insert" /\ locked[w] = locked'[w] /\ target[w] = target'[w]
        <4>1. CASE StartPut(u) \/ NameLock(u) \/ TakeShared(u) \/ CountUp(u)
                   \/ StallWrite(u) \/ Enqueue(u)
          BY <4>1 DEF StartPut, NameLock, TakeShared, CountUp, StallWrite, Enqueue
        <4>2. CASE CheckImmutable(u) \/ Return(u) \/ Swap(u)
          BY <1>2, <4>2 DEF CheckImmutable, Return, Swap
        <4>3. CASE Insert(u) \/ CheckFull(u) \/ Exchange(u) \/ Compare(u)
          BY <4>3 DEF Insert, CheckFull, Exchange, Compare
        <4>4. QED
          BY <3>2, <4>1, <4>2, <4>3 DEF PutStep
      <3>3. ASSUME NEW f \in Flusher, FlushStep(f)
            PROVE  pc[w] = "insert" /\ locked[w] = locked'[w] /\ target[w] = target'[w]
        <4>1. f # w
          BY WritePathAssumption
        <4>2. CASE PopMemtable(f) \/ TakeAlone(f) \/ BuildFile(f) \/ CountDown(f)
                   \/ Recompare(f)
          BY <4>1, <4>2 DEF PopMemtable, TakeAlone, BuildFile, CountDown, Recompare
        <4>3. CASE StayStalled(f) \/ ResumeWrite(f)
          BY <4>1, <4>3 DEF StayStalled, ResumeWrite, Release
        <4>4. QED
          BY <3>3, <4>2, <4>3 DEF FlushStep
      <3>4. QED
        BY <3>1, <3>2, <3>3 DEF Next
    <2>2. target[w] \in Hands
      BY <2>1 DEF InsertInv
    <2>3. ASSUME NEW f \in Flusher, BuildFile(f), target[f] = target[w]
          PROVE  FALSE
      <3>1. owner[target[f]] = {f} /\ w \in readers[locked[w]] /\ target[w] \in Memtable
        BY <2>1, <2>3 DEF LockInv, BuildFile, Goto, HoldsShared, HoldsAlone,
           Typed, TypeOK, Thread
      <3>2. locked[w] = target[f]
        BY <2>1, <2>3
      <3>3. QED
        BY <2>3, <3>1, <3>2 DEF LockInv
    <2>4. QED
      BY <2>1, <2>2, <2>3, HandsStep
  <1>3. QED
    BY <1>1, <1>2

LEMMA KeptStep ==
  ASSUME Typed, InsertInv, KeptInv, [Next]_vars
  PROVE  KeptInv'
  <1>1. strayed \subseteq strayed'
    BY DEF Next, vars, memVars, PutStep, StartPut, NameLock, TakeShared,
       CheckImmutable, Insert, CheckFull, Exchange, Swap, Enqueue, CountUp, Compare,
       StallWrite, Return, FlushStep, PopMemtable, TakeAlone, BuildFile,
       CountDown, StayStalled, Recompare, ResumeWrite
  <1>2. ASSUME NEW w \in Writer, Insert(w), put[w] \notin strayed'
        PROVE  Kept(put[w])'
    <2>1. locked[w] = target[w] /\ pc[w] = "insert" /\ target[w] \in Memtable
      BY <1>2 DEF Insert, Goto, Typed, TypeOK, Thread
    <2>2. target[w] \in Hands
      BY <2>1 DEF InsertInv
    <2>3. Quiet
      BY <1>2, QuietPutSteps DEF QuietPut
    <2>4. Hands' = Hands
      BY <2>3 DEF Hands, Quiet, Replaced, InList, Persisting, Handing, Flushing
    <2>5. put[w] \in entries'[target[w]]
      BY <1>2, <2>1 DEF Insert, Typed, TypeOK
    <2>6. put'[w] = put[w]
      BY <1>2 DEF Insert, threadVars
    <2>7. QED
      BY <2>2, <2>4, <2>5, <2>6 DEF Kept, Hands
  <1>3. ASSUME NEW w \in Writer, pc'[w] \in Inserted, ~Insert(w)
        PROVE  pc[w] \in Inserted /\ put'[w] = put[w]
    <2> USE DEF Goto, threadVars, Typed, TypeOK, Thread, Inserted, HoldsShared
    <2>1. CASE UNCHANGED vars
      BY <1>3, <2>1 DEF vars
    <2>2. ASSUME NEW u \in Writer, StartPut(u) \/ PutStep(u)
          PROVE  pc[w] \in Inserted /\ put'[w] = put[w]
      <3>1. CASE StartPut(u) \/ NameLock(u) \/ TakeShared(u) \/ CountUp(u)
                 \/ StallWrite(u) \/ Enqueue(u)
        BY <1>3, <3>1 DEF StartPut, NameLock, TakeShared, CountUp, StallWrite, Enqueue
      <3>2. CASE CheckImmutable(u) \/ Return(u) \/ Swap(u)
        BY <1>3, <3>2 DEF CheckImmutable, Return, Swap
      <3>3. CASE CheckFull(u) \/ Exchange(u) \/ Compare(u)
        BY <1>3, <3>3 DEF CheckFull, Exchange, Compare
      <3>4. CASE Insert(u)
        BY <1>3, <3>4 DEF Insert
      <3>5. QED
        BY <2>2, <3>1, <3>2, <3>3, <3>4 DEF PutStep
    <2>3. ASSUME NEW f \in Flusher, FlushStep(f)
          PROVE  pc[w] \in Inserted /\ put'[w] = put[w]
      <3>1. f # w
        BY WritePathAssumption
      <3>2. CASE PopMemtable(f) \/ TakeAlone(f) \/ BuildFile(f) \/ CountDown(f)
                 \/ Recompare(f)
        BY <1>3, <3>1, <3>2 DEF PopMemtable, TakeAlone, BuildFile, CountDown, Recompare
      <3>3. CASE StayStalled(f) \/ ResumeWrite(f)
        BY <1>3, <3>1, <3>3 DEF StayStalled, ResumeWrite, Release
      <3>4. QED
        BY <2>3, <3>2, <3>3 DEF FlushStep
    <2>4. QED
      BY <2>1, <2>2, <2>3 DEF Next
  <1>4. ASSUME NEW w \in Writer, pc'[w] \in Inserted, put'[w] \notin strayed'
        PROVE  Kept(put[w])' /\ put'[w] = put[w]
    <2>1. CASE Insert(w)
      BY <1>2, <1>4, <2>1 DEF Insert, threadVars
    <2>2. CASE ~Insert(w)
      <3>1. pc[w] \in Inserted /\ put'[w] = put[w] /\ put[w] \notin strayed
        BY <1>1, <1>3, <1>4, <2>2
      <3>2. QED
        BY <3>1, KeptStays DEF KeptInv
    <2>3. QED
      BY <2>1, <2>2
  <1>5. ASSUME NEW d \in done' \ strayed'
        PROVE  Kept(d)'
    <2>1. CASE d \in done
      BY <1>1, <2>1, KeptStays DEF KeptInv, LockedPutsKept
    <2>2. ASSUME NEW w \in Writer, Return(w), d = put[w]
          PROVE  Kept(d)'
      <3>1. pc[w] \in Inserted /\ put[w] \notin strayed
        BY <1>1, <2>2 DEF Return, Goto, Inserted, HoldsShared
      <3>2. QED
        BY <2>2, <3>1, KeptStays DEF KeptInv
    <2>3. d \in done \/ \E w \in Writer : Return(w) /\ d = put[w]
      BY DEF Next, vars, PutStep, StartPut, NameLock, TakeShared,
         CheckImmutable, Insert, CheckFull, Exchange, Swap, Enqueue, CountUp, Compare,
         StallWrite, Return, FlushStep, PopMemtable, TakeAlone, BuildFile,
         CountDown, StayStalled, Recompare, ResumeWrite
    <2>4. QED
      BY <2>1, <2>2, <2>3
  <1>6. QED
    BY <1>4, <1>5 DEF KeptInv, LockedPutsKept, Kept

(* A put whose writer held the lock of the memtable it went into is in a   *)
(* file, or in a memtable that will be put into one, from its insertion    *)
(* on: RowMemtablePersistence cannot read the memtable before the writer   *)
(* gives the lock back, and only a memtable already immutable is queued.   *)
THEOREM LockedPuts == Spec => []LockedPutsKept
  <1> DEFINE I == Typed /\ LockInv /\ InsertInv /\ KeptInv
  <1>1. Init => I
    <2> SUFFICES ASSUME Init PROVE LockInv /\ InsertInv /\ KeptInv
      BY InitTyped
    <2> QED
      BY DEF Init, LockInv, InsertInv, KeptInv, LockedPutsKept, Thread, HoldsShared,
         HoldsAlone, Inserted
  <1>2. I /\ [Next]_vars => I'
    BY NextTyped, LockStep, InsertStep, KeptStep
  <1>3. I => LockedPutsKept
    BY DEF KeptInv
  <1> HIDE DEF I
  <1>4. QED
    BY <1>1, <1>2, <1>3, PTL DEF Spec

-----------------------------------------------------------------------------
(* The writers that may still replace a memtable before they look at the   *)
(* stall again, or that find it lifted; the flushers about to lift it.     *)
Passing ==
    {w \in Writer :
        \/ pc[w] \in {"name", "lock", "check", "insert", "full", "exchange", "swap"}
        \/ pc[w] \in {"idle", "unlock"} /\ ~write_stall}
Resuming == {f \in Flusher : pc[f] = "resume"}

Unpersisted ==
    1 + Cardinality(Handing) + Len(HighCompactionList) + Cardinality(Flushing)

MostUnpersisted ==
    MAX_MEMTABLE_NUM + Cardinality(Writer) * (1 + Cardinality(Flusher))

(* What the memtables not yet persisted may still grow to: one more for    *)
(* each writer that passes, all writers' for each flusher that has found   *)
(* the count low and not yet lifted the stall.                             *)
BacklogInv ==
    Unpersisted + Cardinality(Passing) + Cardinality(Writer) * Cardinality(Resuming)
      <= MostUnpersisted

LEMMA BacklogSizes ==
  /\ IsFiniteSet(Handing) /\ IsFiniteSet(Flushing)
  /\ IsFiniteSet(Passing) /\ IsFiniteSet(Resuming)
  /\ Cardinality(Handing) \in Nat /\ Cardinality(Flushing) \in Nat
  /\ Cardinality(Passing) \in Nat /\ Cardinality(Resuming) \in Nat
  /\ Cardinality(Writer) \in Nat /\ Cardinality(Flusher) \in Nat
  /\ Cardinality(Passing) <= Cardinality(Writer)
  /\ Cardinality(Resuming) <= Cardinality(Flusher)
  <1>1. /\ Handing \in SUBSET Writer /\ Flushing \in SUBSET Flusher
        /\ Passing \in SUBSET Writer /\ Resuming \in SUBSET Flusher
    BY DEF Handing, Flushing, Passing, Resuming
  <1>2. /\ IsFiniteSet(Handing) /\ IsFiniteSet(Flushing)
        /\ IsFiniteSet(Passing) /\ IsFiniteSet(Resuming)
        /\ Cardinality(Passing) <= Cardinality(Writer)
        /\ Cardinality(Resuming) <= Cardinality(Flusher)
    BY <1>1, WritePathAssumption, FS_Subset
  <1>3. QED
    BY <1>2, WritePathAssumption, FS_CardinalityType

LEMMA UnpersistedCounts ==
  ASSUME Typed
  PROVE  Unpersisted \in Nat /\ Len(HighCompactionList) \in Nat
  <1>1. Len(HighCompactionList) \in Nat
    BY DEF Typed, TypeOK
  <1>2. QED
    BY <1>1, BacklogSizes DEF Unpersisted

(* Products are the only arithmetic here that is not linear.               *)
LEMMA Times ==
  ASSUME NEW a \in Nat, NEW b \in Nat
  PROVE  /\ a * b \in Nat
         /\ a * (b - 1) = a * b - a
         /\ a * (1 + b) = a + a * b
         /\ \A c \in Nat : c <= b => a * c <= a * b
  <1>1. /\ a * b \in Nat /\ a * (b - 1) = a * b - a /\ a * (1 + b) = a + a * b
    OBVIOUS
  <1>2. ASSUME NEW c \in Nat, c <= b PROVE a * c <= a * b
    <2>1. b - c \in Nat /\ a * (b - c) \in Nat
      BY <1>2
    <2>2. a * (b - c) = a * b - a * c
      OBVIOUS
    <2>3. a * b \in Nat /\ a * c \in Nat
      OBVIOUS
    <2>4. QED
      BY <2>1, <2>2, <2>3
  <1>3. QED
    BY <1>1, <1>2

(* Handing, Counting and Passing are different writers.                    *)
LEMMA WritersApart ==
  Cardinality(Handing) + Cardinality(Counting) + Cardinality(Passing)
    <= Cardinality(Writer)
  <1>1. Handing \cap Counting = {} /\ (Handing \cup Counting) \cap Passing = {}
    BY DEF Handing, Counting, Passing
  <1>2. (Handing \cup Counting) \cup Passing \in SUBSET Writer
    BY DEF Handing, Counting, Passing
  <1>3. Cardinality((Handing \cup Counting) \cup Passing) <= Cardinality(Writer)
    BY <1>2, WritePathAssumption, FS_Subset
  <1>4. Cardinality({}) = 0
    BY FS_EmptySet
  <1>5. /\ IsFiniteSet(Handing \cup Counting)
        /\ Cardinality(Handing \cup Counting)
             = Cardinality(Handing) + Cardinality(Counting) - Cardinality({})
    BY <1>1, BacklogSizes, CountedFinite, FS_Union
  <1>6. Cardinality((Handing \cup Counting) \cup Passing)
          = Cardinality(Handing \cup Counting) + Cardinality(Passing) - Cardinality({})
    BY <1>1, <1>5, BacklogSizes, FS_Union
  <1>7. Cardinality(Handing \cup Counting)
          = Cardinality(Handing) + Cardinality(Counting)
    BY <1>4, <1>5, BacklogSizes, CountedFinite
  <1>8. Cardinality((Handing \cup Counting) \cup Passing)
          = Cardinality(Handing) + Cardinality(Counting) + Cardinality(Passing)
    BY <1>4, <1>6, <1>7, BacklogSizes, CountedFinite
  <1>9. QED
    BY <1>3, <1>8

(* A count found low at any time is as good as a new start: the count is   *)
(* not more than MAX_MEMTABLE_NUM, did not wrap upward, and what it leaves *)
(* out are memtables of writers that do not pass.                          *)
LEMMA LowCountBacklog ==
  ASSUME Typed, CountExact, ~TooMany, Unpersisted <= MostUnpersisted
  PROVE  BacklogInv
  <1> DEFINE W == Cardinality(Writer)
             F == Cardinality(Flusher)
             H == Cardinality(Handing)
             P == Cardinality(Flushing)
             U == Cardinality(Uncounted)
             C == Cardinality(Counting)
             L == Len(HighCompactionList)
  <1>1. /\ W \in Nat /\ F \in Nat /\ H \in Nat /\ P \in Nat /\ U \in Nat
        /\ C \in Nat /\ L \in Nat
    BY BacklogSizes, CountedFinite DEF Typed, TypeOK
  <1>2. P <= U /\ U <= F
    <2>1. Flushing \in SUBSET Uncounted /\ Uncounted \in SUBSET Flusher
      BY DEF Flushing, Uncounted
    <2>2. QED
      BY <2>1, CountedFinite, WritePathAssumption, FS_Subset
  <1>3. Balance = 1 + L + U - C /\ Unpersisted = 1 + H + L + P
    BY DEF Balance, Unpersisted
  <1>4. memtable_cnt = Balance % (SIZE_MAX + 1) /\ memtable_cnt <= MAX_MEMTABLE_NUM
    BY CountIsBalance, WritePathAssumption DEF TooMany, Typed, TypeOK
  <1>5. /\ MostUnpersisted + F <= SIZE_MAX /\ MostUnpersisted \in Nat
        /\ MostUnpersisted = MAX_MEMTABLE_NUM + (W + W * F) /\ W * F \in Nat
    BY <1>1, Times, WritePathAssumption, CounterAssumption DEF MostUnpersisted
  <1>6. Balance \in Int /\ Balance <= SIZE_MAX
    <2> HIDE DEF W, F, H, P, U, C, L
    <2>1. Balance <= (1 + H + L + P) + F
      BY <1>1, <1>2, <1>3
    <2>2. QED
      BY <1>1, <1>3, <1>5, <2>1, WritePathAssumption
  <1>7. Balance <= MAX_MEMTABLE_NUM
    <2>1. CASE Balance < 0
      BY <1>6, <2>1, WritePathAssumption
    <2>2. CASE Balance >= 0
      <3>1. Balance % (SIZE_MAX + 1) = Balance
        BY <1>6, <2>2, WritePathAssumption
      <3>2. QED
        BY <1>4, <3>1
    <2>3. QED
      BY <1>6, <2>1, <2>2
  <1>8. H + C + Cardinality(Passing) <= W
    BY WritersApart
  <1>9. W * Cardinality(Resuming) <= W * F /\ W * Cardinality(Resuming) \in Nat
    BY BacklogSizes, Times
  <1>10. Cardinality(Passing) \in Nat
    BY BacklogSizes
  <1> DEFINE T == Cardinality(Passing)
             R == W * Cardinality(Resuming)
  <1>11. Unpersisted + T + R <= MostUnpersisted
    <2>1. /\ MAX_MEMTABLE_NUM \in Nat /\ W \in Nat /\ W * F \in Nat /\ R \in Nat
          /\ T \in Nat /\ R <= W * F /\ H + C + T <= W
      BY <1>1, <1>5, <1>8, <1>9, <1>10, WritePathAssumption
    <2> HIDE DEF W, F, H, P, U, C, L, T, R
    <2>2. 1 + L + P - C <= MAX_MEMTABLE_NUM
      BY <1>1, <1>2, <1>3, <1>7, <2>1
    <2>3. Unpersisted + T + R <= MAX_MEMTABLE_NUM + (W + W * F)
      BY <1>1, <1>3, <2>1, <2>2
    <2>4. QED
      BY <1>5, <2>3
  <1>12. QED
    BY <1>11 DEF BacklogInv

(* What makes the sum no larger: the parts that change, and by how much.   *)
LEMMA BacklogNoMore ==
  ASSUME Typed, BacklogInv, Typed',
         Unpersisted' + Cardinality(Passing')
           <= Unpersisted + Cardinality(Passing),
         Resuming' = Resuming
  PROVE  BacklogInv'
  <1> DEFINE R == Cardinality(Writer) * Cardinality(Resuming)
  <1>1. R \in Nat /\ Unpersisted \in Nat /\ Cardinality(Passing) \in Nat
    BY BacklogSizes, Times DEF Unpersisted, Typed, TypeOK
  <1>2. Unpersisted' \in Nat /\ Cardinality(Passing') \in Nat
    <2>1. Passing' \in SUBSET Writer /\ Handing' \in SUBSET Writer
          /\ Flushing' \in SUBSET Flusher
      BY DEF Passing, Handing, Flushing
    <2>2. /\ Cardinality(Passing') \in Nat /\ Cardinality(Handing') \in Nat
          /\ Cardinality(Flushing') \in Nat
      BY <2>1, WritePathAssumption, FS_Subset, FS_CardinalityType
    <2>3. QED
      BY <2>2 DEF Unpersisted, Typed, TypeOK
  <1>3. MostUnpersisted \in Nat /\ MostUnpersisted' = MostUnpersisted
    BY BacklogSizes, Times, WritePathAssumption DEF MostUnpersisted
  <1>4. Cardinality(Writer) * Cardinality(Resuming') = R
    OBVIOUS
  <1> HIDE DEF R
  <1>5. Unpersisted + Cardinality(Passing) + R <= MostUnpersisted
    BY DEF BacklogInv, R
  <1>6. Unpersisted' + Cardinality(Passing') + R <= MostUnpersisted
    BY <1>1, <1>2, <1>3, <1>5
  <1>7. QED
    BY <1>3, <1>4, <1>6 DEF BacklogInv

LEMMA FewerPass ==
  ASSUME Passing' \subseteq Passing
  PROVE  Cardinality(Passing') <= Cardinality(Passing) /\ Cardinality(Passing') \in Nat
  <1>1. Passing' \in SUBSET Passing
    OBVIOUS
  <1>2. QED
    BY <1>1, BacklogSizes, FS_Subset, FS_CardinalityType

LEMMA SameUnpersisted ==
  ASSUME UNCHANGED <<Handing, Flushing, HighCompactionList>>
  PROVE  Unpersisted' = Unpersisted
  BY DEF Unpersisted, Handing, Flushing

(* A step that touches no memtable on its way and lets nobody pass.        *)
LEMMA BacklogSame ==
  ASSUME Typed, BacklogInv, Typed', UNCHANGED <<Handing, Flushing, HighCompactionList>>,
         Passing' \subseteq Passing, Resuming' = Resuming
  PROVE  BacklogInv'
  <1>1. Unpersisted' = Unpersisted /\ Unpersisted \in Nat
    BY SameUnpersisted, BacklogSizes DEF Unpersisted, Typed, TypeOK
  <1>2. Unpersisted' + Cardinality(Passing') <= Unpersisted + Cardinality(Passing)
    BY <1>1, FewerPass, BacklogSizes
  <1>3. QED
    BY <1>2, BacklogNoMore

LEMMA LowCountBacklogNext ==
  (Typed /\ CountExact /\ ~TooMany /\ Unpersisted <= MostUnpersisted => BacklogInv)'
  <1>1. Typed /\ CountExact /\ ~TooMany /\ Unpersisted <= MostUnpersisted => BacklogInv
    BY LowCountBacklog
  <1>2. QED
    BY <1>1, PTL

LEMMA BacklogAtMost ==
  ASSUME Typed, BacklogInv
  PROVE  Unpersisted <= MostUnpersisted
  <1> DEFINE R == Cardinality(Writer) * Cardinality(Resuming)
  <1>1. R \in Nat /\ Unpersisted \in Nat /\ Cardinality(Passing) \in Nat
    BY BacklogSizes, Times DEF Unpersisted, Typed, TypeOK
  <1>2. MostUnpersisted \in Nat
    BY BacklogSizes, Times, WritePathAssumption DEF MostUnpersisted
  <1>3. Unpersisted + Cardinality(Passing) + R <= MostUnpersisted
    BY DEF BacklogInv
  <1> HIDE DEF R
  <1>4. QED
    BY <1>1, <1>2, <1>3

LEMMA ImageSize ==
  ASSUME NEW S, IsFiniteSet(S), NEW g, DOMAIN g = S
  PROVE  /\ Cardinality({g[x] : x \in S}) \in Nat
         /\ Cardinality({g[x] : x \in S}) <= Cardinality(S)
  <1> DEFINE T == {g[x] : x \in S}
             h == [x \in S |-> g[x]]
  <1>1. h \in Surjection(S, T)
    BY DEF Surjection
  <1>2. QED
    BY <1>1, FS_Surjection, FS_CardinalityType

LEMMA PutBacklog ==
  ASSUME Typed, Typed', CountExact, CountExact', BacklogInv,
         NEW w \in Writer, StartPut(w) \/ PutStep(w)
  PROVE  BacklogInv'
  <1> USE DEF Goto, Thread, stallVars
  <1>1. /\ \A t \in Thread \ {w} : pc'[t] = pc[t]
        /\ pc \in [Thread -> Control] /\ w \in Thread
        /\ pc' \in [Thread -> Control]
    BY DEF PutStep, StartPut, NameLock, TakeShared, CheckImmutable, Insert, Typed,
       CheckFull, Exchange, Swap, Enqueue, CountUp, Compare, StallWrite, Return, TypeOK
  <1>2. UNCHANGED <<Flushing, Resuming>>
    BY <1>1, WritePathAssumption DEF Flushing, Resuming
  <1>3. CASE Swap(w)
    <2>1. /\ pc[w] = "swap" /\ pc'[w] = "enqueue"
          /\ UNCHANGED <<HighCompactionList, write_stall>>
      BY <1>1, <1>3 DEF Swap
    <2>2. /\ w \in Passing /\ Passing' = Passing \ {w}
          /\ w \notin Handing /\ Handing' = Handing \cup {w}
      BY <1>1, <2>1 DEF Passing, Handing
    <2>3. /\ Cardinality(Passing') = Cardinality(Passing) - 1
          /\ Cardinality(Handing') = Cardinality(Handing) + 1
      BY <2>2, BacklogSizes, FS_AddElement, FS_RemoveElement
    <2>4. /\ Unpersisted' = Unpersisted + 1 /\ Unpersisted \in Nat
      BY <1>2, <2>1, <2>3, BacklogSizes, UnpersistedCounts DEF Unpersisted
    <2>5. Unpersisted' + Cardinality(Passing') <= Unpersisted + Cardinality(Passing)
      BY <2>3, <2>4, BacklogSizes
    <2>6. QED
      BY <1>2, <2>5, BacklogNoMore
  <1>4. CASE Enqueue(w)
    <2>1. /\ pc[w] = "enqueue" /\ pc'[w] = "count" /\ write_stall' = write_stall
      BY <1>1, <1>4 DEF Enqueue
    <2>2. w \in Handing /\ Handing' = Handing \ {w} /\ Passing' = Passing
      BY <1>1, <2>1 DEF Passing, Handing
    <2>3. Cardinality(Handing') = Cardinality(Handing) - 1
      BY <2>2, BacklogSizes, FS_RemoveElement
    <2>4. Len(HighCompactionList') = Len(HighCompactionList) + 1
          /\ Len(HighCompactionList) \in Nat
      BY <1>1, <1>4 DEF Enqueue, Typed, TypeOK
    <2>5. Unpersisted' = Unpersisted /\ Unpersisted \in Nat
      BY <1>2, <2>3, <2>4, BacklogSizes DEF Unpersisted
    <2>6. QED
      BY <1>2, <2>2, <2>5, BacklogSizes, BacklogNoMore
  <1>5. CASE Compare(w) /\ ~TooMany
    <2>1. /\ pc[w] = "compare" /\ pc'[w] = "unlock"
          /\ UNCHANGED <<HighCompactionList, write_stall, memtable_cnt>>
      BY <1>1, <1>5 DEF Compare
    <2>2. Handing' = Handing
      BY <1>1, <2>1 DEF Handing
    <2>3. Unpersisted' = Unpersisted /\ MostUnpersisted' = MostUnpersisted
      BY <1>2, <2>1, <2>2, SameUnpersisted DEF MostUnpersisted
    <2>4. Unpersisted <= MostUnpersisted
      BY BacklogAtMost
    <2>5. ~TooMany' /\ Unpersisted' <= MostUnpersisted'
      BY <1>5, <2>1, <2>3, <2>4 DEF TooMany
    <2>6. QED
      BY <2>5, LowCountBacklogNext
  <1>6. CASE ~Swap(w) /\ ~Enqueue(w) /\ ~(Compare(w) /\ ~TooMany)
    <2>1. /\ HighCompactionList' = HighCompactionList
          /\ pc[w] # "enqueue" /\ pc'[w] # "enqueue"
          /\ w \in Passing' => w \in Passing
          /\ write_stall => write_stall'
      <3>1. CASE StartPut(w) \/ NameLock(w) \/ TakeShared(w) \/ CheckImmutable(w)
        BY <1>1, <3>1 DEF StartPut, NameLock, TakeShared, CheckImmutable, Passing
      <3>2. CASE Insert(w) \/ CheckFull(w) \/ Exchange(w)
        BY <1>1, <3>2 DEF Insert, CheckFull, Exchange, Passing
      <3>3. CASE CountUp(w) \/ (Compare(w) /\ TooMany)
        BY <1>1, <3>3 DEF CountUp, Compare, Passing
      <3>4. CASE StallWrite(w) \/ Return(w)
        BY <1>1, <3>4 DEF StallWrite, Return, Passing
      <3>5. QED
        BY <1>6, <3>1, <3>2, <3>3, <3>4 DEF PutStep
    <2>2. Handing' = Handing /\ Passing' \subseteq Passing
      BY <1>1, <2>1 DEF Handing, Passing
    <2>3. QED
      BY <1>2, <2>1, <2>2, BacklogSame
  <1>7. QED
    BY <1>3, <1>4, <1>5, <1>6

LEMMA FlushBacklog ==
  ASSUME Typed, Typed', CountExact, CountExact', BacklogInv,
         NEW f \in Flusher, FlushStep(f)
  PROVE  BacklogInv'
  <1> USE DEF Goto, Thread, stallVars
  <1>1. /\ \A t \in Thread \ {f} : pc'[t] = pc[t]
        /\ pc \in [Thread -> Control] /\ f \in Thread /\ f \notin Writer
        /\ pc' \in [Thread -> Control]
    BY WritePathAssumption DEF FlushStep, PopMemtable, TakeAlone, BuildFile, CountDown,
       StayStalled, Recompare, ResumeWrite, Typed, TypeOK
  <1>2. Handing' = Handing
    BY <1>1 DEF Handing
  <1>3. CASE PopMemtable(f)
    <2>1. /\ pc[f] = "idle" /\ pc'[f] = "own" /\ write_stall' = write_stall
      BY <1>1, <1>3 DEF PopMemtable
    <2>2. /\ f \notin Flushing /\ Flushing' = Flushing \cup {f}
          /\ Passing' = Passing /\ Resuming' = Resuming
      BY <1>1, <2>1 DEF Flushing, Passing, Resuming
    <2>3. Cardinality(Flushing') = Cardinality(Flushing) + 1
      BY <2>2, BacklogSizes, FS_AddElement
    <2>4. Len(HighCompactionList') = Len(HighCompactionList) - 1
          /\ Len(HighCompactionList) \in Nat
      BY <1>3 DEF PopMemtable, Typed, TypeOK
    <2>5. Unpersisted' = Unpersisted /\ Unpersisted \in Nat
      BY <1>2, <2>3, <2>4, BacklogSizes DEF Unpersisted
    <2>6. QED
      BY <2>2, <2>5, BacklogSizes, BacklogNoMore
  <1>4. CASE BuildFile(f)
    <2>1. /\ pc[f] = "build" /\ pc'[f] = "uncount"
          /\ UNCHANGED <<HighCompactionList, write_stall>>
      BY <1>1, <1>4 DEF BuildFile
    <2>2. /\ f \in Flushing /\ Flushing' = Flushing \ {f}
          /\ Passing' = Passing /\ Resuming' = Resuming
      BY <1>1, <2>1 DEF Flushing, Passing, Resuming
    <2>3. Cardinality(Flushing') = Cardinality(Flushing) - 1
      BY <2>2, BacklogSizes, FS_RemoveElement
    <2>4. Unpersisted' = Unpersisted - 1 /\ Unpersisted \in Nat
      BY <1>2, <2>1, <2>3, BacklogSizes, UnpersistedCounts DEF Unpersisted
    <2>5. Unpersisted' + Cardinality(Passing') <= Unpersisted + Cardinality(Passing)
      BY <2>2, <2>4, BacklogSizes
    <2>6. QED
      BY <2>2, <2>5, BacklogNoMore
  <1>5. CASE Recompare(f)
    <2>1. /\ pc[f] = "recompare" /\ pc'[f] = "resume" /\ ~TooMany
          /\ UNCHANGED <<HighCompactionList, write_stall, memtable_cnt>>
      BY <1>1, <1>5 DEF Recompare
    <2>2. Flushing' = Flushing
      BY <1>1, <2>1 DEF Flushing
    <2>3. Unpersisted' = Unpersisted /\ MostUnpersisted' = MostUnpersisted
      BY <1>2, <2>1, <2>2, SameUnpersisted DEF MostUnpersisted
    <2>4. Unpersisted <= MostUnpersisted
      BY BacklogAtMost
    <2>5. ~TooMany' /\ Unpersisted' <= MostUnpersisted'
      BY <2>1, <2>3, <2>4 DEF TooMany
    <2>6. QED
      BY <2>5, LowCountBacklogNext
  <1>6. CASE ResumeWrite(f)
    <2> DEFINE W == Cardinality(Writer)
    <2>1. /\ pc[f] = "resume" /\ pc'[f] = "idle"
          /\ HighCompactionList' = HighCompactionList
      BY <1>1, <1>6 DEF ResumeWrite
    <2>2. /\ Flushing' = Flushing /\ f \in Resuming /\ Resuming' = Resuming \ {f}
      BY <1>1, <2>1 DEF Flushing, Resuming
    <2>3. /\ Cardinality(Resuming') = Cardinality(Resuming) - 1
          /\ Cardinality(Resuming) \in Nat
      BY <2>2, BacklogSizes, FS_RemoveElement
    <2>4. Passing' \in SUBSET Writer
      BY DEF Passing
    <2>5. Cardinality(Passing') \in Nat /\ Cardinality(Passing') <= W
      BY <2>4, WritePathAssumption, FS_Subset, FS_CardinalityType
    <2>6. Unpersisted' = Unpersisted /\ Unpersisted \in Nat
      BY <1>2, <2>1, <2>2, SameUnpersisted, UnpersistedCounts
    <2>7. /\ W * Cardinality(Resuming') = W * Cardinality(Resuming) - W
          /\ W * Cardinality(Resuming) \in Nat /\ W \in Nat
      BY <2>3, BacklogSizes, Times
    <2>8. MostUnpersisted' = MostUnpersisted /\ MostUnpersisted \in Nat
      BY BacklogSizes, Times, WritePathAssumption DEF MostUnpersisted
    <2>9. Unpersisted + Cardinality(Passing) + W * Cardinality(Resuming)
            <= MostUnpersisted
      BY DEF BacklogInv
    <2>10. Unpersisted' + Cardinality(Passing') + W * Cardinality(Resuming')
             <= MostUnpersisted'
      <3> DEFINE R == W * Cardinality(Resuming)
      <3>1. R \in Nat /\ W * Cardinality(Resuming') = R - W
        BY <2>7
      <3> HIDE DEF R, W
      <3>2. Unpersisted + Cardinality(Passing) + R <= MostUnpersisted
        BY <2>9 DEF R
      <3>3. Unpersisted + Cardinality(Passing') + (R - W) <= MostUnpersisted
        BY <2>5, <2>6, <2>7, <2>8, <3>1, <3>2, BacklogSizes
      <3>4. QED
        BY <2>6, <2>8, <3>1, <3>3
    <2>11. QED
      BY <2>10 DEF BacklogInv
  <1>7. CASE TakeAlone(f) \/ CountDown(f) \/ StayStalled(f)
    <2>1. /\ UNCHANGED <<HighCompactionList, write_stall>>
          /\ pc[f] \in {"own", "build"} <=> pc'[f] \in {"own", "build"}
          /\ pc[f] # "resume" /\ pc'[f] # "resume"
      BY <1>1, <1>7 DEF TakeAlone, CountDown, StayStalled
    <2>2. Flushing' = Flushing /\ Passing' = Passing /\ Resuming' = Resuming
      BY <1>1, <2>1 DEF Flushing, Passing, Resuming
    <2>3. QED
      BY <1>2, <2>1, <2>2, BacklogSame
  <1>8. QED
    BY <1>3, <1>4, <1>5, <1>6, <1>7 DEF FlushStep

(* check_write_stall holds writers back: however the threads interleave,   *)
(* at most MAX_MEMTABLE_NUM memtables, one more for each writer and one    *)
(* more for each writer and flusher wait to be persisted.                  *)
THEOREM BacklogBounded == Spec => []Backpressure
  <1>1. Init => BacklogInv
    <2> SUFFICES ASSUME Init PROVE BacklogInv
      OBVIOUS
    <2>1. /\ Handing = {} /\ Flushing = {} /\ Resuming = {}
          /\ Len(HighCompactionList) = 0
      BY DEF Init, Handing, Flushing, Resuming, Thread
    <2>2. Unpersisted = 1 /\ Cardinality(Resuming) = 0
      BY <2>1, FS_EmptySet DEF Unpersisted
    <2>3. /\ MostUnpersisted
               = MAX_MEMTABLE_NUM + (Cardinality(Writer)
                                       + Cardinality(Writer) * Cardinality(Flusher))
          /\ Cardinality(Writer) * Cardinality(Flusher) \in Nat
          /\ Cardinality(Writer) * 0 = 0
      BY BacklogSizes, Times DEF MostUnpersisted
    <2>4. QED
      BY <2>2, <2>3, BacklogSizes, WritePathAssumption DEF BacklogInv
  <1>2. Typed /\ Typed' /\ CountExact /\ CountExact' /\ BacklogInv /\ [Next]_vars
          => BacklogInv'
    <2>1. Typed /\ Typed' /\ BacklogInv /\ UNCHANGED vars => BacklogInv'
      BY BacklogSame DEF vars, stallVars, Handing, Flushing, Passing, Resuming
    <2>2. QED
      BY <2>1, PutBacklog, FlushBacklog DEF Next
  <1>3. Typed /\ BacklogInv => Backpressure
    <2> SUFFICES ASSUME Typed, BacklogInv PROVE Backpressure
      OBVIOUS
    <2>1. Cardinality(Replaced) \in Nat /\ Cardinality(Replaced) <= Cardinality(Handing)
      <3> DEFINE g == [w \in Handing |-> target[w]]
      <3>1. Replaced = {g[w] : w \in Handing} /\ DOMAIN g = Handing
        BY DEF Replaced, Handing
      <3> HIDE DEF g
      <3>2. QED
        BY <3>1, BacklogSizes, ImageSize
    <2>2. /\ Cardinality(Persisting) \in Nat
          /\ Cardinality(Persisting) <= Cardinality(Flushing)
      <3> DEFINE g == [f \in Flushing |-> target[f]]
      <3>1. Persisting = {g[f] : f \in Flushing} /\ DOMAIN g = Flushing
        BY DEF Persisting, Flushing
      <3> HIDE DEF g
      <3>2. QED
        BY <3>1, BacklogSizes, ImageSize
    <2>3. Unpersisted <= MostUnpersisted
      BY BacklogAtMost
    <2>4. MostUnpersisted \in Nat /\ Len(HighCompactionList) \in Nat
      BY BacklogSizes, Times, WritePathAssumption DEF MostUnpersisted, Typed, TypeOK
    <2>5. QED
      BY <2>1, <2>2, <2>3, <2>4, BacklogSizes
         DEF Backpressure, Unpersisted, MostUnpersisted
  <1>4. QED
    BY InitTyped, NextTyped, CountCorrect, <1>1, <1>2, <1>3, PTL DEF Spec
=============================================================================
