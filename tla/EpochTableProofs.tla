-------------------------- MODULE EpochTableProofs --------------------------
(* Proofs about EpochTable, for every number of threads and every bound.   *)
EXTENDS EpochTable, FiniteSetTheorems, TLAPS

(* A transaction has an epoch from FetchEpoch to its end.                  *)
Begun(t) == pc[t] = "insert" \/ Registered(t)

UniqueEpochs ==
    /\ \A t \in Thread : Begun(t) => val[t] < epoch_id
    /\ \A t, u \in Thread : Begun(t) /\ Begun(u) /\ t # u => val[t] # val[u]

(* The epoch an inserting thread expects is one it saw in the slot before: *)
(* it stands nowhere else and nobody is about to write it.                 *)
ProbeBehind ==
    \A t \in Thread : pc[t] = "insert" /\ x[t] # MAXTIME =>
        /\ x[t] < epoch_id
        /\ \A u \in Thread : pc[u] = "insert" => val[u] # x[t]
        /\ \A q \in Slot : list[q] = x[t] => NextSlot(q) = ptr[t]

(* What the scan must not miss still stands in its slot, and is counted    *)
(* once the cursor has passed that slot.                                   *)
ScanCovers ==
    \A t \in Thread :
        /\ pc[t] \in Scanning => \A e \in stable[t] :
              \E s \in Slot : list[s] = e /\ (s < i[t] => ans[t] <= e)
        /\ pc[t] = "counter" => stable[t] = {}

SlotInv == TypeOK /\ OwnSlot /\ UniqueEpochs /\ ProbeBehind
IInv == SlotInv /\ ScanCovers /\ ScanMissesNothing

-----------------------------------------------------------------------------
LEMMA SizeFact == Size \in Nat /\ Size >= 4
  BY TableAssumption DEF Size

LEMMA ModSlot == \A n \in Nat : n % Size \in Slot
  BY SizeFact DEF Slot

LEMMA NextSlotFact ==
  \A p \in Slot : NextSlot(p) \in Slot /\ NextSlot(p) # p
  BY SizeFact DEF Slot, NextSlot

LEMMA InitInv == Init => IInv
  <1> SUFFICES ASSUME Init PROVE IInv
    OBVIOUS
  <1> USE DEF Init
  <1>1. TypeOK
    BY SizeFact, TableAssumption DEF TypeOK, Slot, Control, Epoch, Time
  <1>2. OwnSlot /\ UniqueEpochs /\ ProbeBehind
    BY DEF OwnSlot, UniqueEpochs, ProbeBehind, Begun, Registered
  <1>3. ScanCovers /\ ScanMissesNothing
    BY DEF ScanCovers, ScanMissesNothing, Scanning
  <1>4. QED
    BY <1>1, <1>2, <1>3 DEF IInv, SlotInv

-----------------------------------------------------------------------------
LEMMA TypeStep == TypeOK /\ [Next]_vars => TypeOK'
  <1> SUFFICES ASSUME TypeOK, [Next]_vars PROVE TypeOK'
    OBVIOUS
  <1> USE TableAssumption, SizeFact DEF TypeOK, Control, Epoch, Time
  <1>1. ASSUME NEW t \in Thread, FetchEpoch(t) PROVE TypeOK'
    <2>0. epoch_id \in Nat
      OBVIOUS
    <2>1. epoch_id % Size \in Slot
      BY <2>0, ModSlot
    <2>2. QED
      BY <1>1, <2>1 DEF FetchEpoch
  <1>2. ASSUME NEW t \in Thread, ClaimSlot(t) PROVE TypeOK'
    <2>1. list' \in [Slot -> Epoch \cup {MAXTIME}]
      BY <1>2 DEF ClaimSlot
    <2>2. Entries(list') \in SUBSET Epoch
      BY <2>1 DEF Entries
    <2>3. /\ i' \in [Thread -> 0 .. Size]
          /\ ans' \in [Thread -> Epoch \cup {MAXTIME}]
          /\ stable' \in [Thread -> SUBSET Epoch]
      <3>1. BeginScan(t, list')
        BY <1>2 DEF ClaimSlot
      <3>2. PICK E \in SUBSET Epoch : E = Entries(list')
        BY <2>2
      <3>3. QED
        BY <3>1, <3>2 DEF BeginScan
    <2>4. /\ pc' \in [Thread -> Control]
          /\ UNCHANGED <<epoch_id, val, ptr, x, read>>
      BY <1>2 DEF ClaimSlot
    <2>5. QED
      BY <2>1, <2>3, <2>4
  <1>3. ASSUME NEW t \in Thread, ProbeNext(t) PROVE TypeOK'
    BY <1>3, NextSlotFact DEF ProbeNext
  <1>4. ASSUME NEW t \in Thread, ReadSlot(t) PROVE TypeOK'
    <2>1. list[i[t]] \in Epoch \cup {MAXTIME}
      BY <1>4 DEF ReadSlot, Slot
    <2>2. LesserOf(ans[t], list[i[t]]) \in Epoch \cup {MAXTIME}
      BY <2>1 DEF LesserOf
    <2>3. QED
      BY <1>4, <2>2 DEF ReadSlot
  <1>5. ASSUME NEW t \in Thread, BeginWrite(t) PROVE TypeOK'
    BY <1>5 DEF BeginWrite
  <1>6. ASSUME NEW t \in Thread, BeginReadTime(t) \/ FoundEntry(t)
        PROVE TypeOK'
    <2>1. Entries(list) \in SUBSET Epoch
      BY DEF Entries
    <2>2. QED
      BY <1>6, <2>1 DEF BeginReadTime, FoundEntry, BeginScan
  <1>7. ASSUME NEW t \in Thread, FoundEmpty(t) PROVE TypeOK'
    BY <1>7 DEF FoundEmpty
  <1>8. ASSUME NEW t \in Thread, ReadCounter(t) \/ ReadMinimum(t)
        PROVE TypeOK'
    BY <1>8 DEF ReadCounter, ReadMinimum
  <1>9. ASSUME NEW t \in Thread, EndWrite(t) \/ EndRead(t) PROVE TypeOK'
    <2>1. 0 \in Slot
      BY DEF Slot
    <2>2. stable' \in [Thread -> SUBSET Epoch] /\ list' \in [Slot -> Epoch \cup {MAXTIME}]
      <3>1. CASE EndWrite(t)
        BY <3>1 DEF EndWrite
      <3>2. CASE EndRead(t)
        BY <3>2 DEF EndRead
      <3>3. QED
        BY <1>9, <3>1, <3>2
    <2>3. Forget(t)
      BY <1>9 DEF EndWrite, EndRead
    <2>4. 0 \in 0 .. Size
      BY TableAssumption DEF Size
    <2>5. QED
      BY <2>1, <2>2, <2>3, <2>4 DEF Forget
  <1>10. CASE UNCHANGED vars
    BY <1>10 DEF vars
  <1>11. QED
    BY <1>1, <1>2, <1>3, <1>4, <1>5, <1>6, <1>7, <1>8, <1>9, <1>10
    DEF Next, ThreadStep

(* The type invariant: every local and every slot stays in its range.      *)
THEOREM TypeCorrect == Spec => []TypeOK
  <1>1. Init => TypeOK
    BY InitInv DEF IInv, SlotInv
  <1>2. QED
    BY <1>1, TypeStep, PTL DEF Spec

-----------------------------------------------------------------------------
(* The steps that leave the slots, and whoever uses them, alone.           *)
SlotsSame ==
    /\ UNCHANGED <<epoch_id, list>>
    /\ \A u \in Thread :
          /\ pc'[u] = "insert" <=> pc[u] = "insert"
          /\ Registered(u)' <=> Registered(u)
          /\ Begun(u) => val'[u] = val[u] /\ ptr'[u] = ptr[u] /\ x'[u] = x[u]

Quiet(t) == \/ ReadSlot(t) \/ BeginWrite(t) \/ BeginReadTime(t)
            \/ FoundEmpty(t) \/ FoundEntry(t) \/ ReadCounter(t)
            \/ ReadMinimum(t) \/ EndRead(t)

LEMMA QuietSame ==
  ASSUME TypeOK, NEW t \in Thread, Quiet(t)
  PROVE  SlotsSame
  <1> USE DEF TypeOK, SlotsSame, Registered, Begun
  <1>1. CASE ReadSlot(t)
    BY <1>1 DEF ReadSlot
  <1>2. CASE BeginWrite(t)
    BY <1>2 DEF BeginWrite
  <1>3. CASE BeginReadTime(t)
    BY <1>3 DEF BeginReadTime
  <1>4. CASE FoundEmpty(t) \/ FoundEntry(t)
    BY <1>4 DEF FoundEmpty, FoundEntry
  <1>5. CASE ReadCounter(t) \/ ReadMinimum(t)
    BY <1>5 DEF ReadCounter, ReadMinimum
  <1>6. CASE EndRead(t)
    BY <1>6 DEF EndRead, Forget
  <1>7. QED
    BY <1>1, <1>2, <1>3, <1>4, <1>5, <1>6 DEF Quiet

(* The heart of the matter: the slot insert claims is free.  If it held    *)
(* the epoch x expects, that epoch would stand in the slot before as well. *)
LEMMA ClaimsFree ==
  ASSUME SlotInv, NEW t \in Thread, ClaimSlot(t)
  PROVE  list[ptr[t]] = MAXTIME /\ x[t] = MAXTIME
  <1>1. ptr[t] \in Slot /\ list[ptr[t]] = x[t] /\ pc[t] = "insert"
    BY DEF SlotInv, TypeOK, ClaimSlot
  <1>2. ASSUME x[t] # MAXTIME PROVE FALSE
    <2>1. NextSlot(ptr[t]) = ptr[t]
      BY <1>1, <1>2 DEF SlotInv, ProbeBehind
    <2>2. QED
      BY <1>1, <2>1, NextSlotFact
  <1>3. QED
    BY <1>1, <1>2

(* An epoch stands in one slot.                                            *)
LEMMA OneSlot ==
  ASSUME SlotInv, NEW p \in Slot, NEW q \in Slot,
         list[p] = list[q], list[p] # MAXTIME
  PROVE  p = q
  <1>1. PICK t \in Thread : Registered(t) /\ ptr[t] = p /\ val[t] = list[p]
    BY DEF SlotInv, OwnSlot
  <1>2. PICK u \in Thread : Registered(u) /\ ptr[u] = q /\ val[u] = list[q]
    BY DEF SlotInv, OwnSlot
  <1>3. t = u
    BY <1>1, <1>2 DEF SlotInv, UniqueEpochs, Begun
  <1>4. QED
    BY <1>1, <1>2, <1>3

(* What a step that leaves the slots alone preserves.                      *)
LEMMA SameInv ==
  ASSUME SlotInv, SlotsSame
  PROVE  OwnSlot' /\ UniqueEpochs' /\ ProbeBehind'
  <1> USE DEF SlotsSame, SlotInv
  <1>1. OwnSlot'
    BY DEF OwnSlot, Begun
  <1>2. UniqueEpochs'
    BY DEF UniqueEpochs, Begun
  <1>3. ProbeBehind'
    BY DEF ProbeBehind, Begun
  <1>4. QED
    BY <1>1, <1>2, <1>3

LEMMA FetchStep ==
  ASSUME SlotInv, NEW t \in Thread, FetchEpoch(t)
  PROVE  OwnSlot' /\ UniqueEpochs' /\ ProbeBehind'
  <1>0. /\ epoch_id \in 1 .. MAXTIME - 1 /\ epoch_id' = epoch_id + 1
        /\ pc[t] = "idle" /\ list' = list
        /\ \A u \in Thread : val[u] \in Epoch \cup {MAXTIME}
        /\ \A u \in Thread : x[u] \in Epoch \cup {MAXTIME}
        /\ \A s \in Slot : list[s] \in Epoch \cup {MAXTIME}
        /\ MAXTIME \in Nat
    BY TableAssumption DEF FetchEpoch, SlotInv, TypeOK
  <1>1. /\ pc'[t] = "insert" /\ val'[t] = epoch_id /\ x'[t] = MAXTIME
        /\ \A u \in Thread \ {t} : /\ pc'[u] = pc[u] /\ val'[u] = val[u]
                                  /\ ptr'[u] = ptr[u] /\ x'[u] = x[u]
    BY DEF FetchEpoch, SlotInv, TypeOK
  <1>2. OwnSlot'
    BY <1>0, <1>1 DEF OwnSlot, Registered, SlotInv
  <1>3. UniqueEpochs'
    <2>1. ASSUME NEW u \in Thread, Begun(u)', u # t
          PROVE  Begun(u) /\ val'[u] = val[u]
      BY <1>1, <2>1 DEF Begun, Registered
    <2>2. \A u \in Thread : Begun(u) => val[u] < epoch_id
      BY DEF SlotInv, UniqueEpochs
    <2>3. QED
      BY <1>0, <1>1, <2>1, <2>2 DEF SlotInv, UniqueEpochs, Epoch
  <1>4. ProbeBehind'
    <2> SUFFICES ASSUME NEW u \in Thread, pc'[u] = "insert", x'[u] # MAXTIME
                 PROVE /\ x'[u] < epoch_id'
                       /\ \A w \in Thread : pc'[w] = "insert" => val'[w] # x'[u]
                       /\ \A q \in Slot :
                             list'[q] = x'[u] => NextSlot(q) = ptr'[u]
      BY DEF ProbeBehind, NextSlot
    <2>1. u # t /\ x[u] < epoch_id
      BY <1>1 DEF SlotInv, ProbeBehind
    <2>2. QED
      BY <1>0, <1>1, <2>1 DEF SlotInv, ProbeBehind, Epoch
  <1>5. QED
    BY <1>2, <1>3, <1>4

LEMMA ClaimStep ==
  ASSUME SlotInv, NEW t \in Thread, ClaimSlot(t)
  PROVE  OwnSlot' /\ UniqueEpochs' /\ ProbeBehind'
  <1>0. /\ pc[t] = "insert" /\ ptr[t] \in Slot /\ val[t] < epoch_id
        /\ list[ptr[t]] = MAXTIME /\ val[t] # MAXTIME
        /\ UNCHANGED <<epoch_id, val, ptr, x>>
    <2>1. list[ptr[t]] = MAXTIME
      BY ClaimsFree
    <2>2. pc[t] = "insert" /\ UNCHANGED <<epoch_id, val, ptr, x>>
      BY DEF ClaimSlot
    <2>3. val[t] < epoch_id
      BY <2>2 DEF SlotInv, UniqueEpochs, Begun
    <2>4. ptr[t] \in Slot /\ val[t] # MAXTIME
      BY <2>3, TableAssumption DEF SlotInv, TypeOK
    <2>5. QED
      BY <2>1, <2>2, <2>3, <2>4
  <1>1. /\ list'[ptr[t]] = val[t] /\ pc'[t] = "scan"
        /\ \A s \in Slot \ {ptr[t]} : list'[s] = list[s]
        /\ \A u \in Thread \ {t} : pc'[u] = pc[u]
    BY <1>0 DEF ClaimSlot, SlotInv, TypeOK
  <1>2. OwnSlot'
    <2>1. ASSUME NEW u \in Thread, Registered(u)'
          PROVE  list'[ptr'[u]] = val'[u]
      <3>1. CASE u = t
        BY <1>0, <1>1, <3>1
      <3>2. CASE u # t
        <4>1. Registered(u) /\ list[ptr[u]] = val[u] /\ val[u] < epoch_id
          BY <1>1, <2>1, <3>2
          DEF Registered, SlotInv, OwnSlot, UniqueEpochs, Begun
        <4>2. ptr[u] \in Slot /\ ptr[u] # ptr[t]
          BY <1>0, <4>1, TableAssumption DEF SlotInv, TypeOK
        <4>3. QED
          BY <1>0, <1>1, <4>1, <4>2
      <3>3. QED
        BY <3>1, <3>2
    <2>2. ASSUME NEW s \in Slot, list'[s] # MAXTIME
          PROVE  \E u \in Thread :
                   Registered(u)' /\ ptr'[u] = s /\ val'[u] = list'[s]
      <3>1. CASE s = ptr[t]
        BY <1>0, <1>1, <3>1 DEF Registered
      <3>2. CASE s # ptr[t]
        <4>1. PICK u \in Thread :
                Registered(u) /\ ptr[u] = s /\ val[u] = list[s]
          BY <1>1, <2>2, <3>2 DEF SlotInv, OwnSlot
        <4>2. QED
          BY <1>0, <1>1, <3>2, <4>1 DEF Registered
      <3>3. QED
        BY <3>1, <3>2
    <2>3. QED
      BY <2>1, <2>2 DEF OwnSlot, Registered
  <1>3. UniqueEpochs'
    BY <1>0, <1>1 DEF UniqueEpochs, Begun, Registered, SlotInv
  <1>4. ProbeBehind'
    <2> SUFFICES ASSUME NEW u \in Thread, pc'[u] = "insert", x'[u] # MAXTIME
                 PROVE /\ x'[u] < epoch_id'
                       /\ \A w \in Thread : pc'[w] = "insert" => val'[w] # x'[u]
                       /\ \A q \in Slot :
                             list'[q] = x'[u] => NextSlot(q) = ptr'[u]
      BY DEF ProbeBehind, NextSlot
    <2>1. pc[u] = "insert" /\ u # t
      BY <1>1
    <2>2. x[u] # val[t]
      BY <1>0, <2>1 DEF SlotInv, ProbeBehind
    <2>3. QED
      BY <1>0, <1>1, <2>1, <2>2 DEF SlotInv, ProbeBehind
  <1>5. QED
    BY <1>2, <1>3, <1>4

LEMMA ProbeStep ==
  ASSUME SlotInv, NEW t \in Thread, ProbeNext(t)
  PROVE  OwnSlot' /\ UniqueEpochs' /\ ProbeBehind'
  <1>0. /\ pc[t] = "insert" /\ ptr[t] \in Slot
        /\ UNCHANGED <<epoch_id, list, pc, val>>
        /\ x'[t] = list[ptr[t]] /\ ptr'[t] = NextSlot(ptr[t])
        /\ \A u \in Thread \ {t} : x'[u] = x[u] /\ ptr'[u] = ptr[u]
    BY DEF ProbeNext, SlotInv, TypeOK
  <1>1. OwnSlot'
    BY <1>0 DEF OwnSlot, Registered, SlotInv
  <1>2. UniqueEpochs'
    BY <1>0 DEF UniqueEpochs, Begun, Registered, SlotInv
  <1>3. ProbeBehind'
    <2> SUFFICES ASSUME NEW u \in Thread, pc'[u] = "insert", x'[u] # MAXTIME
                 PROVE /\ x'[u] < epoch_id'
                       /\ \A w \in Thread : pc'[w] = "insert" => val'[w] # x'[u]
                       /\ \A q \in Slot :
                             list'[q] = x'[u] => NextSlot(q) = ptr'[u]
      BY DEF ProbeBehind, NextSlot
    <2>1. CASE u # t
      BY <1>0, <2>1 DEF SlotInv, ProbeBehind
    <2>2. CASE u = t
      <3>1. PICK o \in Thread : Registered(o) /\ val[o] = list[ptr[t]]
        BY <1>0, <2>2 DEF SlotInv, OwnSlot
      <3>2. x'[t] < epoch_id
        BY <1>0, <3>1 DEF SlotInv, UniqueEpochs, Begun
      <3>3. \A w \in Thread : pc[w] = "insert" => val[w] # x'[t]
        BY <1>0, <3>1 DEF SlotInv, UniqueEpochs, Begun, Registered
      <3>4. \A q \in Slot : list[q] = x'[t] => q = ptr[t]
        BY <1>0, <2>2, OneSlot
      <3>5. QED
        BY <1>0, <2>2, <3>2, <3>3, <3>4
    <2>3. QED
      BY <2>1, <2>2
  <1>4. QED
    BY <1>1, <1>2, <1>3

LEMMA EndStep ==
  ASSUME SlotInv, NEW t \in Thread, EndWrite(t)
  PROVE  OwnSlot' /\ UniqueEpochs' /\ ProbeBehind'
  <1>0. /\ pc[t] = "writing" /\ ptr[t] \in Slot /\ pc'[t] = "idle"
        /\ UNCHANGED epoch_id /\ list'[ptr[t]] = MAXTIME
        /\ \A s \in Slot \ {ptr[t]} : list'[s] = list[s]
        /\ \A u \in Thread \ {t} : /\ pc'[u] = pc[u] /\ val'[u] = val[u]
                                  /\ ptr'[u] = ptr[u] /\ x'[u] = x[u]
    BY DEF EndWrite, Forget, SlotInv, TypeOK
  <1>1. OwnSlot'
    <2>1. ASSUME NEW u \in Thread, Registered(u)'
          PROVE  list'[ptr'[u]] = val'[u]
      <3>1. u # t /\ Registered(u) /\ Registered(t)
        BY <1>0, <2>1 DEF Registered
      <3>2. ptr[u] \in Slot /\ list[ptr[u]] = val[u] /\ list[ptr[t]] = val[t]
        BY <3>1 DEF SlotInv, OwnSlot, TypeOK
      <3>3. ptr[u] # ptr[t]
        BY <3>1, <3>2 DEF SlotInv, UniqueEpochs, Begun
      <3>4. QED
        BY <1>0, <3>1, <3>2, <3>3
    <2>2. ASSUME NEW s \in Slot, list'[s] # MAXTIME
          PROVE  \E u \in Thread :
                   Registered(u)' /\ ptr'[u] = s /\ val'[u] = list'[s]
      <3>1. s # ptr[t] /\ list'[s] = list[s]
        BY <1>0, <2>2
      <3>2. PICK u \in Thread :
              Registered(u) /\ ptr[u] = s /\ val[u] = list[s]
        BY <2>2, <3>1 DEF SlotInv, OwnSlot
      <3>3. QED
        BY <1>0, <3>1, <3>2 DEF Registered
    <2>3. QED
      BY <2>1, <2>2 DEF OwnSlot, Registered
  <1>2. UniqueEpochs'
    BY <1>0 DEF UniqueEpochs, Begun, Registered, SlotInv
  <1>3. ProbeBehind'
    BY <1>0 DEF ProbeBehind, NextSlot, SlotInv
  <1>4. QED
    BY <1>1, <1>2, <1>3

LEMMA SlotStep == SlotInv /\ [Next]_vars => SlotInv'
  <1> SUFFICES ASSUME SlotInv, [Next]_vars PROVE SlotInv'
    OBVIOUS
  <1>1. TypeOK'
    BY TypeStep DEF SlotInv
  <1>2. OwnSlot' /\ UniqueEpochs' /\ ProbeBehind'
    <2>1. ASSUME NEW t \in Thread, Quiet(t)
          PROVE  OwnSlot' /\ UniqueEpochs' /\ ProbeBehind'
      BY <2>1, QuietSame, SameInv DEF SlotInv
    <2>2. CASE UNCHANGED vars
      <3>1. SlotsSame
        BY <2>2 DEF vars, SlotsSame, Registered
      <3>2. QED
        BY <3>1, SameInv
    <2>3. QED
      BY <2>1, <2>2, FetchStep, ClaimStep, ProbeStep, EndStep
      DEF Next, ThreadStep, Quiet
  <1>3. QED
    BY <1>1, <1>2 DEF SlotInv

(* An entry of the table is its transaction's and is never overwritten.    *)
THEOREM Ownership == Spec => []OwnSlot
  <1>1. Init => SlotInv
    BY InitInv DEF IInv
  <1>2. SlotInv => OwnSlot
    BY DEF SlotInv
  <1>3. QED
    BY <1>1, <1>2, SlotStep, PTL DEF Spec

-----------------------------------------------------------------------------
ScanInv == ScanCovers /\ ScanMissesNothing

(* A thread's part of ScanInv.                                             *)
Covers(t) ==
    /\ pc[t] \in Scanning => \A e \in stable[t] :
          \E s \in Slot : list[s] = e /\ (s < i[t] => ans[t] <= e)
    /\ pc[t] = "counter" => stable[t] = {}
    /\ pc[t] \in {"writing", "reading"} => \A e \in stable[t] : read[t] < e

LEMMA CoversAll == ScanInv <=> \A t \in Thread : Covers(t)
  BY DEF ScanInv, ScanCovers, ScanMissesNothing, Covers

(* A finished scan found no more than any epoch it had to see.             *)
LEMMA FinishedScan ==
  ASSUME TypeOK, NEW t \in Thread, Covers(t), pc[t] \in Scanning, i[t] = Size
  PROVE  \A e \in stable[t] : ans[t] <= e /\ e < MAXTIME
  BY SizeFact, TableAssumption DEF Covers, TypeOK, Slot, Epoch

(* A thread keeps its part when its locals stay and the slots keep what it *)
(* has to see.                                                             *)
LEMMA KeepsCover ==
  ASSUME NEW u \in Thread, Covers(u),
         pc'[u] = pc[u] \/ pc'[u] \in {"idle", "insert"},
         i'[u] = i[u], ans'[u] = ans[u], read'[u] = read[u],
         stable'[u] \subseteq stable[u],
         \A s \in Slot : list[s] \in stable'[u] => list'[s] = list[s]
  PROVE  Covers(u)'
  BY DEF Covers, Scanning

(* A scan that has just begun has seen nothing yet.                        *)
LEMMA NewScan ==
  ASSUME TypeOK, NEW t \in Thread, BeginScan(t, list'), pc'[t] \in Scanning
  PROVE  Covers(t)'
  <1>1. i'[t] = 0 /\ stable'[t] = Entries(list')
    BY DEF BeginScan, TypeOK
  <1>2. \A e \in Entries(list') : \E s \in Slot : list'[s] = e
    BY DEF Entries
  <1>3. \A s \in Slot : ~(s < 0)
    BY SizeFact DEF Slot
  <1>4. QED
    BY <1>1, <1>2, <1>3 DEF Covers, Scanning, Slot

LEMMA ScanStep == SlotInv /\ ScanInv /\ [Next]_vars => ScanInv'
  <1> SUFFICES ASSUME SlotInv, ScanInv, [Next]_vars,
                      NEW u \in Thread
               PROVE Covers(u)'
    BY CoversAll DEF ScanInv, ScanCovers, ScanMissesNothing, Covers
  <1>0. TypeOK /\ Covers(u)
    BY CoversAll DEF SlotInv
  <1>1. ASSUME NEW t \in Thread, FetchEpoch(t) PROVE Covers(u)'
    BY <1>0, <1>1, KeepsCover DEF FetchEpoch, TypeOK
  <1>2. ASSUME NEW t \in Thread, ClaimSlot(t) PROVE Covers(u)'
    <2>1. CASE u = t
      BY <1>0, <1>2, <2>1, NewScan DEF ClaimSlot, Scanning, TypeOK
    <2>2. CASE u # t
      <3>1. /\ pc'[u] = pc[u] /\ read'[u] = read[u]
            /\ \A s \in Slot \ {ptr[t]} : list'[s] = list[s]
            /\ BeginScan(t, list')
        BY <1>0, <1>2, <2>2 DEF ClaimSlot, TypeOK
      <3>2. i'[u] = i[u] /\ ans'[u] = ans[u] /\ stable'[u] = stable[u]
        BY <1>0, <2>2, <3>1 DEF BeginScan, TypeOK
      <3>3. list[ptr[t]] = MAXTIME
        BY <1>2, ClaimsFree
      <3>4. MAXTIME \notin stable[u]
        BY <1>0, TableAssumption DEF TypeOK, Epoch
      <3>5. QED
        BY <1>0, <3>1, <3>2, <3>3, <3>4, KeepsCover
    <2>3. QED
      BY <2>1, <2>2
  <1>3. ASSUME NEW t \in Thread, ProbeNext(t) PROVE Covers(u)'
    BY <1>0, <1>3, KeepsCover DEF ProbeNext
  <1>4. ASSUME NEW t \in Thread, ReadSlot(t) PROVE Covers(u)'
    <2>1. CASE u = t
      <3>1. /\ i[t] \in Slot /\ i'[t] = i[t] + 1
            /\ ans'[t] = LesserOf(ans[t], list[i[t]])
            /\ UNCHANGED <<list, pc, stable>> /\ pc[t] \in Scanning
        <4>1. i[t] \in 0 .. Size /\ i[t] < Size
          BY <1>0, <1>4 DEF ReadSlot, TypeOK
        <4>2. i[t] \in Slot
          BY <4>1, SizeFact DEF Slot
        <4>3. QED
          BY <1>0, <1>4, <4>2 DEF ReadSlot, TypeOK
      <3>2. ans[t] \in Nat /\ list[i[t]] \in Nat
        BY <1>0, <3>1, TableAssumption DEF TypeOK, Epoch
      <3>3. ans'[t] <= ans[t] /\ ans'[t] <= list[i[t]] /\ ans'[t] \in Nat
        BY <3>1, <3>2 DEF LesserOf
      <3>4. ASSUME NEW e \in stable'[t]
            PROVE  \E s \in Slot : list'[s] = e /\ (s < i'[t] => ans'[t] <= e)
        <4>1. PICK s \in Slot : list[s] = e /\ (s < i[t] => ans[t] <= e)
          BY <1>0, <2>1, <3>1, <3>4 DEF Covers
        <4>2. e \in Nat
          BY <1>0, <3>1, <3>4, TableAssumption DEF TypeOK, Epoch
        <4>3. s < i'[t] => ans'[t] <= e
          BY <3>1, <3>2, <3>3, <4>1, <4>2, SizeFact DEF Slot
        <4>4. QED
          BY <3>1, <4>1, <4>3
      <3>5. QED
        BY <2>1, <3>1, <3>4 DEF Covers, Scanning
    <2>2. CASE u # t
      BY <1>0, <1>4, <2>2, KeepsCover DEF ReadSlot, TypeOK
    <2>3. QED
      BY <2>1, <2>2
  <1>5. ASSUME NEW t \in Thread, BeginWrite(t) \/ ReadMinimum(t)
        PROVE  Covers(u)'
    <2>1. CASE u = t
      <3>1. /\ i[t] = Size /\ pc[t] \in Scanning /\ stable' = stable
            /\ read'[t] = ans[t] - 1 /\ pc'[t] \in {"writing", "reading"}
        BY <1>0, <1>5 DEF BeginWrite, ReadMinimum, Scanning, TypeOK
      <3>2. \A e \in stable[t] : ans[t] <= e
        <4>1. TypeOK /\ Covers(t)
          BY <1>0, <2>1
        <4>2. QED
          BY <3>1, <4>1, FinishedScan
      <3>3. ans[t] \in Nat /\ \A e \in stable[t] : e \in Nat
        BY <1>0, TableAssumption DEF TypeOK, Epoch
      <3>4. QED
        BY <2>1, <3>1, <3>2, <3>3 DEF Covers, Scanning
    <2>2. CASE u # t
      BY <1>0, <1>5, <2>2, KeepsCover DEF BeginWrite, ReadMinimum, TypeOK
    <2>3. QED
      BY <2>1, <2>2
  <1>6. ASSUME NEW t \in Thread, BeginReadTime(t) \/ FoundEntry(t)
        PROVE  Covers(u)'
    <2>0. BeginScan(t, list') /\ UNCHANGED <<list, read>>
      BY <1>6 DEF BeginReadTime, FoundEntry
    <2>1. CASE u = t
      BY <1>0, <1>6, <2>0, <2>1, NewScan
      DEF BeginReadTime, FoundEntry, Scanning, TypeOK
    <2>2. CASE u # t
      <3>1. i'[u] = i[u] /\ ans'[u] = ans[u] /\ stable'[u] = stable[u]
        BY <1>0, <2>0, <2>2 DEF BeginScan, TypeOK
      <3>2. pc'[u] = pc[u]
        BY <1>0, <1>6, <2>2 DEF BeginReadTime, FoundEntry, TypeOK
      <3>3. QED
        BY <1>0, <2>0, <3>1, <3>2, KeepsCover
    <2>3. QED
      BY <2>1, <2>2
  <1>7. ASSUME NEW t \in Thread, FoundEmpty(t) PROVE Covers(u)'
    <2>1. CASE u = t
      <3>1. /\ i[t] = Size /\ pc[t] \in Scanning /\ ans[t] = MAXTIME
            /\ stable' = stable /\ pc'[t] = "counter"
        BY <1>0, <1>7 DEF FoundEmpty, Scanning, TypeOK
      <3>2. \A e \in stable[t] : MAXTIME <= e /\ e < MAXTIME
        <4>1. TypeOK /\ Covers(t)
          BY <1>0, <2>1
        <4>2. QED
          BY <3>1, <4>1, FinishedScan
      <3>3. \A e \in stable[t] : e \in Nat
        BY <1>0 DEF TypeOK, Epoch
      <3>4. stable[t] = {}
        BY <3>2, <3>3, TableAssumption
      <3>5. QED
        BY <2>1, <3>1, <3>4 DEF Covers, Scanning
    <2>2. CASE u # t
      BY <1>0, <1>7, <2>2, KeepsCover DEF FoundEmpty, TypeOK
    <2>3. QED
      BY <2>1, <2>2
  <1>8. ASSUME NEW t \in Thread, ReadCounter(t) PROVE Covers(u)'
    <2>1. CASE u = t
      BY <1>0, <1>8, <2>1 DEF ReadCounter, Covers, Scanning, TypeOK
    <2>2. CASE u # t
      BY <1>0, <1>8, <2>2, KeepsCover DEF ReadCounter, TypeOK
    <2>3. QED
      BY <2>1, <2>2
  <1>9. ASSUME NEW t \in Thread, EndWrite(t) \/ EndRead(t)
        PROVE  Covers(u)'
    <2>1. CASE u = t
      BY <1>0, <1>9, <2>1
      DEF EndWrite, EndRead, Forget, Covers, Scanning, TypeOK
    <2>2. CASE u # t
      <3>1. /\ pc'[u] = pc[u] /\ i'[u] = i[u] /\ ans'[u] = ans[u]
            /\ read'[u] = read[u]
        BY <1>0, <1>9, <2>2 DEF EndWrite, EndRead, Forget, TypeOK
      <3>2. CASE EndWrite(t)
        <4>1. /\ stable'[u] = stable[u] \ {list[ptr[t]]}
              /\ \A s \in Slot \ {ptr[t]} : list'[s] = list[s]
          BY <1>0, <2>2, <3>2 DEF EndWrite, TypeOK
        <4>2. QED
          BY <1>0, <3>1, <4>1, KeepsCover
      <3>3. CASE EndRead(t)
        BY <1>0, <2>2, <3>1, <3>3, KeepsCover DEF EndRead, TypeOK
      <3>4. QED
        BY <1>9, <3>2, <3>3
    <2>3. QED
      BY <2>1, <2>2
  <1>10. CASE UNCHANGED vars
    BY <1>0, <1>10, KeepsCover DEF vars
  <1>11. QED
    BY <1>1, <1>2, <1>3, <1>4, <1>5, <1>6, <1>7, <1>8, <1>9, <1>10
    DEF Next, ThreadStep

(* The scan of the table, for all its interleavings, misses no epoch that  *)
(* was there throughout.                                                   *)
THEOREM ScanIsSafe == Spec => []ScanMissesNothing
  <1>1. Init => SlotInv /\ ScanInv
    BY InitInv DEF IInv, ScanInv
  <1>2. SlotInv /\ ScanInv /\ [Next]_vars => SlotInv' /\ ScanInv'
    BY SlotStep, ScanStep
  <1>3. ScanInv => ScanMissesNothing
    BY DEF ScanInv
  <1>4. QED
    BY <1>1, <1>2, <1>3, PTL DEF Spec

-----------------------------------------------------------------------------
Inserting == {u \in Thread : pc[u] = "insert"}
Pending == {val[t] : t \in Inserting}

LEMMA TakeStep ==
  ASSUME SlotInv, NEW t \in Thread, FetchEpoch(t)
  PROVE  Abstract!Take
  <1>1. /\ epoch_id < MAXTIME /\ epoch_id' = epoch_id + 1 /\ list' = list
        /\ pc[t] = "idle" /\ pc'[t] = "insert" /\ val'[t] = epoch_id
        /\ \A u \in Thread \ {t} : pc'[u] = pc[u] /\ val'[u] = val[u]
    BY DEF FetchEpoch, SlotInv, TypeOK
  <1>2. Pending' = Pending \cup {epoch_id}
    BY <1>1 DEF Pending, Inserting
  <1>3. Listed' = Listed
    BY <1>1 DEF Listed, Entries
  <1>4. QED
    BY <1>1, <1>2, <1>3 DEF Abstract!Take, Pending, Inserting

LEMMA RegisterStep ==
  ASSUME SlotInv, NEW t \in Thread, ClaimSlot(t)
  PROVE  Abstract!Register(val[t]) /\ val[t] \in 1 .. MAXTIME - 1
  <1>1. /\ pc[t] = "insert" /\ pc'[t] = "scan" /\ ptr[t] \in Slot
        /\ UNCHANGED <<epoch_id, val>> /\ list'[ptr[t]] = val[t]
        /\ \A s \in Slot \ {ptr[t]} : list'[s] = list[s]
        /\ \A u \in Thread \ {t} : pc'[u] = pc[u]
    BY DEF ClaimSlot, SlotInv, TypeOK
  <1>2. val[t] < epoch_id
    BY <1>1 DEF SlotInv, UniqueEpochs, Begun
  <1>3. val[t] \in 1 .. MAXTIME - 1 /\ val[t] # MAXTIME
    BY <1>2, TableAssumption DEF SlotInv, TypeOK, Epoch
  <1>4. list[ptr[t]] = MAXTIME
    BY ClaimsFree
  <1>5. \A u \in Thread \ {t} : Begun(u) => val[u] # val[t]
    BY <1>1 DEF SlotInv, UniqueEpochs, Begun
  <1>6. val[t] \in Pending /\ Pending' = Pending \ {val[t]}
    BY <1>1, <1>5 DEF Pending, Inserting, Begun
  <1>7. val[t] \notin Listed
    <2>1. ASSUME NEW s \in Slot, list[s] = val[t] PROVE FALSE
      <3>1. PICK u \in Thread : Registered(u) /\ val[u] = val[t]
        BY <1>3, <2>1 DEF SlotInv, OwnSlot
      <3>2. QED
        BY <1>1, <1>5, <3>1 DEF Begun, Registered
    <2>2. QED
      BY <2>1 DEF Listed, Entries
  <1>8. Listed' = Listed \cup {val[t]}
    <2>1. ASSUME NEW e \in Listed' PROVE e \in Listed \cup {val[t]}
      BY <1>1, <2>1 DEF Listed, Entries
    <2>2. ASSUME NEW e \in Listed PROVE e \in Listed'
      BY <1>1, <1>4, <2>2 DEF Listed, Entries
    <2>3. val[t] \in Listed'
      BY <1>1, <1>3 DEF Listed, Entries
    <2>4. QED
      BY <2>1, <2>2, <2>3
  <1>9. QED
    BY <1>1, <1>3, <1>6, <1>7, <1>8
    DEF Abstract!Register, Pending, Inserting

LEMMA RetireStep ==
  ASSUME SlotInv, NEW t \in Thread, EndWrite(t)
  PROVE  Abstract!Retire(val[t]) /\ val[t] \in 1 .. MAXTIME - 1
  <1>1. /\ pc[t] = "writing" /\ pc'[t] = "idle" /\ ptr[t] \in Slot
        /\ UNCHANGED epoch_id /\ list'[ptr[t]] = MAXTIME
        /\ \A s \in Slot \ {ptr[t]} : list'[s] = list[s]
        /\ \A u \in Thread \ {t} : pc'[u] = pc[u] /\ val'[u] = val[u]
    BY DEF EndWrite, Forget, SlotInv, TypeOK
  <1>2. list[ptr[t]] = val[t] /\ val[t] < epoch_id
    BY <1>1 DEF SlotInv, OwnSlot, UniqueEpochs, Begun, Registered
  <1>3. val[t] \in 1 .. MAXTIME - 1 /\ val[t] # MAXTIME
    BY <1>2, TableAssumption DEF SlotInv, TypeOK, Epoch
  <1>4. Pending' = Pending
    BY <1>1 DEF Pending, Inserting
  <1>5. val[t] \in Listed
    BY <1>1, <1>2, <1>3 DEF Listed, Entries
  <1>6. Listed' = Listed \ {val[t]}
    <2>1. ASSUME NEW e \in Listed' PROVE e \in Listed /\ e # val[t]
      <3>1. PICK s \in Slot : list'[s] = e /\ e # MAXTIME
        BY <2>1 DEF Listed, Entries
      <3>2. s # ptr[t] /\ list[s] = e
        BY <1>1, <3>1
      <3>3. e # val[t]
        BY <1>1, <1>2, <3>1, <3>2, OneSlot
      <3>4. QED
        BY <3>1, <3>2, <3>3 DEF Listed, Entries
    <2>2. ASSUME NEW e \in Listed, e # val[t] PROVE e \in Listed'
      BY <1>1, <1>2, <2>2 DEF Listed, Entries
    <2>3. QED
      BY <2>1, <2>2
  <1>7. QED
    BY <1>1, <1>3, <1>4, <1>5, <1>6 DEF Abstract!Retire, Pending, Inserting

LEMMA StutterStep ==
  ASSUME SlotInv,
         UNCHANGED vars \/ \E t \in Thread : Quiet(t) \/ ProbeNext(t)
  PROVE  UNCHANGED Abstract!vars
  <1>1. /\ UNCHANGED <<epoch_id, list>>
        /\ \A u \in Thread : /\ pc'[u] = "insert" <=> pc[u] = "insert"
                             /\ pc[u] = "insert" => val'[u] = val[u]
    <2>1. CASE UNCHANGED vars
      BY <2>1 DEF vars
    <2>2. ASSUME NEW t \in Thread, Quiet(t)
          PROVE  SlotsSame
      BY <2>2, QuietSame DEF SlotInv
    <2>3. ASSUME NEW t \in Thread, ProbeNext(t)
          PROVE  UNCHANGED <<epoch_id, list, pc, val>>
      BY <2>3 DEF ProbeNext
    <2>4. QED
      BY <2>1, <2>2, <2>3 DEF SlotsSame, Begun
  <1>2. Pending' = Pending
    BY <1>1 DEF Pending, Inserting
  <1>3. Listed' = Listed
    BY <1>1 DEF Listed, Entries
  <1>4. QED
    BY <1>1, <1>2, <1>3 DEF Abstract!vars, Pending, Inserting

(* The table of slots implements the set of active epochs.                 *)
THEOREM Refinement == Spec => ImplementsActiveEpochs
  <1>1. Init => Abstract!Init
    BY DEF Init, Abstract!Init, Listed, Entries
  <1>2. SlotInv /\ [Next]_vars => [Abstract!Next]_(Abstract!vars)
    <2> SUFFICES ASSUME SlotInv, [Next]_vars
                 PROVE  [Abstract!Next]_(Abstract!vars)
      OBVIOUS
    <2>1. ASSUME NEW t \in Thread, FetchEpoch(t) PROVE Abstract!Next
      BY <2>1, TakeStep DEF Abstract!Next
    <2>2. ASSUME NEW t \in Thread, ClaimSlot(t) PROVE Abstract!Next
      <3>1. PICK e \in 1 .. MAXTIME - 1 : e = val[t] /\ Abstract!Register(val[t])
        BY <2>2, RegisterStep
      <3>2. Abstract!Register(e)
        BY <3>1 DEF Abstract!Register
      <3>3. QED
        BY <3>2 DEF Abstract!Next
    <2>3. ASSUME NEW t \in Thread, EndWrite(t) PROVE Abstract!Next
      <3>1. PICK e \in 1 .. MAXTIME - 1 : e = val[t] /\ Abstract!Retire(val[t])
        BY <2>3, RetireStep
      <3>2. Abstract!Retire(e)
        BY <3>1 DEF Abstract!Retire
      <3>3. QED
        BY <3>2 DEF Abstract!Next
    <2>4. CASE UNCHANGED vars \/ \E t \in Thread : Quiet(t) \/ ProbeNext(t)
      BY <2>4, StutterStep
    <2>5. QED
      BY <2>1, <2>2, <2>3, <2>4 DEF Next, ThreadStep, Quiet
  <1>3. Init => SlotInv
    BY InitInv DEF IInv
  <1>4. QED
    BY <1>1, <1>2, <1>3, SlotStep, PTL
    DEF Spec, ImplementsActiveEpochs, Abstract!Spec
-----------------------------------------------------------------------------
(* Only a writer begins: each entry has a writer of its own.               *)
WritersBegin == \A t \in Thread : Begun(t) => t \in Writer

LEMMA WritersStep ==
  SlotInv /\ WritersBegin /\ [Next]_vars => WritersBegin'
  <1> SUFFICES ASSUME SlotInv, WritersBegin, [Next]_vars,
                      NEW u \in Thread, Begun(u)', u \notin Writer
               PROVE  FALSE
    BY DEF WritersBegin, Begun, Registered
  <1>0. ~Begun(u)
    BY DEF WritersBegin
  <1>1. ASSUME NEW t \in Thread, Quiet(t) PROVE FALSE
    BY <1>0, <1>1, QuietSame DEF SlotsSame, SlotInv, Begun
  <1>2. ASSUME NEW t \in Thread, FetchEpoch(t) PROVE FALSE
    BY <1>0, <1>2 DEF FetchEpoch, SlotInv, TypeOK, Begun, Registered
  <1>3. ASSUME NEW t \in Thread, ClaimSlot(t) \/ ProbeNext(t) PROVE FALSE
    BY <1>0, <1>3
    DEF ClaimSlot, ProbeNext, SlotInv, TypeOK, Begun, Registered
  <1>4. ASSUME NEW t \in Thread, EndWrite(t) PROVE FALSE
    BY <1>0, <1>4 DEF EndWrite, Forget, SlotInv, TypeOK, Begun, Registered
  <1>5. CASE UNCHANGED vars
    BY <1>0, <1>5 DEF vars, Begun, Registered
  <1>6. QED
    BY <1>1, <1>2, <1>3, <1>4, <1>5 DEF Next, ThreadStep, Quiet

LEMMA NextSlotCases ==
  /\ \A s \in Slot : (s + 1) % Size = IF s = Size - 1 THEN 0 ELSE s + 1
  /\ \A s, q \in Slot : (s + 1) % Size = (q + 1) % Size => s = q
  <1>1. \A s \in Slot : (s + 1) % Size = IF s = Size - 1 THEN 0 ELSE s + 1
    BY SizeFact DEF Slot
  <1>2. QED
    BY <1>1, SizeFact DEF Slot

(* Fewer entries than half the slots leave two free ones in a row: if each *)
(* free slot were followed by an entry, there would be as many entries as  *)
(* free slots.                                                             *)
LEMMA HalfIsRoom ==
  ASSUME IsFiniteSet(Writer), 2 * Cardinality(Writer) <= Size,
         SlotInv, WritersBegin, NEW t \in Writer, pc[t] = "insert"
  PROVE  Room
  <1> DEFINE O == {s \in Slot : list[s] # MAXTIME}
             F == Slot \ O
             W == Writer \ {t}
             Owner(s) == CHOOSE u \in Thread : Registered(u) /\ ptr[u] = s
             own == [s \in O |-> Owner(s)]
             follow == [s \in F |-> (s + 1) % Size]
  <1>1. /\ IsFiniteSet(Slot) /\ Cardinality(Slot) = Size
        /\ IsFiniteSet(O) /\ IsFiniteSet(F)
        /\ Cardinality(O) \in Nat /\ Cardinality(F) \in Nat
        /\ Cardinality(F) = Size - Cardinality(O)
    <2>1. IsFiniteSet(0 .. Size - 1) /\ Cardinality(0 .. Size - 1) = Size
      BY SizeFact, FS_Interval, 0 \in Int, Size - 1 \in Int, ~(0 > Size - 1)
    <2>2. IsFiniteSet(O)
      BY <2>1, FS_Subset, O \in SUBSET Slot DEF Slot
    <2>3. IsFiniteSet(F) /\ Cardinality(F) = Size - Cardinality(Slot \cap O)
      BY <2>1, FS_Difference DEF Slot
    <2>4. Slot \cap O = O
      OBVIOUS
    <2>5. QED
      BY <2>1, <2>2, <2>3, <2>4, FS_CardinalityType DEF Slot
  <1>2. /\ IsFiniteSet(W) /\ Cardinality(W) = Cardinality(Writer) - 1
        /\ Cardinality(Writer) \in Nat
    BY FS_RemoveElement, FS_CardinalityType
  <1>3. Cardinality(O) <= Cardinality(W)
    <2>1. ASSUME NEW s \in O
          PROVE  Registered(Owner(s)) /\ ptr[Owner(s)] = s /\ Owner(s) \in W
      <3>1. \E u \in Thread : Registered(u) /\ ptr[u] = s
        BY DEF SlotInv, OwnSlot
      <3>2. Registered(Owner(s)) /\ ptr[Owner(s)] = s /\ Owner(s) \in Thread
        BY <3>1
      <3>3. QED
        BY <3>2 DEF WritersBegin, Begun, Registered
    <2>2. own \in [O -> W]
      BY <2>1
    <2>3. \A s, q \in O : own[s] = own[q] => s = q
      BY <2>1
    <2>4. own \in Injection(O, W)
      BY <2>2, <2>3 DEF Injection, IsInjective
    <2>5. QED
      BY <1>2, <2>4, FS_Injection
  <1>4. ASSUME ~Room PROVE Cardinality(F) <= Cardinality(O)
    <2>1. \A s \in F : (s + 1) % Size \in O
      <3>1. ASSUME NEW s \in F PROVE (s + 1) % Size \in O
        <4>1. (s + 1) % Size \in Slot
          BY NextSlotFact DEF NextSlot
        <4>2. list[(s + 1) % Size] # MAXTIME
          BY <1>4 DEF Room
        <4>3. QED
          BY <4>1, <4>2
      <3>2. QED
        BY <3>1
    <2>2. follow \in [F -> O]
      BY <2>1
    <2>3. \A s, q \in F : follow[s] = follow[q] => s = q
      BY NextSlotCases
    <2>4. follow \in Injection(F, O)
      BY <2>2, <2>3 DEF Injection, IsInjective
    <2>5. QED
      BY <1>1, <2>4, FS_Injection
  <1> HIDE DEF O, F, W
  <1>5. QED
    BY <1>1, <1>2, <1>3, <1>4, SizeFact

(* The table of an even number of workers has room whenever one of no more *)
(* writers than workers inserts (ConcurrentList.h:15 gives two slots for   *)
(* each): no insert then probes for ever because the table is full.        *)
THEOREM EnoughRoom ==
  ASSUME IsFiniteSet(Writer), 2 * Cardinality(Writer) <= Size
  PROVE  Spec => []((\E t \in Writer : pc[t] = "insert") => Room)
  <1>1. Init => SlotInv /\ WritersBegin
    BY InitInv DEF IInv, Init, WritersBegin, Begun, Registered
  <1>2. SlotInv /\ WritersBegin =>
          ((\E t \in Writer : pc[t] = "insert") => Room)
    BY HalfIsRoom
  <1>3. QED
    BY <1>1, <1>2, SlotStep, WritersStep, PTL DEF Spec
=============================================================================
