------------------------- MODULE VersionChainProofs -------------------------
(***************************************************************************)
(* Proofs about VersionChain for every number of threads, versions and     *)
(* files, as long as a freed version's address is not handed out again.    *)
(***************************************************************************)
EXTENDS VersionChain, FiniteSetTheorems, TLAPS

(* The versions ever made are linked in the order of their numbers, up to  *)
(* the current one.                                                        *)
ChainInv ==
    /\ {read_rel_version, current_rel_version, V0} \subseteq used
    /\ \A a \in used : vno[a] <= vno[current_rel_version]
    /\ \A a, b \in used : vno[a] = vno[b] => a = b
    /\ \A a \in used \ {current_rel_version} :
          next[a] \in used /\ vno[next[a]] = vno[a] + 1
    /\ next_epoch[current_rel_version] = MAXTIME

(* What a thread remembers of the chain stays true while it sleeps.        *)
ThreadInv ==
    \A t \in Thread :
        /\ pc[t] \in {"addref", "active"} => rel_version[t] \in used
        /\ pc[t] \in {"check", "cas", "drop"} => tail[t] \in used
        /\ pc[t] = "cas" => /\ tail[t] # current_rel_version
                            /\ tail_next[t] = next[tail[t]]
        /\ pc[t] = "drop" => vno[tail[t]] < vno[read_rel_version]

ChainCount(a) == IF vno[read_rel_version] <= vno[a] THEN 1 ELSE 0
LeakCount(a) == IF a = V0 THEN 1 ELSE 0

CountInv ==
    \A a \in used : ref[a] = ChainCount(a) + LeakCount(a)
                             + Cardinality(Pins(a)) + Cardinality(Drops(a))

LiveInv == \A a \in Addr : a \in live <=> a \in used /\ ref[a] # 0

Open == ChainInv /\ ThreadInv /\ CountInv /\ LiveInv

IInv ==
    /\ TypeOK
    /\ closed => \A t \in Thread : pc[t] = "idle"
    /\ ~closed => Open

-----------------------------------------------------------------------------
LEMMA CountsFinite ==
  \A a : /\ IsFiniteSet(Pins(a)) /\ Cardinality(Pins(a)) \in Nat
         /\ IsFiniteSet(Drops(a)) /\ Cardinality(Drops(a)) \in Nat
  <1> TAKE a
  <1>1. IsFiniteSet(Thread)
    BY ChainAssumption, FS_Union DEF Thread
  <1>2. IsFiniteSet(Pins(a)) /\ IsFiniteSet(Drops(a))
    <2>1. Pins(a) \in SUBSET Client /\ Drops(a) \in SUBSET Thread
      BY DEF Pins, Drops
    <2>2. QED
      BY <1>1, <2>1, ChainAssumption, FS_Subset
  <1>3. QED
    BY <1>2, FS_CardinalityType

LEMMA InitInv == Init => IInv
  <1> SUFFICES ASSUME Init PROVE IInv
    OBVIOUS
  <1> USE DEF Init
  <1>1. TypeOK
    <2>1. /\ epoch_id \in 1 .. MAXTIME /\ active \subseteq Time
          /\ epoch \in [Addr -> 0 .. MAXTIME - 1]
          /\ next_epoch \in [Addr -> Time]
          /\ write_epoch \in [Thread -> Time]
      BY ChainAssumption DEF Epoch, Time
    <2>2. /\ read_rel_version \in Addr /\ current_rel_version \in Addr
          /\ live \subseteq used /\ used \subseteq Addr
          /\ ref \in [Addr -> Int] /\ vno \in [Addr -> Nat]
          /\ next \in [Addr -> Addr \cup {NULL}]
          /\ FileIndex \in [Addr -> SUBSET File]
      BY ChainAssumption
    <2>3. /\ fref \in [File -> Int] /\ disk \subseteq File
          /\ merging \subseteq File /\ queue \subseteq SUBSET File
      OBVIOUS
    <2>4. /\ pc \in [Thread -> Control]
          /\ rel_version \in [Thread -> Addr \cup {NULL}]
          /\ nrt \in [Thread -> Int]
          /\ tail \in [Thread -> Addr \cup {NULL}]
          /\ tail_next \in [Thread -> Addr \cup {NULL}]
          /\ job \in [Thread -> SUBSET File]
          /\ file_id \in [Thread -> SUBSET File]
      BY DEF Control
    <2>5. closed \in BOOLEAN
      OBVIOUS
    <2>6. QED
      BY <2>1, <2>2, <2>3, <2>4, <2>5 DEF TypeOK
  <1>2. ~closed
    OBVIOUS
  <1>3. ChainInv /\ ThreadInv
    BY ChainAssumption DEF ChainInv, ThreadInv
  <1>4. CountInv
    <2>1. \A a : Pins(a) = {} /\ Drops(a) = {}
      BY DEF Pins, Drops, Thread
    <2>2. \A a \in used : a = V0 /\ ref[a] = 2
      BY ChainAssumption
    <2>3. ASSUME NEW a \in used
          PROVE  ref[a] = ChainCount(a) + LeakCount(a) + Cardinality(Pins(a))
                          + Cardinality(Drops(a))
      <3>1. Pins(a) = {} /\ Drops(a) = {}
        BY <2>1
      <3>2. Cardinality(Pins(a)) = 0 /\ Cardinality(Drops(a)) = 0
        BY <3>1, FS_EmptySet
      <3>3. a = V0 /\ ref[a] = 2 /\ read_rel_version = V0
        BY <2>2
      <3>4. vno[read_rel_version] <= vno[a]
        BY <3>3
      <3>5. ChainCount(a) = 1 /\ LeakCount(a) = 1
        BY <3>3, <3>4 DEF ChainCount, LeakCount
      <3>6. QED
        BY <3>2, <3>3, <3>5
    <2>4. QED
      BY <2>3 DEF CountInv
  <1>5. LiveInv
    BY DEF LiveInv
  <1>6. QED
    BY <1>1, <1>2, <1>3, <1>4, <1>5 DEF IInv, Open

-----------------------------------------------------------------------------
(* The steps that change neither the chain nor anybody's count.            *)
Untouched ==
    /\ UNCHANGED <<live, used, ref, next, next_epoch, vno, pointerVars>>
    /\ \A t \in Thread :
          /\ pc'[t] = "active" <=> pc[t] = "active"
          /\ pc[t] = "active" => rel_version'[t] = rel_version[t]
          /\ pc'[t] = "drop" <=> pc[t] = "drop"
          /\ pc[t] = "drop" => tail'[t] = tail[t]

LEMMA UntouchedInv ==
  ASSUME Untouched, ChainInv, CountInv, LiveInv
  PROVE  ChainInv' /\ CountInv' /\ LiveInv'
  <1> USE DEF Untouched, pointerVars
  <1>1. \A a : Pins(a)' = Pins(a) /\ Drops(a)' = Drops(a)
    BY DEF Pins, Drops, Thread
  <1>2. ChainInv' /\ LiveInv'
    BY DEF ChainInv, LiveInv
  <1>3. CountInv'
    BY <1>1 DEF CountInv, ChainCount, LeakCount
  <1>4. QED
    BY <1>2, <1>3

LEMMA BusyIsOpen ==
  ASSUME IInv, NEW t \in Thread, pc[t] # "idle"
  PROVE  ~closed /\ Open
  BY DEF IInv

(* Type correctness of the steps of transactions.                          *)
LEMMA ClientTypes ==
  ASSUME TypeOK, NEW c \in Client,
         \/ TakeEpoch(c) \/ Register(c) \/ BeginReadOnly(c) \/ LoadRead(c)
         \/ AddRefFails(c) \/ EraseEpoch(c)
  PROVE  TypeOK'
  <1> c \in Thread
    BY DEF Thread
  <1> USE ChainAssumption DEF TypeOK, Control, Epoch, Time, Goto, epochVars,
      versionVars, fieldVars, pointerVars, fileVars, txnVars, progressVars,
      jobVars
  <1>1. CASE TakeEpoch(c)
    BY <1>1 DEF TakeEpoch
  <1>2. CASE Register(c)
    BY <1>2 DEF Register
  <1>3. CASE BeginReadOnly(c)
    BY <1>3 DEF BeginReadOnly
  <1>4. CASE LoadRead(c)
    BY <1>4 DEF LoadRead
  <1>5. CASE AddRefFails(c)
    BY <1>5 DEF AddRefFails
  <1>6. CASE EraseEpoch(c)
    <2>1. active' \subseteq active /\ active \subseteq Time
      BY <1>6 DEF EraseEpoch
    <2>2. active' \subseteq Time
      BY <2>1
    <2>3. write_epoch' \in [Thread -> Time]
      BY <1>6 DEF EraseEpoch
    <2>4. pc' \in [Thread -> Control]
      BY <1>6 DEF EraseEpoch
    <2>5. UNCHANGED <<epoch_id, versionVars, pointerVars, fileVars,
                      rel_version, progressVars, jobVars, closed>>
      BY <1>6 DEF EraseEpoch
    <2>6. QED
      BY <2>2, <2>3, <2>4, <2>5
  <1>7. QED
    BY <1>1, <1>2, <1>3, <1>4, <1>5, <1>6

LEMMA ProgressTypes ==
  ASSUME TypeOK, NEW t \in Thread,
         \/ LookEmpty(t) \/ ReadCounter(t) \/ ReadMinimum(t) \/ LoadTail(t)
         \/ StopAtTail(t) \/ AdvanceFails(t)
  PROVE  TypeOK'
  <1> USE ChainAssumption DEF TypeOK, Control, Epoch, Time, Goto, epochVars,
      versionVars, fieldVars, pointerVars, fileVars, txnVars, progressVars,
      jobVars
  <1>1. CASE LookEmpty(t)
    BY <1>1 DEF LookEmpty
  <1>2. CASE ReadCounter(t)
    BY <1>2 DEF ReadCounter
  <1>3. CASE ReadMinimum(t)
    BY <1>3 DEF ReadMinimum
  <1>4. CASE LoadTail(t)
    BY <1>4 DEF LoadTail
  <1>5. CASE StopAtTail(t)
    BY <1>5 DEF StopAtTail, LeaveProgress
  <1>6. CASE AdvanceFails(t)
    BY <1>6 DEF AdvanceFails
  <1>7. QED
    BY <1>1, <1>2, <1>3, <1>4, <1>5, <1>6

LEMMA CompactorTypes ==
  ASSUME TypeOK, NEW p \in Compactor,
         TryCompaction(p) \/ StartJob(p) \/ BuildFile(p)
  PROVE  TypeOK'
  <1> p \in Thread
    BY DEF Thread
  <1> USE ChainAssumption DEF TypeOK, Control, Epoch, Time, Goto, epochVars,
      versionVars, fieldVars, pointerVars, fileVars, txnVars, progressVars,
      jobVars
  <1>1. CASE TryCompaction(p)
    BY <1>1 DEF TryCompaction, Picks
  <1>2. CASE StartJob(p)
    BY <1>2 DEF StartJob, FreshFile
  <1>3. CASE BuildFile(p)
    BY <1>3 DEF BuildFile
  <1>4. QED
    BY <1>1, <1>2, <1>3

(* These steps leave the chain alone, and their thread remembers only what *)
(* it has just read.                                                       *)
LEMMA ClientUntouched ==
  ASSUME IInv, NEW c \in Client,
         \/ TakeEpoch(c) \/ Register(c) \/ BeginReadOnly(c) \/ LoadRead(c)
         \/ AddRefFails(c) \/ EraseEpoch(c)
  PROVE  ~closed /\ ~closed' /\ Untouched /\ ThreadInv'
  <1> c \in Thread
    BY DEF Thread
  <1> USE DEF Untouched, ThreadInv, Goto, epochVars, versionVars, fieldVars,
      pointerVars, fileVars, txnVars, progressVars, jobVars
  <1>1. ~closed /\ TypeOK /\ ChainInv /\ ThreadInv
    BY BusyIsOpen
    DEF IInv, Open, TakeEpoch, Register, BeginReadOnly, LoadRead,
        AddRefFails, EraseEpoch
  <1>2. CASE TakeEpoch(c) \/ BeginReadOnly(c)
    BY <1>1, <1>2 DEF TakeEpoch, BeginReadOnly, TypeOK
  <1>3. CASE Register(c)
    BY <1>1, <1>3 DEF Register, TypeOK
  <1>4. CASE LoadRead(c)
    BY <1>1, <1>4 DEF LoadRead, TypeOK, ChainInv
  <1>5. CASE AddRefFails(c)
    BY <1>1, <1>5 DEF AddRefFails, TypeOK
  <1>6. CASE EraseEpoch(c)
    BY <1>1, <1>6 DEF EraseEpoch, TypeOK
  <1>7. QED
    BY <1>2, <1>3, <1>4, <1>5, <1>6

LEMMA ProgressUntouched ==
  ASSUME IInv, NEW t \in Thread,
         \/ LookEmpty(t) \/ ReadCounter(t) \/ ReadMinimum(t) \/ LoadTail(t)
         \/ StopAtTail(t) \/ LoadTailNext(t) \/ AdvanceFails(t)
  PROVE  ~closed /\ ~closed' /\ Untouched /\ ThreadInv'
  <1> USE DEF Untouched, ThreadInv, Goto, epochVars, versionVars, fieldVars,
      pointerVars, fileVars, txnVars, progressVars, jobVars
  <1>1. ~closed /\ TypeOK /\ ChainInv /\ ThreadInv
    BY BusyIsOpen
    DEF IInv, Open, LookEmpty, ReadCounter, ReadMinimum, LoadTail, StopAtTail,
        LoadTailNext, AdvanceFails
  <1>2. CASE LookEmpty(t)
    BY <1>1, <1>2 DEF LookEmpty, TypeOK
  <1>3. CASE ReadCounter(t) \/ ReadMinimum(t)
    BY <1>1, <1>3 DEF ReadCounter, ReadMinimum, TypeOK
  <1>4. CASE LoadTail(t)
    BY <1>1, <1>4 DEF LoadTail, TypeOK, ChainInv
  <1>5. CASE StopAtTail(t)
    BY <1>1, <1>5 DEF StopAtTail, LeaveProgress, TypeOK
  <1>6. CASE LoadTailNext(t)
    BY <1>1, <1>6 DEF LoadTailNext, TypeOK, ChainInv
  <1>7. CASE AdvanceFails(t)
    BY <1>1, <1>7 DEF AdvanceFails, TypeOK
  <1>8. QED
    BY <1>2, <1>3, <1>4, <1>5, <1>6, <1>7

LEMMA CompactorUntouched ==
  ASSUME IInv, NEW p \in Compactor,
         TryCompaction(p) \/ StartJob(p) \/ BuildFile(p)
  PROVE  ~closed /\ ~closed' /\ Untouched /\ ThreadInv'
  <1> p \in Thread
    BY DEF Thread
  <1> USE DEF Untouched, ThreadInv, Goto, epochVars, versionVars, fieldVars,
      pointerVars, fileVars, txnVars, progressVars, jobVars
  <1>1. ~closed /\ TypeOK /\ ChainInv /\ ThreadInv
    BY BusyIsOpen DEF IInv, Open, TryCompaction, StartJob, BuildFile
  <1>2. CASE TryCompaction(p)
    BY <1>1, <1>2 DEF TryCompaction, TypeOK
  <1>3. CASE StartJob(p)
    BY <1>1, <1>3 DEF StartJob, TypeOK
  <1>4. CASE BuildFile(p)
    BY <1>1, <1>4 DEF BuildFile, TypeOK
  <1>5. QED
    BY <1>2, <1>3, <1>4

LEMMA LoadTailNextTypes ==
  ASSUME IInv, NEW t \in Thread, LoadTailNext(t)
  PROVE  TypeOK'
  <1>1. TypeOK /\ tail[t] \in Addr
    BY BusyIsOpen DEF IInv, Open, ThreadInv, LoadTailNext, TypeOK
  <1>2. /\ tail_next' \in [Thread -> Addr \cup {NULL}]
        /\ pc' \in [Thread -> Control]
    BY <1>1 DEF LoadTailNext, TypeOK, Goto, Control
  <1>3. QED
    BY <1>1, <1>2
    DEF LoadTailNext, TypeOK, epochVars, versionVars, fieldVars, pointerVars,
        fileVars, txnVars, jobVars

-----------------------------------------------------------------------------
(* A transaction counts itself in: one more pin, one more in the count.    *)
LEMMA AddRefStep ==
  ASSUME IInv, NEW c \in Client, AddRefSucceeds(c)
  PROVE  TypeOK' /\ ~closed' /\ Open'
  <1> DEFINE a == rel_version[c]
  <1> USE DEF Goto, epochVars, fieldVars, pointerVars, fileVars, txnVars,
      progressVars, jobVars
  <1>1. /\ ~closed /\ Open /\ TypeOK /\ c \in Thread /\ a \in used
        /\ pc[c] = "addref"
    BY BusyIsOpen DEF IInv, Open, ThreadInv, AddRefSucceeds, Thread
  <1>2. a \in Addr /\ ref[a] \in Int /\ ref[a] # 0
    BY <1>1 DEF TypeOK, AddRefSucceeds
  <1>3. /\ ref'[a] = ref[a] + 1 /\ \A b \in Addr \ {a} : ref'[b] = ref[b]
        /\ pc'[c] = "active" /\ \A t \in Thread \ {c} : pc'[t] = pc[t]
        /\ UNCHANGED <<live, used, vno, next, next_epoch, pointerVars,
                       rel_version, tail, tail_next, closed>>
    BY <1>1, <1>2 DEF AddRefSucceeds, TypeOK
  <1>4. TypeOK'
    <2>1. ref' \in [Addr -> Int] /\ pc' \in [Thread -> Control]
      BY <1>1, <1>2 DEF AddRefSucceeds, TypeOK, Control
    <2>2. QED
      BY <1>1, <2>1 DEF AddRefSucceeds, TypeOK
  <1>5. ChainInv' /\ ThreadInv'
    BY <1>1, <1>3 DEF Open, ChainInv, ThreadInv
  <1>6. CountInv'
    <2> SUFFICES ASSUME NEW b \in used
                 PROVE  ref'[b] = ChainCount(b) + LeakCount(b)
                          + Cardinality(Pins(b)') + Cardinality(Drops(b)')
      BY <1>3 DEF CountInv, ChainCount, LeakCount
    <2>1. ref[b] = ChainCount(b) + LeakCount(b)
                     + Cardinality(Pins(b)) + Cardinality(Drops(b))
      BY <1>1 DEF Open, CountInv
    <2>2. Drops(b)' = Drops(b)
      BY <1>1, <1>3 DEF Drops
    <2>3. CASE b = a
      <3>1. Pins(b)' = Pins(b) \cup {c} /\ c \notin Pins(b)
        BY <1>1, <1>3, <2>3 DEF Pins, Thread
      <3>2. Cardinality(Pins(b)') = Cardinality(Pins(b)) + 1
        BY <3>1, CountsFinite, FS_AddElement
      <3>3. QED
        BY <1>3, <2>1, <2>2, <2>3, <3>2, CountsFinite
           DEF ChainCount, LeakCount
    <2>4. CASE b # a
      <3>1. Pins(b)' = Pins(b)
        BY <1>1, <1>3, <2>4 DEF Pins, Thread
      <3>2. b \in Addr
        BY <1>1 DEF TypeOK
      <3>3. QED
        BY <1>3, <2>1, <2>2, <2>4, <3>1, <3>2
    <2>5. QED
      BY <2>3, <2>4
  <1>7. LiveInv'
    <2>1. ref'[a] # 0
      <3>1. ref[a] >= 0
        BY <1>1, CountsFinite DEF Open, CountInv, ChainCount, LeakCount
      <3>2. QED
        BY <1>2, <1>3, <3>1
    <2>2. QED
      BY <1>1, <1>2, <1>3, <2>1 DEF Open, LiveInv
  <1>8. QED
    BY <1>1, <1>3, <1>4, <1>5, <1>6, <1>7 DEF Open

(* Giving back one count of a live version.                                *)
LEMMA DecRefFacts ==
  ASSUME TypeOK, LiveInv, NEW a \in used, ref[a] # 0, DecRef(a)
  PROVE  /\ ref' \in [Addr -> Int] /\ ref'[a] = ref[a] - 1
         /\ \A b \in Addr \ {a} : ref'[b] = ref[b]
         /\ live' \subseteq used /\ fref' \in [File -> Int]
         /\ disk' \subseteq File /\ LiveInv'
         /\ UNCHANGED <<used, epoch, next, next_epoch, FileIndex, vno, merging,
                        queue>>
  <1>1. a \in Addr /\ ref[a] \in Int
    BY DEF TypeOK
  <1>2. /\ ref' \in [Addr -> Int] /\ ref'[a] = ref[a] - 1
        /\ \A b \in Addr \ {a} : ref'[b] = ref[b]
    BY <1>1 DEF DecRef, TypeOK
  <1>3. UNCHANGED <<used, epoch, next, next_epoch, FileIndex, vno, merging,
                    queue>>
    BY DEF DecRef, fieldVars
  <1>4. CASE ref[a] = 1
    <2>1. live' = live \ {a}
      BY <1>4 DEF DecRef
    <2>2. LiveInv'
      BY <1>1, <1>2, <1>3, <1>4, <2>1 DEF LiveInv
    <2>3. fref' \in [File -> Int] /\ disk' \subseteq File
      BY <1>4 DEF DecRef, TypeOK
    <2>4. QED
      BY <1>2, <1>3, <2>1, <2>2, <2>3 DEF TypeOK
  <1>5. CASE ref[a] # 1
    <2>1. UNCHANGED <<live, fref, disk>>
      BY <1>5 DEF DecRef
    <2>2. ref'[a] # 0 /\ a \in live
      BY <1>1, <1>2, <1>5 DEF LiveInv
    <2>3. LiveInv'
      BY <1>1, <1>2, <1>3, <2>1, <2>2 DEF LiveInv
    <2>4. QED
      BY <1>2, <1>3, <2>1, <2>3 DEF TypeOK
  <1>6. QED
    BY <1>4, <1>5

(* A count that is in use is not zero.                                     *)
LEMMA CountPositive ==
  ASSUME Open, TypeOK, NEW a \in used, Pins(a) # {} \/ Drops(a) # {}
  PROVE  ref[a] > 0
  <1>1. ref[a] = ChainCount(a) + LeakCount(a)
                   + Cardinality(Pins(a)) + Cardinality(Drops(a))
    BY DEF Open, CountInv
  <1>2. Cardinality(Pins(a)) > 0 \/ Cardinality(Drops(a)) > 0
    BY CountsFinite, FS_EmptySet
  <1>3. QED
    BY <1>1, <1>2, CountsFinite DEF ChainCount, LeakCount

(* A transaction ends: one pin less, one less in the count.                *)
LEMMA EndStep ==
  ASSUME IInv, NEW c \in Client, EndTransaction(c)
  PROVE  TypeOK' /\ ~closed' /\ Open'
  <1> DEFINE a == rel_version[c]
  <1>1. /\ ~closed /\ Open /\ TypeOK /\ c \in Thread /\ a \in used
        /\ pc[c] = "active" /\ DecRef(a) /\ c \in Pins(a)
    BY BusyIsOpen DEF IInv, Open, ThreadInv, EndTransaction, Thread, Pins
  <1>2. ref[a] > 0
    BY <1>1, CountPositive
  <1>3. /\ ref' \in [Addr -> Int] /\ ref'[a] = ref[a] - 1
        /\ \A b \in Addr \ {a} : ref'[b] = ref[b]
        /\ live' \subseteq used /\ fref' \in [File -> Int]
        /\ disk' \subseteq File /\ LiveInv'
        /\ UNCHANGED <<used, epoch, next, next_epoch, FileIndex, vno, merging,
                       queue>>
    BY <1>1, <1>2, DecRefFacts DEF Open
  <1>4. /\ pc'[c] \in {"idle", "erase"}
        /\ \A t \in Thread \ {c} :
              pc'[t] = pc[t] /\ rel_version'[t] = rel_version[t]
        /\ pc' \in [Thread -> Control]
        /\ rel_version' \in [Thread -> Addr \cup {NULL}]
        /\ UNCHANGED <<epoch_id, active, write_epoch, read_rel_version,
                       current_rel_version, nrt, tail, tail_next, job,
                       file_id, closed>>
    BY <1>1 DEF EndTransaction, TypeOK, Goto, Control, epochVars, pointerVars,
                progressVars, jobVars
  <1>5. TypeOK'
    BY <1>1, <1>3, <1>4 DEF TypeOK
  <1>6. ChainInv' /\ ThreadInv'
    BY <1>1, <1>3, <1>4 DEF Open, ChainInv, ThreadInv
  <1>7. CountInv'
    <2> SUFFICES ASSUME NEW b \in used
                 PROVE  ref'[b] = ChainCount(b) + LeakCount(b)
                          + Cardinality(Pins(b)') + Cardinality(Drops(b)')
      BY <1>3, <1>4 DEF CountInv, ChainCount, LeakCount
    <2>1. ref[b] = ChainCount(b) + LeakCount(b)
                     + Cardinality(Pins(b)) + Cardinality(Drops(b))
      BY <1>1 DEF Open, CountInv
    <2>2. Drops(b)' = Drops(b)
      BY <1>1, <1>4 DEF Drops
    <2>3. CASE b = a
      <3>1. Pins(b)' = Pins(b) \ {c} /\ c \in Pins(b)
        BY <1>1, <1>4, <2>3 DEF Pins, Thread
      <3>2. Cardinality(Pins(b)') = Cardinality(Pins(b)) - 1
        BY <3>1, CountsFinite, FS_RemoveElement
      <3>3. QED
        BY <1>3, <2>1, <2>2, <2>3, <3>2, CountsFinite
           DEF ChainCount, LeakCount
    <2>4. CASE b # a
      <3>1. Pins(b)' = Pins(b)
        BY <1>1, <1>4, <2>4 DEF Pins, Thread
      <3>2. b \in Addr
        BY <1>1 DEF TypeOK
      <3>3. QED
        BY <1>3, <2>1, <2>2, <2>4, <3>1, <3>2
    <2>5. QED
      BY <2>3, <2>4
  <1>8. QED
    BY <1>1, <1>3, <1>4, <1>5, <1>6, <1>7 DEF Open

(* The chain's count of a version passed by is given back.                 *)
LEMMA DropStep ==
  ASSUME IInv, NEW t \in Thread, DropTail(t)
  PROVE  TypeOK' /\ ~closed' /\ Open'
  <1> DEFINE a == tail[t]
  <1>1. /\ ~closed /\ Open /\ TypeOK /\ a \in used
        /\ pc[t] = "drop" /\ DecRef(a) /\ t \in Drops(a)
    BY BusyIsOpen DEF IInv, Open, ThreadInv, DropTail, Drops
  <1>2. ref[a] > 0
    BY <1>1, CountPositive
  <1>3. /\ ref' \in [Addr -> Int] /\ ref'[a] = ref[a] - 1
        /\ \A b \in Addr \ {a} : ref'[b] = ref[b]
        /\ live' \subseteq used /\ fref' \in [File -> Int]
        /\ disk' \subseteq File /\ LiveInv'
        /\ UNCHANGED <<used, epoch, next, next_epoch, FileIndex, vno, merging,
                       queue>>
    BY <1>1, <1>2, DecRefFacts DEF Open
  <1>4. /\ pc'[t] = "empty" /\ \A u \in Thread \ {t} : pc'[u] = pc[u]
        /\ pc' \in [Thread -> Control]
        /\ UNCHANGED <<epoch_id, active, write_epoch, rel_version,
                       read_rel_version, current_rel_version, nrt, tail,
                       tail_next, job, file_id, closed>>
    BY <1>1 DEF DropTail, TypeOK, Goto, Control, epochVars, pointerVars,
                txnVars, progressVars, jobVars
  <1>5. TypeOK'
    BY <1>1, <1>3, <1>4 DEF TypeOK
  <1>6. ChainInv' /\ ThreadInv'
    BY <1>1, <1>3, <1>4 DEF Open, ChainInv, ThreadInv
  <1>7. CountInv'
    <2> SUFFICES ASSUME NEW b \in used
                 PROVE  ref'[b] = ChainCount(b) + LeakCount(b)
                          + Cardinality(Pins(b)') + Cardinality(Drops(b)')
      BY <1>3, <1>4 DEF CountInv, ChainCount, LeakCount
    <2>1. ref[b] = ChainCount(b) + LeakCount(b)
                     + Cardinality(Pins(b)) + Cardinality(Drops(b))
      BY <1>1 DEF Open, CountInv
    <2>2. Pins(b)' = Pins(b)
      BY <1>1, <1>4 DEF Pins, Thread
    <2>3. CASE b = a
      <3>1. Drops(b)' = Drops(b) \ {t} /\ t \in Drops(b)
        BY <1>1, <1>4, <2>3 DEF Drops
      <3>2. Cardinality(Drops(b)') = Cardinality(Drops(b)) - 1
        BY <3>1, CountsFinite, FS_RemoveElement
      <3>3. QED
        BY <1>3, <2>1, <2>2, <2>3, <3>2, CountsFinite
           DEF ChainCount, LeakCount
    <2>4. CASE b # a
      <3>1. Drops(b)' = Drops(b)
        BY <1>1, <1>4, <2>4 DEF Drops
      <3>2. b \in Addr
        BY <1>1 DEF TypeOK
      <3>3. QED
        BY <1>3, <2>1, <2>2, <2>4, <3>1, <3>2
    <2>5. QED
      BY <2>3, <2>4
  <1>8. QED
    BY <1>1, <1>3, <1>4, <1>5, <1>6, <1>7 DEF Open

(* The pointer moves: the chain's count of the version left behind becomes *)
(* the count the moving thread will give back.                             *)
LEMMA AdvanceStep ==
  ASSUME IInv, NEW t \in Thread, AdvanceRead(t)
  PROVE  /\ TypeOK' /\ ~closed' /\ Open'
         /\ vno[read_rel_version'] = vno[read_rel_version] + 1
  <1> DEFINE a == tail[t]
  <1>1. /\ ~closed /\ Open /\ TypeOK /\ a \in used /\ pc[t] = "cas"
        /\ read_rel_version = a /\ a # current_rel_version
        /\ read_rel_version' = next[a]
    BY BusyIsOpen DEF IInv, Open, ThreadInv, AdvanceRead
  <1>2. next[a] \in used /\ vno[next[a]] = vno[a] + 1
    BY <1>1 DEF Open, ChainInv
  <1>3. /\ pc'[t] = "drop" /\ \A u \in Thread \ {t} : pc'[u] = pc[u]
        /\ pc' \in [Thread -> Control]
        /\ UNCHANGED <<epoch_id, active, live, used, ref, epoch, next,
                       next_epoch, FileIndex, vno, current_rel_version, fref,
                       disk, merging, queue, write_epoch, rel_version, nrt,
                       tail, tail_next, job, file_id, closed>>
    BY <1>1 DEF AdvanceRead, TypeOK, Goto, Control, epochVars, versionVars,
                fieldVars, fileVars, txnVars, progressVars, jobVars
  <1>4. \A b \in used : vno[b] \in Nat
    BY <1>1 DEF TypeOK
  <1>5. TypeOK'
    BY <1>1, <1>2, <1>3 DEF TypeOK
  <1>6. ChainInv'
    BY <1>1, <1>2, <1>3 DEF Open, ChainInv
  <1>7. ThreadInv'
    <2>1. \A u \in Thread : pc[u] = "drop" => vno[tail[u]] < vno[a] + 1
      BY <1>1, <1>4 DEF Open, ThreadInv
    <2>2. QED
      BY <1>1, <1>2, <1>3, <1>4, <2>1 DEF Open, ThreadInv
  <1>8. CountInv'
    <2> SUFFICES ASSUME NEW b \in used
                 PROVE  ref[b] = ChainCount(b)' + LeakCount(b)
                          + Cardinality(Pins(b)') + Cardinality(Drops(b)')
      BY <1>3 DEF CountInv, ChainCount, LeakCount
    <2>1. ref[b] = ChainCount(b) + LeakCount(b)
                     + Cardinality(Pins(b)) + Cardinality(Drops(b))
      BY <1>1 DEF Open, CountInv
    <2>2. Pins(b)' = Pins(b)
      BY <1>1, <1>3 DEF Pins, Thread
    <2>3. CASE b = a
      <3>1. Drops(b)' = Drops(b) \cup {t} /\ t \notin Drops(b)
        BY <1>1, <1>3, <2>3 DEF Drops
      <3>2. Cardinality(Drops(b)') = Cardinality(Drops(b)) + 1
        BY <3>1, CountsFinite, FS_AddElement
      <3>3. ChainCount(b) = 1 /\ ChainCount(b)' = 0
        BY <1>1, <1>2, <1>3, <1>4, <2>3 DEF ChainCount
      <3>4. QED
        BY <2>1, <2>2, <2>3, <3>2, <3>3, CountsFinite DEF LeakCount
    <2>4. CASE b # a
      <3>1. Drops(b)' = Drops(b)
        BY <1>1, <1>3, <2>4 DEF Drops
      <3>2. vno[b] # vno[a]
        BY <1>1, <2>4 DEF Open, ChainInv
      <3>3. ChainCount(b)' = ChainCount(b)
        BY <1>1, <1>2, <1>3, <1>4, <3>2 DEF ChainCount
      <3>4. QED
        BY <2>1, <2>2, <3>1, <3>3
    <2>5. QED
      BY <2>3, <2>4
  <1>9. LiveInv'
    BY <1>1, <1>3 DEF Open, LiveInv
  <1>10. QED
    BY <1>1, <1>2, <1>3, <1>5, <1>6, <1>7, <1>8, <1>9 DEF Open

-----------------------------------------------------------------------------
(* A new version goes to an address nobody has ever had.                   *)
LEMMA InstallStep ==
  ASSUME ~Reuse, IInv, NEW p \in Compactor, Install(p)
  PROVE  TypeOK' /\ ~closed' /\ Open'
  <1> DEFINE cur == current_rel_version
  <1>1. ~closed /\ Open /\ TypeOK /\ pc[p] = "install" /\ p \in Thread
    BY BusyIsOpen DEF IInv, Install, Thread
  <1>2. PICK a \in Addr \ used, S \in SUBSET File,
             time \in IF job[p] = {} THEN 1 .. epoch_id - 1 ELSE {0} :
          LET files == (FileIndex[cur] \ job[p]) \cup file_id[p]
              e == LaterOf(epoch[cur], time)
          IN  /\ live' = live \cup {a}
              /\ used' = used \cup {a}
              /\ ref' = [ref EXCEPT ![a] = 1]
              /\ epoch' = [epoch EXCEPT ![a] = e]
              /\ next' = [next EXCEPT ![a] = NULL, ![cur] = a]
              /\ next_epoch' = [next_epoch EXCEPT ![a] = MAXTIME, ![cur] = e]
              /\ FileIndex' = [FileIndex EXCEPT ![a] = files]
              /\ vno' = [vno EXCEPT ![a] = vno[cur] + 1]
              /\ fref' = [f \in File |->
                            fref[f] + (IF f \in Counted(files, file_id[p])
                                       THEN 1 ELSE 0)]
              /\ current_rel_version' = a
              /\ Picks(files, S)
    BY DEF Install, FreeAddr
  <1>3. cur \in used /\ cur \in Addr /\ cur # a
    BY <1>1 DEF Open, ChainInv, TypeOK
  <1>4. /\ live' = live \cup {a} /\ used' = used \cup {a}
        /\ ref'[a] = 1 /\ \A b \in used : ref'[b] = ref[b]
        /\ vno'[a] = vno[cur] + 1 /\ \A b \in used : vno'[b] = vno[b]
        /\ next'[cur] = a /\ \A b \in used \ {cur} : next'[b] = next[b]
        /\ next_epoch'[a] = MAXTIME /\ current_rel_version' = a
    <2>1. cur \in Addr /\ a \in Addr /\ \A b \in used : b \in Addr /\ b # a
      BY <1>1, <1>2, <1>3 DEF TypeOK
    <2>2. ref'[a] = 1 /\ \A b \in used : ref'[b] = ref[b]
      BY <1>1, <1>2, <2>1 DEF TypeOK
    <2>3. vno'[a] = vno[cur] + 1 /\ \A b \in used : vno'[b] = vno[b]
      BY <1>1, <1>2, <2>1 DEF TypeOK
    <2>4. next'[cur] = a /\ \A b \in used \ {cur} : next'[b] = next[b]
      BY <1>1, <1>2, <2>1 DEF TypeOK
    <2>5. next_epoch'[a] = MAXTIME
      BY <1>1, <1>2, <1>3, <2>1 DEF TypeOK
    <2>6. QED
      BY <1>2, <2>2, <2>3, <2>4, <2>5
  <1>5. /\ pc'[p] = "empty" /\ \A t \in Thread \ {p} : pc'[t] = pc[t]
        /\ UNCHANGED <<epoch_id, active, read_rel_version, disk, write_epoch,
                       rel_version, nrt, tail, tail_next, closed>>
    BY <1>1 DEF Install, TypeOK, Goto, epochVars, txnVars, progressVars
  <1>6. TypeOK'
    <2>1. LaterOf(epoch[cur], time) \in 0 .. MAXTIME - 1
      <3>1. epoch[cur] \in 0 .. MAXTIME - 1 /\ epoch_id \in 1 .. MAXTIME
        BY <1>1, <1>3 DEF TypeOK
      <3>2. time \in 0 .. MAXTIME - 1
        BY <1>2, <3>1, ChainAssumption
      <3>3. QED
        BY <3>1, <3>2 DEF LaterOf
    <2>2. (FileIndex[cur] \ job[p]) \cup file_id[p] \in SUBSET File
      BY <1>1, <1>3 DEF TypeOK
    <2>3. /\ epoch' \in [Addr -> 0 .. MAXTIME - 1]
          /\ next_epoch' \in [Addr -> Time]
      BY <1>1, <1>2, <2>1, ChainAssumption DEF TypeOK, Time
    <2>4. /\ ref' \in [Addr -> Int] /\ next' \in [Addr -> Addr \cup {NULL}]
          /\ vno' \in [Addr -> Nat] /\ current_rel_version' \in Addr
          /\ live' \subseteq used' /\ used' \subseteq Addr
      BY <1>1, <1>2, <1>3 DEF TypeOK
    <2>5. FileIndex' \in [Addr -> SUBSET File] /\ fref' \in [File -> Int]
      BY <1>1, <1>2, <2>2 DEF TypeOK
    <2>6. merging' \subseteq File /\ queue' \subseteq SUBSET File
      BY <1>1, <1>2 DEF TypeOK, Picks
    <2>7. /\ job' \in [Thread -> SUBSET File] /\ pc' \in [Thread -> Control]
          /\ file_id' \in [Thread -> SUBSET File]
      BY <1>1 DEF Install, TypeOK, Goto, Control
    <2>8. QED
      BY <1>1, <1>5, <2>3, <2>4, <2>5, <2>6, <2>7 DEF TypeOK
  <1>7. ChainInv'
    <2>1. \A b \in used : vno[b] \in Nat /\ vno[b] <= vno[cur]
      BY <1>1 DEF Open, ChainInv, TypeOK
    <2>2. \A b \in used' \ {a} : next'[b] \in used' /\ vno'[next'[b]] = vno'[b] + 1
      <3>1. ASSUME NEW b \in used, b # cur
            PROVE  next'[b] \in used' /\ vno'[next'[b]] = vno'[b] + 1
        <4>1. next[b] \in used /\ vno[next[b]] = vno[b] + 1
          BY <1>1, <3>1 DEF Open, ChainInv
        <4>2. QED
          BY <1>4, <3>1, <4>1
      <3>2. next'[cur] \in used' /\ vno'[next'[cur]] = vno'[cur] + 1
        BY <1>3, <1>4
      <3>3. QED
        BY <1>4, <3>1, <3>2
    <2>3. /\ {read_rel_version, a, V0} \subseteq used'
          /\ \A b \in used' : vno'[b] <= vno'[a]
      BY <1>1, <1>3, <1>4, <2>1 DEF Open, ChainInv
    <2>4. \A b, d \in used' : vno'[b] = vno'[d] => b = d
      BY <1>1, <1>3, <1>4, <2>1 DEF Open, ChainInv
    <2>5. QED
      BY <1>4, <1>5, <2>2, <2>3, <2>4 DEF ChainInv
  <1>8. ThreadInv'
    <2>1. ASSUME NEW t \in Thread
          PROVE  /\ pc'[t] = pc[t] \/ pc'[t] = "empty"
                 /\ rel_version'[t] = rel_version[t] /\ tail'[t] = tail[t]
                 /\ tail_next'[t] = tail_next[t]
      BY <1>5
    <2>2. ASSUME NEW b \in used
          PROVE  b \in used' /\ b # a /\ vno'[b] = vno[b]
                 /\ (b # cur => next'[b] = next[b])
      BY <1>2, <1>4
    <2>3. read_rel_version \in used /\ read_rel_version' = read_rel_version
      BY <1>1, <1>5 DEF Open, ChainInv
    <2>4. ThreadInv
      BY <1>1 DEF Open
    <2>5. QED
      BY <1>4, <2>1, <2>2, <2>3, <2>4 DEF ThreadInv
  <1>9. CountInv'
    <2>1. \A b : Pins(b)' = Pins(b) /\ Drops(b)' = Drops(b)
      BY <1>1, <1>5 DEF Pins, Drops, Thread
    <2>2. Pins(a) = {} /\ Drops(a) = {}
      BY <1>1 DEF Open, ThreadInv, Pins, Drops, Thread
    <2>3. \A b \in used : vno[b] \in Nat
      BY <1>1 DEF TypeOK
    <2>4. ChainCount(a)' = 1 /\ LeakCount(a) = 0
      BY <1>1, <1>2, <1>3, <1>4, <1>5, <2>3
      DEF Open, ChainInv, ChainCount, LeakCount
    <2>5. \A b \in used : ChainCount(b)' = ChainCount(b)
      BY <1>1, <1>4, <1>5 DEF Open, ChainInv, ChainCount
    <2>6. ASSUME NEW b \in used'
          PROVE  ref'[b] = ChainCount(b)' + LeakCount(b)
                   + Cardinality(Pins(b)') + Cardinality(Drops(b)')
      <3>1. CASE b = a
        <4>1. Cardinality(Pins(a)') = 0 /\ Cardinality(Drops(a)') = 0
          BY <2>1, <2>2, FS_EmptySet
        <4>2. QED
          BY <1>4, <2>4, <3>1, <4>1 DEF ChainCount, LeakCount
      <3>2. CASE b # a
        BY <1>1, <1>4, <2>1, <2>5, <2>6, <3>2 DEF Open, CountInv
      <3>3. QED
        BY <3>1, <3>2
    <2>7. QED
      BY <2>6 DEF CountInv, LeakCount
  <1>10. LiveInv'
    BY <1>1, <1>2, <1>3, <1>4 DEF Open, LiveInv, TypeOK
  <1>11. QED
    BY <1>1, <1>5, <1>6, <1>7, <1>8, <1>9, <1>10 DEF Open

(* After ~DB only the types matter.                                        *)
LEMMA CloseStep ==
  ASSUME IInv, Close
  PROVE  IInv'
  <1>1. /\ TypeOK /\ closed' = TRUE /\ \A t \in Thread : pc'[t] = "idle"
        /\ UNCHANGED <<epochVars, used, fieldVars, pointerVars, merging, queue,
                       pc, txnVars, progressVars, jobVars>>
    BY DEF IInv, Close
  <1> DEFINE released == {read_rel_version, current_rel_version}
             dead == {a \in released : ref[a] = 1}
             drops(f) == Cardinality({a \in dead : f \in FileIndex[a]})
  <1>2. /\ ref' = [a \in Addr |-> IF a \in released THEN ref[a] - 1 ELSE ref[a]]
        /\ live' = live \ dead
        /\ fref' = [f \in File |-> fref[f] - drops(f)]
        /\ disk' = disk \ {f \in File : drops(f) > 0 /\ fref[f] = drops(f)}
    BY DEF Close
  <1>3. \A f : drops(f) \in Nat
    <2> TAKE f
    <2>1. {a \in dead : f \in FileIndex[a]} \in SUBSET Addr
      BY <1>1 DEF TypeOK
    <2>2. QED
      BY <2>1, ChainAssumption, FS_Subset, FS_CardinalityType
  <1>4. ref' \in [Addr -> Int] /\ live' \subseteq used
    BY <1>1, <1>2 DEF TypeOK
  <1>5. fref' \in [File -> Int] /\ disk' \subseteq File
    <2> HIDE DEF drops
    <2> QED
      BY <1>1, <1>2, <1>3 DEF TypeOK
  <1>6. TypeOK'
    BY <1>1, <1>4, <1>5
    DEF TypeOK, epochVars, fieldVars, pointerVars, txnVars, progressVars, jobVars
  <1>7. QED
    BY <1>1, <1>6 DEF IInv

(* The steps that leave the chain alone, whoever takes them.               *)
Bystander ==
    \/ \E c \in Client :
          \/ TakeEpoch(c) \/ Register(c) \/ BeginReadOnly(c) \/ LoadRead(c)
          \/ AddRefFails(c) \/ EraseEpoch(c)
    \/ \E t \in Thread :
          \/ LookEmpty(t) \/ ReadCounter(t) \/ ReadMinimum(t) \/ LoadTail(t)
          \/ StopAtTail(t) \/ LoadTailNext(t) \/ AdvanceFails(t)
    \/ \E p \in Compactor : TryCompaction(p) \/ StartJob(p) \/ BuildFile(p)

LEMMA BystanderStep ==
  ASSUME IInv, Bystander
  PROVE  TypeOK' /\ ~closed' /\ Open' /\ Untouched
  <1>1. TypeOK
    BY DEF IInv
  <1>2. TypeOK' /\ ~closed /\ ~closed' /\ Untouched /\ ThreadInv'
    <2>1. ASSUME NEW c \in Client,
                 \/ TakeEpoch(c) \/ Register(c) \/ BeginReadOnly(c)
                 \/ LoadRead(c) \/ AddRefFails(c) \/ EraseEpoch(c)
          PROVE  TypeOK' /\ ~closed /\ ~closed' /\ Untouched /\ ThreadInv'
      BY <1>1, <2>1, ClientTypes, ClientUntouched
    <2>2. ASSUME NEW t \in Thread, LoadTailNext(t)
          PROVE  TypeOK' /\ ~closed /\ ~closed' /\ Untouched /\ ThreadInv'
      BY <2>2, LoadTailNextTypes, ProgressUntouched
    <2>3. ASSUME NEW t \in Thread,
                 \/ LookEmpty(t) \/ ReadCounter(t) \/ ReadMinimum(t)
                 \/ LoadTail(t) \/ StopAtTail(t) \/ AdvanceFails(t)
          PROVE  TypeOK' /\ ~closed /\ ~closed' /\ Untouched /\ ThreadInv'
      BY <1>1, <2>3, ProgressTypes, ProgressUntouched
    <2>4. ASSUME NEW p \in Compactor,
                 TryCompaction(p) \/ StartJob(p) \/ BuildFile(p)
          PROVE  TypeOK' /\ ~closed /\ ~closed' /\ Untouched /\ ThreadInv'
      BY <1>1, <2>4, CompactorTypes, CompactorUntouched
    <2>5. QED
      BY <2>1, <2>2, <2>3, <2>4 DEF Bystander
  <1>3. ChainInv /\ CountInv /\ LiveInv
    BY <1>2 DEF IInv, Open
  <1>4. QED
    BY <1>2, <1>3, UntouchedInv DEF Open

LEMMA InvStep == ~Reuse /\ IInv /\ [Next]_vars => IInv'
  <1> SUFFICES ASSUME ~Reuse, IInv, [Next]_vars PROVE IInv'
    OBVIOUS
  <1>1. CASE Bystander
    BY <1>1, BystanderStep DEF IInv
  <1>2. ASSUME NEW c \in Client, AddRefSucceeds(c) \/ EndTransaction(c)
        PROVE  IInv'
    BY <1>2, AddRefStep, EndStep DEF IInv
  <1>3. ASSUME NEW t \in Thread, AdvanceRead(t) \/ DropTail(t) PROVE IInv'
    BY <1>3, AdvanceStep, DropStep DEF IInv
  <1>4. ASSUME NEW p \in Compactor, Install(p) PROVE IInv'
    BY <1>4, InstallStep DEF IInv
  <1>5. CASE Close
    BY <1>5, CloseStep
  <1>6. CASE UNCHANGED vars
    <2>1. TypeOK' /\ Untouched /\ UNCHANGED <<closed, pc>>
      BY <1>6 DEF vars, IInv, TypeOK, Untouched, epochVars, versionVars,
                  fieldVars, pointerVars, fileVars, txnVars, progressVars,
                  jobVars
    <2>2. CASE closed
      BY <2>1, <2>2 DEF IInv
    <2>3. CASE ~closed
      <3>1. ThreadInv'
        BY <1>6, <2>3 DEF IInv, Open, ThreadInv, vars, versionVars, fieldVars,
                          pointerVars, txnVars, progressVars
      <3>2. QED
        BY <2>1, <2>3, <3>1, UntouchedInv DEF IInv, Open
    <2>4. QED
      BY <2>2, <2>3
  <1>7. QED
    BY <1>1, <1>2, <1>3, <1>4, <1>5, <1>6
    DEF Next, ClientStep, BeginStep, ProgressStep, CompactorStep, Bystander

THEOREM Invariance == ASSUME ~Reuse PROVE Spec => []IInv
  <1>1. Init => IInv
    BY InitInv
  <1>2. IInv /\ [Next]_vars => IInv'
    BY InvStep
  <1>3. QED
    BY <1>1, <1>2, PTL DEF Spec

(* The type invariant.                                                     *)
THEOREM TypeCorrect == ASSUME ~Reuse PROVE Spec => []TypeOK
  <1>1. IInv => TypeOK
    BY DEF IInv
  <1>2. QED
    BY <1>1, Invariance, PTL

(* A version's count is the number of those who rely on it.                *)
THEOREM CountsAreExact == ASSUME ~Reuse PROVE Spec => []RefExact
  <1>1. IInv => RefExact
    <2> SUFFICES ASSUME IInv, ~closed, NEW a \in live
                 PROVE  ref[a] = (IF InChain(a) THEN 1 ELSE 0)
                                 + (IF a = V0 THEN 1 ELSE 0)
                                 + Cardinality(Pins(a)) + Cardinality(Drops(a))
      BY DEF RefExact
    <2>1. a \in used /\ CountInv
      BY DEF IInv, Open, TypeOK
    <2>2. QED
      BY <2>1 DEF CountInv, ChainCount, LeakCount, InChain
  <1>2. QED
    BY <1>1, Invariance, PTL

(* No version in use has been deleted.                                     *)
THEOREM NothingDangles == ASSUME ~Reuse PROVE Spec => []NoDangling
  <1>1. IInv => NoDangling
    <2> SUFFICES ASSUME IInv, ~closed
                 PROVE  /\ {read_rel_version, current_rel_version} \subseteq live
                        /\ \A a \in Addr : Pins(a) \cup Drops(a) # {} => a \in live
      BY DEF NoDangling
    <2>1. Open /\ TypeOK
      BY DEF IInv
    <2>2. ASSUME NEW a \in used, ChainCount(a) = 1 PROVE a \in live
      <3>1. ref[a] > 0
        BY <2>1, <2>2, CountsFinite DEF Open, CountInv, LeakCount
      <3>2. QED
        BY <2>1, <3>1 DEF Open, LiveInv, TypeOK
    <2>3. /\ read_rel_version \in used /\ current_rel_version \in used
          /\ ChainCount(read_rel_version) = 1
          /\ ChainCount(current_rel_version) = 1
      BY <2>1 DEF Open, ChainInv, ChainCount, TypeOK
    <2>4. ASSUME NEW a \in Addr, Pins(a) \cup Drops(a) # {} PROVE a \in live
      <3>1. a \in used
        BY <2>1, <2>4 DEF Open, ThreadInv, Pins, Drops, Thread
      <3>2. ref[a] > 0
        BY <2>1, <2>4, <3>1, CountPositive
      <3>3. QED
        BY <2>1, <3>1, <3>2 DEF Open, LiveInv
    <2>5. QED
      BY <2>2, <2>3, <2>4
  <1>2. QED
    BY <1>1, Invariance, PTL

(* The version transactions read moves forward, one version at a time.     *)
THEOREM ReadIsMonotone == ASSUME ~Reuse PROVE Spec => ReadMovesForward
  <1> DEFINE Forward == vno'[read_rel_version'] \in
                          {vno[read_rel_version], vno[read_rel_version] + 1}
  <1>1. IInv /\ [Next]_vars => [Forward]_vars
    <2> SUFFICES ASSUME IInv, Next PROVE Forward
      OBVIOUS
    <2>1. CASE Bystander
      BY <2>1, BystanderStep DEF Untouched, pointerVars
    <2>2. ASSUME NEW c \in Client, AddRefSucceeds(c) \/ EndTransaction(c)
          PROVE  Forward
      BY <2>2 DEF AddRefSucceeds, EndTransaction, DecRef, fieldVars, pointerVars
    <2>3. ASSUME NEW t \in Thread, AdvanceRead(t) PROVE Forward
      <3>1. vno' = vno
        BY <2>3 DEF AdvanceRead, versionVars, fieldVars
      <3>2. QED
        BY <2>3, <3>1, AdvanceStep
    <2>4. ASSUME NEW t \in Thread, DropTail(t) PROVE Forward
      BY <2>4 DEF DropTail, DecRef, fieldVars, pointerVars
    <2>5. ASSUME NEW p \in Compactor, Install(p) PROVE Forward
      <3>1. TypeOK /\ read_rel_version \in used
        BY <2>5, BusyIsOpen DEF IInv, Open, ChainInv, Install, Thread
      <3>2. PICK a \in Addr \ used :
              vno' = [vno EXCEPT ![a] = vno[current_rel_version] + 1]
        BY <2>5 DEF Install, FreeAddr
      <3>3. QED
        BY <2>5, <3>1, <3>2 DEF Install, TypeOK
    <2>6. CASE Close
      BY <2>6 DEF Close, fieldVars, pointerVars
    <2>7. QED
      BY <2>1, <2>2, <2>3, <2>4, <2>5, <2>6
      DEF Next, ClientStep, BeginStep, ProgressStep, CompactorStep, Bystander
  <1>2. QED
    BY <1>1, Invariance, PTL DEF Spec, ReadMovesForward

-----------------------------------------------------------------------------
(* No advance of read_rel_version is lost.                                 *)

(* A version's successor is installed with an epoch already handed out,    *)
(* and never with a lesser one than the successors before it.              *)
EpochInv ==
    /\ \A a \in used : epoch[a] < epoch_id
    /\ \A a \in used \ {current_rel_version} :
          next_epoch[a] <= epoch[current_rel_version]
    /\ \A a, b \in used \ {current_rel_version} :
          vno[a] <= vno[b] => next_epoch[a] <= next_epoch[b]

(* An epoch in the table is that of a writer that has not yet erased it.   *)
WriterInv ==
    /\ MAXTIME \notin active
    /\ \A e \in active : \E c \in Thread : write_epoch[c] = e
    /\ \A t \in Thread :
          /\ pc[t] = "taken" => write_epoch[t] # MAXTIME
          /\ pc[t] \notin {"taken", "load", "addref", "active", "erase"}
                => write_epoch[t] = MAXTIME

TailInv ==
    \A t \in Thread : pc[t] = "check" => vno[tail[t]] <= vno[read_rel_version]

(* A thread that will look at read_rel_version again, or that has just     *)
(* looked with a read time that lets it pass the version there.            *)
Hopeful(t) ==
    \/ write_epoch[t] # MAXTIME
    \/ pc[t] \in {"empty", "counter", "cas", "drop"}
    \/ pc[t] \in {"tail", "check"} /\ next_epoch[read_rel_version] < nrt[t]

HopeInv ==
    read_rel_version # current_rel_version => \E t \in Thread : Hopeful(t)

QInv == EpochInv /\ WriterInv /\ TailInv /\ HopeInv

LEMMA InitQuiet == Init => QInv
  BY ChainAssumption DEF Init, QInv, EpochInv, WriterInv, TailInv, HopeInv, Thread

-----------------------------------------------------------------------------
(* A step of t that leaves the chain alone.                                *)
StepOf(t) ==
    /\ UNCHANGED <<used, epoch, next_epoch, vno, pointerVars>>
    /\ epoch_id' \in Int /\ epoch_id <= epoch_id'
    /\ \A u \in Thread \ {t} :
          /\ pc'[u] = pc[u] /\ write_epoch'[u] = write_epoch[u]
          /\ nrt'[u] = nrt[u] /\ tail'[u] = tail[u]

LEMMA StepKeeps ==
  ASSUME TypeOK, QInv, NEW t \in Thread, StepOf(t), WriterInv',
         pc'[t] = "check" => vno[tail'[t]] <= vno[read_rel_version],
         read_rel_version # current_rel_version /\ Hopeful(t)
            => \E u \in Thread : Hopeful(u)'
  PROVE  QInv'
  <1>1. EpochInv'
    BY DEF StepOf, QInv, EpochInv, TypeOK, pointerVars
  <1>2. TailInv'
    BY DEF StepOf, QInv, TailInv, pointerVars
  <1>3. \A u \in Thread \ {t} : Hopeful(u) => Hopeful(u)'
    BY DEF StepOf, Hopeful, pointerVars
  <1>4. HopeInv'
    BY <1>3 DEF StepOf, QInv, HopeInv, pointerVars
  <1>5. QED
    BY <1>1, <1>2, <1>4 DEF QInv

LEMMA TableStep ==
  ASSUME TypeOK, QInv, NEW c \in Client,
         \/ TakeEpoch(c) \/ Register(c) \/ BeginReadOnly(c) \/ LoadRead(c)
         \/ AddRefSucceeds(c) \/ AddRefFails(c) \/ EndTransaction(c) \/ EraseEpoch(c)
  PROVE  QInv'
  <1> c \in Thread
    BY DEF Thread
  <1> USE DEF Goto, epochVars, versionVars, fieldVars, pointerVars, txnVars,
      progressVars, TypeOK
  <1>1. ASSUME TakeEpoch(c) PROVE StepOf(c) /\ WriterInv' /\ pc'[c] = "taken" /\ Hopeful(c)'
    <2>1. /\ StepOf(c) /\ pc'[c] = "taken" /\ pc[c] = "idle"
          /\ write_epoch'[c] = epoch_id /\ epoch_id # MAXTIME /\ active' = active
      BY <1>1, ChainAssumption DEF TakeEpoch, StepOf
    <2>2. \A e \in active' : \E u \in Thread : write_epoch'[u] = e
      BY <2>1 DEF QInv, WriterInv, StepOf
    <2>3. QED
      BY <2>1, <2>2 DEF QInv, WriterInv, StepOf, Hopeful
  <1>2. ASSUME Register(c) PROVE StepOf(c) /\ WriterInv' /\ pc'[c] = "load" /\ Hopeful(c)'
    <2>1. /\ StepOf(c) /\ pc'[c] = "load" /\ pc[c] = "taken"
          /\ write_epoch' = write_epoch /\ active' = active \cup {write_epoch[c]}
      BY <1>2, ChainAssumption DEF Register, StepOf
    <2>2. write_epoch[c] # MAXTIME
      BY <2>1 DEF QInv, WriterInv
    <2>3. \A e \in active' : \E u \in Thread : write_epoch'[u] = e
      BY <2>1 DEF QInv, WriterInv
    <2>4. QED
      BY <2>1, <2>2, <2>3 DEF QInv, WriterInv, StepOf, Hopeful
  <1>3. ASSUME \/ BeginReadOnly(c) \/ LoadRead(c) \/ AddRefSucceeds(c) \/ AddRefFails(c)
        PROVE  /\ StepOf(c) /\ WriterInv' /\ pc'[c] \in {"load", "addref", "active"}
               /\ Hopeful(c) => Hopeful(c)'
    <2>1. /\ StepOf(c) /\ pc'[c] \in {"load", "addref", "active"}
          /\ pc[c] \in {"idle", "load", "addref"}
          /\ write_epoch' = write_epoch /\ active' = active
      BY <1>3, ChainAssumption
      DEF BeginReadOnly, LoadRead, AddRefSucceeds, AddRefFails, StepOf
    <2>2. QED
      BY <2>1 DEF QInv, WriterInv, StepOf, Hopeful
  <1>4. ASSUME EndTransaction(c)
        PROVE  /\ StepOf(c) /\ WriterInv' /\ pc'[c] \in {"idle", "erase"}
               /\ Hopeful(c) => Hopeful(c)'
    <2>1. /\ StepOf(c)
          /\ pc'[c] = (IF write_epoch[c] = MAXTIME THEN "idle" ELSE "erase")
          /\ pc[c] = "active" /\ write_epoch' = write_epoch /\ active' = active
      BY <1>4, ChainAssumption DEF EndTransaction, DecRef, StepOf
    <2>2. QED
      BY <2>1 DEF QInv, WriterInv, StepOf, Hopeful
  <1>5. ASSUME EraseEpoch(c) PROVE StepOf(c) /\ WriterInv' /\ pc'[c] = "empty" /\ Hopeful(c)'
    <2>1. /\ StepOf(c) /\ pc'[c] = "empty" /\ write_epoch'[c] = MAXTIME
          /\ active' = active \ {write_epoch[c]}
      BY <1>5, ChainAssumption DEF EraseEpoch, StepOf
    <2>2. \A e \in active' : \E u \in Thread : write_epoch'[u] = e
      BY <2>1 DEF QInv, WriterInv, StepOf
    <2>3. QED
      BY <2>1, <2>2 DEF QInv, WriterInv, StepOf, Hopeful
  <1>6. QED
    BY <1>1, <1>2, <1>3, <1>4, <1>5, StepKeeps

-----------------------------------------------------------------------------
(* The version threads read is behind the newest: its successor's epoch is *)
(* one handed out.                                                         *)
LEMMA PassableLater ==
  ASSUME TypeOK, Open, EpochInv, read_rel_version # current_rel_version
  PROVE  next_epoch[read_rel_version] < epoch_id
  BY DEF TypeOK, Open, ChainInv, EpochInv, Time

(* A version before it is passed with the same read time.                  *)
LEMMA PassableBefore ==
  ASSUME TypeOK, Open, EpochInv, NEW t \in Thread, tail[t] \in used,
         vno[tail[t]] <= vno[read_rel_version],
         read_rel_version # current_rel_version
  PROVE  /\ next_epoch[tail[t]] # MAXTIME
         /\ next_epoch[tail[t]] <= next_epoch[read_rel_version]
  <1>1. read_rel_version \in used /\ current_rel_version \in used
    BY DEF Open, ChainInv
  <1>2. \A a \in used : vno[a] \in Nat
    BY DEF TypeOK
  <1>3. vno[read_rel_version] < vno[current_rel_version]
    BY <1>1, <1>2 DEF Open, ChainInv
  <1>4. tail[t] # current_rel_version
    BY <1>1, <1>2, <1>3
  <1>5. QED
    BY <1>1, <1>4 DEF TypeOK, EpochInv, Time

LEMMA LoopStep ==
  ASSUME IInv, QInv, NEW t \in Thread,
         \/ LookEmpty(t) \/ ReadCounter(t) \/ ReadMinimum(t) \/ LoadTail(t)
         \/ StopAtTail(t) \/ LoadTailNext(t) \/ AdvanceFails(t) \/ DropTail(t)
  PROVE  QInv'
  <1>1. TypeOK /\ Open /\ ~closed
    BY BusyIsOpen DEF IInv, LookEmpty, ReadCounter, ReadMinimum, LoadTail,
       StopAtTail, LoadTailNext, AdvanceFails, DropTail
  <1> USE DEF Goto, epochVars, versionVars, fieldVars, pointerVars, txnVars,
      progressVars, LeaveProgress
  <1>2. StepOf(t)
    <2>1. CASE LookEmpty(t) \/ ReadCounter(t) \/ ReadMinimum(t) \/ LoadTail(t)
      BY <1>1, <2>1, ChainAssumption
      DEF StepOf, TypeOK, LookEmpty, ReadCounter, ReadMinimum, LoadTail
    <2>2. CASE StopAtTail(t) \/ LoadTailNext(t) \/ AdvanceFails(t)
      BY <1>1, <2>2, ChainAssumption
      DEF StepOf, TypeOK, StopAtTail, LoadTailNext, AdvanceFails
    <2>3. CASE DropTail(t)
      BY <1>1, <2>3, ChainAssumption DEF StepOf, TypeOK, DropTail, DecRef
    <2>4. QED
      BY <2>1, <2>2, <2>3
  <1>3. /\ UNCHANGED <<active, write_epoch>>
        /\ pc[t] \in {"empty", "counter", "min", "tail", "check", "cas", "drop"}
        /\ pc'[t] \in {"counter", "min", "tail", "check", "idle", "cas", "empty"}
    <2>1. CASE LookEmpty(t)
      BY <1>1, <2>1 DEF TypeOK, LookEmpty
    <2>2. CASE ~LookEmpty(t)
      BY <1>1, <2>2 DEF TypeOK, ReadCounter, ReadMinimum, LoadTail, StopAtTail,
         LoadTailNext, AdvanceFails, DropTail
    <2>3. QED
      BY <2>1, <2>2
  <1>4. WriterInv'
    BY <1>2, <1>3 DEF QInv, WriterInv, StepOf
  <1>5. pc'[t] = "check" => vno[tail'[t]] <= vno[read_rel_version]
    <2>1. CASE LoadTail(t)
      BY <1>1, <2>1 DEF LoadTail, TypeOK
    <2>2. CASE LookEmpty(t)
      BY <1>1, <2>2 DEF LookEmpty, TypeOK
    <2>3. CASE ~LoadTail(t) /\ ~LookEmpty(t)
      BY <1>1, <2>3 DEF TypeOK, ReadCounter, ReadMinimum, StopAtTail,
         LoadTailNext, AdvanceFails, DropTail
    <2>4. QED
      BY <2>1, <2>2, <2>3
  <1>6. write_epoch[t] = MAXTIME
    BY <1>3 DEF QInv, WriterInv
  <1>7. read_rel_version # current_rel_version /\ Hopeful(t)
          => \E u \in Thread : Hopeful(u)'
    <2> SUFFICES ASSUME read_rel_version # current_rel_version, Hopeful(t)
                 PROVE  \E u \in Thread : Hopeful(u)'
      OBVIOUS
    <2> USE <1>1, <1>2, <1>6
    <2>1. CASE LookEmpty(t)
      <3>1. CASE active = {}
        BY <2>1, <3>1 DEF LookEmpty, TypeOK, Hopeful
      <3>2. CASE active # {}
        <4>1. PICK e \in active : TRUE
          BY <3>2
        <4>2. PICK c \in Thread : write_epoch[c] = e
          BY <4>1 DEF QInv, WriterInv
        <4>3. write_epoch'[c] # MAXTIME
          BY <1>3, <4>1, <4>2 DEF QInv, WriterInv
        <4>4. QED
          BY <4>3 DEF Hopeful
      <3>3. QED
        BY <3>1, <3>2
    <2>2. CASE ReadCounter(t)
      BY <2>2, PassableLater DEF ReadCounter, TypeOK, Hopeful, QInv
    <2>3. CASE ReadMinimum(t)
      BY <2>3 DEF ReadMinimum, Hopeful
    <2>4. CASE LoadTail(t)
      BY <2>4 DEF LoadTail, TypeOK, Hopeful
    <2>5. CASE StopAtTail(t)
      <3>1. /\ pc[t] = "check" /\ next_epoch[read_rel_version] < nrt[t]
            /\ next_epoch[tail[t]] = MAXTIME \/ next_epoch[tail[t]] >= nrt[t]
        BY <2>5 DEF StopAtTail, Hopeful
      <3>2. tail[t] \in used /\ vno[tail[t]] <= vno[read_rel_version]
        BY <3>1 DEF Open, ThreadInv, QInv, TailInv
      <3>3. /\ next_epoch[tail[t]] # MAXTIME
            /\ next_epoch[tail[t]] <= next_epoch[read_rel_version]
        BY <3>2, PassableBefore DEF QInv
      <3>4. /\ next_epoch[tail[t]] \in Int /\ next_epoch[read_rel_version] \in Int
            /\ nrt[t] \in Int
        BY <3>2, ChainAssumption DEF TypeOK, Time
      <3>5. QED
        BY <3>1, <3>3, <3>4
    <2>6. CASE LoadTailNext(t) \/ AdvanceFails(t)
      BY <2>6 DEF LoadTailNext, AdvanceFails, TypeOK, Hopeful
    <2>7. CASE DropTail(t)
      BY <2>7 DEF DropTail, TypeOK, Hopeful
    <2>8. QED
      BY <2>1, <2>2, <2>3, <2>4, <2>5, <2>6, <2>7
  <1>8. QED
    BY <1>1, <1>2, <1>4, <1>5, <1>7, StepKeeps

LEMMA JobStep ==
  ASSUME TypeOK, QInv, NEW p \in Compactor,
         TryCompaction(p) \/ StartJob(p) \/ BuildFile(p)
  PROVE  QInv'
  <1> p \in Thread
    BY DEF Thread
  <1> USE DEF Goto, epochVars, versionVars, fieldVars, pointerVars, txnVars,
      progressVars, TypeOK
  <1>1. /\ StepOf(p) /\ pc[p] \in {"idle", "work"}
        /\ pc'[p] \in {"idle", "work", "install"}
        /\ UNCHANGED <<active, write_epoch>>
    <2>1. CASE TryCompaction(p)
      BY <2>1, ChainAssumption DEF TryCompaction, StepOf
    <2>2. CASE StartJob(p)
      BY <2>2, ChainAssumption DEF StartJob, StepOf
    <2>3. CASE BuildFile(p)
      BY <2>3, ChainAssumption DEF BuildFile, StepOf
    <2>4. QED
      BY <2>1, <2>2, <2>3
  <1>2. WriterInv' /\ (Hopeful(p) => Hopeful(p)')
    BY <1>1 DEF QInv, WriterInv, StepOf, Hopeful
  <1>3. QED
    BY <1>1, <1>2, StepKeeps

LEMMA AdvanceQuiet ==
  ASSUME IInv, QInv, NEW t \in Thread, AdvanceRead(t)
  PROVE  QInv'
  <1>1. /\ TypeOK /\ Open /\ TypeOK' /\ pc[t] = "cas" /\ pc'[t] = "drop"
        /\ vno[read_rel_version'] = vno[read_rel_version] + 1
        /\ \A u \in Thread \ {t} : pc'[u] = pc[u]
        /\ UNCHANGED <<epochVars, versionVars, current_rel_version, txnVars, progressVars>>
    BY AdvanceStep, BusyIsOpen DEF AdvanceRead, Goto, TypeOK, IInv
  <1>2. EpochInv' /\ WriterInv'
    BY <1>1 DEF QInv, EpochInv, WriterInv, epochVars, versionVars, fieldVars, txnVars
  <1>3. TailInv'
    <2> SUFFICES ASSUME NEW u \in Thread, pc'[u] = "check"
                 PROVE  vno[tail[u]] <= vno[read_rel_version']
      BY <1>1 DEF TailInv, versionVars, fieldVars, progressVars
    <2>1. pc[u] = "check" /\ tail[u] \in used
      BY <1>1 DEF Open, ThreadInv
    <2>2. vno[tail[u]] <= vno[read_rel_version]
      BY <2>1 DEF QInv, TailInv
    <2>3. vno[tail[u]] \in Nat /\ vno[read_rel_version] \in Nat
      BY <1>1, <2>1 DEF TypeOK
    <2>4. QED
      BY <1>1, <2>2, <2>3
  <1>4. HopeInv'
    BY <1>1 DEF HopeInv, Hopeful
  <1>5. QED
    BY <1>2, <1>3, <1>4 DEF QInv

LEMMA InstallQuiet ==
  ASSUME ~Reuse, IInv, QInv, NEW p \in Compactor, Install(p)
  PROVE  QInv'
  <1> DEFINE cur == current_rel_version
  <1>1. ~closed /\ Open /\ TypeOK /\ pc[p] = "install" /\ p \in Thread
    BY BusyIsOpen DEF IInv, Install, Thread
  <1>2. cur \in used /\ cur \in Addr /\ \A b \in used : b \in Addr
    BY <1>1 DEF Open, ChainInv, TypeOK
  <1>3. PICK a \in Addr \ used,
             time \in IF job[p] = {} THEN 1 .. epoch_id - 1 ELSE {0} :
          LET e == LaterOf(epoch[cur], time)
          IN  /\ used' = used \cup {a}
              /\ epoch' = [epoch EXCEPT ![a] = e]
              /\ next_epoch' = [next_epoch EXCEPT ![a] = MAXTIME, ![cur] = e]
              /\ vno' = [vno EXCEPT ![a] = vno[cur] + 1]
              /\ current_rel_version' = a
    BY DEF Install, FreeAddr
  <1> DEFINE e == LaterOf(epoch[cur], time)
  <1>4. /\ epoch_id \in Int /\ epoch[cur] \in Int /\ time \in Int
        /\ epoch[cur] < epoch_id /\ time < epoch_id
    BY <1>1, <1>2, <1>3, ChainAssumption DEF TypeOK, QInv, EpochInv
  <1>5. e \in Int /\ e < epoch_id /\ epoch[cur] <= e
    BY <1>4 DEF LaterOf
  <1>6. /\ a # cur /\ a \notin used
        /\ epoch'[a] = e /\ \A b \in used : epoch'[b] = epoch[b]
        /\ next_epoch'[cur] = e
        /\ \A b \in used \ {cur} : next_epoch'[b] = next_epoch[b]
        /\ \A b \in used : vno'[b] = vno[b]
        /\ current_rel_version' = a /\ used' = used \cup {a}
    BY <1>1, <1>2, <1>3 DEF TypeOK
  <1> HIDE DEF e
  <1>7. /\ pc'[p] = "empty" /\ \A t \in Thread \ {p} : pc'[t] = pc[t]
        /\ UNCHANGED <<epoch_id, active, read_rel_version, write_epoch, nrt, tail>>
    BY <1>1 DEF Install, TypeOK, Goto, epochVars, txnVars, progressVars
  <1>8. EpochInv'
    <2>1. \A b \in used' : epoch'[b] < epoch_id'
      BY <1>5, <1>6, <1>7 DEF QInv, EpochInv
    <2>2. \A b \in used : next_epoch'[b] <= e
      <3>1. ASSUME NEW b \in used, b # cur PROVE next_epoch[b] <= e
        <4>1. next_epoch[b] <= epoch[cur] /\ next_epoch[b] \in Int
          BY <1>1, <1>2, <3>1 DEF QInv, EpochInv, TypeOK, Time
        <4>2. QED
          BY <1>4, <1>5, <4>1
      <3>2. QED
        BY <1>5, <1>6, <3>1
    <2>3. ASSUME NEW b \in used, NEW d \in used, vno[b] <= vno[d]
          PROVE  next_epoch'[b] <= next_epoch'[d]
      <3>1. CASE d = cur
        BY <1>6, <2>2, <3>1
      <3>2. CASE b = cur /\ d # cur
        <4>1. vno[b] = vno[d]
          BY <1>1, <1>2, <2>3, <3>2 DEF Open, ChainInv, TypeOK
        <4>2. QED
          BY <1>1, <3>2, <4>1 DEF Open, ChainInv
      <3>3. CASE b # cur /\ d # cur
        BY <1>6, <2>3, <3>3 DEF QInv, EpochInv
      <3>4. QED
        BY <3>1, <3>2, <3>3
    <2>4. QED
      BY <1>6, <2>1, <2>2, <2>3 DEF EpochInv
  <1>9. WriterInv'
    BY <1>1, <1>7 DEF QInv, WriterInv
  <1>10. TailInv'
    BY <1>1, <1>6, <1>7 DEF QInv, TailInv, Open, ThreadInv, ChainInv
  <1>11. HopeInv'
    BY <1>1, <1>7 DEF HopeInv, Hopeful
  <1>12. QED
    BY <1>8, <1>9, <1>10, <1>11 DEF QInv

LEMMA SameQuiet ==
  ASSUME QInv, UNCHANGED <<epochVars, used, fieldVars, pointerVars, pc, txnVars, progressVars>>
  PROVE  QInv'
  BY DEF QInv, EpochInv, WriterInv, TailInv, HopeInv, Hopeful, epochVars,
     fieldVars, pointerVars, txnVars, progressVars

LEMMA QuietStep == ~Reuse /\ IInv /\ QInv /\ [Next]_vars => QInv'
  <1> SUFFICES ASSUME ~Reuse, IInv, QInv, [Next]_vars PROVE QInv'
    OBVIOUS
  <1>1. TypeOK
    BY DEF IInv
  <1>2. ASSUME NEW c \in Client, ClientStep(c) PROVE QInv'
    BY <1>1, <1>2, TableStep DEF ClientStep, BeginStep
  <1>3. ASSUME NEW t \in Thread, ProgressStep(t) PROVE QInv'
    BY <1>3, LoopStep, AdvanceQuiet DEF ProgressStep
  <1>4. ASSUME NEW p \in Compactor, CompactorStep(p) PROVE QInv'
    BY <1>1, <1>4, JobStep, InstallQuiet DEF CompactorStep
  <1>5. CASE Close \/ UNCHANGED vars
    BY <1>5, SameQuiet DEF Close, vars, versionVars
  <1>6. QED
    BY <1>2, <1>3, <1>4, <1>5 DEF Next

LEMMA QuietFollows == TypeOK /\ QInv => QuietReadIsCurrent
  BY DEF QInv, HopeInv, Hopeful, QuietReadIsCurrent

(* No advance is lost: although every thread that runs                     *)
(* ProgressReadRelVersion leaves it on an old read time or a failed        *)
(* compare-and-swap, one that will look again is always left as long as    *)
(* read_rel_version is behind.                                             *)
THEOREM NoAdvanceLost == ASSUME ~Reuse PROVE Spec => []QuietReadIsCurrent
  <1>1. Init => IInv /\ QInv
    BY InitInv, InitQuiet
  <1>2. IInv /\ QInv /\ [Next]_vars => (IInv /\ QInv)'
    BY InvStep, QuietStep
  <1>3. IInv /\ QInv => QuietReadIsCurrent
    BY QuietFollows DEF IInv
  <1>4. QED
    BY <1>1, <1>2, <1>3, PTL DEF Spec

-----------------------------------------------------------------------------
(* The files of the versions.                                              *)

Holders(f) == {a \in live : f \in FileIndex[a]}

(* A file's count is the number of versions alive that list it.            *)
FileCountInv == \A f \in File : fref[f] = Cardinality(Holders(f))

(* The files on disk are those of the versions alive and the outputs.      *)
DiskInv ==
    /\ \A a \in live : FileIndex[a] \subseteq disk
    /\ \A f \in disk : Holders(f) # {} \/ \E p \in Compactor : f \in file_id[p]
    /\ FileIndex[V0] = {}

(* The inputs of the compactions queued and running are files of the       *)
(* current version, marked, and no two compactions share one.              *)
InputInv ==
    /\ \A S \in queue : S \subseteq FileIndex[current_rel_version] \cap merging
    /\ \A p \in Compactor :
          job[p] \subseteq FileIndex[current_rel_version] \cap merging
    /\ \A S \in queue, p \in Compactor : S \cap job[p] = {}
    /\ \A S, T \in queue : S = T \/ S \cap T = {}
    /\ \A p, q \in Compactor : p = q \/ job[p] \cap job[q] = {}

(* An output is nobody else's file, and written before it is installed.    *)
OutputInv ==
    /\ \A p \in Compactor :
          /\ pc[p] \notin {"work", "install"} => job[p] = {} /\ file_id[p] = {}
          /\ pc[p] = "work" => file_id[p] \cap disk = {}
          /\ pc[p] = "install" => file_id[p] \subseteq disk
          /\ \A a \in live : file_id[p] \cap FileIndex[a] = {}
    /\ \A p, q \in Compactor : p = q \/ file_id[p] \cap file_id[q] = {}

FInv == FileCountInv /\ DiskInv /\ InputInv /\ OutputInv

AllInv ==
    /\ IInv /\ QInv
    /\ ~closed => FInv
    /\ closed => live = {V0} /\ disk = {}

LEMMA HoldersFinite ==
  ASSUME TypeOK
  PROVE  \A f : /\ Holders(f) \subseteq Addr /\ IsFiniteSet(Holders(f))
                /\ Cardinality(Holders(f)) \in Nat
  <1> TAKE f
  <1>1. Holders(f) \subseteq Addr
    BY DEF TypeOK, Holders
  <1>2. IsFiniteSet(Holders(f))
    BY <1>1, ChainAssumption, FS_Subset
  <1>3. QED
    BY <1>1, <1>2, FS_CardinalityType

LEMMA CurrentAlive ==
  ASSUME TypeOK, Open
  PROVE  current_rel_version \in live
  <1> DEFINE cur == current_rel_version
  <1>1. cur \in used /\ read_rel_version \in used /\ cur \in Addr
    BY DEF Open, ChainInv, TypeOK
  <1>2. ChainCount(cur) = 1
    BY <1>1 DEF Open, ChainInv, ChainCount
  <1>3. ref[cur] = 1 + LeakCount(cur) + Cardinality(Pins(cur))
                     + Cardinality(Drops(cur))
    BY <1>1, <1>2 DEF Open, CountInv
  <1>4. LeakCount(cur) \in Nat
    BY DEF LeakCount
  <1>5. ref[cur] # 0
    BY <1>3, <1>4, CountsFinite
  <1>6. QED
    BY <1>1, <1>5 DEF Open, LiveInv

LEMMA InitFiles == Init => AllInv
  <1> SUFFICES ASSUME Init PROVE FInv
    BY InitInv, InitQuiet DEF Init, AllInv
  <1> USE ChainAssumption DEF Init
  <1>1. \A f \in File : Holders(f) = {}
    BY DEF Holders
  <1>2. FileCountInv
    BY <1>1, FS_EmptySet DEF FileCountInv
  <1>3. DiskInv /\ InputInv /\ OutputInv
    BY DEF DiskInv, InputInv, OutputInv, Thread
  <1>4. QED
    BY <1>2, <1>3 DEF FInv

-----------------------------------------------------------------------------
(* Steps that leave the files alone.                                       *)
SameFiles ==
    /\ UNCHANGED <<live, FileIndex, current_rel_version, fileVars, jobVars>>
    /\ \A p \in Compactor :
          pc'[p] = pc[p] \/ {pc[p], pc'[p]} \cap {"work", "install"} = {}

LEMMA SameFilesKept ==
  ASSUME FInv, SameFiles
  PROVE  FInv'
  <1>1. \A f : Holders(f)' = Holders(f)
    BY DEF SameFiles, Holders
  <1>2. FileCountInv' /\ DiskInv' /\ InputInv'
    BY <1>1 DEF FInv, SameFiles, FileCountInv, DiskInv, InputInv, fileVars, jobVars
  <1>3. OutputInv'
    BY DEF FInv, SameFiles, OutputInv, fileVars, jobVars
  <1>4. QED
    BY <1>2, <1>3 DEF FInv

(* The last reference to a version takes with it the files it alone lists. *)
LEMMA DecRefFiles ==
  ASSUME TypeOK, LiveInv, FInv, NEW a \in used, DecRef(a),
         UNCHANGED <<current_rel_version, jobVars>>,
         \A p \in Compactor :
            pc'[p] = pc[p] \/ {pc[p], pc'[p]} \cap {"work", "install"} = {}
  PROVE  FInv'
  <1> USE DEF fieldVars, jobVars
  <1>1. CASE ref[a] # 1
    <2>1. SameFiles
      BY <1>1 DEF DecRef, SameFiles, fileVars
    <2>2. QED
      BY <2>1, SameFilesKept
  <1>2. CASE ref[a] = 1
    <2>1. /\ a \in live /\ live' = live \ {a}
          /\ fref' = [f \in File |-> fref[f] - (IF f \in FileIndex[a] THEN 1 ELSE 0)]
          /\ disk' = disk \ {f \in FileIndex[a] : fref[f] = 1}
          /\ UNCHANGED <<FileIndex, merging, queue>>
      BY <1>2 DEF DecRef, LiveInv, TypeOK
    <2>2. \A f \in File : Holders(f)' = Holders(f) \ {a}
                          /\ (a \in Holders(f) <=> f \in FileIndex[a])
      BY <2>1 DEF Holders
    <2>3. FileCountInv'
      <3> SUFFICES ASSUME NEW f \in File
                   PROVE  fref'[f] = Cardinality(Holders(f)')
        BY DEF FileCountInv
      <3>1. fref[f] = Cardinality(Holders(f)) /\ fref[f] \in Int
        BY DEF FInv, FileCountInv, TypeOK
      <3>2. CASE f \in FileIndex[a]
        <4>1. Cardinality(Holders(f) \ {a}) = Cardinality(Holders(f)) - 1
          BY <2>2, <3>2, HoldersFinite, FS_RemoveElement
        <4>2. QED
          BY <2>1, <2>2, <3>1, <3>2, <4>1
      <3>3. CASE f \notin FileIndex[a]
        <4>1. Holders(f)' = Holders(f)
          BY <2>2, <3>3
        <4>2. QED
          BY <2>1, <3>1, <3>3, <4>1
      <3>4. QED
        BY <3>2, <3>3
    <2>4. ASSUME NEW f \in File, f \in FileIndex[a], fref[f] = 1
          PROVE  Holders(f) = {a}
      <3>1. Cardinality(Holders(f)) = 1 /\ a \in Holders(f)
        BY <2>2, <2>4 DEF FInv, FileCountInv
      <3>2. Cardinality(Holders(f) \ {a}) = Cardinality(Holders(f)) - 1
        BY <3>1, HoldersFinite, FS_RemoveElement
      <3>3. Cardinality(Holders(f) \ {a}) = 0
        BY <3>1, <3>2
      <3>4. Holders(f) \ {a} = {}
        BY <3>3, HoldersFinite, FS_Subset, FS_EmptySet
      <3>5. QED
        BY <3>1, <3>4
    <2>5. ASSUME NEW f \in File, f \in FileIndex[a], Holders(f) \ {a} = {}
          PROVE  fref[f] = 1
      <3>1. Holders(f) = {a}
        BY <2>2, <2>5
      <3>2. QED
        BY <3>1, FS_Singleton DEF FInv, FileCountInv
    <2>6. /\ \A b \in live : FileIndex[b] \subseteq File
          /\ disk \subseteq File /\ a \in Addr
      BY DEF TypeOK
    <2>7. DiskInv'
      <3>1. ASSUME NEW b \in live', NEW f \in FileIndex[b]
            PROVE  f \in disk'
        <4>1. f \in disk /\ b # a /\ b \in Holders(f) /\ f \in File
          BY <2>1, <2>6 DEF FInv, DiskInv, Holders
        <4>2. QED
          BY <2>1, <2>4, <4>1
      <3>2. ASSUME NEW f \in disk'
            PROVE  Holders(f)' # {} \/ \E p \in Compactor : f \in file_id'[p]
        <4>1. f \in disk /\ f \in File /\ ~(f \in FileIndex[a] /\ fref[f] = 1)
          BY <2>1, <2>6
        <4>2. Holders(f) # {} \/ \E p \in Compactor : f \in file_id[p]
          BY <4>1 DEF FInv, DiskInv
        <4>3. Holders(f) # {} => Holders(f) \ {a} # {}
          BY <2>2, <2>5, <4>1
        <4>4. QED
          BY <2>2, <4>1, <4>2, <4>3
      <3>3. QED
        BY <2>1, <3>1, <3>2 DEF FInv, DiskInv
    <2>8. InputInv'
      BY <2>1 DEF FInv, InputInv
    <2>9. OutputInv'
      <3>1. \A p \in Compactor, b \in live : file_id[p] \cap FileIndex[b] = {}
        BY DEF FInv, OutputInv
      <3>2. \A p \in Compactor : file_id[p] \subseteq disk => file_id[p] \subseteq disk'
        BY <2>1, <3>1
      <3>3. QED
        BY <2>1, <3>1, <3>2 DEF FInv, OutputInv
    <2>10. QED
      BY <2>3, <2>7, <2>8, <2>9 DEF FInv
  <1>3. QED
    BY <1>1, <1>2

-----------------------------------------------------------------------------
LEMMA TryFiles ==
  ASSUME TypeOK, FInv, NEW p \in Compactor, TryCompaction(p)
  PROVE  FInv'
  <1> USE DEF versionVars, fieldVars, pointerVars, jobVars
  <1>1. PICK S \in SUBSET FileIndex[current_rel_version] :
           Picks(FileIndex[current_rel_version], S)
    BY DEF TryCompaction
  <1>2. UNCHANGED <<live, FileIndex, current_rel_version, fref, disk, pc, job, file_id>>
    BY DEF TryCompaction
  <1>3. \A f : Holders(f)' = Holders(f)
    BY <1>2 DEF Holders
  <1>4. FileCountInv' /\ DiskInv' /\ OutputInv'
    BY <1>2, <1>3 DEF FInv, FileCountInv, DiskInv, OutputInv
  <1>5. /\ merging' = merging \cup S /\ S \cap merging = {}
        /\ queue' \subseteq queue \cup {S}
    BY <1>1 DEF Picks
  <1>6. InputInv'
    BY <1>2, <1>5 DEF FInv, InputInv
  <1>7. QED
    BY <1>4, <1>6 DEF FInv

LEMMA StartFiles ==
  ASSUME TypeOK, FInv, NEW p \in Compactor, StartJob(p)
  PROVE  FInv'
  <1> USE DEF versionVars, fieldVars, pointerVars, jobVars
  <1>1. PICK S \in queue \cup {{}}, f \in FreshFile :
          /\ queue' = queue \ {S}
          /\ job' = [job EXCEPT ![p] = S]
          /\ file_id' = [file_id EXCEPT ![p] = {f}]
    BY DEF StartJob
  <1>2. /\ UNCHANGED <<live, FileIndex, current_rel_version, fref, disk, merging>>
        /\ pc'[p] = "work" /\ pc[p] = "idle" /\ p \in Thread
        /\ \A q \in Compactor \ {p} : pc'[q] = pc[q]
    BY DEF StartJob, Goto, TypeOK, Thread
  <1>3. /\ job'[p] = S /\ file_id'[p] = {f}
        /\ \A q \in Compactor \ {p} : job'[q] = job[q] /\ file_id'[q] = file_id[q]
    BY <1>1, <1>2 DEF TypeOK, Thread
  <1>4. /\ f \notin disk /\ \A q \in Compactor : f \notin file_id[q]
        /\ file_id[p] = {} /\ job[p] = {}
    BY <1>2 DEF FreshFile, FInv, OutputInv, Thread
  <1>5. \A g : Holders(g)' = Holders(g)
    BY <1>2 DEF Holders
  <1>6. FileCountInv'
    BY <1>2, <1>5 DEF FInv, FileCountInv
  <1>7. DiskInv'
    BY <1>2, <1>3, <1>4, <1>5 DEF FInv, DiskInv
  <1>8. InputInv'
    BY <1>1, <1>2, <1>3 DEF FInv, InputInv
  <1>9. OutputInv'
    <2>1. \A a \in live : f \notin FileIndex[a]
      BY <1>4 DEF FInv, DiskInv
    <2>2. QED
      BY <1>2, <1>3, <1>4, <2>1 DEF FInv, OutputInv
  <1>10. QED
    BY <1>6, <1>7, <1>8, <1>9 DEF FInv

LEMMA BuildFiles ==
  ASSUME TypeOK, FInv, NEW p \in Compactor, BuildFile(p)
  PROVE  FInv'
  <1> USE DEF versionVars, fieldVars, pointerVars, jobVars
  <1>1. /\ UNCHANGED <<live, FileIndex, current_rel_version, fref, merging, queue,
                       job, file_id>>
        /\ pc[p] = "work" /\ pc'[p] = "install" /\ disk' = disk \cup file_id[p]
        /\ \A q \in Compactor \ {p} : pc'[q] = pc[q]
    BY DEF BuildFile, Goto, TypeOK, Thread
  <1>2. \A g : Holders(g)' = Holders(g)
    BY <1>1 DEF Holders
  <1>3. FileCountInv' /\ InputInv'
    BY <1>1, <1>2 DEF FInv, FileCountInv, InputInv
  <1>4. DiskInv'
    BY <1>1, <1>2 DEF FInv, DiskInv
  <1>5. OutputInv'
    BY <1>1 DEF FInv, OutputInv
  <1>6. QED
    BY <1>3, <1>4, <1>5 DEF FInv

LEMMA InstallFiles ==
  ASSUME ~Reuse, TypeOK, Open, FInv, NEW p \in Compactor, Install(p)
  PROVE  FInv'
  <1> DEFINE cur == current_rel_version
             listed == (FileIndex[cur] \ job[p]) \cup file_id[p]
  <1>1. PICK a \in Addr \ used, S \in SUBSET File :
          /\ live' = live \cup {a}
          /\ FileIndex' = [FileIndex EXCEPT ![a] = listed]
          /\ fref' = [f \in File |-> fref[f] + (IF f \in listed THEN 1 ELSE 0)]
          /\ current_rel_version' = a
          /\ Picks(listed, S)
    BY DEF Install, FreeAddr, Counted
  <1>2. /\ cur \in live /\ a \notin live /\ live \subseteq Addr
        /\ V0 \in used /\ V0 \in Addr
    BY <1>1, CurrentAlive, ChainAssumption DEF TypeOK, Open, ChainInv
  <1>3. /\ FileIndex'[a] = listed /\ \A b \in Addr \ {a} : FileIndex'[b] = FileIndex[b]
        /\ \A b \in live : FileIndex'[b] = FileIndex[b]
        /\ FileIndex'[V0] = FileIndex[V0]
    BY <1>1, <1>2 DEF TypeOK
  <1>4. /\ disk' = disk /\ p \in Thread /\ pc[p] = "install" /\ pc'[p] = "empty"
        /\ \A q \in Compactor \ {p} : pc'[q] = pc[q]
        /\ job'[p] = {} /\ file_id'[p] = {}
        /\ \A q \in Compactor \ {p} : job'[q] = job[q] /\ file_id'[q] = file_id[q]
    BY DEF Install, Goto, TypeOK, Thread
  <1>5. /\ merging' = merging \cup S /\ S \subseteq listed /\ S \cap merging = {}
        /\ queue' \subseteq queue \cup {S}
    BY <1>1 DEF Picks
  <1>6. listed \subseteq File /\ listed \subseteq disk
    BY <1>2, <1>4 DEF FInv, DiskInv, OutputInv, TypeOK, Thread
  <1>7. FileIndex[cur] \ job[p] \subseteq listed /\ file_id[p] \subseteq listed
        /\ listed \subseteq FileIndex[cur] \cup file_id[p]
    OBVIOUS
  <1>8. FileCountInv'
    <2> SUFFICES ASSUME NEW f \in File
                 PROVE  fref'[f] = Cardinality(Holders(f)')
      BY DEF FileCountInv
    <2>1. fref[f] = Cardinality(Holders(f)) /\ fref[f] \in Int
      BY DEF FInv, FileCountInv, TypeOK
    <2>2. CASE f \in listed
      <3>1. Holders(f)' = Holders(f) \cup {a} /\ a \notin Holders(f)
        BY <1>1, <1>2, <1>3, <2>2 DEF Holders
      <3>2. Cardinality(Holders(f)') = Cardinality(Holders(f)) + 1
        BY <3>1, HoldersFinite, FS_AddElement
      <3>3. QED
        BY <1>1, <2>1, <2>2, <3>2
    <2>3. CASE f \notin listed
      <3>1. Holders(f)' = Holders(f)
        BY <1>1, <1>2, <1>3, <2>3 DEF Holders
      <3>2. QED
        BY <1>1, <2>1, <2>3, <3>1
    <2>4. QED
      BY <2>2, <2>3
  <1> HIDE DEF cur, listed
  <1>9. DiskInv'
    <2>1. \A b \in live' : FileIndex'[b] \subseteq disk'
      BY <1>1, <1>3, <1>4, <1>6 DEF FInv, DiskInv
    <2>2. ASSUME NEW f \in disk
          PROVE  Holders(f)' # {} \/ \E q \in Compactor : f \in file_id'[q]
      <3>1. CASE f \in listed
        BY <1>1, <1>3, <3>1 DEF Holders
      <3>2. CASE Holders(f) # {}
        BY <1>1, <1>3, <3>2 DEF Holders
      <3>3. CASE f \notin listed /\ \E q \in Compactor : f \in file_id[q]
        BY <1>4, <1>7, <3>3
      <3>4. QED
        BY <3>1, <3>2, <3>3 DEF FInv, DiskInv
    <2>3. QED
      BY <1>3, <1>4, <2>1, <2>2 DEF FInv, DiskInv
  <1>10. InputInv'
    <2>1. \A T \in queue : T \subseteq listed \cap merging
      BY <1>7 DEF FInv, InputInv, cur
    <2>2. \A q \in Compactor \ {p} : job[q] \subseteq listed \cap merging
      BY <1>7 DEF FInv, InputInv, cur
    <2>3. /\ \A T \in queue' : T \subseteq FileIndex'[a] \cap merging'
          /\ \A q \in Compactor : job'[q] \subseteq FileIndex'[a] \cap merging'
      BY <1>3, <1>4, <1>5, <2>1, <2>2
    <2>4. \A T \in queue', q \in Compactor : T \cap job'[q] = {}
      BY <1>4, <1>5, <2>2 DEF FInv, InputInv
    <2>5. \A T, U \in queue' : T = U \/ T \cap U = {}
      BY <1>5, <2>1 DEF FInv, InputInv
    <2>6. \A q, r \in Compactor : q = r \/ job'[q] \cap job'[r] = {}
      BY <1>4 DEF FInv, InputInv
    <2>7. QED
      BY <1>1, <2>3, <2>4, <2>5, <2>6 DEF InputInv
  <1>11. OutputInv'
    <2>1. ASSUME NEW q \in Compactor \ {p}
          PROVE  file_id[q] \cap listed = {}
      BY <1>2, <1>7 DEF FInv, OutputInv, cur
    <2>2. \A q \in Compactor, b \in live' : file_id'[q] \cap FileIndex'[b] = {}
      BY <1>1, <1>3, <1>4, <2>1 DEF FInv, OutputInv
    <2>3. QED
      BY <1>4, <2>2 DEF FInv, OutputInv
  <1>12. QED
    BY <1>8, <1>9, <1>10, <1>11 DEF FInv

LEMMA CloseFiles ==
  ASSUME IInv, QInv, FInv, Close
  PROVE  closed' /\ live' = {V0} /\ disk' = {}
  <1> DEFINE cur == current_rel_version
  <1>1. /\ TypeOK /\ Open /\ \A t \in Thread : pc[t] = "idle"
    BY DEF IInv, Close
  <1>2. read_rel_version = cur
    <2>1. \A t \in Thread : write_epoch[t] = MAXTIME
      BY <1>1 DEF QInv, WriterInv
    <2>2. QED
      BY <1>1, <2>1, QuietFollows DEF QuietReadIsCurrent
  <1>3. /\ cur \in used /\ cur \in Addr /\ V0 \in used /\ V0 \in Addr
        /\ \A a \in used : a \in Addr /\ vno[a] \in Nat
    BY <1>1 DEF TypeOK, Open, ChainInv
  <1>4. \A a \in used : Cardinality(Pins(a)) = 0 /\ Cardinality(Drops(a)) = 0
    <2>1. \A a \in used : Pins(a) = {} /\ Drops(a) = {}
      BY <1>1 DEF Pins, Drops, Thread
    <2>2. QED
      BY <2>1, FS_EmptySet
  <1>5. \A a \in used : ref[a] = ChainCount(a) + LeakCount(a)
    BY <1>1, <1>4 DEF Open, CountInv, ChainCount, LeakCount
  <1>6. \A a \in used : ChainCount(a) = IF a = cur THEN 1 ELSE 0
    BY <1>1, <1>2, <1>3 DEF Open, ChainInv, ChainCount
  <1>7. ref[cur] = (IF cur = V0 THEN 2 ELSE 1)
    BY <1>3, <1>5, <1>6 DEF LeakCount
  <1>8. live = {cur, V0}
    <2>1. \A a \in Addr : a \in live <=> a \in used /\ ref[a] # 0
      BY <1>1 DEF Open, LiveInv
    <2>2. live \subseteq Addr
      BY <1>1 DEF TypeOK
    <2>3. \A a \in used : ref[a] # 0 <=> a \in {cur, V0}
      BY <1>5, <1>6 DEF LeakCount
    <2>4. QED
      BY <1>3, <2>1, <2>2, <2>3
  <1> DEFINE dead == {a \in {read_rel_version, cur} : ref[a] = 1}
             drops(f) == Cardinality({a \in dead : f \in FileIndex[a]})
  <1>9. /\ closed' = TRUE /\ live' = live \ dead
        /\ disk' = disk \ {f \in File : drops(f) > 0 /\ fref[f] = drops(f)}
    BY DEF Close
  <1>10. dead = {cur} \ {V0}
    BY <1>2, <1>7
  <1>11. live' = {V0}
    BY <1>8, <1>9, <1>10
  <1>12. ASSUME NEW f \in disk
         PROVE  f \in File /\ drops(f) > 0 /\ fref[f] = drops(f)
    <2>1. f \in File
      BY <1>1 DEF TypeOK
    <2>2. \A p \in Compactor : file_id[p] = {}
      BY <1>1 DEF FInv, OutputInv, Thread
    <2>3. Holders(f) # {} /\ f \notin FileIndex[V0]
      BY <2>2 DEF FInv, DiskInv
    <2>4. Holders(f) = {cur} /\ cur # V0
      BY <1>8, <2>3 DEF Holders
    <2>5. f \in FileIndex[cur]
      BY <2>4 DEF Holders
    <2>6. {a \in dead : f \in FileIndex[a]} = {cur}
      BY <1>10, <2>4, <2>5
    <2>7. drops(f) = 1
      BY <2>6, FS_Singleton
    <2>8. Cardinality(Holders(f)) = 1
      BY <2>4, FS_Singleton
    <2>9. fref[f] = 1
      BY <2>1, <2>8 DEF FInv, FileCountInv
    <2>10. QED
      BY <2>1, <2>7, <2>9
  <1> HIDE DEF drops
  <1>13. disk' = {}
    BY <1>9, <1>12
  <1>14. QED
    BY <1>9, <1>11, <1>13

LEMMA FilesStep == ~Reuse /\ AllInv /\ [Next]_vars => AllInv'
  <1> SUFFICES ASSUME ~Reuse, AllInv, [Next]_vars PROVE AllInv'
    OBVIOUS
  <1>1. IInv' /\ QInv' /\ TypeOK
    BY InvStep, QuietStep DEF AllInv, IInv
  <1>2. CASE UNCHANGED vars
    <2>1. UNCHANGED <<live, disk, closed>> /\ SameFiles
      BY <1>2 DEF vars, SameFiles, versionVars, fieldVars, pointerVars, fileVars, jobVars
    <2>2. QED
      BY <1>1, <2>1, SameFilesKept DEF AllInv
  <1>3. CASE Close
    BY <1>1, <1>3, CloseFiles DEF AllInv, Close
  <1>4. ASSUME NEW c \in Client, ClientStep(c) PROVE ~closed /\ ~closed' /\ FInv'
    <2>1. ~closed /\ Open
      BY <1>4, BusyIsOpen DEF AllInv, IInv, ClientStep, BeginStep, TakeEpoch, Register,
         BeginReadOnly, LoadRead, AddRefSucceeds, AddRefFails, EndTransaction,
         EraseEpoch, Thread
    <2>2. CASE EndTransaction(c)
      <3>1. /\ rel_version[c] \in used /\ DecRef(rel_version[c])
            /\ UNCHANGED <<current_rel_version, jobVars, closed>>
        BY <2>1, <2>2 DEF Open, ThreadInv, EndTransaction, Thread, pointerVars
      <3>2. \A p \in Compactor :
              pc'[p] = pc[p] \/ {pc[p], pc'[p]} \cap {"work", "install"} = {}
        BY <1>1, <2>2 DEF EndTransaction, Goto, TypeOK, Thread
      <3>3. QED
        BY <1>1, <2>1, <3>1, <3>2, DecRefFiles DEF AllInv, Open
    <2>3. CASE ~EndTransaction(c)
      <3>1. UNCHANGED <<live, FileIndex, current_rel_version, fileVars, jobVars, closed>>
        BY <1>4, <2>3 DEF ClientStep, BeginStep, TakeEpoch, Register, BeginReadOnly,
           LoadRead, AddRefSucceeds, AddRefFails, EraseEpoch, versionVars,
           fieldVars, pointerVars
      <3>2. \A p \in Compactor :
              pc'[p] = pc[p] \/ {pc[p], pc'[p]} \cap {"work", "install"} = {}
        BY <1>1, <1>4, <2>3 DEF ClientStep, BeginStep, TakeEpoch, Register,
           BeginReadOnly, LoadRead, AddRefSucceeds, AddRefFails, EraseEpoch, Goto,
           TypeOK, Thread
      <3>3. QED
        BY <2>1, <3>1, <3>2, SameFilesKept DEF AllInv, SameFiles
    <2>4. QED
      BY <2>2, <2>3
  <1>5. ASSUME NEW t \in Thread, ProgressStep(t) PROVE ~closed /\ ~closed' /\ FInv'
    <2>1. ~closed /\ Open
      BY <1>5, BusyIsOpen DEF AllInv, ProgressStep, LookEmpty, ReadCounter,
         ReadMinimum, LoadTail, StopAtTail, LoadTailNext, AdvanceRead,
         AdvanceFails, DropTail
    <2>2. \A p \in Compactor :
            pc'[p] = pc[p] \/ {pc[p], pc'[p]} \cap {"work", "install"} = {}
      <3>1. CASE LookEmpty(t)
        BY <1>1, <3>1 DEF LookEmpty, Goto, TypeOK, Thread
      <3>2. CASE ~LookEmpty(t)
        BY <1>1, <1>5, <3>2 DEF ProgressStep, ReadCounter, ReadMinimum, LoadTail,
           StopAtTail, LeaveProgress, LoadTailNext, AdvanceRead, AdvanceFails,
           DropTail, Goto, TypeOK, Thread
      <3>3. QED
        BY <3>1, <3>2
    <2>3. CASE DropTail(t)
      <3>1. /\ tail[t] \in used /\ DecRef(tail[t])
            /\ UNCHANGED <<current_rel_version, jobVars, closed>>
        BY <2>1, <2>3 DEF Open, ThreadInv, DropTail, pointerVars
      <3>2. QED
        BY <1>1, <2>1, <2>2, <3>1, DecRefFiles DEF AllInv, Open
    <2>4. CASE ~DropTail(t)
      <3>1. UNCHANGED <<live, FileIndex, current_rel_version, fileVars, jobVars, closed>>
        BY <1>5, <2>4 DEF ProgressStep, LookEmpty, ReadCounter, ReadMinimum, LoadTail,
           StopAtTail, LoadTailNext, AdvanceRead, AdvanceFails, versionVars,
           fieldVars, pointerVars
      <3>2. QED
        BY <2>1, <2>2, <3>1, SameFilesKept DEF AllInv, SameFiles
    <2>5. QED
      BY <2>3, <2>4
  <1>6. ASSUME NEW p \in Compactor, CompactorStep(p) PROVE ~closed /\ ~closed' /\ FInv'
    <2>1. ~closed /\ Open
      BY <1>6, BusyIsOpen DEF AllInv, IInv, CompactorStep, TryCompaction, StartJob,
         BuildFile, Install, Thread
    <2>2. closed' = closed
      BY <1>6 DEF CompactorStep, TryCompaction, StartJob, BuildFile, Install
    <2>3. QED
      BY <1>1, <1>6, <2>1, <2>2, TryFiles, StartFiles, BuildFiles, InstallFiles
         DEF AllInv, CompactorStep
  <1>7. QED
    BY <1>1, <1>2, <1>3, <1>4, <1>5, <1>6 DEF Next, AllInv

(* A file is on disk exactly as long as a version alive lists it or it is  *)
(* about to be installed: nothing a transaction or a compaction reads has  *)
(* been unlinked, nothing is left behind, and ~DB leaves only V0, which    *)
(* lists no file.                                                          *)
THEOREM FilesAreExact == ASSUME ~Reuse PROVE Spec => []FilesExact
  <1>1. AllInv => FilesExact
    <2> SUFFICES ASSUME AllInv PROVE FilesExact
      OBVIOUS
    <2>1. CASE closed
      BY <2>1 DEF AllInv, FilesExact
    <2>2. CASE ~closed
      <3>1. current_rel_version \in live
        BY <2>2, CurrentAlive DEF AllInv, IInv
      <3>2. QED
        BY <2>2, <3>1 DEF AllInv, FInv, DiskInv, InputInv, FilesExact, Holders
    <2>3. QED
      BY <2>1, <2>2
  <1>2. QED
    BY <1>1, InitFiles, FilesStep, PTL DEF Spec
=============================================================================
