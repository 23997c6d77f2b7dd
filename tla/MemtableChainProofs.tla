------------------------ MODULE MemtableChainProofs -------------------------
(***************************************************************************)
(* Proofs about MemtableChain for every number of readers, flushers,       *)
(* memtables and versions.                                                 *)
(***************************************************************************)
EXTENDS MemtableChain, TLAPS

MemType ==
    /\ current \in Memtable
    /\ filled \subseteq 0 .. current /\ \A m \in Memtable : m < current => m \in filled
    /\ HighCompactionList \in Seq(Memtable)
    /\ relPersistence \in [Flusher -> Pointer] /\ installed \subseteq Flusher

VersionType ==
    /\ read_rel_version \in Nat /\ current_rel_version \in Version
    /\ read_rel_version <= current_rel_version
    /\ size_entry \in [Version -> Pointer]
    /\ files \in [Version -> SUBSET Memtable]

ReadType ==
    /\ version \in [Reader -> Version]
    /\ x \in [Reader -> Pointer]
    /\ pc \in [Reader -> {"idle", "begun", "walk", "files", "done"}]
    /\ owed \in [Reader -> SUBSET Memtable] /\ seen \in [Reader -> SUBSET Memtable]

Waits(m) ==
    \/ m = current
    \/ \E k \in DOMAIN HighCompactionList : HighCompactionList[k] = m
    \/ \E f \in Flusher : relPersistence[f] = m

(* What the newest files lack waits to be put there.                       *)
WaitInv ==
    /\ \A f \in installed : relPersistence[f] \in files[current_rel_version]
    /\ \A m \in filled \ files[current_rel_version] : Waits(m)

(* What the newest files gained since a version was current is the entry   *)
(* of that version or of a later one.                                      *)
EntryInv ==
    \A v \in 0 .. current_rel_version :
        \A m \in files[current_rel_version] \ files[v] :
            \E u \in v .. current_rel_version - 1 : size_entry[u] = m

(* A version's entry is in its files, or is all its successor's gained.    *)
StopInv ==
    \A v \in 0 .. current_rel_version :
        \/ size_entry[v] = NoMemtable
        \/ size_entry[v] \in files[v]
        \/ /\ v < current_rel_version
           /\ files[v + 1] = files[v] \cup {size_entry[v]}

ChainInv == MemType /\ VersionType /\ WaitInv /\ EntryInv /\ StopInv

(* As long as a read is prompt, what it still owes lies ahead of it.       *)
Ahead(r, m) ==
    \/ m \in seen[r]
    \/ pc[r] = "begun"
    \/ pc[r] = "walk" /\ m <= x[r]

ReadInv ==
    \A r \in Reader : pc[r] # "idle" =>
        /\ owed[r] \subseteq filled
        /\ version[r] <= read_rel_version
        /\ pc[r] = "walk" => x[r] \in 0 .. current
        /\ pc[r] = "done" => files[version[r]] \subseteq seen[r]
        /\ InOrder /\ read_rel_version <= version[r] + 1
             => \A m \in owed[r] \ files[version[r]] : Ahead(r, m)

IInv == ChainInv /\ ReadType /\ ReadInv

-----------------------------------------------------------------------------
(* What a version's files lack is alive, if the versions after it are.     *)
LEMMA LackingAlive ==
  ASSUME ChainInv,
         NEW v \in 0 .. current_rel_version,
         v .. current_rel_version \subseteq Live,
         NEW m \in filled \ files[v]
  PROVE  m \in Alive
  <1>1. CASE m \notin files[current_rel_version]
    <2>1. Waits(m)
      BY <1>1 DEF ChainInv, WaitInv
    <2>2. QED
      BY <2>1 DEF Waits, Alive
  <1>2. CASE m \in files[current_rel_version]
    <2>1. PICK u \in v .. current_rel_version - 1 : size_entry[u] = m
      BY <1>2 DEF ChainInv, EntryInv
    <2>2. u \in v .. current_rel_version
      BY <2>1 DEF ChainInv, VersionType, Version
    <2>3. QED
      BY <2>1, <2>2 DEF Alive
  <1>3. QED
    BY <1>1, <1>2

LEMMA InitInv == Init => IInv
  <1> SUFFICES ASSUME Init PROVE IInv
    OBVIOUS
  <1> USE DEF Init
  <1>1. MemType
    BY MemtableChainAssumption DEF MemType, Memtable, Pointer
  <1>2. VersionType
    BY MemtableChainAssumption DEF VersionType, Version, Pointer
  <1>3. WaitInv /\ EntryInv /\ StopInv
    BY MemtableChainAssumption DEF WaitInv, EntryInv, StopInv, Version
  <1>4. ReadType /\ ReadInv
    BY MemtableChainAssumption DEF ReadType, ReadInv, Version, Pointer
  <1>5. QED
    BY <1>1, <1>2, <1>3, <1>4 DEF IInv, ChainInv

(* The steps that leave the versions alone.                                *)
LEMMA SameVersions ==
  ASSUME ChainInv, UNCHANGED versionVars, MemType', WaitInv'
  PROVE  ChainInv'
  BY DEF ChainInv, VersionType, EntryInv, StopInv, versionVars

LEMMA PutChain ==
  ASSUME ChainInv, Put
  PROVE  ChainInv'
  <1> USE DEF Put, ChainInv, versionVars, flushVars
  <1>1. MemType'
    BY DEF MemType, Memtable
  <1>2. WaitInv'
    BY DEF WaitInv, Waits
  <1>3. QED
    BY <1>1, <1>2, SameVersions

LEMMA ReplaceChain ==
  ASSUME ChainInv, Replace
  PROVE  ChainInv'
  <1> USE DEF Replace, ChainInv, versionVars, flushVars
  <1>1. MemType'
    BY MemtableChainAssumption DEF MemType, Memtable
  <1>2. ASSUME NEW m \in filled \ files[current_rel_version]
        PROVE  Waits(m)'
    <2>1. Waits(m)
      BY DEF WaitInv
    <2>2. CASE m = current
      <3>1. HighCompactionList'[Len(HighCompactionList) + 1] = m
            /\ Len(HighCompactionList) + 1 \in DOMAIN HighCompactionList'
        BY <2>2 DEF MemType
      <3>2. QED
        BY <3>1 DEF Waits
    <2>3. CASE \E k \in DOMAIN HighCompactionList : HighCompactionList[k] = m
      <3>1. PICK k \in DOMAIN HighCompactionList : HighCompactionList[k] = m
        BY <2>3
      <3>2. k \in DOMAIN HighCompactionList' /\ HighCompactionList'[k] = m
        BY <3>1 DEF MemType
      <3>3. QED
        BY <3>2 DEF Waits
    <2>4. QED
      BY <2>1, <2>2, <2>3 DEF Waits
  <1>3. WaitInv'
    BY <1>2 DEF WaitInv
  <1>4. QED
    BY <1>1, <1>3, SameVersions

LEMMA PopChain ==
  ASSUME ChainInv, NEW f \in Flusher, Pop(f)
  PROVE  ChainInv'
  <1> USE DEF Pop, ChainInv, versionVars
  <1>1. MemType'
    BY DEF MemType, Pointer
  <1>2. f \notin installed
    BY MemtableChainAssumption DEF WaitInv, VersionType, Memtable
  <1>3. ASSUME NEW m \in filled \ files[current_rel_version]
        PROVE  Waits(m)'
    <2>1. Waits(m) /\ m # NoMemtable
      BY MemtableChainAssumption DEF WaitInv, MemType, Memtable
    <2>2. CASE \E k \in DOMAIN HighCompactionList : HighCompactionList[k] = m
      <3>1. PICK k \in DOMAIN HighCompactionList : HighCompactionList[k] = m
        BY <2>2
      <3>2. CASE k = 1
        <4>1. relPersistence'[f] = m
          BY <3>1, <3>2 DEF MemType
        <4>2. QED
          BY <4>1 DEF Waits
      <3>3. CASE k # 1
        <4>1. k - 1 \in DOMAIN HighCompactionList'
              /\ HighCompactionList'[k - 1] = m
          BY <3>1, <3>3 DEF MemType
        <4>2. QED
          BY <4>1 DEF Waits
      <3>4. QED
        BY <3>2, <3>3
    <2>3. CASE \E g \in Flusher : relPersistence[g] = m
      BY <2>1, <2>3 DEF Waits, MemType
    <2>4. QED
      BY <2>1, <2>2, <2>3 DEF Waits
  <1>4. WaitInv'
    BY <1>2, <1>3 DEF WaitInv, MemType
  <1>5. QED
    BY <1>1, <1>4, SameVersions

LEMMA EndJobChain ==
  ASSUME ChainInv, NEW f \in Flusher, EndJob(f)
  PROVE  ChainInv'
  <1> USE DEF EndJob, ChainInv, versionVars, memVars
  <1>1. MemType'
    BY DEF MemType, Pointer
  <1>2. ASSUME NEW m \in filled \ files[current_rel_version]
        PROVE  Waits(m)'
    BY DEF WaitInv, Waits, MemType
  <1>3. WaitInv'
    BY <1>2 DEF WaitInv, MemType
  <1>4. QED
    BY <1>1, <1>3, SameVersions

LEMMA InstallMemtableChain ==
  ASSUME ChainInv, NEW f \in Flusher, InstallMemtable(f)
  PROVE  ChainInv'
  <1> DEFINE cur == current_rel_version
             m == relPersistence[f]
  <1> USE DEF ChainInv
  <1>1. /\ cur \in Nat /\ cur + 1 \in Version /\ cur < LastVersion
        /\ m \in Memtable /\ m # NoMemtable
    BY MemtableChainAssumption DEF InstallMemtable, VersionType, Version, MemType, Pointer
  <1>2. /\ current_rel_version' = cur + 1
        /\ size_entry' \in [Version -> Pointer]
        /\ size_entry'[cur] = m /\ size_entry'[cur + 1] = m
        /\ \A v \in 0 .. cur - 1 : size_entry'[v] = size_entry[v]
    <2>1. current_rel_version' = cur + 1
          /\ size_entry' = [size_entry EXCEPT ![cur] = m, ![cur + 1] = m]
      BY DEF InstallMemtable
    <2>2. size_entry \in [Version -> Pointer] /\ m \in Pointer
          /\ cur \in Version /\ \A v \in 0 .. cur - 1 : v \in Version
      BY <1>1, MemtableChainAssumption DEF VersionType, Version, Pointer
    <2> HIDE DEF m, cur
    <2>3. QED
      BY <2>1, <2>2, <1>1
  <1>3. /\ files' \in [Version -> SUBSET Memtable]
        /\ files'[cur + 1] = files[cur] \cup {m}
        /\ \A v \in 0 .. cur : files'[v] = files[v]
    BY <1>1 DEF InstallMemtable, VersionType, Version
  <1> HIDE DEF cur, m
  <1>4. MemType'
    BY DEF MemType, InstallMemtable, memVars
  <1>5. VersionType'
    BY <1>1, <1>2, <1>3 DEF VersionType, Version, cur, InstallMemtable
  <1>6. WaitInv'
    <2>1. \A g \in installed' : relPersistence'[g] \in files'[cur + 1]
      BY <1>3 DEF WaitInv, cur, m, MemType, InstallMemtable
    <2>2. \A k \in filled' \ files'[cur + 1] : Waits(k)'
      BY <1>3 DEF WaitInv, Waits, cur, InstallMemtable, memVars
    <2>3. QED
      BY <2>1, <2>2, <1>2 DEF WaitInv
  <1>7. EntryInv'
    <2> SUFFICES ASSUME NEW v \in 0 .. cur + 1, NEW k \in files'[cur + 1] \ files'[v]
                 PROVE  \E u \in v .. cur : size_entry'[u] = k
      BY <1>1, <1>2 DEF EntryInv
    <2>1. v \in 0 .. cur
      BY <1>1
    <2>2. CASE k = m
      BY <2>1, <2>2, <1>1, <1>2
    <2>3. CASE k # m
      <3>1. k \in files[cur] \ files[v]
        BY <2>1, <2>3, <1>3
      <3>2. PICK u \in v .. cur - 1 : size_entry[u] = k
        BY <2>1, <3>1 DEF EntryInv, cur
      <3>3. u \in 0 .. cur - 1 /\ u \in v .. cur
        BY <2>1, <1>1
      <3>4. QED
        BY <3>2, <3>3, <1>2
    <2>4. QED
      BY <2>2, <2>3
  <1>8. StopInv'
    <2> SUFFICES ASSUME NEW v \in 0 .. cur + 1
                 PROVE  \/ size_entry'[v] = NoMemtable
                        \/ size_entry'[v] \in files'[v]
                        \/ /\ v < cur + 1
                           /\ files'[v + 1] = files'[v] \cup {size_entry'[v]}
      BY <1>2 DEF StopInv
    <2>1. CASE v = cur + 1
      BY <2>1, <1>2, <1>3
    <2>2. CASE v = cur
      BY <2>2, <1>1, <1>2, <1>3
    <2>3. CASE v \in 0 .. cur - 1
      <3>1. v \in 0 .. cur /\ v + 1 \in 0 .. cur /\ v < cur + 1
        BY <2>3, <1>1
      <3>2. QED
        BY <2>3, <3>1, <1>2, <1>3 DEF StopInv, cur
    <2>4. QED
      BY <2>1, <2>2, <2>3, <1>1
  <1>9. QED
    BY <1>4, <1>5, <1>6, <1>7, <1>8

LEMMA InstallMergeChain ==
  ASSUME ChainInv, InstallMerge
  PROVE  ChainInv'
  <1> DEFINE cur == current_rel_version
  <1> USE DEF InstallMerge, ChainInv, memVars, flushVars
  <1>1. cur \in Nat /\ cur + 1 \in Version /\ cur < LastVersion
    BY MemtableChainAssumption DEF VersionType, Version
  <1>2. /\ current_rel_version' = cur + 1
        /\ size_entry' \in [Version -> Pointer]
        /\ size_entry'[cur + 1] = size_entry[cur]
        /\ \A v \in 0 .. cur : size_entry'[v] = size_entry[v]
    BY <1>1 DEF VersionType, Version
  <1>3. /\ files' \in [Version -> SUBSET Memtable]
        /\ files'[cur + 1] = files[cur]
        /\ \A v \in 0 .. cur : files'[v] = files[v]
    BY <1>1 DEF VersionType, Version
  <1> HIDE DEF cur
  <1>4. MemType'
    BY DEF MemType
  <1>5. VersionType'
    BY <1>1, <1>2, <1>3 DEF VersionType, Version, cur
  <1>6. WaitInv'
    BY <1>2, <1>3 DEF WaitInv, Waits, cur
  <1>7. EntryInv'
    <2> SUFFICES ASSUME NEW v \in 0 .. cur + 1, NEW k \in files'[cur + 1] \ files'[v]
                 PROVE  \E u \in v .. cur : size_entry'[u] = k
      BY <1>1, <1>2 DEF EntryInv
    <2>1. v \in 0 .. cur /\ k \in files[cur] \ files[v]
      BY <1>1, <1>3
    <2>2. PICK u \in v .. cur - 1 : size_entry[u] = k
      BY <2>1 DEF EntryInv, cur
    <2>3. u \in 0 .. cur /\ u \in v .. cur
      BY <2>1, <1>1
    <2>4. QED
      BY <2>2, <2>3, <1>2
  <1>8. StopInv'
    <2> SUFFICES ASSUME NEW v \in 0 .. cur + 1
                 PROVE  \/ size_entry'[v] = NoMemtable
                        \/ size_entry'[v] \in files'[v]
                        \/ /\ v < cur + 1
                           /\ files'[v + 1] = files'[v] \cup {size_entry'[v]}
      BY <1>2 DEF StopInv
    <2>1. size_entry[cur] = NoMemtable \/ size_entry[cur] \in files[cur]
      BY <1>1 DEF StopInv, cur
    <2>2. CASE v \in {cur, cur + 1}
      BY <2>1, <2>2, <1>1, <1>2, <1>3
    <2>3. CASE v \in 0 .. cur - 1
      <3>1. v \in 0 .. cur /\ v + 1 \in 0 .. cur /\ v < cur + 1
        BY <2>3, <1>1
      <3>2. QED
        BY <2>3, <3>1, <1>2, <1>3 DEF StopInv, cur
    <2>4. QED
      BY <2>2, <2>3, <1>1
  <1>9. QED
    BY <1>4, <1>5, <1>6, <1>7, <1>8

LEMMA AdvanceReadChain ==
  ASSUME ChainInv, AdvanceRead
  PROVE  ChainInv'
  BY DEF ChainInv, AdvanceRead, memVars, flushVars, MemType, VersionType,
         Version, WaitInv, Waits, EntryInv, StopInv

ReadStep(r) == Begin(r) \/ StartWalk(r) \/ Visit(r) \/ ReadFiles(r) \/ End(r)

LEMMA SameChain ==
  ASSUME ChainInv, UNCHANGED <<memVars, flushVars, versionVars>>
  PROVE  ChainInv'
  BY DEF ChainInv, memVars, flushVars, versionVars, MemType, VersionType,
         Version, WaitInv, Waits, EntryInv, StopInv

LEMMA NextChain == ChainInv /\ [Next]_vars => ChainInv'
  <1> SUFFICES ASSUME ChainInv, [Next]_vars PROVE ChainInv'
    OBVIOUS
  <1>1. CASE Put
    BY <1>1, PutChain
  <1>2. CASE Replace
    BY <1>2, ReplaceChain
  <1>3. CASE InstallMerge
    BY <1>3, InstallMergeChain
  <1>4. CASE AdvanceRead
    BY <1>4, AdvanceReadChain
  <1>5. ASSUME NEW f \in Flusher, Pop(f) PROVE ChainInv'
    BY <1>5, PopChain
  <1>6. ASSUME NEW f \in Flusher, InstallMemtable(f) PROVE ChainInv'
    BY <1>6, InstallMemtableChain
  <1>7. ASSUME NEW f \in Flusher, EndJob(f) PROVE ChainInv'
    BY <1>7, EndJobChain
  <1>8. ASSUME NEW r \in Reader, ReadStep(r) PROVE ChainInv'
    BY <1>8, SameChain DEF ReadStep, Begin, StartWalk, Visit, ReadFiles, End
  <1>9. CASE UNCHANGED vars
    BY <1>9, SameChain DEF vars
  <1>10. QED
    BY <1>1, <1>2, <1>3, <1>4, <1>5, <1>6, <1>7, <1>8, <1>9
       DEF Next, ReadStep

(* In order, nothing between m and the current memtable ends the walk.     *)
LEMMA LackingReached ==
  ASSUME ChainInv,
         NEW v \in 0 .. current_rel_version,
         v .. current_rel_version \subseteq Live,
         NEW m \in filled \ files[v],
         ~Overtaken(m, v)
  PROVE  Reaches(v, m)
  <1> SUFFICES ASSUME NEW n \in m .. current
               PROVE  n \in Alive /\ (n > m => n # size_entry[v])
    BY DEF Reaches
  <1>1. /\ v \in Nat /\ current_rel_version \in Nat /\ v \in v .. current_rel_version
        /\ m \in Nat /\ n \in Nat /\ current \in Nat /\ n \in Memtable
        /\ m \in Memtable
    BY MemtableChainAssumption
       DEF ChainInv, VersionType, Version, MemType, Memtable
  <1>2. n > m => n \notin files[v]
    BY <1>1 DEF Overtaken
  <1>3. n \in Alive
    <2>1. CASE n = m \/ (n > m /\ n < current)
      <3>1. n \in filled \ files[v]
        BY <2>1, <1>1, <1>2 DEF ChainInv, MemType
      <3>2. QED
        BY <3>1, LackingAlive
    <2>2. CASE n = current
      BY <2>2 DEF Alive
    <2>3. QED
      BY <2>1, <2>2, <1>1
  <1>4. ASSUME n > m, n = size_entry[v] PROVE FALSE
    <2>1. n # NoMemtable
      BY <1>1, MemtableChainAssumption DEF Memtable
    <2>2. v < current_rel_version /\ files[v + 1] = files[v] \cup {n}
      BY <2>1, <1>2, <1>4 DEF ChainInv, StopInv
    <2>3. v + 1 \in v .. current_rel_version /\ m \notin files[v + 1]
      BY <2>2, <1>1, <1>4
    <2>4. QED
      BY <2>2, <2>3, <1>4 DEF Overtaken
  <1>5. QED
    BY <1>3, <1>4

(* A put that the files of a version not superseded lack is in a memtable  *)
(* that the walk of a read of that version gets to, or one that flushers   *)
(* overtook, and somebody holds it in any case: immute_memtable, the       *)
(* queue, AddSizeEntry and the job's own copy hand the only strong pointer *)
(* on without a gap, and AddSizeEntry ends no walk too early.              *)
THEOREM Covered == Spec => []ChainCovers
  <1>1. Init => ChainInv
    BY InitInv DEF IInv
  <1>2. ChainInv => ChainCovers
    <2> SUFFICES ASSUME ChainInv,
                        NEW v \in read_rel_version .. current_rel_version,
                        NEW m \in filled \ files[v]
                 PROVE  m \in Alive /\ (Overtaken(m, v) \/ Reaches(v, m))
      BY DEF ChainCovers
    <2>1. v \in 0 .. current_rel_version
          /\ v .. current_rel_version \subseteq read_rel_version .. current_rel_version
      BY DEF ChainInv, VersionType, Version
    <2>2. QED
      BY <2>1, LackingAlive, LackingReached DEF Live
  <1>3. QED
    BY <1>1, <1>2, NextChain, PTL DEF Spec

-----------------------------------------------------------------------------
(* A version's files never change; the order of installation, once lost,   *)
(* stays lost.                                                             *)
LEMMA FilesKept ==
  ASSUME ChainInv, [Next]_vars
  PROVE  /\ \A v \in 0 .. current_rel_version : files'[v] = files[v]
         /\ InOrder' => InOrder
  <1>1. current_rel_version \in Nat
        /\ \A v \in 0 .. current_rel_version :
              v \in Version /\ v # current_rel_version + 1
    BY MemtableChainAssumption DEF ChainInv, VersionType, Version
  <1>2. \A v \in 0 .. current_rel_version : files'[v] = files[v]
    <2>1. CASE UNCHANGED versionVars \/ AdvanceRead
      BY <2>1 DEF versionVars, AdvanceRead
    <2>2. CASE InstallMerge
      BY <2>2, <1>1 DEF ChainInv, VersionType, InstallMerge
    <2>3. ASSUME NEW f \in Flusher, InstallMemtable(f)
          PROVE  \A v \in 0 .. current_rel_version : files'[v] = files[v]
      BY <2>3, <1>1 DEF ChainInv, VersionType, InstallMemtable
    <2>4. QED
      BY <2>1, <2>2, <2>3 DEF Next, vars, Put, Replace, Pop, EndJob, Begin,
         StartWalk, Visit, ReadFiles, End
  <1>3. current_rel_version' \in Nat /\ current_rel_version <= current_rel_version'
    BY <1>1 DEF Next, vars, versionVars, Put, Replace, Pop, EndJob, Begin,
       StartWalk, Visit, ReadFiles, End, InstallMerge, InstallMemtable, AdvanceRead
  <1>4. \A v \in 0 .. current_rel_version : v \in 0 .. current_rel_version'
    BY <1>1, <1>3
  <1>5. QED
    BY <1>2, <1>4 DEF InOrder

(* What other threads do leaves a read's standing as it was.               *)
LEMMA OthersRead ==
  ASSUME IInv, [Next]_vars, UNCHANGED readVars
  PROVE  ReadType' /\ ReadInv'
  <1>1. ReadType'
    BY DEF IInv, ReadType, readVars
  <1>2. filled \subseteq filled' /\ 0 .. current \subseteq 0 .. current'
    BY DEF IInv, ChainInv, MemType, Memtable, Next, vars, memVars, Put, Replace,
       Pop, EndJob, Begin, StartWalk, Visit, ReadFiles, End, InstallMerge,
       InstallMemtable, AdvanceRead
  <1>3. read_rel_version' \in Nat /\ read_rel_version <= read_rel_version'
    BY DEF IInv, ChainInv, VersionType, Next, vars, versionVars, Put, Replace,
       Pop, EndJob, Begin, StartWalk, Visit, ReadFiles, End, InstallMerge,
       InstallMemtable, AdvanceRead
  <1> SUFFICES ASSUME NEW r \in Reader, pc[r] # "idle"
               PROVE  /\ owed[r] \subseteq filled'
                      /\ version[r] <= read_rel_version'
                      /\ pc[r] = "walk" => x[r] \in 0 .. current'
                      /\ pc[r] = "done" => files'[version[r]] \subseteq seen[r]
                      /\ InOrder' /\ read_rel_version' <= version[r] + 1
                           => \A m \in owed[r] \ files'[version[r]] : Ahead(r, m)
    BY <1>1 DEF ReadInv, readVars, Ahead
  <1>4. version[r] \in 0 .. current_rel_version /\ version[r] <= read_rel_version
        /\ version[r] \in Nat /\ read_rel_version \in Nat
    BY DEF IInv, ReadInv, ReadType, ChainInv, VersionType, Version
  <1>5. files'[version[r]] = files[version[r]]
    BY <1>4, FilesKept DEF IInv
  <1>6. QED
    BY <1>2, <1>3, <1>4, <1>5, FilesKept DEF IInv, ReadInv

(* A step of a read is looked at for that reader alone.                    *)
ReadHolds(r) ==
    pc[r] # "idle" =>
        /\ owed[r] \subseteq filled
        /\ version[r] <= read_rel_version
        /\ pc[r] = "walk" => x[r] \in 0 .. current
        /\ pc[r] = "done" => files[version[r]] \subseteq seen[r]
        /\ InOrder /\ read_rel_version <= version[r] + 1
             => \A m \in owed[r] \ files[version[r]] : Ahead(r, m)

LEMMA OneReader ==
  ASSUME IInv, NEW r \in Reader, ReadStep(r), ReadHolds(r)'
  PROVE  ReadInv'
  <1>1. UNCHANGED <<memVars, versionVars>>
    BY DEF ReadStep, Begin, StartWalk, Visit, ReadFiles, End
  <1>2. ASSUME NEW q \in Reader, q # r
        PROVE  /\ pc'[q] = pc[q] /\ x'[q] = x[q] /\ version'[q] = version[q]
               /\ owed'[q] = owed[q] /\ seen'[q] = seen[q]
    BY <1>2 DEF IInv, ReadType, ReadStep, Begin, StartWalk, Visit, ReadFiles, End
  <1>3. ASSUME NEW q \in Reader, q # r PROVE ReadHolds(q)'
    BY <1>1, <1>2, <1>3
       DEF IInv, ReadInv, ReadHolds, Ahead, InOrder, memVars, versionVars
  <1>4. QED
    BY <1>3 DEF ReadInv, ReadHolds

LEMMA ReadTyped ==
  ASSUME IInv, NEW r \in Reader, ReadStep(r)
  PROVE  ReadType'
  <1> USE DEF IInv, ChainInv, ReadType
  <1>1. filled \subseteq Memtable /\ read_rel_version \in Version /\ current \in Memtable
    BY MemtableChainAssumption DEF MemType, VersionType, Version, Memtable
  <1>2. CASE Begin(r)
    BY <1>1, <1>2 DEF Begin
  <1>3. CASE StartWalk(r)
    BY <1>1, <1>3 DEF StartWalk, Pointer
  <1>4. CASE Visit(r)
    <2>1. PICK to : /\ x' = [x EXCEPT ![r] = to]
                    /\ pc' = [pc EXCEPT ![r] = IF to = NoMemtable THEN "files" ELSE "walk"]
                    /\ to = NoMemtable \/ to = NextOf(x[r])
      BY <1>4 DEF Visit
    <2>2. NextOf(x[r]) \in Pointer
      <3>1. x[r] \in 0 .. current
        BY <1>4 DEF ReadInv, Visit
      <3>2. QED
        BY <3>1, <1>1, MemtableChainAssumption DEF NextOf, Pointer, Memtable
    <2>3. seen' \in [Reader -> SUBSET Memtable]
      BY <1>1, <1>4 DEF Visit
    <2>4. QED
      BY <1>4, <2>1, <2>2, <2>3 DEF Visit, Pointer
  <1>5. CASE ReadFiles(r)
    BY <1>5 DEF ReadFiles, VersionType
  <1>6. CASE End(r)
    BY <1>6, MemtableChainAssumption DEF End, Version
  <1>7. QED
    BY <1>2, <1>3, <1>4, <1>5, <1>6 DEF ReadStep

(* The heart: a read that follows next from a memtable does not pass over  *)
(* what it owes below it.                                                  *)
LEMMA WalkGoesOn ==
  ASSUME IInv, InOrder, NEW r \in Reader, pc[r] = "walk",
         read_rel_version <= version[r] + 1,
         NEW m \in owed[r] \ files[version[r]], m < x[r]
  PROVE  /\ x[r] # size_entry[version[r]]
         /\ NextOf(x[r]) = x[r] - 1 /\ m <= x[r] - 1
  <1> DEFINE v == version[r]
  <1>1. /\ v \in Nat /\ v \in 0 .. current_rel_version /\ v \in Version
        /\ v <= read_rel_version /\ read_rel_version \in Nat
        /\ current_rel_version \in Nat
    BY DEF IInv, ReadInv, ReadType, ChainInv, VersionType, Version
  <1>2. /\ x[r] \in 0 .. current /\ current \in Nat
        /\ m \in Memtable /\ m \in Nat /\ x[r] \in Nat /\ x[r] \in Memtable
    BY MemtableChainAssumption
       DEF IInv, ReadInv, ReadType, ChainInv, MemType, Memtable
  <1>3. x[r] - 1 \in filled /\ x[r] - 1 \in Nat /\ m <= x[r] - 1
    <2>1. x[r] - 1 \in Nat /\ x[r] - 1 < current /\ m <= x[r] - 1
      BY <1>2
    <2>2. x[r] - 1 \in Memtable
      BY <2>1, <1>2, MemtableChainAssumption DEF Memtable
    <2>3. QED
      BY <2>1, <2>2 DEF IInv, ChainInv, MemType
  <1>4. x[r] - 1 \notin files[v] /\ x[r] \notin files[v]
    BY <1>1, <1>2, <1>3 DEF InOrder
  <1>5. v .. current_rel_version \subseteq Live
    <2>1. v \in Live
      BY DEF Live
    <2>2. \A u \in v .. current_rel_version :
             u = v \/ u \in read_rel_version .. current_rel_version
      BY <1>1
    <2>3. QED
      BY <2>1, <2>2 DEF Live
  <1>6. x[r] - 1 \in Alive
    BY <1>1, <1>3, <1>4, <1>5, LackingAlive DEF IInv
  <1>7. x[r] # size_entry[v]
    <2> SUFFICES ASSUME x[r] = size_entry[v] PROVE FALSE
      OBVIOUS
    <2>1. x[r] # NoMemtable
      BY <1>2, MemtableChainAssumption DEF Memtable
    <2>2. v < current_rel_version /\ files[v + 1] = files[v] \cup {x[r]}
      BY <2>1, <1>1, <1>4 DEF IInv, ChainInv, StopInv
    <2>3. v + 1 \in 0 .. current_rel_version
      BY <2>2, <1>1
    <2>4. m \in files[v + 1]
      BY <2>2, <2>3, <1>2 DEF InOrder
    <2>5. QED
      BY <2>2, <2>4, <1>2
  <1>8. QED
    BY <1>2, <1>3, <1>6, <1>7 DEF NextOf

LEMMA VisitHolds ==
  ASSUME IInv, NEW r \in Reader, Visit(r)
  PROVE  ReadHolds(r)'
  <1> DEFINE to == IF x[r] = size_entry[version[r]] THEN NoMemtable
                   ELSE NextOf(x[r])
  <1>1. /\ pc[r] = "walk" /\ owed'[r] = owed[r] /\ version'[r] = version[r]
        /\ seen'[r] = seen[r] \cup ({x[r]} \cap filled)
        /\ x'[r] = to /\ pc'[r] = (IF to = NoMemtable THEN "files" ELSE "walk")
        /\ UNCHANGED <<memVars, versionVars>>
    BY DEF Visit, IInv, ReadType
  <1>2. /\ owed[r] \subseteq filled /\ version[r] <= read_rel_version
        /\ x[r] \in 0 .. current /\ current \in Memtable /\ x[r] \in Nat
        /\ current \in Nat /\ owed[r] \subseteq Memtable
    BY <1>1, MemtableChainAssumption
       DEF IInv, ReadInv, ReadType, ChainInv, MemType, Memtable
  <1>3. to # NoMemtable => to \in 0 .. current
    BY <1>2 DEF NextOf
  <1>4. ASSUME InOrder, read_rel_version <= version[r] + 1,
               NEW m \in owed[r] \ files[version[r]]
        PROVE  Ahead(r, m)'
    <2>1. m \in seen[r] \/ m <= x[r]
      BY <1>1, <1>4 DEF IInv, ReadInv, Ahead
    <2>2. CASE m \in seen[r] \/ m = x[r]
      BY <2>2, <1>1, <1>2 DEF Ahead
    <2>3. CASE m < x[r]
      <3>1. to = x[r] - 1 /\ m <= x[r] - 1
        BY <2>3, <1>1, <1>4, WalkGoesOn
      <3>2. to # NoMemtable
        BY <3>1, <1>2, <2>3, MemtableChainAssumption DEF Memtable
      <3>3. QED
        BY <3>1, <3>2, <1>1 DEF Ahead
    <2>4. QED
      BY <2>1, <2>2, <2>3, <1>2 DEF Memtable
  <1>5. QED
    BY <1>1, <1>2, <1>3, <1>4 DEF ReadHolds, memVars, versionVars, InOrder

LEMMA ReadStepHolds ==
  ASSUME IInv, NEW r \in Reader, ReadStep(r)
  PROVE  ReadHolds(r)'
  <1> USE DEF IInv, ReadType
  <1>1. CASE Begin(r)
    BY <1>1 DEF Begin, ChainInv, VersionType, ReadHolds, Ahead, InOrder, memVars, versionVars
  <1>2. CASE StartWalk(r)
    <2>1. /\ pc[r] = "begun" /\ pc'[r] = "walk" /\ x'[r] = current
          /\ owed'[r] = owed[r] /\ version'[r] = version[r] /\ seen'[r] = seen[r]
          /\ UNCHANGED <<memVars, versionVars>>
      BY <1>2 DEF StartWalk
    <2>2. /\ owed[r] \subseteq filled /\ version[r] <= read_rel_version
          /\ filled \subseteq 0 .. current /\ current \in 0 .. current
          /\ current \in Nat
      BY <2>1, MemtableChainAssumption DEF ReadInv, ChainInv, MemType, Memtable
    <2>3. \A m \in owed[r] : m <= current
      BY <2>2 DEF Memtable
    <2>4. QED
      BY <2>1, <2>2, <2>3 DEF ReadHolds, Ahead, InOrder, memVars, versionVars
  <1>3. CASE Visit(r)
    BY <1>3, VisitHolds
  <1>4. CASE ReadFiles(r)
    BY <1>4 DEF ReadFiles, ReadInv, ReadHolds, Ahead, InOrder, memVars, versionVars
  <1>5. CASE End(r)
    BY <1>5 DEF End, ReadHolds
  <1>6. QED
    BY <1>1, <1>2, <1>3, <1>4, <1>5 DEF ReadStep

LEMMA NextInv == IInv /\ [Next]_vars => IInv'
  <1> SUFFICES ASSUME IInv, [Next]_vars PROVE IInv'
    OBVIOUS
  <1>1. ChainInv'
    BY NextChain DEF IInv
  <1>2. CASE \E r \in Reader : ReadStep(r)
    BY <1>1, <1>2, OneReader, ReadTyped, ReadStepHolds DEF IInv
  <1>3. CASE UNCHANGED readVars
    BY <1>1, <1>3, OthersRead DEF IInv
  <1>4. QED
    BY <1>2, <1>3 DEF Next, ReadStep, vars, Put, Replace, InstallMerge,
       AdvanceRead, Pop, InstallMemtable, EndJob

(* With installs in order, a read that read_rel_version has left behind by *)
(* at most one version has looked, when it is over, at every put made      *)
(* before it began, although next is a weak pointer and each memtable on   *)
(* the way may be replaced, persisted and dropped while it walks.          *)
THEOREM PromptReads == Spec => []PromptReadsComplete
  <1>1. IInv => PromptReadsComplete
    <2> SUFFICES ASSUME IInv, InOrder, NEW r \in Reader, pc[r] = "done",
                        read_rel_version <= version[r] + 1,
                        NEW m \in owed[r]
                 PROVE  m \in seen[r]
      BY DEF PromptReadsComplete
    <2>1. CASE m \in files[version[r]]
      BY <2>1 DEF IInv, ReadInv
    <2>2. CASE m \notin files[version[r]]
      BY <2>2 DEF IInv, ReadInv, Ahead
    <2>3. QED
      BY <2>1, <2>2
  <1>2. QED
    BY InitInv, NextInv, <1>1, PTL DEF Spec
=============================================================================
