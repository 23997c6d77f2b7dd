--------------------------- MODULE MemtableChain ----------------------------
(***************************************************************************)
(* How a read finds what is not in the files of its version.  Memtables    *)
(* form a chain of weak pointers; rowMemoryManager::GetTuple walks it from *)
(* currentMemTable to the size_entry of the version it reads, and only     *)
(* size_entry, the queue and the compaction threads keep a replaced        *)
(* memtable alive (RowMemoryManager.cpp, RelVersion.cpp, DB.cpp).          *)
(*                                                                         *)
(* Memtables and versions are numbered in the order they are made, and     *)
(* memtable m holds one put, m.  VersionChain has the counting of          *)
(* versions and the epochs that decide when read_rel_version moves; here a *)
(* pin is one step and read_rel_version may move whenever it is behind.    *)
(***************************************************************************)
EXTENDS Naturals, Sequences, FiniteSets

CONSTANTS
    Reader,        \* transactions that read
    Flusher,       \* high compaction threads
    LastMemtable,  \* bound: the last memtable
    LastVersion,   \* bound: the last version
    NoMemtable     \* the null memtable pointer

ASSUME MemtableChainAssumption ==
    /\ LastMemtable \in Nat /\ LastVersion \in Nat
    /\ NoMemtable \notin 0 .. LastMemtable

Memtable == 0 .. LastMemtable
Version == 0 .. LastVersion
Pointer == Memtable \cup {NoMemtable}

VARIABLES
    current,              \* currentMemTable
    filled,               \* memtables that hold their put
    HighCompactionList,   \* memtables to persist
    relPersistence,       \* the memtable each flusher persists
    installed,            \* flushers whose version is installed
    read_rel_version, current_rel_version,
    size_entry,           \* a version's memtable
    files,                \* the memtables whose contents a version's files hold
    version,              \* the version each reader pinned
    x,                    \* its place in the chain
    pc,
    owed,                 \* history: the puts made before the read began
    seen                  \* what the read has looked at

memVars == <<current, filled, HighCompactionList>>
flushVars == <<relPersistence, installed>>
versionVars == <<read_rel_version, current_rel_version, size_entry, files>>
readVars == <<version, x, pc, owed, seen>>
vars == <<memVars, flushVars, versionVars, readVars>>

Init ==
    /\ current = 0 /\ filled = {} /\ HighCompactionList = <<>>
    /\ relPersistence = [f \in Flusher |-> NoMemtable] /\ installed = {}
    /\ read_rel_version = 0 /\ current_rel_version = 0
    /\ size_entry = [v \in Version |-> NoMemtable]
    /\ files = [v \in Version |-> {}]
    /\ version = [r \in Reader |-> 0]
    /\ x = [r \in Reader |-> NoMemtable]
    /\ pc = [r \in Reader |-> "idle"]
    /\ owed = [r \in Reader |-> {}] /\ seen = [r \in Reader |-> {}]

(* The versions not deleted: V0, whose second count nobody gives back, the *)
(* chain from read_rel_version on, and the versions readers pinned.        *)
Live == {0} \cup read_rel_version .. current_rel_version
            \cup {version[r] : r \in {q \in Reader : pc[q] # "idle"}}

(* The memtables some shared_ptr holds.                                    *)
Alive == {current}
         \cup {HighCompactionList[k] : k \in DOMAIN HighCompactionList}
         \cup {relPersistence[f] : f \in Flusher}
         \cup {size_entry[v] : v \in Live}
         \cup {x[r] : r \in Reader}

-----------------------------------------------------------------------------
(* A put into the current memtable fills it ...                            *)
Put ==
    /\ current \notin filled
    /\ filled' = filled \cup {current}
    /\ UNCHANGED <<current, HighCompactionList, flushVars, versionVars, readVars>>

(* ... and immute_memtable replaces it and queues it to be persisted.      *)
Replace ==
    /\ current \in filled /\ current < LastMemtable
    /\ current' = current + 1
    /\ HighCompactionList' = Append(HighCompactionList, current)
    /\ UNCHANGED <<filled, flushVars, versionVars, readVars>>

-----------------------------------------------------------------------------
(* HighCompactLoop takes a memtable from the queue.                        *)
Pop(f) ==
    /\ relPersistence[f] = NoMemtable /\ HighCompactionList # <<>>
    /\ relPersistence' = [relPersistence EXCEPT ![f] = Head(HighCompactionList)]
    /\ HighCompactionList' = Tail(HighCompactionList)
    /\ UNCHANGED <<current, filled, installed, versionVars, readVars>>

(* Wrong: without AddSizeEntry.                                            *)
InstallWithoutEntry(f) ==
    /\ relPersistence[f] # NoMemtable /\ f \notin installed
    /\ current_rel_version < LastVersion
    /\ LET cur == current_rel_version
       IN  /\ current_rel_version' = cur + 1
           /\ size_entry' = [size_entry EXCEPT ![cur + 1] = size_entry[cur]]
           /\ files' = [files EXCEPT ![cur + 1] = files[cur] \cup {relPersistence[f]}]
    /\ installed' = installed \cup {f}
    /\ UNCHANGED <<memVars, relPersistence, read_rel_version, readVars>>

(* ProgressRelVersion under version_mutex: AddSizeEntry on the version     *)
(* that was current, then its successor, which copies the entry.           *)
InstallMemtable(f) ==
    /\ relPersistence[f] # NoMemtable /\ f \notin installed
    /\ current_rel_version < LastVersion
    /\ LET cur == current_rel_version
       IN  /\ current_rel_version' = cur + 1
           /\ size_entry' = [size_entry EXCEPT ![cur] = relPersistence[f],
                                               ![cur + 1] = relPersistence[f]]
           /\ files' = [files EXCEPT ![cur + 1] = files[cur] \cup {relPersistence[f]}]
    /\ installed' = installed \cup {f}
    /\ UNCHANGED <<memVars, relPersistence, read_rel_version, readVars>>

(* The same after a merge: no memtable, and the files hold what they held. *)
InstallMerge ==
    /\ current_rel_version < LastVersion
    /\ LET cur == current_rel_version
       IN  /\ files[cur] # {}
           /\ current_rel_version' = cur + 1
           /\ size_entry' = [size_entry EXCEPT ![cur + 1] = size_entry[cur]]
           /\ files' = [files EXCEPT ![cur + 1] = files[cur]]
    /\ UNCHANGED <<memVars, flushVars, read_rel_version, readVars>>

(* The end of the loop's body drops the thread's copy of the compaction.   *)
EndJob(f) ==
    /\ f \in installed
    /\ relPersistence' = [relPersistence EXCEPT ![f] = NoMemtable]
    /\ installed' = installed \ {f}
    /\ UNCHANGED <<memVars, versionVars, readVars>>

(* ProgressReadRelVersion, by any thread that runs it.                     *)
AdvanceRead ==
    /\ read_rel_version < current_rel_version
    /\ read_rel_version' = read_rel_version + 1
    /\ UNCHANGED <<memVars, flushVars, current_rel_version, size_entry, files,
                   readVars>>

-----------------------------------------------------------------------------
(* A transaction begins, and pins the version.                             *)
Begin(r) ==
    /\ pc[r] = "idle"
    /\ pc' = [pc EXCEPT ![r] = "begun"]
    /\ version' = [version EXCEPT ![r] = read_rel_version]
    /\ owed' = [owed EXCEPT ![r] = filled]
    /\ UNCHANGED <<memVars, flushVars, versionVars, x, seen>>

(* GetTuple: from the current memtable ...                                 *)
StartWalk(r) ==
    /\ pc[r] = "begun"
    /\ pc' = [pc EXCEPT ![r] = "walk"]
    /\ x' = [x EXCEPT ![r] = current]
    /\ UNCHANGED <<memVars, flushVars, versionVars, version, owed, seen>>

(* What next.lock() returns.                                               *)
NextOf(m) == IF m > 0 /\ m - 1 \in Alive THEN m - 1 ELSE NoMemtable

(* Wrong: stop at the version's own memtable before looking at it.         *)
VisitStopsBefore(r) ==
    /\ pc[r] = "walk"
    /\ LET stop == x[r] = size_entry[version[r]]
           to == IF stop THEN NoMemtable ELSE NextOf(x[r])
       IN  /\ seen' = [seen EXCEPT ![r] = @ \cup (IF stop THEN {} ELSE {x[r]} \cap filled)]
           /\ x' = [x EXCEPT ![r] = to]
           /\ pc' = [pc EXCEPT ![r] = IF to = NoMemtable THEN "files" ELSE "walk"]
    /\ UNCHANGED <<memVars, flushVars, versionVars, version, owed>>

(* ... look at a memtable, stop at the version's own, or follow next.      *)
Visit(r) ==
    /\ pc[r] = "walk"
    /\ seen' = [seen EXCEPT ![r] = @ \cup ({x[r]} \cap filled)]
    /\ LET to == IF x[r] = size_entry[version[r]] THEN NoMemtable
                 ELSE NextOf(x[r])
       IN  /\ x' = [x EXCEPT ![r] = to]
           /\ pc' = [pc EXCEPT ![r] = IF to = NoMemtable THEN "files" ELSE "walk"]
    /\ UNCHANGED <<memVars, flushVars, versionVars, version, owed>>

(* Transaction::GetTuple then looks into the version's files.              *)
ReadFiles(r) ==
    /\ pc[r] = "files"
    /\ pc' = [pc EXCEPT ![r] = "done"]
    /\ seen' = [seen EXCEPT ![r] = @ \cup files[version[r]]]
    /\ UNCHANGED <<memVars, flushVars, versionVars, version, x, owed>>

End(r) ==
    /\ pc[r] = "done"
    /\ pc' = [pc EXCEPT ![r] = "idle"]
    /\ version' = [version EXCEPT ![r] = 0]
    /\ owed' = [owed EXCEPT ![r] = {}]
    /\ seen' = [seen EXCEPT ![r] = {}]
    /\ UNCHANGED <<memVars, flushVars, versionVars, x>>

-----------------------------------------------------------------------------
Next == \/ Put \/ Replace \/ InstallMerge \/ AdvanceRead
        \/ \E f \in Flusher : Pop(f) \/ InstallMemtable(f) \/ EndJob(f)
        \/ \E r \in Reader : \/ Begin(r) \/ StartWalk(r) \/ Visit(r)
                             \/ ReadFiles(r) \/ End(r)

Spec == Init /\ [][Next]_vars

-----------------------------------------------------------------------------
(* The memtables have been installed in the order they were filled.        *)
InOrder ==
    \A v \in 0 .. current_rel_version : \A m \in files[v] :
        0 .. m \subseteq files[v]

(* A read that is over has looked at every put made before it began,       *)
(* wherever compaction has moved it meanwhile: this holds if the flushers  *)
(* install in order and read_rel_version has left the read behind by no    *)
(* more than one version, so that the memtables it needs are in versions   *)
(* not deleted.                                                            *)
PromptReadsComplete ==
    InOrder => \A r \in Reader :
        pc[r] = "done" /\ read_rel_version <= version[r] + 1
            => owed[r] \subseteq seen[r]

(* The walk of a read of version v gets as far as memtable m: next leads   *)
(* there from the current one, and v's own memtable does not end it first. *)
Reaches(v, m) ==
    \A n \in m .. current : n \in Alive /\ (n > m => n # size_entry[v])

(* A later memtable got into some version's files, from v on, before m.    *)
Overtaken(m, v) ==
    \E u \in v .. current_rel_version :
        m \notin files[u] /\ \E n \in files[u] : n > m

(* No put is out of reach: in each version that a read may yet pin, a put  *)
(* that its files lack is in a memtable that a read of the version walks   *)
(* to, unless the flushers overtook it.  Then the walk may stop short of   *)
(* it or find the chain broken, but somebody holds it still.               *)
ChainCovers ==
    \A v \in read_rel_version .. current_rel_version :
        \A m \in filled \ files[v] :
            m \in Alive /\ (Overtaken(m, v) \/ Reaches(v, m))
=============================================================================
