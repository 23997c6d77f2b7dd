---------------------------- MODULE VersionChain ----------------------------
(***************************************************************************)
(* The versions of the tree and who keeps them alive: RelVersion's         *)
(* reference count, read_rel_version and current_rel_version, the files a  *)
(* version refers to, and the threads that move or hold them (DB.cpp,      *)
(* RelVersion.cpp, Transaction.cpp).                                       *)
(*                                                                         *)
(* ProgressRelVersion appends a version to the chain under version_mutex,  *)
(* ProgressReadRelVersion moves read_rel_version along the chain without a *)
(* lock, transactions pin the version they read.  The epoch table is the   *)
(* set ActiveEpochs describes and a scan of it is one step.  What a file   *)
(* holds, its level and the choice GetCompaction makes among the files     *)
(* that are not merging are abstracted: any of them may be chosen.         *)
(***************************************************************************)
EXTENDS Integers, FiniteSets

CONSTANTS
    Client,      \* threads that run transactions
    Compactor,   \* the high and low compaction threads
    Addr,        \* the addresses of versions
    V0,          \* the address of the first version
    NULL,        \* no version
    File,        \* the file ids GetFileID can give out
    MAXTIME,     \* no epoch: a read-only transaction, an unset next_epoch
    Reuse        \* may the allocator hand out a freed address again?

ASSUME ChainAssumption ==
    /\ V0 \in Addr /\ NULL \notin Addr
    /\ MAXTIME \in Nat /\ MAXTIME > 1
    /\ Reuse \in BOOLEAN
    /\ IsFiniteSet(Client) /\ IsFiniteSet(Compactor)
    /\ IsFiniteSet(Addr) /\ IsFiniteSet(File)

Thread == Client \cup Compactor
Epoch == 1 .. MAXTIME - 1
Time == 0 .. MAXTIME

VARIABLES
    epoch_id, active,                   \* the counter and the epoch table
    read_rel_version, current_rel_version,
    live, used,                         \* allocated versions; ever allocated
    ref, epoch, next, next_epoch,       \* a version's fields
    FileIndex,                          \* the files of a version
    vno,                                \* history: a version's number
    fref, disk, merging,                \* a file's ref; unlinked?; its flag
    queue,                              \* inputs of the compactions queued
    pc,                                 \* where each thread is
    write_epoch, rel_version,           \* a transaction's fields
    nrt, tail, tail_next,               \* ProgressReadRelVersion's locals
    job, file_id,                       \* a compaction's inputs and output
    closed                              \* has ~DB run?

epochVars == <<epoch_id, active>>
fieldVars == <<epoch, next, next_epoch, FileIndex, vno>>
versionVars == <<live, used, ref, fieldVars>>
pointerVars == <<read_rel_version, current_rel_version>>
fileVars == <<fref, disk, merging, queue>>
txnVars == <<write_epoch, rel_version>>
progressVars == <<nrt, tail, tail_next>>
jobVars == <<job, file_id>>
vars == <<epochVars, versionVars, pointerVars, fileVars, pc, txnVars,
          progressVars, jobVars, closed>>

Control == {"idle", "taken", "load", "addref", "active", "erase",
            "work", "install",
            "empty", "counter", "min", "tail", "check", "cas", "drop"}

TypeOK ==
    /\ epoch_id \in 1 .. MAXTIME /\ active \subseteq Time
    /\ read_rel_version \in Addr /\ current_rel_version \in Addr
    /\ live \subseteq used /\ used \subseteq Addr
    /\ ref \in [Addr -> Int]
    /\ epoch \in [Addr -> 0 .. MAXTIME - 1]
    /\ next \in [Addr -> Addr \cup {NULL}]
    /\ next_epoch \in [Addr -> Time]
    /\ FileIndex \in [Addr -> SUBSET File]
    /\ vno \in [Addr -> Nat]
    /\ fref \in [File -> Int] /\ disk \subseteq File /\ merging \subseteq File
    /\ queue \subseteq SUBSET File
    /\ pc \in [Thread -> Control]
    /\ write_epoch \in [Thread -> Time]
    /\ rel_version \in [Thread -> Addr \cup {NULL}]
    /\ nrt \in [Thread -> Int]
    /\ tail \in [Thread -> Addr \cup {NULL}]
    /\ tail_next \in [Thread -> Addr \cup {NULL}]
    /\ job \in [Thread -> SUBSET File]
    /\ file_id \in [Thread -> SUBSET File]
    /\ closed \in BOOLEAN

(* Both pointers name V0, whose count starts at two.                       *)
Init ==
    /\ epoch_id = 1 /\ active = {}
    /\ read_rel_version = V0 /\ current_rel_version = V0
    /\ live = {V0} /\ used = {V0}
    /\ ref = [a \in Addr |-> IF a = V0 THEN 2 ELSE 0]
    /\ epoch = [a \in Addr |-> 0]
    /\ next = [a \in Addr |-> NULL]
    /\ next_epoch = [a \in Addr |-> MAXTIME]
    /\ FileIndex = [a \in Addr |-> {}]
    /\ vno = [a \in Addr |-> 0]
    /\ fref = [f \in File |-> 0] /\ disk = {} /\ merging = {} /\ queue = {}
    /\ pc = [t \in Thread |-> "idle"]
    /\ write_epoch = [t \in Thread |-> MAXTIME]
    /\ rel_version = [t \in Thread |-> NULL]
    /\ nrt = [t \in Thread |-> 0]
    /\ tail = [t \in Thread |-> NULL]
    /\ tail_next = [t \in Thread |-> NULL]
    /\ job = [t \in Thread |-> {}]
    /\ file_id = [t \in Thread |-> {}]
    /\ closed = FALSE

Goto(t, label) == pc' = [pc EXCEPT ![t] = label]

-----------------------------------------------------------------------------
(* Reference counts.                                                       *)

(* DecRef of the version a; the last one deletes it, which drops its files *)
(* and unlinks those no other version has.                                 *)
DecRef(a) ==
    /\ ref' = [ref EXCEPT ![a] = @ - 1]
    /\ IF ref[a] = 1
       THEN /\ live' = live \ {a}
            /\ fref' = [f \in File |->
                          fref[f] - (IF f \in FileIndex[a] THEN 1 ELSE 0)]
            /\ disk' = disk \ {f \in FileIndex[a] : fref[f] = 1}
       ELSE UNCHANGED <<live, fref, disk>>
    /\ UNCHANGED <<used, fieldVars, merging, queue>>

-----------------------------------------------------------------------------
(* Transactions.                                                           *)

(* BeginRelTransaction takes an epoch ...                                  *)
TakeEpoch(c) ==
    /\ pc[c] = "idle" /\ ~closed
    /\ epoch_id < MAXTIME
    /\ epoch_id' = epoch_id + 1
    /\ write_epoch' = [write_epoch EXCEPT ![c] = epoch_id]
    /\ Goto(c, "taken")
    /\ UNCHANGED <<active, versionVars, pointerVars, fileVars, rel_version,
                   progressVars, jobVars, closed>>

(* ... and enters it in the table before it looks for a version.           *)
Register(c) ==
    /\ pc[c] = "taken"
    /\ active' = active \cup {write_epoch[c]}
    /\ Goto(c, "load")
    /\ UNCHANGED <<epoch_id, versionVars, pointerVars, fileVars, txnVars,
                   progressVars, jobVars, closed>>

(* BeginReadOnlyRelTransaction enters nothing; its read time does not      *)
(* concern the chain.                                                      *)
BeginReadOnly(c) ==
    /\ pc[c] = "idle" /\ ~closed
    /\ Goto(c, "load")
    /\ UNCHANGED <<epochVars, versionVars, pointerVars, fileVars, txnVars,
                   progressVars, jobVars, closed>>

(* get_read_rel_version: load the pointer, then try to count itself in.    *)
LoadRead(c) ==
    /\ pc[c] = "load"
    /\ rel_version' = [rel_version EXCEPT ![c] = read_rel_version]
    /\ Goto(c, "addref")
    /\ UNCHANGED <<epochVars, versionVars, pointerVars, fileVars, write_epoch,
                   progressVars, jobVars, closed>>

(* Wrong: a count of zero is no obstacle.                                  *)
AddRefUnchecked(c) ==
    /\ pc[c] = "addref"
    /\ ref' = [ref EXCEPT ![rel_version[c]] = @ + 1]
    /\ Goto(c, "active")
    /\ UNCHANGED <<epochVars, live, used, fieldVars, pointerVars, fileVars,
                   txnVars, progressVars, jobVars, closed>>

(* AddRef reads the count of whatever is at the address by now.  A freed   *)
(* version's memory still holds its last count, zero, until it is reused.  *)
AddRefSucceeds(c) ==
    /\ pc[c] = "addref"
    /\ ref[rel_version[c]] # 0
    /\ ref' = [ref EXCEPT ![rel_version[c]] = @ + 1]
    /\ Goto(c, "active")
    /\ UNCHANGED <<epochVars, live, used, fieldVars, pointerVars, fileVars,
                   txnVars, progressVars, jobVars, closed>>

AddRefFails(c) ==
    /\ pc[c] = "addref"
    /\ ref[rel_version[c]] = 0
    /\ Goto(c, "load")
    /\ UNCHANGED <<epochVars, versionVars, pointerVars, fileVars, txnVars,
                   progressVars, jobVars, closed>>

(* ~Transaction gives the version back first ...                           *)
EndTransaction(c) ==
    /\ pc[c] = "active"
    /\ DecRef(rel_version[c])
    /\ rel_version' = [rel_version EXCEPT ![c] = NULL]
    /\ Goto(c, IF write_epoch[c] = MAXTIME THEN "idle" ELSE "erase")
    /\ UNCHANGED <<epochVars, pointerVars, write_epoch, progressVars, jobVars,
                   closed>>

(* Wrong: it leaves the table and that is all.                             *)
EraseEpochOnly(c) ==
    /\ pc[c] = "erase"
    /\ active' = active \ {write_epoch[c]}
    /\ write_epoch' = [write_epoch EXCEPT ![c] = MAXTIME]
    /\ Goto(c, "idle")
    /\ UNCHANGED <<epoch_id, versionVars, pointerVars, fileVars, rel_version,
                   progressVars, jobVars, closed>>

(* ... then leaves the table and advances read_rel_version.                *)
EraseEpoch(c) ==
    /\ pc[c] = "erase"
    /\ active' = active \ {write_epoch[c]}
    /\ write_epoch' = [write_epoch EXCEPT ![c] = MAXTIME]
    /\ Goto(c, "empty")
    /\ UNCHANGED <<epoch_id, versionVars, pointerVars, fileVars, rel_version,
                   progressVars, jobVars, closed>>

-----------------------------------------------------------------------------
(* ProgressReadRelVersion, run by ending writers and by compactors.        *)

(* get_read_time, first half: is the table empty?                          *)
LookEmpty(t) ==
    /\ pc[t] = "empty"
    /\ Goto(t, IF active = {} THEN "counter" ELSE "min")
    /\ UNCHANGED <<epochVars, versionVars, pointerVars, fileVars, txnVars,
                   progressVars, jobVars, closed>>

(* Second half: the counter ...                                            *)
ReadCounter(t) ==
    /\ pc[t] = "counter"
    /\ nrt' = [nrt EXCEPT ![t] = epoch_id]
    /\ Goto(t, "tail")
    /\ UNCHANGED <<epochVars, versionVars, pointerVars, fileVars, txnVars,
                   tail, tail_next, jobVars, closed>>

(* ... or one below the least epoch; the table may have been emptied since *)
(* it was found not to be.                                                 *)
ReadMinimum(t) ==
    /\ pc[t] = "min"
    /\ \E least \in active \cup {MAXTIME} :
          /\ \A e \in active : least <= e
          /\ nrt' = [nrt EXCEPT ![t] = least - 1]
    /\ Goto(t, "tail")
    /\ UNCHANGED <<epochVars, versionVars, pointerVars, fileVars, txnVars,
                   tail, tail_next, jobVars, closed>>

LoadTail(t) ==
    /\ pc[t] = "tail"
    /\ tail' = [tail EXCEPT ![t] = read_rel_version]
    /\ Goto(t, "check")
    /\ UNCHANGED <<epochVars, versionVars, pointerVars, fileVars, txnVars,
                   nrt, tail_next, jobVars, closed>>

(* The locals of a thread that leaves the loop go out of scope.            *)
LeaveProgress(t) ==
    /\ Goto(t, "idle")
    /\ nrt' = [nrt EXCEPT ![t] = 0]
    /\ tail' = [tail EXCEPT ![t] = NULL]
    /\ tail_next' = [tail_next EXCEPT ![t] = NULL]

(* The version has no successor, or one a transaction still runs below.    *)
StopAtTail(t) ==
    /\ pc[t] = "check"
    /\ \/ next_epoch[tail[t]] = MAXTIME
       \/ next_epoch[tail[t]] >= nrt[t]
    /\ LeaveProgress(t)
    /\ UNCHANGED <<epochVars, versionVars, pointerVars, fileVars, txnVars,
                   jobVars, closed>>

(* Wrong: the version's own epoch is compared, not its successor's ...     *)
LoadTailNextByEpoch(t) ==
    /\ pc[t] = "check"
    /\ epoch[tail[t]] < nrt[t]
    /\ tail_next' = [tail_next EXCEPT ![t] = next[tail[t]]]
    /\ Goto(t, "cas")
    /\ UNCHANGED <<epochVars, versionVars, pointerVars, fileVars, txnVars,
                   nrt, tail, jobVars, closed>>

(* ... or the pointer jumps to the newest version.                         *)
LoadTailNextNewest(t) ==
    /\ pc[t] = "check"
    /\ next_epoch[tail[t]] # MAXTIME
    /\ next_epoch[tail[t]] < nrt[t]
    /\ tail_next' = [tail_next EXCEPT ![t] = current_rel_version]
    /\ Goto(t, "cas")
    /\ UNCHANGED <<epochVars, versionVars, pointerVars, fileVars, txnVars,
                   nrt, tail, jobVars, closed>>

LoadTailNext(t) ==
    /\ pc[t] = "check"
    /\ next_epoch[tail[t]] # MAXTIME
    /\ next_epoch[tail[t]] < nrt[t]
    /\ tail_next' = [tail_next EXCEPT ![t] = next[tail[t]]]
    /\ Goto(t, "cas")
    /\ UNCHANGED <<epochVars, versionVars, pointerVars, fileVars, txnVars,
                   nrt, tail, jobVars, closed>>

(* Wrong: the version passed by keeps the chain's count.                   *)
AdvanceReadKeepsCount(t) ==
    /\ pc[t] = "cas"
    /\ read_rel_version = tail[t]
    /\ read_rel_version' = tail_next[t]
    /\ Goto(t, "empty")
    /\ UNCHANGED <<epochVars, versionVars, current_rel_version, fileVars,
                   txnVars, progressVars, jobVars, closed>>

(* The compare-and-swap compares addresses.                                *)
AdvanceRead(t) ==
    /\ pc[t] = "cas"
    /\ read_rel_version = tail[t]
    /\ read_rel_version' = tail_next[t]
    /\ Goto(t, "drop")
    /\ UNCHANGED <<epochVars, versionVars, current_rel_version, fileVars,
                   txnVars, progressVars, jobVars, closed>>

AdvanceFails(t) ==
    /\ pc[t] = "cas"
    /\ read_rel_version # tail[t]
    /\ Goto(t, "empty")
    /\ UNCHANGED <<epochVars, versionVars, pointerVars, fileVars, txnVars,
                   progressVars, jobVars, closed>>

(* The chain's own reference to the version passed by.                     *)
DropTail(t) ==
    /\ pc[t] = "drop"
    /\ DecRef(tail[t])
    /\ Goto(t, "empty")
    /\ UNCHANGED <<epochVars, pointerVars, txnVars, progressVars, jobVars,
                   closed>>

-----------------------------------------------------------------------------
(* Compaction threads.                                                     *)

(* GetCompaction marks the files it returns; it may return none.           *)
Picks(files, S) ==
    /\ S \subseteq files \ merging
    /\ merging' = merging \cup S
    /\ queue' = IF S = {} THEN queue ELSE queue \cup {S}

(* The ids GetFileID has not given out: a file leaves the disk only after  *)
(* it has been an input, and stays marked.                                 *)
FreshFile == {f \in File \ (disk \cup merging) :
                \A t \in Thread : f \notin file_id[t]}

(* TryCompaction, under version_mutex.                                     *)
TryCompaction(p) ==
    /\ pc[p] = "idle" /\ ~closed
    /\ \E S \in (SUBSET FileIndex[current_rel_version]) \ {{}} :
          Picks(FileIndex[current_rel_version], S)
    /\ UNCHANGED <<epochVars, versionVars, pointerVars, fref, disk, pc,
                   txnVars, progressVars, jobVars, closed>>

(* Pop a compaction, or (S = {}) the persistence of a memtable.            *)
StartJob(p) ==
    /\ pc[p] = "idle" /\ ~closed
    /\ \E S \in queue \cup {{}}, f \in FreshFile :
          /\ queue' = queue \ {S}
          /\ job' = [job EXCEPT ![p] = S]
          /\ file_id' = [file_id EXCEPT ![p] = {f}]
    /\ Goto(p, "work")
    /\ UNCHANGED <<epochVars, versionVars, pointerVars, fref, disk, merging,
                   txnVars, progressVars, closed>>

(* Read the inputs, write the output.                                      *)
BuildFile(p) ==
    /\ pc[p] = "work"
    /\ disk' = disk \cup file_id[p]
    /\ Goto(p, "install")
    /\ UNCHANGED <<epochVars, versionVars, pointerVars, fref, merging, queue,
                   txnVars, progressVars, jobVars, closed>>

FreeAddr == IF Reuse THEN Addr \ live ELSE Addr \ used

LaterOf(a, b) == IF a < b THEN b ELSE a

(* The files a new version counts: all it lists, those it takes over from  *)
(* its predecessor too.                                                    *)
CountedOnlyNew(files, new) == new   \* wrong
Counted(files, new) == files

(* ProgressRelVersion, under version_mutex: the new version at address a,  *)
(* with the edit's files, after the current one; then GetCompaction.       *)
(* A memtable's max_time is some epoch handed out; a merge passes zero.    *)
Install(p) ==
    /\ pc[p] = "install"
    /\ \E a \in FreeAddr, S \in SUBSET File,
          time \in IF job[p] = {} THEN 1 .. epoch_id - 1 ELSE {0} :
          LET cur == current_rel_version
              files == (FileIndex[cur] \ job[p]) \cup file_id[p]
              e == LaterOf(epoch[cur], time)
          IN  /\ live' = live \cup {a}
              /\ used' = used \cup {a}
              /\ ref' = [ref EXCEPT ![a] = 1]
              /\ epoch' = [epoch EXCEPT ![a] = e]
              /\ next' = [next EXCEPT ![a] = NULL, ![cur] = a]
              /\ next_epoch' = [next_epoch EXCEPT ![a] = MAXTIME, ![cur] = e]
              /\ FileIndex' = [FileIndex EXCEPT ![a] = files]
              /\ vno' = [vno EXCEPT ![a] = vno[cur] + 1]
              /\ fref' = [f \in File |->
                            fref[f] + (IF f \in Counted(files, file_id[p])
                                       THEN 1 ELSE 0)]
              /\ current_rel_version' = a
              /\ Picks(files, S)
    /\ job' = [job EXCEPT ![p] = {}]
    /\ file_id' = [file_id EXCEPT ![p] = {}]
    /\ Goto(p, "empty")
    /\ UNCHANGED <<epochVars, read_rel_version, disk, txnVars, progressVars,
                   closed>>

(* ~DB: the compaction threads have been joined, the transactions are      *)
(* over; what both pointers name is given back, once when it is the same.  *)
Close ==
    /\ ~closed
    /\ \A t \in Thread : pc[t] = "idle"
    /\ closed' = TRUE
    /\ LET released == {read_rel_version, current_rel_version}
           dead == {a \in released : ref[a] = 1}
           drops(f) == Cardinality({a \in dead : f \in FileIndex[a]})
       IN  /\ ref' = [a \in Addr |-> IF a \in released THEN ref[a] - 1
                                     ELSE ref[a]]
           /\ live' = live \ dead
           /\ fref' = [f \in File |-> fref[f] - drops(f)]
           /\ disk' = disk \ {f \in File : drops(f) > 0 /\ fref[f] = drops(f)}
    /\ UNCHANGED <<epochVars, used, fieldVars, pointerVars, merging, queue, pc,
                   txnVars, progressVars, jobVars>>

-----------------------------------------------------------------------------
BeginStep(c) == \/ Register(c) \/ LoadRead(c)
                \/ AddRefSucceeds(c) \/ AddRefFails(c)
ClientStep(c) == \/ TakeEpoch(c) \/ BeginReadOnly(c) \/ BeginStep(c)
                 \/ EndTransaction(c) \/ EraseEpoch(c)
ProgressStep(t) == \/ LookEmpty(t) \/ ReadCounter(t) \/ ReadMinimum(t)
                   \/ LoadTail(t) \/ StopAtTail(t) \/ LoadTailNext(t) \/ AdvanceRead(t)
                   \/ AdvanceFails(t) \/ DropTail(t)
CompactorStep(p) == \/ TryCompaction(p) \/ StartJob(p) \/ BuildFile(p)
                    \/ Install(p)

Next == \/ \E c \in Client : ClientStep(c)
        \/ \E t \in Thread : ProgressStep(t)
        \/ \E p \in Compactor : CompactorStep(p)
        \/ Close

Spec == Init /\ [][Next]_vars

-----------------------------------------------------------------------------
Pins(a) == {c \in Client : pc[c] = "active" /\ rel_version[c] = a}
Drops(a) == {t \in Thread : pc[t] = "drop" /\ tail[t] = a}

(* The versions the chain itself keeps: from the one transactions read to  *)
(* the current one.                                                        *)
InChain(a) == a \in live /\ vno[read_rel_version] <= vno[a]

(* A version's count is exactly the number of those who rely on it: the    *)
(* chain, the transactions, the threads about to drop the chain's count    *)
(* (and V0's second count, which nobody gives back).                       *)
RefExact ==
    ~closed => \A a \in live :
        ref[a] = (IF InChain(a) THEN 1 ELSE 0) + (IF a = V0 THEN 1 ELSE 0)
                 + Cardinality(Pins(a)) + Cardinality(Drops(a))

(* Nobody uses a version that has been deleted: neither the two pointers,  *)
(* nor a transaction, nor a thread about to give a count back.             *)
NoDangling ==
    ~closed =>
        /\ {read_rel_version, current_rel_version} \subseteq live
        /\ \A a \in Addr : Pins(a) \cup Drops(a) # {} => a \in live

(* What a transaction reads with GetTuple is a version nobody has deleted.  *)
PinnedIsLive ==
    \A c \in Client : pc[c] = "active" => rel_version[c] \in live

(* Files are unlinked when the last version that lists them goes, not      *)
(* before, so a transaction's files and the inputs of every compaction     *)
(* queued or running can be read; and not never: a file on disk is in a    *)
(* version or about to be installed, and after ~DB only V0 is left.        *)
FilesExact ==
    /\ ~closed => /\ \A a \in live : FileIndex[a] \subseteq disk
                  /\ \A S \in queue : S \subseteq disk
                  /\ \A p \in Compactor : job[p] \subseteq disk
    /\ \A f \in disk : \/ \E a \in live : f \in FileIndex[a]
                       \/ \E p \in Compactor : f \in file_id[p]
    /\ closed => live = {V0} /\ disk = {}

(* No advance is lost: when no writer and no compaction is under way,      *)
(* transactions read the current version, although the threads that move   *)
(* the pointer never wait for one another.                                 *)
QuietReadIsCurrent ==
    (\A t \in Thread : pc[t] \in {"idle", "load", "addref", "active"}
                       /\ write_epoch[t] = MAXTIME)
    => read_rel_version = current_rel_version

(* The version transactions read moves one version forward at a time.      *)
ReadMovesForward ==
    [][vno'[read_rel_version'] \in {vno[read_rel_version],
                                    vno[read_rel_version] + 1}]_vars
=============================================================================
