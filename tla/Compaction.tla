----------------------------- MODULE Compaction -----------------------------
(***************************************************************************)
(* Which files a version lists, level by level, and how compactions change *)
(* them: RelVersion::GetCompaction chooses the inputs, MergeRelFile makes  *)
(* the outputs, RelVersion's constructor applies the edit, and             *)
(* RelVersionIterator finds a key (RelVersion.cpp, RelFileManager.cpp,     *)
(* DB.cpp).                                                                *)
(*                                                                         *)
(* Only the current version is kept: choosing and installing run under     *)
(* version_mutex on it, merging reads immutable files.  A file is what it  *)
(* holds, a function from keys to the memtable that wrote them; key_min    *)
(* and key_max are its least and greatest key.                             *)
(***************************************************************************)
EXTENDS Integers, FiniteSets, Sequences, SequencesExt

CONSTANTS
    High, Low,           \* the high and low compaction threads
    Key,                 \* keys, integers for their order
    MEM_TABLE_MAX_SIZE,  \* rows of a memtable, and of a merge's output file
    MAX_LEVEL,
    LEVEL_SIZE_RITIO,
    LEVEL_ONE_FILES,     \* files level 1 may have (the literal 4)
    ZERO_LEVEL_FILES,    \* level 0 files beyond which writers stall
    Batch,               \* sets of keys a memtable may hold
    Overwrite,           \* may a key be put again?
    LastMemtable         \* bound: memtables there are

ASSUME CompactionAssumption ==
    /\ Key \subseteq Nat /\ IsFiniteSet(Key)
    /\ MEM_TABLE_MAX_SIZE \in Nat \ {0}
    /\ MAX_LEVEL \in Nat \ {0, 1}
    /\ {LEVEL_SIZE_RITIO, LEVEL_ONE_FILES, ZERO_LEVEL_FILES, LastMemtable}
         \subseteq Nat
    /\ Batch \subseteq (SUBSET Key) \ {{}}
    /\ Overwrite \in BOOLEAN

Thread == High \cup Low
Level == 0 .. MAX_LEVEL - 1

VARIABLES
    FileIndex,            \* the current version's files, level by level
    merging,              \* ids of the files with the flag
    no_overlap_in_next_level,   \* ids of the files with the flag
    write_stall,          \* write_stall[1]
    id,                   \* the file ids given out
    memtables,            \* rows of the memtables queued so far
    HighCompactionList, LowCompactionList,
    job,                  \* the compaction each thread runs, or none
    pc

listVars == <<HighCompactionList, LowCompactionList>>
treeVars == <<FileIndex, merging, no_overlap_in_next_level, write_stall, id>>
vars == <<treeVars, memtables, listVars, job, pc>>

-----------------------------------------------------------------------------
(* Files and compactions.                                                  *)
Rows == [Key -> 0 .. LastMemtable]     \* 0: the key is not there
KeysOf(rows) == {k \in Key : rows[k] # 0}
KeyMin(f) == CHOOSE k \in KeysOf(f.rows) : \A q \in KeysOf(f.rows) : k <= q
KeyMax(f) == CHOOSE k \in KeysOf(f.rows) : \A q \in KeysOf(f.rows) : q <= k
Overlap(f, g) == KeyMin(f) <= KeyMax(g) /\ KeyMin(g) <= KeyMax(f)

(* A compaction: a memtable to persist, or files to merge.                 *)
Persistence(rows) == [rows |-> rows, files |-> <<>>, target_level |-> 0]
Merge(files, level) == [rows |-> [k \in Key |-> 0], files |-> files,
                        target_level |-> level]
NoJob == Merge(<<>>, 0)

Ids(files) == {files[j].id : j \in DOMAIN files}

(* The files with one of these ids, in order.                              *)
Only(files, ids) ==
    LET picked[n \in 0 .. Len(files)] ==
            IF n = 0 THEN <<>>
            ELSE IF files[n].id \in ids THEN Append(picked[n - 1], files[n])
            ELSE picked[n - 1]
    IN  picked[Len(files)]

(* std::lower_bound and upper_bound by key_min: the first file not below   *)
(* the key, the first above it.                                            *)
LowerBound(files, key) ==
    Cardinality({j \in DOMAIN files : \A i \in 1 .. j : KeyMin(files[i]) < key}) + 1
UpperBound(files, key) ==
    Cardinality({j \in DOMAIN files : \A i \in 1 .. j : KeyMin(files[i]) <= key}) + 1

-----------------------------------------------------------------------------
(* GetCompaction.                                                          *)

(* The file sets GetCompaction(level) may start from: at level 0 all that  *)
(* are not merging, unless the oldest is; above, when the level is over    *)
(* its limit, one, and one free of overlap first.                          *)
LevelLimit(level) == LEVEL_SIZE_RITIO ^ (level - 1) * LEVEL_ONE_FILES

DownFiles(index, marked, free, level) ==
    LET files == index[level]
        idle == Only(files, Ids(files) \ marked)
        lone == Only(idle, free)
    IN  IF level = 0
        THEN IF files = <<>> \/ files[1].id \in marked THEN {} ELSE {idle}
        ELSE IF level = MAX_LEVEL - 1 \/ Len(files) <= LevelLimit(level) THEN {}
        ELSE IF lone # <<>> THEN {<<lone[1]>>}
        ELSE {<<idle[j]>> : j \in DOMAIN idle}

(* The files of the next level it adds: from the one before the first not  *)
(* below key_min to the first not below key_max, that one included.        *)
FirstNextAbove(next, min) == LowerBound(next, min)   \* wrong
FirstNext(next, min) == LET p == LowerBound(next, min)
                        IN  IF p > 1 THEN p - 1 ELSE p
LastNext(next, max) == LET p == LowerBound(next, max)
                       IN  IF p <= Len(next) THEN p ELSE Len(next)

NextFiles(next, down) ==
    LET keys == UNION {KeysOf(down[j].rows) : j \in DOMAIN down}
        min == CHOOSE k \in keys : \A q \in keys : k <= q
        max == CHOOSE k \in keys : \A q \in keys : q <= k
    IN  SubSeq(next, FirstNext(next, min), LastNext(next, max))

(* Wrong: whatever is merging in the next level.                           *)
CompactionsUnchecked(index, marked, free, level) ==
    {Merge(down \o NextFiles(index[level + 1], down), level + 1) :
        down \in DownFiles(index, marked, free, level)}

(* What GetCompaction(level) may return; nothing when a file of the next   *)
(* level it needs is merging.                                              *)
Compactions(index, marked, free, level) ==
    {Merge(down \o NextFiles(index[level + 1], down), level + 1) :
        down \in {d \in DownFiles(index, marked, free, level) :
                    Ids(NextFiles(index[level + 1], d)) \cap marked = {}}}

(* The choice GetCompaction makes; FALSE to none if there is one.          *)
Chosen(index, marked, free, level) ==
    LET choices == Compactions(index, marked, free, level)
        blocked == DownFiles(index, marked, free, level) # {}
                   /\ \E d \in DownFiles(index, marked, free, level) :
                        Ids(NextFiles(index[level + 1], d)) \cap marked # {}
    IN  choices \cup IF choices = {} \/ blocked THEN {NoJob} ELSE {}

-----------------------------------------------------------------------------
(* MergeRelFile: of the rows of one key that of the first input stays; the *)
(* rows are cut into files of MEM_TABLE_MAX_SIZE.  A single input is       *)
(* copied as it is.                                                        *)
MergedRows(files) ==
    [k \in Key |->
        LET with == {j \in DOMAIN files : files[j].rows[k] # 0}
        IN  IF with = {} THEN 0
            ELSE files[CHOOSE j \in with : \A i \in with : j <= i].rows[k]]

(* Wrong: the rows that do not fill a file are not written.                *)
OutputsFullOnly(files) ==
    LET rows == MergedRows(files)
        rank(k) == Cardinality({q \in KeysOf(rows) : q <= k})
        count == Cardinality(KeysOf(rows))
        size == IF Len(files) = 1 THEN count ELSE MEM_TABLE_MAX_SIZE
    IN  [n \in 1 .. count \div size |->
            [k \in Key |-> IF rows[k] # 0 /\ (rank(k) - 1) \div size = n - 1
                           THEN rows[k] ELSE 0]]

Outputs(files) ==
    LET rows == MergedRows(files)
        rank(k) == Cardinality({q \in KeysOf(rows) : q <= k})
        count == Cardinality(KeysOf(rows))
        size == IF Len(files) = 1 THEN count ELSE MEM_TABLE_MAX_SIZE
    IN  [n \in 1 .. (count + size - 1) \div size |->
            [k \in Key |-> IF rows[k] # 0 /\ (rank(k) - 1) \div size = n - 1
                           THEN rows[k] ELSE 0]]

(* The files an edit adds, in order; their ids are the next ones.          *)
NewFiles(c, first) ==
    LET outputs == IF c.files = <<>> THEN <<c.rows>> ELSE Outputs(c.files)
    IN  [n \in DOMAIN outputs |-> [id |-> first + n, level |-> c.target_level,
                                   rows |-> outputs[n]]]

-----------------------------------------------------------------------------
(* RelVersion's constructor applies an edit to [index, free].              *)
AddFile(v, f) ==
    LET files == v.index[f.level]
        after == IF f.level + 1 \in Level THEN v.index[f.level + 1] ELSE <<>>
        before == IF f.level > 1 THEN v.index[f.level - 1] ELSE <<>>
        at == UpperBound(after, KeyMin(f))
        covered == {j \in DOMAIN before :
                      j >= UpperBound(before, KeyMin(f)) - 1 /\ Overlap(f, before[j])}
        alone == \A j \in {at - 1, at} \cap DOMAIN after : ~Overlap(f, after[j])
    IN  [index |-> [v.index EXCEPT ![f.level] =
                      IF f.level = 0 THEN Append(files, f)
                      ELSE InsertAt(files, UpperBound(files, KeyMin(f)), f)],
         free |-> (v.free \ {before[j].id : j \in covered})
                    \cup IF alone THEN {f.id} ELSE {}]

(* At level 0 the file is looked up by its id, above by its key_min, so    *)
(* that another file may be found: the first not below it.  If there is    *)
(* none, vector::erase(end()) is undefined; as built it takes the last     *)
(* file of the level.                                                      *)
EraseFile(v, f) ==
    LET files == v.index[f.level]
        at == IF f.level = 0 THEN CHOOSE j \in DOMAIN files : files[j].id = f.id
              ELSE LowerBound(files, KeyMin(f))
    IN  [v EXCEPT !.index[f.level] =
            RemoveAt(files, IF at <= Len(files) THEN at ELSE Len(files))]

(* The edit: the new files first, then the inputs.                         *)
Edited(c, first) ==
    LET new == NewFiles(c, first)
        added[n \in 0 .. Len(new)] ==
            IF n = 0 THEN [index |-> FileIndex, free |-> no_overlap_in_next_level]
            ELSE AddFile(added[n - 1], new[n])
        erased[n \in 0 .. Len(c.files)] ==
            IF n = 0 THEN added[Len(new)] ELSE EraseFile(erased[n - 1], c.files[n])
    IN  erased[Len(c.files)]

-----------------------------------------------------------------------------
Init ==
    /\ FileIndex = [l \in Level |-> <<>>]
    /\ merging = {} /\ no_overlap_in_next_level = {}
    /\ write_stall = FALSE /\ id = 0
    /\ memtables = <<>>
    /\ HighCompactionList = <<>> /\ LowCompactionList = <<>>
    /\ job = [t \in Thread |-> NoJob]
    /\ pc = [t \in Thread |-> "try"]

(* immute_memtable queues a memtable; its rows name it.                    *)
QueueMemtable(keys) ==
    LET n == Len(memtables) + 1
        rows == [k \in Key |-> IF k \in keys THEN n ELSE 0]
    IN  /\ n <= LastMemtable
        /\ Overwrite \/ \A m \in DOMAIN memtables :
                          KeysOf(memtables[m]) \cap keys = {}
        /\ memtables' = Append(memtables, rows)
        /\ HighCompactionList' = Append(HighCompactionList, Persistence(rows))
        /\ UNCHANGED <<treeVars, LowCompactionList, job, pc>>

(* TryCompaction: choose from the current version, always for the high     *)
(* threads.  A high thread tries level 0, a low thread any.                *)
TryCompaction(t) ==
    /\ pc[t] = "try"
    /\ pc' = [pc EXCEPT ![t] = "pop"]
    /\ \E l \in IF t \in High THEN {0} ELSE Level :
       \E c \in Chosen(FileIndex, merging, no_overlap_in_next_level, l) :
          /\ merging' = merging \cup Ids(c.files)
          /\ HighCompactionList' = IF c = NoJob THEN HighCompactionList
                                   ELSE Append(HighCompactionList, c)
    /\ UNCHANGED <<FileIndex, no_overlap_in_next_level, write_stall, id,
                   memtables, LowCompactionList, job>>

(* Take the oldest compaction of one's list ...                            *)
Pop(t) ==
    /\ pc[t] = "pop"
    /\ LET list == IF t \in High THEN HighCompactionList ELSE LowCompactionList
       IN  /\ list # <<>>
           /\ job' = [job EXCEPT ![t] = Head(list)]
           /\ IF t \in High
              THEN HighCompactionList' = Tail(list) /\ UNCHANGED LowCompactionList
              ELSE LowCompactionList' = Tail(list) /\ UNCHANGED HighCompactionList
    /\ pc' = [pc EXCEPT ![t] = "run"]
    /\ UNCHANGED <<treeVars, memtables>>

(* ... or wait and try again.                                              *)
WaitForWork(t) ==
    /\ pc[t] = "pop"
    /\ (IF t \in High THEN HighCompactionList ELSE LowCompactionList) = <<>>
    /\ pc' = [pc EXCEPT ![t] = "try"]
    /\ UNCHANGED <<treeVars, memtables, listVars, job>>

(* Does a version's level 0 stall the writers?                             *)
StalledSince(index) ==                                         \* wrong
    write_stall \/ Len(index[0]) > ZERO_LEVEL_FILES
Stalled(index) == Len(index[0]) > ZERO_LEVEL_FILES

(* Merge or persist, then ProgressRelVersion: the new version, the stall   *)
(* its level 0 calls for, and the compaction it makes necessary, for the   *)
(* high threads when it is into level 1.                                   *)
Install(t) ==
    /\ pc[t] = "run"
    /\ LET new == NewFiles(job[t], id)
           v == Edited(job[t], id)
       IN  /\ FileIndex' = v.index
           /\ no_overlap_in_next_level' = v.free
           /\ id' = id + Len(new)
           /\ write_stall' = Stalled(v.index)
           /\ \E c \in Chosen(v.index, merging, v.free, job[t].target_level) :
                 /\ merging' = merging \cup Ids(c.files)
                 /\ HighCompactionList' =
                      IF c # NoJob /\ c.target_level = 1
                      THEN Append(HighCompactionList, c) ELSE HighCompactionList
                 /\ LowCompactionList' =
                      IF c # NoJob /\ c.target_level # 1
                      THEN Append(LowCompactionList, c) ELSE LowCompactionList
    /\ job' = [job EXCEPT ![t] = NoJob]
    /\ pc' = [pc EXCEPT ![t] = "try"]
    /\ UNCHANGED memtables

ThreadStep(t) == TryCompaction(t) \/ Pop(t) \/ WaitForWork(t) \/ Install(t)

Next == \/ \E keys \in Batch : QueueMemtable(keys)
        \/ \E t \in Thread : ThreadStep(t)

Spec == Init /\ [][Next]_vars

(* The compaction threads run until the database is closed.  A thread can  *)
(* always take a step, and its steps are those that change pc[t]: this is  *)
(* weak fairness of ThreadStep(t).                                         *)
FairSpec == Spec /\ \A t \in Thread : []<><<pc'[t] # pc[t]>>_vars

-----------------------------------------------------------------------------
(* RelVersionIterator and Transaction::GetTuple, for one key.              *)

(* Wrong: the file before the lower bound is not looked at.                *)
FindSrcForward(files, key) ==
    LET p == LowerBound(files, key)
        n == Len(files)
    IN  IF p <= n THEN IF KeyMin(files[p]) <= key THEN p ELSE 0
        ELSE IF n # 0 /\ key <= KeyMax(files[n]) THEN n ELSE 0

(* findsrc: where in a level the search begins; 0 if nowhere.              *)
FindSrc(files, key) ==
    LET p == LowerBound(files, key)
        n == Len(files)
    IN  IF n = 0 THEN 0
        ELSE IF p = 1 THEN IF KeyMin(files[1]) <= key THEN 1 ELSE 0
        ELSE IF p = n + 1 THEN IF key <= KeyMax(files[n]) THEN n ELSE 0
        ELSE IF KeyMax(files[p - 1]) >= key THEN p - 1
        ELSE IF KeyMin(files[p]) > key THEN 0 ELSE p

(* The files next() goes through.                                          *)
Visited(l, key) ==
    LET files == FileIndex[l]
        first == FindSrc(files, key)
    IN  IF l = 0 THEN files
        ELSE IF first = 0 THEN <<>>
        ELSE SubSeq(files, first, UpperBound(files, key) - 1)

Lookup(key) ==
    LET hits(l) == {j \in DOMAIN Visited(l, key) : Visited(l, key)[j].rows[key] # 0}
        levels == {l \in Level : hits(l) # {}}
        first == CHOOSE l \in levels : \A m \in levels : l <= m
        found == CHOOSE j \in hits(first) : \A i \in hits(first) : j <= i
    IN  IF levels = {} THEN 0 ELSE Visited(first, key)[found].rows[key]

-----------------------------------------------------------------------------
FilesOf(l) == {FileIndex[l][j] : j \in DOMAIN FileIndex[l]}
AllFiles == UNION {FilesOf(l) : l \in Level}
InFiles == UNION {KeysOf(f.rows) : f \in AllFiles}
FilesIn(c) == {c.files[j] : j \in DOMAIN c.files}

(* The compactions under way, each at a slot of its own: in one of the two *)
(* lists h and l, or in one of the threads r that run.                     *)
Slots(h, l, r) == ({"high"} \X DOMAIN h) \cup ({"low"} \X DOMAIN l) \cup ({"run"} \X r)

Works(h, l, r, j) ==
    [s \in Slots(h, l, r) |->
        IF s[1] = "high" THEN h[s[2]] ELSE IF s[1] = "low" THEN l[s[2]] ELSE j[s[2]]]

Runs == {t \in Thread : pc[t] = "run"}
Work == Works(HighCompactionList, LowCompactionList, Runs, job)
Persisting == {Work[s] : s \in {u \in DOMAIN Work : Work[u].files = <<>>}}

(* The inputs of all compactions under way are marked, no two share one,   *)
(* and those of levels 0 and 1 are still in the version that will be       *)
(* edited when their turn comes, although it has changed many times since  *)
(* they were chosen.  In these levels nothing else is marked: no file is   *)
(* kept out of compactions by a mark that nobody will take away.  (Below,  *)
(* an edit may take one file for another: see KeysKept.)                   *)
InputsPresent ==
    /\ \A s \in DOMAIN Work : \A f \in FilesIn(Work[s]) :
          f.id \in merging /\ (f.level <= 1 => f \in FilesOf(f.level))
    /\ \A s, u \in DOMAIN Work :
          s # u => Ids(Work[s].files) \cap Ids(Work[u].files) = {}
    /\ \A f \in FilesOf(0) \cup FilesOf(1) :
          f.id \in merging => \E s \in DOMAIN Work : f \in FilesIn(Work[s])

(* Below level 1 files can overlap, and nothing keeps two from beginning   *)
(* with the same key.  A compaction is mistaken if the file that           *)
(* lower_bound finds for one of its inputs there is not that input.        *)
Mistaken(c) ==
    \E f \in FilesIn(c) :
        /\ f.level > 1
        /\ LET files == FileIndex[f.level]
               at == LowerBound(files, KeyMin(f))
           IN  at > Len(files) \/ files[at] # f

Ends(t) == pc[t] = "run" /\ pc'[t] # "run"

(* A file leaves the version only as the input of the compaction that      *)
(* ends, and a key is in some file ever after it was persisted, whatever   *)
(* merges do with its rows, except through a mistaken compaction; and no   *)
(* merge leaves a file without rows, whose first key findsrc would compare *)
(* with (MergeRelFile, RelVersion's constructor).                          *)
KeysKept == [][
    /\ \A f \in AllFiles' : KeysOf(f.rows) # {}
    /\ \A f \in AllFiles \ AllFiles' :
          \E t \in Thread : Ends(t) /\ (f \in FilesIn(job[t]) \/ Mistaken(job[t]))
    /\ \A k \in InFiles \ InFiles' : \E t \in Thread : Ends(t) /\ Mistaken(job[t])
    /\ \A t \in Thread :
          Ends(t) /\ job[t].files = <<>> => KeysOf(job[t].rows) \subseteq InFiles'
    ]_vars

(* The files of level 1 are in order and disjoint: whatever is under way,  *)
(* only one compaction writes into it.                                     *)
LevelOneDisjoint ==
    \A i, j \in DOMAIN FileIndex[1] :
        i < j => KeyMax(FileIndex[1][i]) < KeyMin(FileIndex[1][j])

(* A lookup finds every key that is in a file of the first two levels.     *)
(* Deeper it may not: two compactions into level 2, chosen from different  *)
(* versions, can leave files there that overlap, and findsrc looks one     *)
(* file back only.                                                         *)
UpperReachable ==
    \A k \in UNION {KeysOf(f.rows) : f \in FilesOf(0) \cup FilesOf(1)} :
        Lookup(k) # 0

(* A lookup returns the last put of the key among those persisted.         *)
NewestIsRead ==
    \A k \in InFiles :
        Lookup(k) # 0 =>
            \A n \in DOMAIN memtables :
                Persistence(memtables[n]) \in Persisting
                \/ memtables[n][k] <= Lookup(k)

(* Writers stalled for level 0 go on: the threads get it below the limit.  *)
StallLifts == write_stall ~> ~write_stall
=============================================================================
