----------------------------- MODULE ScanMerge ------------------------------
(***************************************************************************)
(* Reading many keys: ScanIter (ScanIter.cpp, ScanIter.h) merges pointers  *)
(* into the memtables and into blocks of files, next to the point read     *)
(* Transaction::GetTuple and to RelVersionIterator, which finds the files  *)
(* of both.  The memtables and files that are read come about as in the    *)
(* program: memtables are persisted into level 0, level 0 merged into      *)
(* level 1 (RelFile); nothing is written once a scan runs, which           *)
(* rel_version and hold pin.                                               *)
(***************************************************************************)
EXTENDS RelFile

CONSTANTS
    Batch,       \* the memtables there may be, [key -> Value, Tombstone, Absent]
    Generations, \* bound: memtables
    KEY_MAX      \* the string of 16 bytes 127, above every key

ASSUME ScanMergeAssumption ==
    /\ Batch \subseteq [Key -> Value \cup {Absent, Tombstone}]
    /\ \A b \in Batch : \E k \in Key : b[k] # Absent
    /\ Generations \in Nat \ {0}
    /\ KEY_MAX \in Nat /\ \A k \in Key : KEY_MAX > k

VARIABLES
    memtables,   \* not yet persisted, oldest first
    FileIndex,   \* levels 0 and 1
    put,         \* history: the keys put
    start,       \* the key the scan was opened with, -1 before
    pointers,    \* mem_ptr_list and then block_ptr_list
    out          \* the tuples the caller got, <<key, string>>

vars == <<memtables, FileIndex, put, start, pointers, out>>

Levels == {0, 1}

Init ==
    /\ memtables \in [1 .. Generations -> Batch]
    /\ put = {k \in Key : \E n \in DOMAIN memtables : memtables[n][k] # Absent}
    /\ FileIndex = [l \in Levels |-> <<>>]
    /\ start = -1 /\ pointers = <<>> /\ out = <<>>

-----------------------------------------------------------------------------
(* RelVersionIterator: the files of a level that meet [key_min, key_max],  *)
(* as indices, in the order next() takes.                                  *)
FirstFile(files, key_min, key_max) ==
    LET below == {i \in DOMAIN files : files[i].key_min < key_min}
        x == Cardinality(below) + 1
        n == Len(files)
    IN  IF n = 0 THEN 0
        ELSE IF x = 1 THEN IF files[1].key_min <= key_max THEN 1 ELSE 0
        ELSE IF files[x - 1].key_max >= key_min THEN x - 1
        ELSE IF x > n THEN 0
        ELSE IF files[x].key_min > key_max THEN 0 ELSE x

FilesOn(l, key_min, key_max) ==
    LET files == FileIndex[l]
        first == FirstFile(files, key_min, key_max)
    IN  Sorted({i \in DOMAIN files :
                   IF l = 0 THEN files[i].key_min <= key_max /\ files[i].key_max >= key_min
                   ELSE /\ first # 0 /\ i >= first
                        /\ i = first \/ files[i].key_min <= key_max})

(* The memtable's part of Transaction::GetTuple, newest memtable first.    *)
MemGet(key) ==
    LET hits == {n \in DOMAIN memtables : memtables[n][key] \notin {Absent, Tombstone}}
    IN  IF hits = {} THEN Absent
        ELSE memtables[Max(hits)][key]

(* The files of a level where a point read finds key, the range and the    *)
(* filter first.                                                           *)
FoundOn(l, key) ==
    {i \in Range(FilesOn(l, key, key)) :
        LET f == FileIndex[l][i]
        IN  /\ key >= f.key_min /\ key <= f.key_max
            /\ MayHold(f, key) /\ FileGet(f, key) # Absent}

(* Transaction::GetTuple: memtables, then level by level, file by file.    *)
Get(key) ==
    LET levels == {l \in Levels : FoundOn(l, key) # {}}
        l == Min(levels)
    IN  IF MemGet(key) # Absent THEN MemGet(key)
        ELSE IF levels = {} THEN Absent ELSE FileGet(FileIndex[l][Min(FoundOn(l, key))], key)

-----------------------------------------------------------------------------
(* A block pointer at a row, and its key.                                  *)
At(l, f, b, n) ==
    [level |-> l, file |-> f, block |-> b, idx |-> n,
     now_key |-> KeyAt(FileIndex[l][f], Block(FileIndex[l][f], b), n)]

AtEnd == [level |-> -2, file |-> 0, block |-> 0, idx |-> 0, now_key |-> KEY_MAX]

(* The first key of a memtable from key on; -1 is a memtable's level.      *)
MemAt(n, key) ==
    LET on == {k \in Key : memtables[n][k] # Absent /\ k >= key}
    IN  IF on = {} THEN AtEnd
        ELSE [level |-> -1, file |-> n, block |-> 0, idx |-> 0,
              now_key |-> Min(on)]

(* ScanIter's constructor: where the pointer into a file begins.           *)
FileAt(l, f, key) ==
    LET file == FileIndex[l][f]
        b == BlockFor(file, key)
    IN  At(l, f, b, LowerIdx(file, Block(file, b), key))

(* BlockPointer::next and MemPointer::next: the next row, block or, below  *)
(* level 0, file.                                                          *)
NextAt(p) ==
    LET file == FileIndex[p.level][p.file]
    IN  IF p.level = -1 THEN MemAt(p.file, p.now_key + 1)
        ELSE IF p.idx + 1 < Block(file, p.block).key_num
        THEN At(p.level, p.file, p.block, p.idx + 1)
        ELSE IF p.block < file.block_count THEN At(p.level, p.file, p.block + 1, 0)
        ELSE IF p.level # 0 /\ p.file < Len(FileIndex[p.level])
        THEN At(p.level, p.file + 1, 1, 0)
        ELSE AtEnd

(* Wrong: of pointers at one key the last is taken.                        *)
LeastLast(ptrs) ==
    LET inside == {i \in DOMAIN ptrs : ptrs[i].now_key < KEY_MAX}
    IN  IF inside = {} THEN 0
        ELSE CHOOSE i \in inside : \A j \in inside :
                \/ ptrs[i].now_key < ptrs[j].now_key
                \/ ptrs[i].now_key = ptrs[j].now_key /\ i >= j

(* GetNow: the first of the pointers at the least key, 0 at the end.       *)
Least(ptrs) ==
    LET inside == {i \in DOMAIN ptrs : ptrs[i].now_key < KEY_MAX}
    IN  IF inside = {} THEN 0
        ELSE CHOOSE i \in inside : \A j \in inside :
                \/ ptrs[i].now_key < ptrs[j].now_key
                \/ ptrs[i].now_key = ptrs[j].now_key /\ i <= j

(* ScanIter::GetTuple at a pointer.                                        *)
TupleAt(p) ==
    LET file == FileIndex[p.level][p.file]
        string == IF p.level = -1 THEN memtables[p.file][p.now_key]
                  ELSE GetString(file.dictionary,
                                 IdxAt(file, Block(file, p.block), p.idx))
    IN  <<p.now_key, IF string = Tombstone THEN 0 ELSE string>>

-----------------------------------------------------------------------------
(* The oldest memtable goes to the end of level 0.                         *)
Persist ==
    /\ start = -1 /\ memtables # <<>>
    /\ FileIndex' = [FileIndex EXCEPT ![0] = Append(@, Persisted(memtables[1]))]
    /\ memtables' = Tail(memtables)
    /\ UNCHANGED <<put, start, pointers, out>>

(* Level 0 is merged, with all of level 1, into level 1; the first file    *)
(* alone is copied there.                                                  *)
Compact ==
    /\ start = -1 /\ FileIndex[0] # <<>>
    /\ LET files == FileIndex[0] \o FileIndex[1]
       IN  /\ Mergeable(files)
           /\ FileIndex' = [l \in Levels |-> IF l = 0 THEN <<>> ELSE MergeRelFile(files)]
    /\ UNCHANGED <<memtables, put, start, pointers, out>>

(* ScanIter's constructor: memtables from the current one on, every file   *)
(* of level 0 and one pointer for level 1.                                 *)
Open(key) ==
    /\ start = -1
    /\ start' = key
    /\ LET newest(i) == Len(memtables) + 1 - i
           on0 == FilesOn(0, key, KEY_MAX)
           on1 == FilesOn(1, key, KEY_MAX)
       IN  pointers' = [i \in DOMAIN memtables |-> MemAt(newest(i), key)]
                       \o [i \in DOMAIN on0 |-> FileAt(0, on0[i], key)]
                       \o (IF on1 = <<>> THEN <<>> ELSE <<FileAt(1, on1[1], key)>>)
    /\ UNCHANGED <<memtables, FileIndex, put, out>>

(* The caller takes the tuple and calls next(): every pointer at its key   *)
(* goes on.                                                                *)
Advance ==
    /\ start # -1 /\ Least(pointers) # 0
    /\ out' = Append(out, TupleAt(pointers[Least(pointers)]))
    /\ LET key == pointers[Least(pointers)].now_key
       IN  pointers' = [i \in DOMAIN pointers |->
                           IF pointers[i].now_key = key THEN NextAt(pointers[i])
                           ELSE pointers[i]]
    /\ UNCHANGED <<memtables, FileIndex, put, start>>

Next == Persist \/ Compact \/ (\E key \in Key \cup {0} : Open(key)) \/ Advance

Spec == Init /\ [][Next]_vars

-----------------------------------------------------------------------------
AllFiles == Range(FileIndex[0]) \cup Range(FileIndex[1])

(* A point read of a file finds exactly the live rows that were written to *)
(* it, with their strings, through blocks, dictionary and any number of    *)
(* merges (RelFileParser::GetTuple, MergeRelFile).                         *)
LookupExact ==
    \A f \in AllFiles : \A k \in Key :
        (IF MayHold(f, k) THEN FileGet(f, k) ELSE Absent)
        = (IF f.rows[k] = Tombstone THEN Absent ELSE f.rows[k])

(* Every live row of a persisted memtable is found in its file, whatever   *)
(* else the memtable held (RowMemtablePersistence, RelFileParser::GetTuple). *)
LiveRowsFound ==
    \A f \in AllFiles : \A k \in Key :
        f.rows[k] \notin {Absent, Tombstone} =>
            MayHold(f, k) /\ FileGet(f, k) = f.rows[k]

(* From its start on a scan gives every key put once and in order, each    *)
(* with the tuple a point read of the version gives, wherever its older    *)
(* ones lie: what it has given is the beginning of the sorted keys, at the *)
(* end all of them (ScanIter::next, Transaction::GetTuple).                *)
ScanExact ==
    LET asked == Sorted({k \in put : k >= start})
    IN  start # -1 =>
            \E before \in 0 .. Len(out) :
                /\ \A n \in 1 .. before : out[n][1] < start
                /\ Len(out) - before <= Len(asked)
                /\ \A n \in 1 .. Len(out) - before :
                      out[before + n] = <<asked[n], Get(asked[n])>>
                /\ Least(pointers) = 0 => Len(out) - before = Len(asked)
=============================================================================
