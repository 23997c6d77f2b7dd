---------------------------- MODULE MultiKeyRead -----------------------------
(***************************************************************************)
(* The reads that collect an answer from memtables and files: ScanKTuples  *)
(* (Transaction.cpp), which wants the first k tuples from a key on, and    *)
(* GetTuplesFromRange (Transaction.h), which wants the tuples whose value  *)
(* lies in a range.  Both read what ScanMerge's actions build; a version   *)
(* and its memtables do not change under a transaction that reads them.    *)
(***************************************************************************)
EXTENDS ScanMerge

(* The memtables from the current one on.                                  *)
Newest(i) == Len(memtables) + 1 - i
Prefix(tuples, k) == SubSeq(tuples, 1, Min({k, Len(tuples)}))

-----------------------------------------------------------------------------
(* One tuple more of two answers, each taken to be sorted: the tuples from *)
(* i on of res and from j on of am are left.  Of one key the tuple there   *)
(* was before, from a newer place, is preferred.                           *)
MergeStep(res, am, s) ==
    LET more == s.i <= Len(res)
        equal == more /\ res[s.i][1] = am[s.j][1]
    IN  IF more /\ (s.j > Len(am) \/ res[s.i][1] < am[s.j][1])
        THEN [i |-> s.i + 1, j |-> s.j, as |-> Append(s.as, res[s.i])]
        ELSE IF s.j <= Len(am)
        THEN [i |-> IF equal THEN s.i + 1 ELSE s.i, j |-> s.j + 1,
              as |-> Append(s.as, am[s.j])]
        ELSE s

(* The first k of them.                                                    *)
MergeK(res, am, k) ==
    LET merge[n \in 0 .. k] ==
            IF n = 0 THEN [i |-> 1, j |-> 1, as |-> <<>>]
            ELSE MergeStep(res, am, merge[n - 1])
    IN  merge[k].as

(* relMemTable::GetKTuple: the first k tuples not deleted, from key on.    *)
MemFirst(n, key, k) ==
    LET live == Sorted({q \in Key : q >= key /\ memtables[n][q] \notin {Absent, Tombstone}})
    IN  Prefix([i \in DOMAIN live |-> <<live[i], memtables[n][live[i]]>>], k)

(* RelFileParser::GetKTuple and BlockParser::GetKTuple: the same of a      *)
(* file, deleted rows included, from the block that may hold key on.       *)
FileFirst(file, key, k) ==
    LET first == BlockFor(file, key)
        kept(i) == LET b == Block(file, i)
                       on == Sorted({n \in 1 .. b.key_num : KeyAt(file, b, n - 1) >= key})
                   IN  [n \in DOMAIN on |->
                           <<KeyAt(file, b, on[n] - 1),
                             GetString(file.dictionary, IdxAt(file, b, on[n] - 1))>>]
        rows[i \in 0 .. file.block_count] ==
            IF i < first THEN <<>> ELSE rows[i - 1] \o kept(i)
    IN  Prefix(rows[file.block_count], k)

(* Wrong: what is left of k is not put back when a level has been merged.  *)
KStepLeft(s, on, key, k) ==
    LET an == FileFirst(FileIndex[on[1]][on[2]], key, s.left)
        res == s.res \o an
    IN  IF s.passed = on[1] THEN s
        ELSE IF Len(an) < s.left THEN [s EXCEPT !.res = res, !.left = @ - Len(an)]
        ELSE [am |-> MergeK(res, s.am, k), res |-> <<>>, left |-> 1, passed |-> on[1]]

(* ScanKTuples at one file, on = <<level, place>>.  Tuples are collected   *)
(* in res, file after file and level after level, until there are k; then  *)
(* they are merged into the answer and the rest of the level is passed.    *)
KStep(s, on, key, k) ==
    LET an == FileFirst(FileIndex[on[1]][on[2]], key, s.left)
        res == s.res \o an
    IN  IF s.passed = on[1] THEN s
        ELSE IF Len(an) < s.left THEN [s EXCEPT !.res = res, !.left = @ - Len(an)]
        ELSE [am |-> MergeK(res, s.am, k), res |-> <<>>, left |-> k, passed |-> on[1]]

(* Transaction::ScanKTuples: memtables from the newest on, then files.     *)
ScanK(k, key) ==
    LET on(l) == LET f == FilesOn(l, key, KEY_MAX) IN [i \in DOMAIN f |-> <<l, f[i]>>]
        files == on(0) \o on(1)
        am[i \in 0 .. Len(memtables)] ==
            IF i = 0 THEN <<>> ELSE MergeK(MemFirst(Newest(i), key, k), am[i - 1], k)
        s[i \in 0 .. Len(files)] ==
            IF i = 0 THEN [am |-> am[Len(memtables)], res |-> <<>>, left |-> k, passed |-> -1]
            ELSE KStep(s[i - 1], files[i], key, k)
    IN  s[Len(files)].am

-----------------------------------------------------------------------------
(* CreateValueFilterFunction.                                              *)
Matches(value, lo, hi) == lo <= value /\ value <= hi

(* insert_answer without update: a key keeps its first answer.             *)
Answers(answers, more) ==
    [key \in DOMAIN answers \cup DOMAIN more |->
        IF key \in DOMAIN answers THEN answers[key] ELSE more[key]]

(* relMemTable::FilterByValueRange.                                        *)
MemAnswers(n, lo, hi) ==
    [key \in {q \in Key : /\ memtables[n][q] \notin {Absent, Tombstone}
                          /\ Matches(memtables[n][q], lo, hi)} |-> memtables[n][key]]

(* ApplyRangeFilter; Materialize leaves the last column of values out, and *)
(* with one column only the key is left.                                   *)
FileAnswers(file, lo, hi) == [key \in RangeKeys(file, lo, hi) |-> Absent]

(* GetTuplesFromRange: the answers by key; memtables from the newest on,   *)
(* then the files as they are listed.                                      *)
RangeAnswers(lo, hi) ==
    LET files == FileIndex[0] \o FileIndex[1]
        mem[i \in 0 .. Len(memtables)] ==
            IF i = 0 THEN <<>> ELSE Answers(mem[i - 1], MemAnswers(Newest(i), lo, hi))
        all[i \in 0 .. Len(files)] ==
            IF i = 0 THEN mem[Len(memtables)]
            ELSE Answers(all[i - 1], FileAnswers(files[i], lo, hi))
    IN  all[Len(files)]

-----------------------------------------------------------------------------
(* Of each level, at most one file of level 0 reaches beyond key, and the  *)
(* level has no key from there on or at least k.                           *)
RunsOf(k, key) ==
    /\ Len(FilesOn(0, key, KEY_MAX)) <= 1
    /\ \A l \in Levels :
          LET keys == {q \in Key : q >= key /\ \E f \in Range(FileIndex[l]) : f.rows[q] # Absent}
          IN  keys = {} \/ Cardinality(keys) >= k

(* ScanKTuples gives the first k tuples from key on, each as a point read  *)
(* gives it, if every level is one sorted run that has k keys from there   *)
(* on or none.  (Otherwise it loses tuples: a level with fewer is left out *)
(* or collected before the next as if they were one; see the README.)      *)
ScanKExact ==
    start = -1 =>
        \A key \in Key \cup {0} : \A k \in 1 .. Cardinality(Key) :
            RunsOf(k, key) =>
                LET first == Prefix(Sorted({q \in put : q >= key}), k)
                IN  ScanK(k, key) = [i \in DOMAIN first |-> <<first[i], Get(first[i])>>]

(* The rows of a key in the memtables and files, "" and Tombstone too.     *)
Versions(key) ==
    ({memtables[n][key] : n \in DOMAIN memtables} \cup {f.rows[key] : f \in AllFiles})
    \ {Absent}

(* GetTuplesFromRange misses no key whose tuple, as a point read gives it, *)
(* lies in the range, and gives the newest tuple of a memtable; beyond     *)
(* those it gives only keys with an older tuple in the range, so a key all *)
(* of whose tuples are equal is answered exactly.  A range below every     *)
(* string of a file selects all its rows, so only the first half is        *)
(* promised for it (FilterByValueRange, ApplyRangeFilter, AnswerMerger).   *)
RangeExact ==
    start = -1 =>
        \A lo, hi \in Value :
            LET answers == RangeAnswers(lo, hi)
            IN  /\ \A key \in put :
                      Matches(Get(key), lo, hi) =>
                          /\ key \in DOMAIN answers
                          /\ MemGet(key) # Absent => answers[key] = MemGet(key)
                /\ (\A f \in AllFiles : f.dictionary # <<>> /\ f.dictionary[1] <= hi) =>
                      \A key \in DOMAIN answers :
                          \E value \in Versions(key) : Matches(value, lo, hi)
=============================================================================
