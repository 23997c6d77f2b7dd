---------------------------- MODULE MCCompaction ----------------------------
(* Instances of Compaction for TLC: keys are the first few numbers.  The   *)
(* four batches fill, interleave and separate the files of a level, and    *)
(* any of them may come again.  With them two compactions into level 2     *)
(* chosen from different versions leave files there that overlap.          *)
EXTENDS Compaction, TLC

Keys3 == 1 .. 3
Keys6 == 1 .. 6
FourBatches == {{3, 4}, {2}, {1}, {5, 6}}
UpToTwo == {keys \in SUBSET Keys3 : Cardinality(keys) \in {1, 2}}
Symmetry == Permutations(High) \cup Permutations(Low)
=============================================================================
