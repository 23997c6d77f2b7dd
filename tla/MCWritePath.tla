---------------------------- MODULE MCWritePath -----------------------------
(* Instances of WritePath for TLC: writers, flushers and puts symmetric.   *)
EXTENDS WritePath, TLC

Symmetry == Permutations(Writer) \cup Permutations(Flusher)
            \cup Permutations(Write)
=============================================================================
