-------------------------- MODULE MCMemtableChain ---------------------------
(* Instances of MemtableChain for TLC: readers and flushers symmetric.     *)
EXTENDS MemtableChain, TLC

Symmetry == Permutations(Reader) \cup Permutations(Flusher)
=============================================================================
