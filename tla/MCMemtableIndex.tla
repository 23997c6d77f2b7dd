-------------------------- MODULE MCMemtableIndex ---------------------------
(* Instances of MemtableIndex for TLC.                                     *)
EXTENDS MemtableIndex, TLC
=============================================================================
