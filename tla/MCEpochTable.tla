---------------------------- MODULE MCEpochTable ----------------------------
(* An instance of EpochTable for TLC: a table of four slots, what an odd   *)
(* number of workers gets, that three writers can fill and the epochs go   *)
(* round; one of them also computes read times.  No symmetry: liveness is  *)
(* checked.                                                                *)
EXTENDS EpochTable
=============================================================================
