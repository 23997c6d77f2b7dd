---------------------------- MODULE MCScanMerge -----------------------------
(* Instances of ScanMerge and MultiKeyRead for TLC.                       *)
EXTENDS MultiKeyRead

(* Memtables of any keys with any strings.                                 *)
Puts == [Key -> Value \cup {Absent}] \ {[k \in Key |-> Absent]}

(* Memtables of any keys, one of them deleted perhaps.                     *)
PutsAndDeletes == [Key -> Value \cup {Absent, Tombstone}] \ {[k \in Key |-> Absent]}
=============================================================================
