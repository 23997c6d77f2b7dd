---------------------------- MODULE ActiveEpochs ----------------------------
(***************************************************************************)
(* What DB's users rely on of write_epoch_table: epochs are handed out     *)
(* once and in order, and the table is the set of the epochs of the        *)
(* transactions that run, changed by one epoch at a time.  An epoch taken  *)
(* from the counter is pending until its transaction enters the table.     *)
(***************************************************************************)
EXTENDS Integers

CONSTANT MAXTIME

VARIABLES next, pending, active

vars == <<next, pending, active>>

Init == next = 1 /\ pending = {} /\ active = {}

Take ==
    /\ next < MAXTIME
    /\ next' = next + 1
    /\ pending' = pending \cup {next}
    /\ UNCHANGED active

(* The last conjunct: no other transaction has this epoch.                 *)
Register(e) ==
    /\ e \in pending
    /\ e \notin active
    /\ pending' = pending \ {e}
    /\ active' = active \cup {e}
    /\ UNCHANGED next

Retire(e) ==
    /\ e \in active
    /\ active' = active \ {e}
    /\ UNCHANGED <<next, pending>>

Next == Take \/ \E e \in 1 .. MAXTIME - 1 : Register(e) \/ Retire(e)

Spec == Init /\ [][Next]_vars

(* The epochs in use lie below the counter, and none is used twice.        *)
Distinct ==
    /\ pending \cup active \subseteq 1 .. next - 1
    /\ pending \cap active = {}
=============================================================================
