----------------------------- MODULE EpochTable -----------------------------
(***************************************************************************)
(* The table of write epochs: ConcurrentList (ConcurrentList.h) with its   *)
(* two users, the begin and the end of a transaction (DB.cpp,              *)
(* Transaction.cpp).                                                       *)
(*                                                                         *)
(* A write transaction takes the next epoch, claims a slot of the table    *)
(* with compare-and-swap, and reads everything below the least epoch it    *)
(* finds in the table.  get_read_time, used by read-only transactions and  *)
(* by ProgressReadRelVersion, scans the table without an entry of its own. *)
(*                                                                         *)
(* Every load, store and compare-and-swap of the table or of epoch_id is   *)
(* an action; computation on locals happens with the access before it.     *)
(***************************************************************************)
EXTENDS Integers, FiniteSets

CONSTANTS
    Writer,              \* threads that run write transactions
    Reader,              \* threads that compute read times without writing
    MAX_WORKER_THREAD,   \* Options::MAX_WORKER_THREAD
    MAXTIME,             \* numeric_limits<time_t>::max(), the empty slot
    Spurious             \* may compare_exchange_weak fail spuriously?

ASSUME TableAssumption ==
    /\ MAX_WORKER_THREAD \in Nat /\ MAX_WORKER_THREAD > 1
    /\ MAXTIME \in Nat /\ MAXTIME > 1
    /\ Spurious \in BOOLEAN

Thread == Writer \cup Reader

(* (_size >> 1) << 2: twice the number of workers, rounded to fours.       *)
Size == (MAX_WORKER_THREAD \div 2) * 4
Slot == 0 .. Size - 1
Time == 0 .. MAXTIME
Epoch == 1 .. MAXTIME - 1

VARIABLES
    epoch_id,   \* DB::epoch_id, the next write epoch
    list,       \* ConcurrentList::list
    pc,         \* where each thread is
    val,        \* the transaction's write epoch; MAXTIME: it has none
    ptr,        \* insert's cursor, then the transaction's time_pos
    x,          \* insert's local x, the value the next CAS expects
    i,          \* find_min's cursor
    ans,        \* find_min's running minimum
    read,       \* the transaction's read epoch; MAXTIME: not chosen yet
    stable      \* history: epochs in the table since the scan began

vars == <<epoch_id, list, pc, val, ptr, x, i, ans, read, stable>>

Control == {"idle", "insert", "scan", "writing", "empty", "second",
            "counter", "reading"}
Scanning == {"scan", "empty", "second"}

(* The epochs an atomic scan of the slots l would find.                    *)
Entries(l) == {l[s] : s \in Slot} \ {MAXTIME}
Listed == Entries(list)

LesserOf(a, b) == IF a < b THEN a ELSE b
NextSlotUnwrapped(p) == p + 1            \* wrong
NextSlotShort(p) == (p + 1) % (Size - 1) \* wrong: never the last one
NextSlot(p) == (p + 1) % Size

(* Start find_min over the slots l: the cursor at the first slot, nothing  *)
(* found.                                                                  *)
BeginScan(t, l) ==
    /\ i' = [i EXCEPT ![t] = 0]
    /\ ans' = [ans EXCEPT ![t] = MAXTIME]
    /\ stable' = [stable EXCEPT ![t] = Entries(l)]

TypeOK ==
    /\ epoch_id \in 1 .. MAXTIME
    /\ list \in [Slot -> Epoch \cup {MAXTIME}]
    /\ pc \in [Thread -> Control]
    /\ val \in [Thread -> Epoch \cup {MAXTIME}]
    /\ ptr \in [Thread -> Slot]
    /\ x \in [Thread -> Epoch \cup {MAXTIME}]
    /\ i \in [Thread -> 0 .. Size]
    /\ ans \in [Thread -> Epoch \cup {MAXTIME}]
    /\ read \in [Thread -> Time]
    /\ stable \in [Thread -> SUBSET Epoch]

Init ==
    /\ epoch_id = 1
    /\ list = [s \in Slot |-> MAXTIME]
    /\ pc = [t \in Thread |-> "idle"]
    /\ val = [t \in Thread |-> MAXTIME]
    /\ ptr = [t \in Thread |-> 0]
    /\ x = [t \in Thread |-> MAXTIME]
    /\ i = [t \in Thread |-> 0]
    /\ ans = [t \in Thread |-> MAXTIME]
    /\ read = [t \in Thread |-> MAXTIME]
    /\ stable = [t \in Thread |-> {}]

-----------------------------------------------------------------------------
(* BeginRelTransaction: take an epoch.  The guard bounds the epochs; with  *)
(* 64 bits the counter never reaches MAXTIME.                              *)
FetchEpoch(t) ==
    /\ t \in Writer
    /\ pc[t] = "idle"
    /\ epoch_id < MAXTIME
    /\ val' = [val EXCEPT ![t] = epoch_id]
    /\ epoch_id' = epoch_id + 1
    /\ ptr' = [ptr EXCEPT ![t] = epoch_id % Size]
    /\ x' = [x EXCEPT ![t] = MAXTIME]
    /\ pc' = [pc EXCEPT ![t] = "insert"]
    /\ UNCHANGED <<list, i, ans, read, stable>>

(* Wrong: the slot is written whatever it holds.                           *)
ClaimSlotBlindly(t) ==
    /\ pc[t] = "insert"
    /\ list' = [list EXCEPT ![ptr[t]] = val[t]]
    /\ BeginScan(t, list')
    /\ pc' = [pc EXCEPT ![t] = "scan"]
    /\ UNCHANGED <<epoch_id, val, ptr, x, read>>

(* insert's compare-and-swap succeeds: the slot holds what x expects.      *)
ClaimSlot(t) ==
    /\ pc[t] = "insert"
    /\ list[ptr[t]] = x[t]
    /\ list' = [list EXCEPT ![ptr[t]] = val[t]]
    /\ BeginScan(t, list')
    /\ pc' = [pc EXCEPT ![t] = "scan"]
    /\ UNCHANGED <<epoch_id, val, ptr, x, read>>

(* It fails: x becomes what the slot holds, and is not reset before the    *)
(* next slot is tried.                                                     *)
ProbeNext(t) ==
    /\ pc[t] = "insert"
    /\ list[ptr[t]] # x[t] \/ Spurious
    /\ x' = [x EXCEPT ![t] = list[ptr[t]]]
    /\ ptr' = [ptr EXCEPT ![t] = NextSlot(ptr[t])]
    /\ UNCHANGED <<epoch_id, list, pc, val, i, ans, read, stable>>

(* find_min: one load.                                                     *)
ReadSlot(t) ==
    /\ pc[t] \in Scanning
    /\ i[t] < Size
    /\ ans' = [ans EXCEPT ![t] = LesserOf(ans[t], list[i[t]])]
    /\ i' = [i EXCEPT ![t] = i[t] + 1]
    /\ UNCHANGED <<epoch_id, list, pc, val, ptr, x, read, stable>>

(* Wrong: it reads at the least epoch found.                               *)
BeginWriteAtMinimum(t) ==
    /\ pc[t] = "scan"
    /\ i[t] = Size
    /\ read' = [read EXCEPT ![t] = ans[t]]
    /\ pc' = [pc EXCEPT ![t] = "writing"]
    /\ UNCHANGED <<epoch_id, list, val, ptr, x, i, ans, stable>>

(* A write transaction reads below the least epoch found.                  *)
BeginWrite(t) ==
    /\ pc[t] = "scan"
    /\ i[t] = Size
    /\ read' = [read EXCEPT ![t] = ans[t] - 1]
    /\ pc' = [pc EXCEPT ![t] = "writing"]
    /\ UNCHANGED <<epoch_id, list, val, ptr, x, i, ans, stable>>

(* get_read_time, from a read-only transaction or from                     *)
(* ProgressReadRelVersion: empty() scans the table.                        *)
BeginReadTime(t) ==
    /\ t \in Reader
    /\ pc[t] = "idle"
    /\ pc' = [pc EXCEPT ![t] = "empty"]
    /\ BeginScan(t, list)
    /\ UNCHANGED <<epoch_id, list, val, ptr, x, read>>

(* empty() found nothing: the counter is loaded next.                      *)
FoundEmpty(t) ==
    /\ pc[t] = "empty"
    /\ i[t] = Size
    /\ ans[t] = MAXTIME
    /\ pc' = [pc EXCEPT ![t] = "counter"]
    /\ UNCHANGED <<epoch_id, list, val, ptr, x, i, ans, read, stable>>

(* empty() found an entry: a second find_min computes the minimum.         *)
FoundEntry(t) ==
    /\ pc[t] = "empty"
    /\ i[t] = Size
    /\ ans[t] # MAXTIME
    /\ pc' = [pc EXCEPT ![t] = "second"]
    /\ BeginScan(t, list)
    /\ UNCHANGED <<epoch_id, list, val, ptr, x, read>>

(* The read time is the counter: one more than the last epoch handed out.  *)
ReadCounter(t) ==
    /\ pc[t] = "counter"
    /\ read' = [read EXCEPT ![t] = epoch_id]
    /\ pc' = [pc EXCEPT ![t] = "reading"]
    /\ UNCHANGED <<epoch_id, list, val, ptr, x, i, ans, stable>>

(* The read time is below the second scan's minimum, MAXTIME when every    *)
(* entry has been erased in between.                                       *)
ReadMinimum(t) ==
    /\ pc[t] = "second"
    /\ i[t] = Size
    /\ read' = [read EXCEPT ![t] = ans[t] - 1]
    /\ pc' = [pc EXCEPT ![t] = "reading"]
    /\ UNCHANGED <<epoch_id, list, val, ptr, x, i, ans, stable>>

(* The thread's locals go out of scope.                                    *)
Forget(t) ==
    /\ pc' = [pc EXCEPT ![t] = "idle"]
    /\ val' = [val EXCEPT ![t] = MAXTIME]
    /\ ptr' = [ptr EXCEPT ![t] = 0]
    /\ x' = [x EXCEPT ![t] = MAXTIME]
    /\ i' = [i EXCEPT ![t] = 0]
    /\ ans' = [ans EXCEPT ![t] = MAXTIME]
    /\ read' = [read EXCEPT ![t] = MAXTIME]
    /\ UNCHANGED epoch_id

(* Wrong: it erases the slot its epoch hashes to, not the one it got.      *)
EndWriteByEpoch(t) ==
    /\ pc[t] = "writing"
    /\ list' = [list EXCEPT ![val[t] % Size] = MAXTIME]
    /\ Forget(t)
    /\ stable' = [stable EXCEPT ![t] = {}]

(* ~Transaction of a write transaction erases its slot.                    *)
EndWrite(t) ==
    /\ pc[t] = "writing"
    /\ list' = [list EXCEPT ![ptr[t]] = MAXTIME]
    /\ Forget(t)
    /\ stable' = [u \in Thread |->
                    IF u = t THEN {} ELSE stable[u] \ {list[ptr[t]]}]

(* The read time is dropped with the transaction, or after its use.        *)
EndRead(t) ==
    /\ pc[t] = "reading"
    /\ Forget(t)
    /\ stable' = [stable EXCEPT ![t] = {}]
    /\ UNCHANGED list

ThreadStep(t) ==
    \/ FetchEpoch(t) \/ ClaimSlot(t) \/ ProbeNext(t) \/ ReadSlot(t)
    \/ BeginWrite(t) \/ BeginReadTime(t) \/ FoundEmpty(t) \/ FoundEntry(t)
    \/ ReadCounter(t) \/ ReadMinimum(t) \/ EndWrite(t) \/ EndRead(t)

Next == \E t \in Thread : ThreadStep(t)

Spec == Init /\ [][Next]_vars

(* A begun transaction's thread keeps running until it has its read epoch; *)
(* nothing obliges a transaction to end.                                   *)
BeginStep(t) == ClaimSlot(t) \/ ProbeNext(t)
                \/ (pc[t] = "scan" /\ ReadSlot(t)) \/ BeginWrite(t)

FairSpec == Spec /\ \A t \in Thread : WF_vars(BeginStep(t))

-----------------------------------------------------------------------------
Registered(t) == pc[t] \in {"scan", "writing"}

(* A transaction that holds a slot is the only one to hold it and its      *)
(* epoch stands there; every other slot is free.  insert compares the slot *)
(* after an occupied one with the occupant's epoch and not with MAXTIME:   *)
(* the property is that this never overwrites a live entry.                *)
OwnSlot ==
    /\ \A t \in Thread : Registered(t) => list[ptr[t]] = val[t]
    /\ \A s \in Slot : list[s] # MAXTIME =>
          \E t \in Thread : Registered(t) /\ ptr[t] = s /\ val[t] = list[s]

(* find_min is not atomic, but what was in the table from its first load   *)
(* to the end of the scan is above the read epoch it gave: a transaction   *)
(* never reads what another one, registered before, is still writing.      *)
ScanMissesNothing ==
    \A t \in Thread : pc[t] \in {"writing", "reading"} =>
        \A e \in stable[t] : read[t] < e

(* Two free slots in a row: insert needs them, because an exchange that    *)
(* fails spoils the next one.                                              *)
Room == \E s \in Slot : list[s] = MAXTIME /\ list[(s + 1) % Size] = MAXTIME

(* BeginRelTransaction goes on, whatever begun transactions do, as long as *)
(* the table has room (insert): when threads are inserting for ever, some  *)
(* insert succeeds again and again.  So one is held up only by others that *)
(* begin, and if these stop, by nobody.  A behaviour without this has an   *)
(* insert that never ends after finitely many begins, and so finitely many *)
(* epochs, which are the ones the bound lets through.                      *)
BeginsGoOn ==
    <>[]Room =>
        \/ []<>(\A t \in Writer : pc[t] # "insert")
        \/ []<><<\E t \in Writer : ClaimSlot(t)>>_vars

(* The table implements a set of active epochs that changes by one epoch   *)
(* at a time.                                                              *)
Abstract == INSTANCE ActiveEpochs WITH
    next <- epoch_id,
    pending <- {val[t] : t \in {u \in Thread : pc[u] = "insert"}},
    active <- Listed

ImplementsActiveEpochs == Abstract!Spec
=============================================================================
