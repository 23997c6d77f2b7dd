----------------------------- MODULE WritePath ------------------------------
(***************************************************************************)
(* The path of a write: check_write_stall, rowMemoryManager::PutTuple with *)
(* CheckAndImmute and immute_memtable, and the high compaction threads     *)
(* that persist memtables and lift the stall (RowMemoryManager.cpp,        *)
(* TupleEntry.cpp, DB.cpp).                                                *)
(*                                                                         *)
(* PutTuple takes the shared lock of the memtable currentMemTable names    *)
(* and then reads currentMemTable again for every use; each read is an     *)
(* action here.  What is written is a model value, keys play no part.      *)
(***************************************************************************)
EXTENDS Integers, FiniteSets, Sequences

CONSTANTS
    Writer,               \* threads that put tuples
    Flusher,              \* high compaction threads
    Write,                \* the puts there are to make
    MEM_TABLE_MAX_SIZE,   \* entries that make a memtable full
    MAX_MEMTABLE_NUM,     \* memtables beyond which writers stall
    LastMemtable,         \* bound: the last memtable that may be created
    NoWrite,              \* no put in hand
    SIZE_MAX              \* the largest size_t

ASSUME WritePathAssumption ==
    /\ IsFiniteSet(Writer) /\ IsFiniteSet(Flusher) /\ Writer \cap Flusher = {}
    /\ MEM_TABLE_MAX_SIZE \in Nat \ {0}
    /\ MAX_MEMTABLE_NUM \in Nat \ {0}
    /\ LastMemtable \in Nat
    /\ NoWrite \notin Write
    /\ SIZE_MAX \in Nat /\ SIZE_MAX > MAX_MEMTABLE_NUM

(* A size_t can count more memtables than there can be at once.            *)
ASSUME CounterAssumption ==
    MAX_MEMTABLE_NUM + Cardinality(Writer) * (1 + Cardinality(Flusher))
      + Cardinality(Flusher) <= SIZE_MAX

Memtable == 0 .. LastMemtable

VARIABLES
    current,         \* currentMemTable
    immutable,       \* the memtables' flags
    data_count,      \* their current_data_count
    entries,         \* the puts each memtable holds
    strayed,         \* history: puts into a memtable not locked for them
    readers, owner,  \* who holds each memtable's mutex, shared or alone
    HighCompactionList,   \* memtables to persist
    memtable_cnt,
    write_stall,     \* write_stall[0]
    persisted,       \* the puts in files
    done,            \* the puts that have returned
    pc,
    put,             \* the put a writer has in hand
    locked,          \* the memtable whose shared lock it holds or asks for
    target           \* the memtable it inserts into, or makes immutable; the
                     \* memtable a flusher persists

memVars == <<current, immutable, data_count, entries, strayed>>
lockVars == <<readers, owner>>
stallVars == <<memtable_cnt, write_stall>>
threadVars == <<put, locked, target>>
vars == <<memVars, lockVars, HighCompactionList, stallVars, persisted, done,
          pc, threadVars>>

Thread == Writer \cup Flusher
Control == {"idle", "name", "lock", "check", "insert", "full", "exchange", "swap",
            "enqueue", "count", "compare", "stall", "unlock",
            "own", "build", "uncount", "recompare", "resume"}

TypeOK ==
    /\ current \in Memtable
    /\ immutable \in [Memtable -> BOOLEAN]
    /\ data_count \in [Memtable -> Nat]
    /\ entries \in [Memtable -> SUBSET Write] /\ strayed \subseteq Write
    /\ readers \in [Memtable -> SUBSET Writer]
    /\ owner \in [Memtable -> SUBSET Flusher]
    /\ HighCompactionList \in Seq(Memtable)
    /\ memtable_cnt \in 0 .. SIZE_MAX /\ write_stall \in BOOLEAN
    /\ persisted \subseteq Write /\ done \subseteq Write
    /\ pc \in [Thread -> Control]
    /\ put \in [Writer -> Write \cup {NoWrite}]
    /\ locked \in [Writer -> Memtable]
    /\ target \in [Thread -> Memtable]

Init ==
    /\ current = 0
    /\ immutable = [m \in Memtable |-> FALSE]
    /\ data_count = [m \in Memtable |-> 0]
    /\ entries = [m \in Memtable |-> {}] /\ strayed = {}
    /\ readers = [m \in Memtable |-> {}] /\ owner = [m \in Memtable |-> {}]
    /\ HighCompactionList = <<>>
    /\ memtable_cnt = 1 /\ write_stall = FALSE
    /\ persisted = {} /\ done = {}
    /\ pc = [t \in Thread |-> "idle"]
    /\ put = [w \in Writer |-> NoWrite]
    /\ locked = [w \in Writer |-> 0]
    /\ target = [t \in Thread |-> 0]

(* Are there memtables enough to stall?                                    *)
TooMany == memtable_cnt > MAX_MEMTABLE_NUM

Goto(t, from, to) == pc[t] = from /\ pc' = [pc EXCEPT ![t] = to]

-----------------------------------------------------------------------------
(* Wrong: a put does not look at the stall.                                *)
StartPutUnchecked(w) ==
    /\ Goto(w, "idle", "name")
    /\ \E d \in Write \ (done \cup {put[u] : u \in Writer}) :
          put' = [put EXCEPT ![w] = d]
    /\ UNCHANGED <<memVars, lockVars, HighCompactionList, stallVars, persisted,
                   done, locked, target>>

(* Transaction::PutTuple: check_write_stall.  A stalled writer waits on    *)
(* write_stall_cv until the flag is down: it cannot take this step.        *)
StartPut(w) ==
    /\ Goto(w, "idle", "name")
    /\ ~write_stall
    /\ \E d \in Write \ (done \cup {put[u] : u \in Writer}) :
          put' = [put EXCEPT ![w] = d]
    /\ UNCHANGED <<memVars, lockVars, HighCompactionList, stallVars, persisted,
                   done, locked, target>>

(* rowMemoryManager::PutTuple asks for the lock of the current memtable.   *)
NameLock(w) ==
    /\ Goto(w, "name", "lock")
    /\ locked' = [locked EXCEPT ![w] = current]
    /\ UNCHANGED <<memVars, lockVars, HighCompactionList, stallVars, persisted,
                   done, put, target>>

TakeShared(w) ==
    /\ Goto(w, "lock", "check")
    /\ owner[locked[w]] = {}
    /\ readers' = [readers EXCEPT ![locked[w]] = @ \cup {w}]
    /\ UNCHANGED <<memVars, owner, HighCompactionList, stallVars, persisted,
                   done, threadVars>>

(* relMemTable::PutTuple of what is current by now; PutTuple tries again   *)
(* while that is immutable.                                                *)
CheckImmutable(w) ==
    /\ Goto(w, "check", "insert")
    /\ ~immutable[current]
    /\ target' = [target EXCEPT ![w] = current]
    /\ UNCHANGED <<memVars, lockVars, HighCompactionList, stallVars, persisted,
                   done, put, locked>>

(* The insertion.  ++current_data_count is not atomic: of two at the same  *)
(* time one may be lost.                                                   *)
Insert(w) ==
    /\ Goto(w, "insert", "full")
    /\ entries' = [entries EXCEPT ![target[w]] = @ \cup {put[w]}]
    /\ strayed' = strayed \cup {d \in {put[w]} : locked[w] # target[w]}
    /\ \/ data_count' = [data_count EXCEPT ![target[w]] = @ + 1]
       \/ /\ \E u \in Writer \ {w} : pc[u] = "insert" /\ target[u] = target[w]
          /\ UNCHANGED data_count
    /\ UNCHANGED <<current, immutable, lockVars, HighCompactionList, stallVars,
                   persisted, done, threadVars>>

(* CheckAndImmute reads the count of the current memtable ...              *)
CheckFull(w) ==
    /\ Goto(w, "full", IF data_count[current] >= MEM_TABLE_MAX_SIZE
                       THEN "exchange" ELSE "unlock")
    /\ UNCHANGED <<memVars, lockVars, HighCompactionList, stallVars, persisted,
                   done, threadVars>>

(* Wrong: a test of the flag at CheckFull's time, not an exchange.         *)
ExchangeUnchecked(w) ==
    /\ Goto(w, "exchange", "swap")
    /\ immutable' = [immutable EXCEPT ![current] = TRUE]
    /\ UNCHANGED <<current, data_count, entries, strayed, lockVars,
                   HighCompactionList, stallVars, persisted, done, threadVars>>

(* ... and marks the memtable that is current now; the first to do so goes *)
(* on to replace it.                                                       *)
Exchange(w) ==
    /\ Goto(w, "exchange", IF immutable[current] THEN "unlock" ELSE "swap")
    /\ immutable' = [immutable EXCEPT ![current] = TRUE]
    /\ UNCHANGED <<current, data_count, entries, strayed, lockVars,
                   HighCompactionList, stallVars, persisted, done, threadVars>>

(* immute_memtable of what is current now: the next memtable takes over.   *)
(* The bound is on the memtables there are.                                *)
Swap(w) ==
    /\ Goto(w, "swap", "enqueue")
    /\ current < LastMemtable
    /\ target' = [target EXCEPT ![w] = current]
    /\ current' = current + 1
    /\ UNCHANGED <<immutable, data_count, entries, strayed, lockVars,
                   HighCompactionList, stallVars, persisted, done, put, locked>>

(* AddCompaction of the memtable to the high queue.                        *)
Enqueue(w) ==
    /\ Goto(w, "enqueue", "count")
    /\ HighCompactionList' = Append(HighCompactionList, target[w])
    /\ UNCHANGED <<memVars, lockVars, stallVars, persisted, done, threadVars>>

(* Wrong: a count that is not atomic.                                      *)
CountUpRacing(w) ==
    /\ Goto(w, "count", "compare")
    /\ \/ memtable_cnt' = (memtable_cnt + 1) % (SIZE_MAX + 1)
       \/ /\ \E u \in Writer \ {w} : pc[u] = "count"
          /\ UNCHANGED memtable_cnt
    /\ UNCHANGED <<memVars, lockVars, HighCompactionList, write_stall,
                   persisted, done, threadVars>>

(* fetch_add(1, ...) on a size_t.                                          *)
CountUp(w) ==
    /\ Goto(w, "count", "compare")
    /\ memtable_cnt' = (memtable_cnt + 1) % (SIZE_MAX + 1)
    /\ UNCHANGED <<memVars, lockVars, HighCompactionList, write_stall,
                   persisted, done, threadVars>>

Compare(w) ==
    /\ Goto(w, "compare",
            IF TooMany THEN "stall" ELSE "unlock")
    /\ UNCHANGED <<memVars, lockVars, HighCompactionList, stallVars, persisted,
                   done, threadVars>>

StallWrite(w) ==
    /\ Goto(w, "stall", "unlock")
    /\ write_stall' = TRUE
    /\ UNCHANGED <<memVars, lockVars, HighCompactionList, memtable_cnt,
                   persisted, done, threadVars>>

(* The put returns.                                                        *)
Return(w) ==
    /\ Goto(w, "unlock", "idle")
    /\ readers' = [readers EXCEPT ![locked[w]] = @ \ {w}]
    /\ done' = done \cup {put[w]}
    /\ put' = [put EXCEPT ![w] = NoWrite]
    /\ locked' = [locked EXCEPT ![w] = 0]
    /\ target' = [target EXCEPT ![w] = 0]
    /\ UNCHANGED <<memVars, owner, HighCompactionList, stallVars, persisted>>

-----------------------------------------------------------------------------
(* HighCompactLoop pops a memtable; RowMemtablePersistence locks it alone, *)
(* writes what it holds, and counts it off.                                *)
PopMemtable(f) ==
    /\ Goto(f, "idle", "own")
    /\ HighCompactionList # <<>>
    /\ target' = [target EXCEPT ![f] = Head(HighCompactionList)]
    /\ HighCompactionList' = Tail(HighCompactionList)
    /\ UNCHANGED <<memVars, lockVars, stallVars, persisted, done, put, locked>>

(* Wrong: it does not wait for those who insert.                           *)
TakeAloneAtOnce(f) ==
    /\ Goto(f, "own", "build")
    /\ owner[target[f]] = {}
    /\ owner' = [owner EXCEPT ![target[f]] = {f}]
    /\ UNCHANGED <<memVars, readers, HighCompactionList, stallVars, persisted,
                   done, threadVars>>

TakeAlone(f) ==
    /\ Goto(f, "own", "build")
    /\ readers[target[f]] = {} /\ owner[target[f]] = {}
    /\ owner' = [owner EXCEPT ![target[f]] = {f}]
    /\ UNCHANGED <<memVars, readers, HighCompactionList, stallVars, persisted,
                   done, threadVars>>

BuildFile(f) ==
    /\ Goto(f, "build", "uncount")
    /\ persisted' = persisted \cup entries[target[f]]
    /\ UNCHANGED <<memVars, lockVars, HighCompactionList, stallVars, done,
                   threadVars>>

(* Wrong: a count that can go below zero.                                  *)
CountDownSigned(f) ==
    /\ Goto(f, "uncount", "recompare")
    /\ memtable_cnt' = memtable_cnt - 1
    /\ UNCHANGED <<memVars, lockVars, HighCompactionList, write_stall,
                   persisted, done, threadVars>>

(* fetch_add(-1, ...) on a size_t.                                         *)
CountDown(f) ==
    /\ Goto(f, "uncount", "recompare")
    /\ memtable_cnt' = (memtable_cnt + SIZE_MAX) % (SIZE_MAX + 1)
    /\ UNCHANGED <<memVars, lockVars, HighCompactionList, write_stall,
                   persisted, done, threadVars>>

(* The lock is released with the return, after the stall is lifted or not. *)
Release(f) ==
    /\ owner' = [owner EXCEPT ![target[f]] = {}]
    /\ target' = [target EXCEPT ![f] = 0]

StayStalled(f) ==
    /\ Goto(f, "recompare", "idle")
    /\ TooMany
    /\ Release(f)
    /\ UNCHANGED <<memVars, readers, HighCompactionList, stallVars, persisted,
                   done, put, locked>>

Recompare(f) ==
    /\ Goto(f, "recompare", "resume")
    /\ ~TooMany
    /\ UNCHANGED <<memVars, lockVars, HighCompactionList, stallVars, persisted,
                   done, threadVars>>

ResumeWrite(f) ==
    /\ Goto(f, "resume", "idle")
    /\ write_stall' = FALSE
    /\ Release(f)
    /\ UNCHANGED <<memVars, readers, HighCompactionList, memtable_cnt,
                   persisted, done, put, locked>>

-----------------------------------------------------------------------------
PutStep(w) ==
    \/ NameLock(w) \/ TakeShared(w) \/ CheckImmutable(w) \/ Insert(w)
    \/ CheckFull(w) \/ Exchange(w) \/ Swap(w) \/ Enqueue(w) \/ CountUp(w) \/ Compare(w)
    \/ StallWrite(w) \/ Return(w)

FlushStep(f) ==
    \/ PopMemtable(f) \/ TakeAlone(f) \/ BuildFile(f) \/ CountDown(f)
    \/ StayStalled(f) \/ Recompare(f) \/ ResumeWrite(f)

Next == \/ \E w \in Writer : StartPut(w) \/ PutStep(w)
        \/ \E f \in Flusher : FlushStep(f)

Spec == Init /\ [][Next]_vars

(* The threads are scheduled; a client that has put something puts the     *)
(* rest, as the tests' workers do.                                         *)
FairSpec == Spec /\ \A w \in Writer : WF_vars(StartPut(w) \/ PutStep(w))
                 /\ \A f \in Flusher : WF_vars(FlushStep(f))

-----------------------------------------------------------------------------
Replaced == {target[w] : w \in {u \in Writer : pc[u] = "enqueue"}}
Persisting == {target[f] : f \in {g \in Flusher : pc[g] \in {"own", "build"}}}
InList == {HighCompactionList[k] : k \in DOMAIN HighCompactionList}

(* Although CheckAndImmute reads currentMemTable three times, every        *)
(* memtable that is replaced is persisted by exactly one thread: it is in  *)
(* the hands of one writer, or once in the queue, or of one flusher, or in *)
(* the past.                                                               *)
ReplacedOnce ==
    /\ \A u, v \in {w \in Writer : pc[w] = "swap"} : u = v
    /\ \A u, v \in {w \in Writer : pc[w] = "enqueue"} :
          target[u] = target[v] => u = v
    /\ \A j, k \in DOMAIN HighCompactionList :
          HighCompactionList[j] = HighCompactionList[k] => j = k
    /\ current \notin InList \cup Persisting
    /\ InList \cap Persisting = {}
    /\ \A f, g \in Flusher :
          {f, g} \subseteq {h \in Flusher : pc[h] \in {"own", "build"}}
          /\ target[f] = target[g] => f = g

Kept(d) ==
    \/ d \in persisted
    \/ \E m \in {current} \cup Replaced \cup InList \cup Persisting :
          d \in entries[m]

(* A put that returned is in a file, in the current memtable or in one     *)
(* still to be persisted, if it went into the memtable whose lock the      *)
(* writer held: for those shared_mutex and the flag immutable are enough.  *)
(* A put that strayed into another memtable may be lost.                   *)
LockedPutsKept == \A d \in done \ strayed : Kept(d)

(* memtable_cnt is the number of memtables not yet persisted, but for the  *)
(* threads between a memtable's change of state and the count's.           *)
CountExact ==
    memtable_cnt =
        (1 + Len(HighCompactionList)
           + Cardinality({f \in Flusher : pc[f] \in {"own", "build", "uncount"}})
           - Cardinality({w \in Writer : pc[w] = "count"})) % (SIZE_MAX + 1)

(* The memtables not yet persisted, the current one included, are bounded: *)
(* a writer past check_write_stall replaces at most one more, and lifting  *)
(* a stall on an old count (once for each flusher) lets them pass again.   *)
Backpressure ==
    1 + Cardinality(Replaced) + Len(HighCompactionList)
      + Cardinality(Persisting)
        <= MAX_MEMTABLE_NUM + Cardinality(Writer) * (1 + Cardinality(Flusher))

(* Every put the workers have to make is made.                             *)
AllPutsMade == <>(done = Write)
=============================================================================
