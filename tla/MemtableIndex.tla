--------------------------- MODULE MemtableIndex ----------------------------
(***************************************************************************)
(* The inside of one memtable while it takes puts: relMemTable::PutTuple   *)
(* and GetTuple (TupleEntry.cpp) on the skip list tuple_index, whose nodes *)
(* lead to the newest entry of a key, and on the ConcurrentArray           *)
(* tuple_pool, whose slabs of 1, 2, 4, ... slots are allocated on demand.  *)
(*                                                                         *)
(* Several writers put at once: they share the memtable's lock.  The skip  *)
(* list itself (folly) is external: find and insert are atomic, a second   *)
(* insert of a key changes nothing.  Values and tombstones are left out:   *)
(* an entry is known by its index.  That a memtable becomes immutable, and *)
(* its racing count of entries, is WritePath's subject.                    *)
(***************************************************************************)
EXTENDS Integers, FiniteSets, Sequences

CONSTANTS
    Writer,       \* threads that put tuples
    Key,          \* the keys, numbers in their order
    NoKey,        \* the empty string, below every key
    Slabs,        \* slabs the constructor of tuple_pool allocates (20)
    LastIndex,    \* bound: the last index that may be claimed
    LastEpoch,    \* bound: the last write epoch
    NONEINDEX     \* no entry

ASSUME MemtableIndexAssumption ==
    /\ Key \subseteq Nat /\ NoKey \in Nat /\ \A k \in Key : k > NoKey
    /\ Slabs \in Nat /\ LastIndex \in Nat /\ LastEpoch \in Nat
    /\ NONEINDEX \notin 0 .. LastIndex

(* util::highbit.                                                          *)
HighBit(x) == CHOOSE n \in 0 .. x : 2^n <= x /\ x < 2^(n + 1)

(* The slab an index lies in.                                              *)
SlabOf(i) == HighBit(i + 1)

Index == 0 .. LastIndex
Slab == {SlabOf(i) : i \in Index}
Epoch == 1 .. LastEpoch
Place == Index \cup {NONEINDEX}
Empty == [key |-> NoKey, time |-> 0, next |-> NONEINDEX]
Entry == [key : Key, time : Epoch, next : Place]

VARIABLES
    tuple_index,    \* per key, its node's index; NONEINDEX: it has no node
    array,          \* the slots of tuple_pool, Empty before they are written
    allocated,      \* the slabs whose pointer is not null
    empty,          \* their flags, TRUE once someone is to allocate the slab
    cnt,            \* indices claimed
    max_key, min_key,
    next_epoch,     \* the next write epoch
    epoch,          \* the write epoch of a writer's transaction, 0: it has none
    pc,
    key,            \* the key a writer puts
    found,          \* what it found in tuple_index
    pos,            \* the index it claimed
    stored,         \* history: indices with the entries written there
    finished,       \* history: the indices of the puts that have returned
    raced,          \* history: keys of which two puts overlapped
    range_raced     \* history: two updates of the key range overlapped

poolVars == <<array, allocated, empty, cnt>>
rangeVars == <<max_key, min_key>>
txnVars == <<next_epoch, epoch>>
putVars == <<key, found, pos>>
histVars == <<stored, finished, raced, range_raced>>
vars == <<tuple_index, poolVars, rangeVars, txnVars, pc, putVars, histVars>>

Control == {"idle", "find", "claim", "slab", "grab", "allocate", "store", "link",
            "max", "set_max", "min", "set_min", "fill_min"}

TypeOK ==
    /\ tuple_index \in [Key -> Place]
    /\ array \in [Index -> Entry \cup {Empty}]
    /\ allocated \subseteq Slab /\ empty \in [Slab -> BOOLEAN]
    /\ cnt \in 0 .. LastIndex + 1
    /\ max_key \in Key \cup {NoKey} /\ min_key \in Key \cup {NoKey}
    /\ next_epoch \in 1 .. LastEpoch + 1
    /\ epoch \in [Writer -> Epoch \cup {0}]
    /\ pc \in [Writer -> Control]
    /\ key \in [Writer -> Key \cup {NoKey}]
    /\ found \in [Writer -> Place] /\ pos \in [Writer -> Place]
    /\ stored \subseteq Index \X Entry /\ finished \subseteq Index
    /\ raced \subseteq Key /\ range_raced \in BOOLEAN

(* Wrong: the constructor marks one slab more than it allocates.           *)
MarkedOneMore == {s \in Slab : s <= Slabs}
(* The slabs ConcurrentArray(k) marks as allocated.                        *)
Marked == {s \in Slab : s < Slabs}

Init ==
    /\ tuple_index = [k \in Key |-> NONEINDEX]
    /\ array = [i \in Index |-> Empty]
    /\ allocated = {s \in Slab : s < Slabs}
    /\ empty = [s \in Slab |-> s \in Marked]
    /\ cnt = 0
    /\ max_key = NoKey /\ min_key = NoKey
    /\ next_epoch = 1 /\ epoch = [w \in Writer |-> 0]
    /\ pc = [w \in Writer |-> "idle"]
    /\ key = [w \in Writer |-> NoKey]
    /\ found = [w \in Writer |-> NONEINDEX] /\ pos = [w \in Writer |-> NONEINDEX]
    /\ stored = {} /\ finished = {} /\ raced = {} /\ range_raced = FALSE

Goto(w, from, to) == pc[w] = from /\ pc' = [pc EXCEPT ![w] = to]

(* Writers between the search for their key's node and its update.         *)
Searching == {w \in Writer : pc[w] \in {"claim", "slab", "grab", "allocate",
                                        "store", "link"}}
Ranging == {w \in Writer : pc[w] \in {"max", "set_max", "min", "set_min", "fill_min"}}

-----------------------------------------------------------------------------
(* BeginRelTransaction takes a write epoch.  Entering it into the table of *)
(* epochs comes after (EpochTable has it): nothing here depends on it.     *)
BeginWrite(w) ==
    /\ pc[w] = "idle" /\ epoch[w] = 0 /\ next_epoch <= LastEpoch
    /\ epoch' = [epoch EXCEPT ![w] = next_epoch]
    /\ next_epoch' = next_epoch + 1
    /\ UNCHANGED <<tuple_index, poolVars, rangeVars, pc, putVars, histVars>>

(* ~Transaction: the writer's epoch is over.                               *)
EndWrite(w) ==
    /\ pc[w] = "idle" /\ epoch[w] # 0
    /\ epoch' = [epoch EXCEPT ![w] = 0]
    /\ UNCHANGED <<tuple_index, poolVars, rangeVars, next_epoch, pc, putVars,
                   histVars>>

(* relMemTable::PutTuple is called; the bound: an index is left.           *)
StartPut(w) ==
    /\ Goto(w, "idle", "find") /\ cnt <= LastIndex
    /\ epoch[w] # 0
    /\ \E k \in Key : key' = [key EXCEPT ![w] = k]
    /\ UNCHANGED <<tuple_index, poolVars, rangeVars, txnVars, found, pos, histVars>>

(* accessor.find and the index its node holds.                             *)
Find(w) ==
    /\ Goto(w, "find", "claim")
    /\ found' = [found EXCEPT ![w] = tuple_index[key[w]]]
    /\ raced' = raced \cup {key[v] : v \in {u \in Searching : key[u] = key[w]}}
    /\ UNCHANGED <<tuple_index, poolVars, rangeVars, txnVars, key, pos,
                   stored, finished, range_raced>>

(* Wrong: the counter is loaded and stored, not added to atomically.       *)
ClaimRacing(w) ==
    /\ Goto(w, "claim", "slab")
    /\ cnt <= LastIndex
    /\ pos' = [pos EXCEPT ![w] = cnt]
    /\ cnt' \in {cnt, cnt + 1}
    /\ UNCHANGED <<tuple_index, array, allocated, empty, rangeVars, txnVars,
                   key, found, histVars>>

(* Wrong: the index is the counter after the addition.                     *)
ClaimPast(w) ==
    /\ Goto(w, "claim", "slab")
    /\ cnt <= LastIndex
    /\ pos' = [pos EXCEPT ![w] = cnt + 1]
    /\ cnt' = cnt + 1
    /\ UNCHANGED <<tuple_index, array, allocated, empty, rangeVars, txnVars,
                   key, found, histVars>>

(* push_back: cnt.fetch_add; the second conjunct is the bound.             *)
Claim(w) ==
    /\ Goto(w, "claim", "slab")
    /\ cnt <= LastIndex
    /\ pos' = [pos EXCEPT ![w] = cnt]
    /\ cnt' = cnt + 1
    /\ UNCHANGED <<tuple_index, array, allocated, empty, rangeVars, txnVars,
                   key, found, histVars>>

(* Is the slab's pointer null?                                             *)
LoadSlab(w) ==
    /\ \/ Goto(w, "slab", "store") /\ SlabOf(pos[w]) \in allocated
       \/ Goto(w, "slab", "grab") /\ SlabOf(pos[w]) \notin allocated
    /\ UNCHANGED <<tuple_index, poolVars, rangeVars, txnVars, putVars, histVars>>

(* Wrong: whoever finds no slab allocates it.                              *)
GrabUnchecked(w) ==
    /\ Goto(w, "grab", "allocate")
    /\ empty' = [empty EXCEPT ![SlabOf(pos[w])] = TRUE]
    /\ UNCHANGED <<tuple_index, array, allocated, cnt, rangeVars, txnVars,
                   putVars, histVars>>

(* The compare-and-swap on the slab's flag: one writer allocates, the      *)
(* others yield and look again.                                            *)
Grab(w) ==
    /\ \/ /\ Goto(w, "grab", "allocate")
          /\ ~empty[SlabOf(pos[w])]
          /\ empty' = [empty EXCEPT ![SlabOf(pos[w])] = TRUE]
       \/ /\ Goto(w, "grab", "slab")
          /\ empty[SlabOf(pos[w])]
          /\ UNCHANGED empty
    /\ UNCHANGED <<tuple_index, array, allocated, cnt, rangeVars, txnVars,
                   putVars, histVars>>

(* A new slab, whose slots hold nothing, takes the place of what was there. *)
Allocate(w) ==
    /\ Goto(w, "allocate", "slab")
    /\ allocated' = allocated \cup {SlabOf(pos[w])}
    /\ array' = [i \in Index |-> IF SlabOf(i) = SlabOf(pos[w]) THEN Empty ELSE array[i]]
    /\ UNCHANGED <<tuple_index, empty, cnt, rangeVars, txnVars, putVars, histVars>>

(* The TupleEntry PutTuple made before push_back, found being its next.    *)
NewEntry(w) == [key |-> key[w], time |-> epoch[w], next |-> found[w]]

Store(w) ==
    /\ Goto(w, "store", "link")
    /\ array' = [array EXCEPT ![pos[w]] = NewEntry(w)]
    /\ stored' = stored \cup {<<pos[w], NewEntry(w)>>}
    /\ UNCHANGED <<tuple_index, allocated, empty, cnt, rangeVars, txnVars, putVars,
                   finished, raced, range_raced>>

(* Wrong: the node is set to the entry found before.                       *)
LinkFound(w) ==
    /\ Goto(w, "link", "max")
    /\ tuple_index' = [tuple_index EXCEPT ![key[w]] =
           IF found[w] = NONEINDEX THEN pos[w] ELSE found[w]]
    /\ range_raced' = (range_raced \/ Ranging # {})
    /\ UNCHANGED <<poolVars, rangeVars, txnVars, putVars, stored, finished, raced>>

(* The index of a new entry becomes its key's: by an insertion, which a    *)
(* node inserted meanwhile makes void, or by a store into the node found.  *)
Link(w) ==
    /\ Goto(w, "link", "max")
    /\ tuple_index' = IF found[w] = NONEINDEX /\ tuple_index[key[w]] # NONEINDEX
                      THEN tuple_index
                      ELSE [tuple_index EXCEPT ![key[w]] = pos[w]]
    /\ range_raced' = (range_raced \/ Ranging # {})
    /\ UNCHANGED <<poolVars, rangeVars, txnVars, putVars, stored, finished, raced>>

(* UpdateMinMax: three comparisons, each followed by its assignment.       *)
CompareMax(w) ==
    /\ \/ Goto(w, "max", "set_max") /\ key[w] > max_key
       \/ Goto(w, "max", "min") /\ key[w] <= max_key
    /\ UNCHANGED <<tuple_index, poolVars, rangeVars, txnVars, putVars, histVars>>

SetMax(w) ==
    /\ Goto(w, "set_max", "min")
    /\ max_key' = key[w]
    /\ UNCHANGED <<tuple_index, poolVars, min_key, txnVars, putVars, histVars>>

(* Wrong: the comparison the other way round.                              *)
CompareMinSwapped(w) ==
    /\ \/ Goto(w, "min", "set_min") /\ key[w] > min_key
       \/ Goto(w, "min", "fill_min") /\ key[w] <= min_key
    /\ UNCHANGED <<tuple_index, poolVars, rangeVars, txnVars, putVars, histVars>>

CompareMin(w) ==
    /\ \/ Goto(w, "min", "set_min") /\ key[w] < min_key
       \/ Goto(w, "min", "fill_min") /\ key[w] >= min_key
    /\ UNCHANGED <<tuple_index, poolVars, rangeVars, txnVars, putVars, histVars>>

SetMin(w) ==
    /\ Goto(w, "set_min", "fill_min")
    /\ min_key' = key[w]
    /\ UNCHANGED <<tuple_index, poolVars, max_key, txnVars, putVars, histVars>>

(* The first key becomes the least; the put returns.                       *)
FillMin(w) ==
    /\ Goto(w, "fill_min", "idle")
    /\ min_key' = IF min_key = NoKey THEN key[w] ELSE min_key
    /\ finished' = finished \cup {pos[w]}
    /\ UNCHANGED <<tuple_index, poolVars, max_key, txnVars, putVars,
                   stored, raced, range_raced>>

PutStep(w) ==
    \/ Find(w) \/ Claim(w) \/ LoadSlab(w) \/ Grab(w) \/ Allocate(w) \/ Store(w)
    \/ Link(w) \/ CompareMax(w) \/ SetMax(w) \/ CompareMin(w) \/ SetMin(w)
    \/ FillMin(w)

Next == \E w \in Writer : BeginWrite(w) \/ EndWrite(w) \/ StartPut(w) \/ PutStep(w)

Spec == Init /\ [][Next]_vars

(* A put in progress goes on: its writer is never left unscheduled.        *)
FairSpec == Spec /\ \A w \in Writer : WF_vars(PutStep(w))

-----------------------------------------------------------------------------
(* The entries of the chain that starts at i, as far as its first n.       *)
Met[n \in Nat] ==
    [i \in Place |-> IF i = NONEINDEX \/ n = 0 THEN {}
                     ELSE {i} \cup Met[n - 1][array[i].next]]

(* A chain has no more entries than there are indices.                     *)
InChain(i, k) == i \in Met[LastIndex + 1][tuple_index[k]]

(* GetTuple from the entry i on: the first one not after timestamp.        *)
FirstVisible(timestamp) ==
    LET first[n \in Nat] ==
            [i \in Place |-> IF i = NONEINDEX \/ n = 0 THEN NONEINDEX
                             ELSE IF array[i].time <= timestamp THEN i
                             ELSE first[n - 1][array[i].next]]
    IN  first[LastIndex + 1]

(* Wrong: GetTuple takes the first entry.                                  *)
VisibleFirst(k, timestamp) == tuple_index[k]

(* GetTuple: what the node of k leads to.                                  *)
Visible(k, timestamp) == FirstVisible(timestamp)[tuple_index[k]]

-----------------------------------------------------------------------------
(* Every entry stays where its writer stored it: no index is given out     *)
(* twice and no slab is allocated over another (push_back).                *)
EntriesStay == \A s \in stored : array[s[1]] = s[2]

(* An index a chain of k may hold: none, or that of a written entry of k.  *)
Leads(i, k) == i = NONEINDEX \/ array[i].key = k

(* What a chain leads to has been written and has the chain's key, and     *)
(* each entry leads to an older one: a reader, which takes no lock, always *)
(* has a tuple of its key under its pointer and comes to an end, racing    *)
(* puts or not (GetTuple).                                                 *)
ChainsAreSound ==
    /\ \A k \in Key : Leads(tuple_index[k], k)
    /\ \A i \in Index : array[i] # Empty =>
          /\ Leads(array[i].next, array[i].key)
          /\ array[i].next # NONEINDEX => array[i].next < i

(* Every finished put is in its key's chain as long as no two puts of that *)
(* key overlapped; puts of other keys do it no harm (PutTuple).            *)
PutsReachable ==
    \A i \in finished : array[i].key \in raced \/ InChain(i, array[i].key)

(* Once every put has returned, the range that goes into the file's        *)
(* metadata and decides which reads open the file spans every key put, if  *)
(* no two updates of it overlapped (UpdateMinMax).                         *)
RangeCovers ==
    range_raced \/ \A i \in finished : min_key <= array[i].key /\ array[i].key <= max_key

(* What a read of any time sees of a key changes only when a put of that   *)
(* key with an epoch not after the time becomes visible, and to that put:  *)
(* no put with a later epoch and no other key's put disturbs it, wherever  *)
(* the put is, as long as no two puts of the key overlapped (GetTuple).    *)
SnapshotsStable ==
    [][\A k \in Key \ raced', t \in Epoch :
          Visible(k, t)' # Visible(k, t) =>
              \E w \in Writer : /\ Link(w) /\ key[w] = k
                               /\ epoch[w] <= t
                               /\ Visible(k, t)' = pos[w]]_vars

(* Every put with an index returns: none waits for ever for a slab         *)
(* (push_back's loop).                                                     *)
PutsReturn == \A w \in Writer : pc[w] = "slab" ~> pc[w] = "idle"
=============================================================================
