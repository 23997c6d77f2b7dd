# LSM-OPD in TLA+

LSM-OPD is a log-structured merge tree with ordered dictionaries, written in
C++20: memtables in memory, immutable columnar files in levels, versions that
say which files count, and threads that compact.  It is used by many threads at
once and most of it synchronises by hand, with compare-and-swap, hand-made
reference counts and flags.  These modules model it from the source, TLC checks
them on small instances, and TLAPS proves the main invariants for every instance.
Paths below are relative to the repository (`src/DB.cpp`,
`include/LSM-OPD/...`).

## 1. Inventory

| Component | Source | State | Operations |
|---|---|---|---|
| Write epoch table | `utils/ConcurrentList.h`; `DB.cpp` 72-86, 191-202 | a ring of atomic slots; `epoch_id` | `insert`, `erase`, `find_min`, `empty`; begin and end of a transaction; `get_read_time` |
| Versions | `RelVersion.cpp`, `DB.cpp` 140-210, `Transaction.cpp` | the chain of `RelVersion`, `ref`, `next`, `next_epoch`; `read_rel_version`, `current_rel_version`; files' `ref` | `AddRef`, `DecRef`, `ProgressRelVersion`, `ProgressReadRelVersion`, `~RelVersion`, `~DB` |
| Write path | `RowMemoryManager.cpp`, `DB.cpp` | `currentMemTable`, `immutable`, counts, `memtable_cnt`, `write_stall[0]` | `PutTuple`, `CheckAndImmute`, `immute_memtable`, `RowMemtablePersistence`, `StallWrite`, `ResumeWrite`, `check_write_stall` |
| Memtable | `TupleEntry.cpp`, `ConcurrentArray.h` | skip list, slabs of entries, key range | `PutTuple`, `GetTuple`, `push_back`, `UpdateMinMax` |
| Memtable chain | `RowMemoryManager.cpp`, `RelVersion.cpp` | weak `next` pointers, `size_entry` | `GetTuple` over memtables, `AddSizeEntry` |
| Compaction | `RelVersion.cpp`, `RelFileManager.cpp`, `DB.cpp` 91-175 | `FileIndex`, `merging`, `no_overlap_in_next_level`, two queues, `write_stall[1]` | `GetCompaction`, `MergeRelFile`, the version edit, `RelVersionIterator` |
| Files | `RelFileBuilder.h`, `BlockBuilder.h`, `BlockParser.h`, `RelFileParser.h`, `RowToColumn.cpp`, `ordered_dictionary.cpp`, `operator.h` | bytes, blocks, dictionaries, filters | build, merge, point read, range filter |
| Iterators, multi-key reads | `ScanIter.cpp`, `Transaction.cpp`, `Transaction.h`, `RowGroup.cpp`, `AnswerMerger.h` | pointers into memtables and blocks; answers | `ScanIter`, `GetTuple`, `ScanKTuples`, `GetTuplesFromRange` |
| File reader cache | `FileReaderCache.cpp`, `FileReader.cpp` | open readers with counts; a ring of slots, each with a file and a mark; each file's `reader` and `reader_pos` | `find`, `deletecache`, `AddRef`, `DecRef`, `~RelVersion`'s deletion of a file |
| File I/O, profiler | `FileWriter.cpp`, `profiler/` | buffers, timers | pure I/O and measurement |

**How they interact.**  `DB::BeginRelTransaction` takes an epoch, enters it in the
epoch table, computes a read epoch from the table's minimum and pins
`read_rel_version`.  `Transaction::PutTuple` waits out a stall and calls
`rowMemoryManager::PutTuple`, which inserts into the current memtable; the writer
that fills it replaces it and queues it.  High compaction threads persist queued
memtables (and merge level 0), low ones merge deeper levels; each installs a new version with
`ProgressRelVersion` under `version_mutex`.  `ProgressReadRelVersion`, run by
transactions that end and by compaction threads without any lock, moves
`read_rel_version` along the chain as the epochs allow, and the last `DecRef` of a
version deletes it and unlinks its files.  Reads walk the chain of memtables
from the current one to their version's `size_entry`, then that version's files.
Every file read goes through a reader: the one a version's constructor gave the file's
parser, or one that `find` hands out and that stays counted until the read ends.

**What is hard.**  Lock-free exchanges in the epoch table; a reference count
that can be read after the object has gone; a pointer moved by many threads at
once; a shared lock on one memtable followed by an insertion into another;
counters compared and acted on later; memtables persisted out of order; compactions
chosen from one version and installed in a later one; a skip list and a slab array
filled by concurrent puts; readers evicted, freed and opened again at the same address while
others look for them; binary searches at the edges of blocks and levels.
There is no recovery: a `DB` starts empty whatever its directory holds, so
crashes are not modelled.

**What makes each part correct.**

* Epoch table: an entry is never overwritten or erased by another transaction;
  a snapshot never reaches into a transaction that was registered when the scan began.
* Versions: a count equals the number of those who rely on the version; nothing
  used is deleted, nothing unused is kept, the read pointer only moves forward
  and does not lag when all is quiet.
* Write path: each full memtable is persisted exactly once; a put that returned
  is kept; the backlog is bounded; a stall ends.
* Memtable: entries stay put, chains are sound under races, what a read sees changes only by puts it may see.
* Memtable chain: files of a version and the memtables a read walks to cover all puts, except those that
  another memtable overtook on the way to the files.
* Compaction: inputs are still there when a merge is installed, no key is lost,
  level 1 is disjoint, a stall is lifted.
* Files and scans: what was written is read back; a scan is the merge of its sources; reads of
  many keys agree with reads of one.
* Reader cache: who got a reader reads the file it asked for, through a reader nobody
  deletes meanwhile; none stays open for nobody; finds go on returning.

## 2. Modules

| Module | Models | Checked by | Proved in |
|---|---|---|---|
| `ActiveEpochs` | what the epoch table promises: a set changed by one epoch at a time | refinement | |
| `EpochTable` | `ConcurrentList`, `get_read_time`, begin and end of transactions | `epoch_table` | `EpochTableProofs` |
| `VersionChain` | versions, counts, read pointer, file lifetime | `version_chain`, `version_chain_reuse` | `VersionChainProofs` |
| `WritePath` | memtable replacement, persistence, memtable stall | `write_path`, `write_path_stuck` | `WritePathProofs` |
| `MemtableChain` | point reads over memtables and versions | `memtable_chain` | `MemtableChainProofs` |
| `MemtableIndex` | the inside of one memtable | `memtable_index` | `MemtableIndexProofs` |
| `Compaction` | levels, choosing, merging, finding files, level-0 stall | `compaction`, `compaction_old` | `CompactionProofs` |
| `RelFile` | pure operators: building, merging and reading one file | through `ScanMerge` | `ScanMergeProofs` |
| `ScanMerge` | memtables and files read by `ScanIter` and `GetTuple` | `scan_merge`, `scan_merge_deleted` | `ScanMergeProofs` |
| `MultiKeyRead` | extends `ScanMerge` with `ScanKTuples` and `GetTuplesFromRange` | `scan_merge` | `ScanMergeProofs` |
| `FileReaderCache` | `find`, `deletecache`, readers' counts, deletion of files | `reader_cache` | `FileReaderCacheProofs` |

The modules named `MC...` give constants their values.  The modules meet at named interfaces: `EpochTable` implements `ActiveEpochs`, whose set
`VersionChain` uses as its epoch table; `WritePath` decides when a memtable is
replaced and `MemtableChain` and `MemtableIndex` take it from there;
`MemtableChain` abstracts the counting of `VersionChain`, whose merges are those of
`Compaction`; `Compaction` treats a file as a map from keys to values, which is
what `RelFile` and `ScanMerge` show it to be.  `FileReaderCache` takes from `VersionChain` that a
file is deleted only when no version lists it, and gives the reads of `RelFile` their open file.

Every definition that models code has an entry in the map of `PROJECT.json`, with
the lines it stands for.  Operators whose comment begins with *Wrong:* are not
the code: each is a plausible mistake in the definition after it, and putting it
in that definition's place must make TLC find a property violated.  They show that
the properties can fail.

### State and actions

**EpochTable.**  One action per load, store or compare-and-swap.  `ClaimSlot` is
the exchange in `insert` and `ProbeNext` its advance; `x`, the value the exchange
expects, is not reset after a failure, as in the code, so the slot after an occupied
one is compared with the occupant's epoch.  `ReadSlot` is one load of
`find_min`; `empty` is a load, not a scan, and the second scan of a table emptied meanwhile
gives the greatest time less one.  `Spurious` lets `compare_exchange_weak` fail
for no reason.  `stable` is history: the epochs in the table since the scan began.  `MAX_WORKER_THREAD` is
halved before it is multiplied by four (`Size`), so that an odd number of workers gets fewer than two slots each.

**VersionChain.**  One action per access of the pointers and counts: a transaction
loads `read_rel_version`, then adds a reference if the count is not zero, then is
active; the end of a transaction and a compactor run the loop of
`ProgressReadRelVersion` (`empty`, `counter`, `min`, `tail`, `check`, `cas`, `drop`);
`Install` is `ProgressRelVersion` under its mutex.  The scan of the epoch table is
one step.  `V0`'s count starts at two, of which one is never given back.  A merge has
one output file and any files not merging may be its input.  `Reuse` says whether the
allocator may hand out the address of a deleted version.

**WritePath.**  `rowMemoryManager::PutTuple` names a memtable, locks its mutex
shared, and then reads `currentMemTable` again for the insertion, for the test of the
count, for the exchange of `immutable` and for the replacement: each read is an
action.  `++current_data_count` is not atomic and may lose an increment.
`memtable_cnt` is taken modulo `SIZE_MAX + 1`.  Only `write_stall[0]` is here;
`write_stall[1]` is in `Compaction`.

**MemtableChain.**  Memtable *m* holds one put, *m*, and versions are numbers.
`NextOf` is `next.lock()`: it fails once no `shared_ptr` holds the memtable, and
`Alive` lists who does.  Pinning a version is one step and `AdvanceRead` may happen
whenever the pointer is behind; `VersionChain` has the detail.  `Reaches` is the walk a read would make,
`Overtaken` says that flushers installed out of order.

**MemtableIndex.**  The skip list is external: `find` and `insert` are atomic, the
second insertion of a key changes nothing.  `Claim` is the `fetch_add`, `LoadSlab`,
`Grab` and `Allocate` the allocation of a slab by one of the writers that miss it,
`Store` the assignment into the slot, `Link` the insertion or store of the index, and
each comparison and assignment of `UpdateMinMax` is a step.  `BeginWrite` only takes the epoch (`DB.cpp` 73): the
table is in `EpochTable`, and read times are not restricted here: `SnapshotsStable` speaks of every time,
and so of the counter's value, which `get_read_time` gives when the table is empty, too.

**Compaction.**  Only the current version is kept, since choosing and installing hold
`version_mutex` and merging reads immutable files.  A file is the function from keys to
the memtable that wrote them, with its level and its range; `TryCompaction` is
`GetCompaction` with the marking of its inputs, `Install` the edit of the
version with its flags, its sort and the stall.  `EraseFile` takes away what `lower_bound` by `key_min` finds,
which need not be the input; if it finds nothing, the code erases `end()`, which is undefined and
with a vector takes away the last file.  `FileIndex` at `MAX_LEVEL`,
which the code reads out of bounds, is taken to be empty.  `LEVEL_ONE_FILES` is the
literal 4 of `GetCompaction`, a constant here so that small trees fill levels.

**RelFile, ScanMerge.**  A file's bytes are the fields written, each at its offset, and
reading where no field starts gives `Garbage`.  Keys and strings are numbers in
their order; full-length keys are odd, and `Pad` and `CStr` are the two conversions
between a padded key and a C string.  `NONEINDEX` stands for `UINT32_MAX`.  There is one
column of values besides the key.  `ScanMerge` persists and merges the given memtables
in any order of steps (a merge of one file copies it, as in `MergeRelFile`), opens a scan at any
key and calls `next` to the end.

**MultiKeyRead.**  Operators on the states of `ScanMerge`.  `ScanK` is `ScanKTuples`: the memtables' first
*k* tuples merged newest first, then `KStep` for each file, which collects tuples until there
are *k*, merges them into the answer and passes over the rest of the level.  `RangeAnswers` is
`GetTuplesFromRange` with its rule that a key keeps its first answer.

**FileReaderCache.**  One action per access of `reader`, of a reader's count, of the turn, the mark and
the slot.  A reader is an address: `Open` takes the lowest free one, so addresses are used again at
once, and freed memory keeps its count until then.  `find` claims a file by the exchange of null
for -1 (`ClaimOpening`) or loads its reader, adds a reference unless the count is zero (`AddRef`) and
compares the file's number (`OtherFile` sends it back).  A cache of size 0, the default of `Options.h`, keeps
every file open.  Files are deleted at any time that no version lists them (`DropFile`), during finds too.  With a
cache that fails, as section 5 describes; `overlapped` is history and says that a deletion has met a find,
from when on only what still holds is claimed.  A step that would use a null reader does not exist: there
the program has failed.

## 3. Runs

Passing runs finish in about two and a half minutes at most.

| Run | Instance | What it shows |
|---|---|---|
| `epoch_table` | 3 writers, one of which also reads, 4 slots, 7 epochs | entries are never overwritten, the scan misses nothing, begins go on while there is room, refinement of `ActiveEpochs` |
| `version_chain` | 2 transaction threads, 1 compactor, 3 versions, 2 files, no reuse | counts exact, nothing dangling, files on disk as long as needed and no longer, no lost advance |
| `version_chain_reuse` | 1 client, 2 compactors, reuse | violated: ABA in `ProgressReadRelVersion` |
| `write_path` | 2 writers, 1 flusher, 5 puts, memtables of one entry | replaced once, exact count, bounded backlog, puts under the right lock kept |
| `write_path_stuck` | the same, 3 puts, with fairness | violated: a stall set after the last `ResumeWrite` stays |
| `memtable_chain` | 1 reader, 2 flushers, 5 memtables, 6 versions | every put is in files, or held and walked to unless overtaken; prompt reads are complete |
| `memtable_index` | 2 writers, 2 keys, 4 indices, 2 transactions | entries stay, chains sound, no put lost without a race on its key, a read of any time changes only by puts it may see, every put returns |
| `compaction` | 1 high and 2 low threads, 3 levels, 6 keys, 4 memtables | inputs present and nothing else marked, no key or file lost, level 1 disjoint and searched right, stall lifted |
| `compaction_old` | 1 + 1 threads, 3 keys, 2 memtables | violated: the oldest of a key's level-0 rows is read |
| `scan_merge` | 3 keys, 2 strings, 3 memtables, blocks of 2 rows | point reads, scans, `ScanKTuples` and `GetTuplesFromRange` agree with what was put |
| `scan_merge_deleted` | 1 memtable with deletions | violated: a deleted key's row hides others |
| `reader_cache` | 2 threads, 3 files, 8 addresses, caches of 0, 1 and 2 slots | no slot used by two, even where a deletion meets a find; until then who holds a reader reads its own open file and counts are exact; finds go on returning |

**Why the bounds are enough.**  Each hazard needs a known number of actors.  In
the epoch table the spoiled comparison needs one occupied slot and two
inserters, and four slots let the cursor wrap; three workers are an odd number, for which `Size` gives four slots
only, so that the three writers fill the table up to one slot and can leave no two free ones in a row; seven epochs
let each slot be used again.  Counts and the read pointer need two movers and three versions, so
that one is before, one at and one after the pointer.  A memtable is replaced
wrongly only by two writers between three reads of `currentMemTable`; memtables of
one entry make every put a replacement.  In `memtable_index` slab 0 is allocated by
the constructor, slab 1 (two indices) has to be allocated by racing writers and
slab 2 by a single one; two transactions give a snapshot with a transaction above it.  In
`compaction` the four batches fill, interleave and separate files, limits of two and
one file make every level overflow, and the third level shows what happens below level 1: files of
level 2 that overlap each other are reached.  A mistaken erasure (section 5) is beyond it: nine memtables are needed
with these limits, or more, and the theorems speak of those.
In `scan_merge` a block holds two rows, a merged file two rows and a filter takes two
indices at a time, so three keys cross every boundary, and memtables are any
function from keys to strings.  In `reader_cache` a cache of one slot makes two threads empty it under each
other, one of two slots has a slot for each thread and fewer slots than files, so that the turn goes
round and an eviction meets another, and size 0 is the default of `Options.h`; three files let one be
evicted, one be opened and one be deleted, and addresses are reused at once because the lowest is taken.
Threads add the files that are left and find `MaxFinds` readers besides.

Bounds in guards: epochs (`MAXTIME`,
`LastEpoch`), memtables (`LastMemtable`, `Generations`), versions (`LastVersion`, the
addresses), puts (`Write`), indices (`LastIndex`), files (`File`), finds of transactions (`MaxFinds`), readers
opened where threads outnumber slots (`MaxOpened`; only there can one thread open without end).

`CHECK_DEADLOCK FALSE` stands where the bounded work runs out (puts, epochs, files and reads,
a finished scan), where `~DB` has closed the database, and in `write_path_stuck`, where
waiting for ever is the subject.  `SYMMETRY` is used in runs without liveness only.

**Fairness.**

* `EpochTable`: `WF(BeginStep(t))`: a thread inside `BeginRelTransaction` is scheduled.
  Nothing obliges a transaction to end.  `Spurious` is `FALSE` in the run, as on x86,
  where the weak exchange does not fail spuriously.
* `MemtableIndex`: `WF(PutStep(w))`: a writer inside a put is scheduled; no
  fairness for beginning one.
* `FileReaderCache`: `WF(FindStep(t))`: a thread inside `find` is scheduled; nobody has to call it
  or to end a read.  `FindsReturn` is about caches with a slot for every thread: with fewer
  (`Crowded`) two threads can empty the slot under each other for ever.
* `BeginsGoOn` and `FindsReturn` say that the system goes on, not that a given thread does: under this
  fairness others that begin without end can hold up one insert, or one find, for ever.  They say that, while some
  thread is always inside, some insert or find succeeds again and again.  The bounds on epochs and finds
  do not make this true: a behaviour that violates it has a last success, after which only the
  threads inside move, so finitely many were begun, and the run has those with as many as the bounds let
  through.  `BeginsGoOn` also supposes that two free slots in a row are left (`Room`), without which an
  insert runs round a table for ever; `EnoughRoom` proves that they are, when writers are at most half the slots.
* `Compaction`: compaction threads run until the database is closed.  They can always
  take a step, so weak fairness is written as infinitely many steps of each.
  Nothing obliges a client to put.
* `WritePath` (violation only): writers and flushers are scheduled, and a worker
  puts all it has, as the workers of the tests do.  The counterexample is a state in
  which every writer waits and the flusher has nothing to do.

## 4. What is proved

`EpochTableProofs`, for any numbers of threads and slots above the assumption's
least.  The inductive invariant is `SlotInv`: types; `OwnSlot`; epochs of different
transactions differ and are below `epoch_id`; and, while a thread probes, the value it
expects is either the empty mark or the epoch it saw in the slot *behind* its cursor.
`OwnSlot` alone is not inductive: that an exchange cannot succeed on a live entry rests on
the uniqueness of epochs, since the expected value is an epoch which stands elsewhere or has
gone for good.  `EnoughRoom`: writers that are at most half the slots, which an even
`MAX_WORKER_THREAD` gives, cannot occupy one of each two neighbours while one of them still inserts.
For `ScanMissesNothing` an entry in the table since the scan began lies
either before the cursor, and then the running minimum is at most it, or still ahead.  `Refinement`
maps every step to a step of `ActiveEpochs` or a stutter.

`VersionChainProofs`, for any numbers of threads, versions and files under `~Reuse`: without it the
counts are not exact, which `version_chain_reuse` shows.  `IInv` says that after `~DB`
threads are idle, and before it: the versions ever made are linked in the order of their
numbers (`ChainInv`); what a thread remembers of the chain stays true while it
sleeps, in particular that `tail_next` is the successor of `tail` and that a dropped
version lies behind the pointer (`ThreadInv`); counts are sums of the chain's share, the
leak of `V0`, pins and pending drops (`CountInv`); a version is allocated exactly if its count
is not zero (`LiveInv`).  `RefExact`, `NoDangling` and `ReadMovesForward` follow.

`NoAdvanceLost` rests on that chain.  While the read pointer is behind, some thread
is *hopeful* (`HopeInv`): it has a write epoch and so will run the loop when it ends, or it is in the loop
at a point from which it looks at the pointer again, or it has looked with a read time that lets
it pass.  No thread gives up its hope without handing it on: one that leaves because its read time is too
small does so on account of an epoch in the table (`WriterInv`), whose writer is hopeful; one whose
exchange fails lost to a thread that goes round again.  `EpochInv` (successors' epochs do
not decrease along the chain) is what makes a read time that passes one version pass those before it.

`FilesAreExact` adds the files: a file's count is the number of versions alive
that list it (`FileCountInv`); the disk holds those and the outputs written but not installed
(`DiskInv`); the inputs of compactions queued and running are marked files of the current version
and shared by no two of them (`InputInv`), outputs are nobody else's (`OutputInv`).  That `~DB` leaves only
`V0` and no file uses `NoAdvanceLost`: when `~DB` gives up its count, the read pointer has
caught up.

`WritePathProofs`, for any numbers of writers, flushers, puts and memtables, any memtable size and
any width of the counter.  `PersistedOnce` from `HandInv`: a memtable whose `immutable` is set is in one
pair of hands.  `CountCorrect` from a balance in which a thread between queueing and counting, or
between building and counting, stands for one; the sum is over integers and only its remainder
is the counter, so no bound on the number of memtables is needed.  `BacklogBounded` (`Backpressure`) from
`BacklogInv`: the memtables not yet persisted, with one more for each writer that is past the stall check or
finds no stall, and one for each writer and each flusher about to lift it, stay within the limit.  It uses that
the counter is wide enough for that many memtables (`CounterAssumption`).  `LockedPuts` from the
locks (`LockInv`: while a writer holds a memtable's lock no flusher owns it) and from `KeptInv`.

`MemtableChainProofs`, for any numbers of readers, flushers, memtables and versions.  `Covered` (what no file of a
version has is held, and walked to unless overtaken) from
`ChainInv`: what the newest files lack waits to be put there (`WaitInv`), what they gained since
version *v* is the entry of *v* or of a later version (`EntryInv`), and an entry a reader stops at is in
its files or is all that the next version gained (`StopInv`).  `PromptReads` adds that what a prompt
read still owes lies ahead of it (`Ahead`).

`MemtableIndexProofs`, for any number of writers, keys and slabs.  `IInv` says that an index has
one owner until it is stored at and is stored at once (`SlotsOwned`); that a slab has
one allocator, who finishes before anybody stores into it (`SlabsOnce`); that
slots hold exactly what was stored (`Written`); that what a writer found stays a valid
entry of its key with a lower index (`ThreadInv`).  The central step is `AllocateKeepsSlots`: replacing
a slab loses nothing because nothing can have been stored there.  `EntriesStay` and
`ChainsAreSound` follow; no assumption about races is needed for them.  `PutsStayReachable` adds what each
writer found (`SearchInv`) and that the index of a put that returned is met on the way down from its key's
pointer (`ReachInv`): a put that nobody raced stores in front of the very chain it found.  What is met
on that way is defined by recursion over indices (`Met`), and the steps are by induction over them.
`RangeAlwaysCovers` from `RangeInv`: a comparison that came out false stays false unless another
update of the range overlapped.  `SnapshotsStayStable` is the action property, for reads of
any time: with no race on the key, only the step that links an entry of this key with an epoch not above the
time changes what is seen, and then that entry is seen; a later entry in front of the chain is passed over.

Induction over data goes through lemmas that state the principle for a *set* of numbers and for a
*function* (`Induction`, `Recursion`, `Greatest`), each from the existence of a least number, so that they
take no operator as a parameter and a proof can cite them.  The modules that need them begin with them.

`CompactionProofs`, for any numbers of threads, keys, levels and memtables and any sizes, with no further
condition.  First what
the operators compute: where `LowerBound` and `UpperBound` are, that `Outputs` writes every row of
`MergedRows` once into files that have rows and do not overlap, which files `DownFiles` and `NextFiles` choose,
and what the two folds of an edit do (`AddedAll`, `ErasedAll`).  `IInv`
says: each level is in order and ids are unique (`TreeInv`); lists and jobs hold well-formed compactions
(`ListInv`); memtables to be persisted are told apart by their rows (`RowsInv`); and about all
compactions under way at once, wherever they wait (`Work`), that inputs are marked, those of levels 0 and 1
still in the version, no two compactions share one, and level 1 is disjoint, at most one compaction goes
into it, and that one has the oldest file of level 0 and every file of level 1 its keys meet (`Held`).
`LevelOneDisjoint` alone is not inductive: it rests on that last part, and that on the oldest file of
level 0 being an input, for which `GetCompaction` gives out nothing while it is merging.

An edit above level 0 erases the first file that `lower_bound` by the input's first key finds.  It is the input if
no other file of the level begins with the same key (`Findable`), which holds at level 1 because
that level is disjoint (`FindableUpper`); of the levels below nothing is supposed.
`InputsStayPresent` adds that what is marked in levels 0 and 1 is an input of something under way (`OwnedInv`): no
mark outlives its compaction there.  `KeysStay` says of every step that a file leaves only as
the input of a merge that writes its rows again (`EditHolds`), and a key not at all, except
through a compaction with an input below level 1 that is not the file found for it (`Mistaken`); the condition is part
of the property, and no hypothesis rules these steps out.

`FileReaderCacheProofs`, for any numbers of threads, files, addresses and slots, with or
without a cache, and with deletions at any time.  `IInv` holds until a deletion meets a find (`overlapped`).
A mark belongs to one thread (`MarkInv`); a file that has a reader is with the thread
that opened it or in one slot, never both (`HomeInv`); `reader_pos`, if set, is a slot that names the
file, and the only one of a file being deleted (`PosInv`); who has a count of a reader has an open
one of its own file, and an address loaded before the count was taken is open or has the count zero
(`HeapInv`).  The counts alone are not inductive: that an eviction gives back exactly the file's count
needs that no other thread has taken the same file out of another slot.  `HeldStaysOpen` and
`CountsAreExact` follow, and `NoCacheNoOverlap` says that without a cache, the default, they hold at any
time.  `SlotsStayExclusive` does not use that invariant: it also holds where a deletion has met a find, because
`ExclInv` keeps what survives that, a slot's mark with the thread whose exchange set it.

`ScanMergeProofs`, for any finite set of keys, any strings, sizes of blocks and files, and any number of
memtables, merges and scans.  It goes up from the bytes.

* *Bytes.*  A field that was appended stays where it is (`Keeps`, `Holds`), the blocks lie at the offsets
  that were counted beside what was appended (`BlocksLie`), the metas behind them (`MetasLie`), so the
  parsers read block by block the keys and indices the builder was given (`ArrangedReadable`,
  `KeysAndIdxsAre`).
* *Search.*  `LowerIdx` ends at the first row not less than the key, or at the last row (`LowerIdxIs`), `BlockFor`
  at the block where it would be (`BlockForIs`): a point read gives a key's own index, and nothing for
  any other key (`FileGetIs`).
* *Files.*  A string's index leads back to the string (`IndexIs`); a persisted memtable holds its rows
  (`PersistedIs`), and so does each output of a merge the rows it is cut from, the first input's row of
  every key (`KeptRowsAre`, `MergedFileIs`, `MergedIs`).  `FilesInv` says this of all files that ever are: a
  file holds its rows in order with their strings, or was made of a memtable with deletes, and then has
  an index that is in no dictionary and is never merged.  Level 1 is in order, and the keys put are
  those of the memtables and files.  `FilesAreMade` proves it inductive; nothing is supposed of what is put.
* *Point reads.*  `CleanLookupIsExact`: a file made of rows none of which was deleted is read exactly.
  `LookupIsExact` is `LookupExact` itself, supposing that nothing is deleted (`NoDeletes`): with a deleted row
  in a memtable it is violated, as `scan_merge_deleted` shows, so the hypothesis is needed.  The memtables
  of `scan_merge` satisfy it.
* *Scans.*  `ScanIsExact` is `ScanExact`, also under `NoDeletes`.  A scan reads *sources*: the memtables
  from the newest on, the files of level 0, level 1.  `PointersInv` says that each pointer stands at a row of
  its source (or at the end) which is beyond every tuple given and not beyond any other key
  of its source; `OutInv` that what was given are the first keys asked for, each with its tuple.  Hence the
  least pointer is at the next key, and the first source that has it is the one a point read stops at
  (`SourceTuple`): `RelVersionIterator`, which finds the files of both, leaves out none that holds
  the key (`FilesOnIs`), because of the order of level 1.
* *Reads of a range.*  `RangeIsExact` is `RangeExact`, under `NoDeletes`.  In a dictionary in order the bounds
  on indices that `rangefilter` computes select the strings in the range (`SelectedIs`), so a file gives the
  keys whose strings are in the range (`RangeKeysAre`); of answers collected place after place every key
  keeps its first (`Collected`).
* *First tuples.*  `ScanKIsExact` is `ScanKExact`, under `NoDeletes`.  `FirstOf(t, S, F, k)` says that *t* is the
  first *k* tuples of the keys *S*; merging two such sequences gives that of the union, the newer tuple
  of a common key kept (`MergeIs`).  A memtable and a file give such a sequence (`FileFirstIs`), the folds
  over memtables and over the files of a level keep it (`MemsMerged`, `Walked`, `LevelWalked`), the last
  under the condition `RunsOf` that the property itself states, and `FirstPlaces` says which keys those
  are.  Neither proof needs more than `FilesInv`: both properties are of the state read, and
  the recursive functions of the model are unfolded one step at a time (`ChainIs`), as far as a set
  of numbers that is shown to hold zero and to be closed under successor.

The only assumptions are the named ones on constants, which TLC evaluates in every run, and what a theorem states
as its own: `NoDeletes`, `~Reuse`, and in `EnoughRoom` the number of writers.

Model-checked only: the liveness properties (`BeginsGoOn`, `PutsReturn`, `StallLifts`, `FindsReturn`),
because fairness is beyond the prover.  Every safety invariant and every action property of a passing
run is stated by a theorem, under those hypotheses.

## 5. What the models found

Four runs exhibit behaviour that contradicts what the tests state:

1. *Writers stall for ever* (`write_path_stuck`): `CheckAndImmute` compares the
   count and sets the stall in two steps, and the last `ResumeWrite` may come between them.
2. *A deleted version is read* (`version_chain_reuse`): the exchange in
   `ProgressReadRelVersion` compares addresses only.
3. *An old value is read* (`compaction_old`): level 0 is searched oldest first, and a
   merge keeps the row of the first input.
4. *A deletion hides other keys* (`scan_merge_deleted`): the row of a deleted key goes
   into the file with an empty key, and the block is no longer sorted.

Seen while modelling and stated as conditions of properties or in notes:

* `PutTuple` locks one memtable and inserts into whichever is current then; a flusher that
  persists the second meanwhile loses the put (`strayed` in `WritePath`).  `LockedPutsKept` shows that
  all other puts are kept.
* Two flushers that install out of order leave a gap in the chain of memtables: the walk of a read stops at
  `size_entry`, the last one installed, or finds `next.lock()` null before the older memtable that is in no file the
  read has, and the put in it is missed.  TLC shows it when `Overtaken` is taken out of `ChainCovers`, or
  `InOrder` out of `PromptReadsComplete`.  The memtable itself is held by its flusher.
* Two compactions into level 2, chosen from different versions, can leave
  overlapping files there.  The instance of `compaction` reaches such states, and in some of them `findsrc`,
  which looks only one file back, does not find a key that is in a file of level 2
  (`UpperReachable` is about levels 0 and 1 for that reason).
* Such files can come to begin with the same key, and a compaction of the one then erases the other (`Mistaken`): the
  keys of the erased file are lost, unless it is an input too, and the input stays, marked for ever.  Or nothing is found and the last file of
  the level goes.  It takes two low threads and many memtables: with files of two rows and room for two files in
  level 1, nine memtables such as {4}, {6,7}, {3}, {8,9}, {1}, {3,4}, {5,9}, {6}, {4,10} were needed, which is too
  many for an exhaustive run.  With files of one row, or of three in trees of that size, none was met.
* `no_overlap_in_next_level` can be wrong about files that overlap another one of their own level.  It decides
  only which file of a level goes down first, and the overlap is looked up again then, so that no property
  depends on it.
* With two high threads memtables can be persisted out of order, and then the upper of two rows of a key
  need not be the newer; `Options.h` 20-25 asks for five levels and four threads of each kind.  So no property
  says that upper levels are newer.
* An insert of the epoch table needs two free slots in a row.  `MAX_WORKER_THREAD` is divided before it is
  multiplied, so an odd number of workers, 3 say, gets four slots for three writers, and entries in every
  other slot keep the third writer probing until one ends.
* `get_read_time` on an empty table gives `epoch_id`, which is the epoch of the next writer to begin, and an epoch
  taken at `DB.cpp` 73 is in no table until line 74.  Reads of such a time see puts of writers that
  began later, and are not repeatable (`SnapshotsStable` says of every time which puts change it).
* Two concurrent puts of one key can lose one from the chain, and a racing update of
  `min_key`/`max_key` can lose a bound (`raced` and `range_raced`).
* With a cache of open files, deleting a file while another thread is inside `find` fails
  (TLC shows it when `overlapped` is taken out of `HeldIsOpen` or `ReadersCounted`).  `deletecache` reads `reader_pos` again after
  it has marked a slot, and if the file was evicted meanwhile the mark stays for ever; an evictor that
  clears `reader_pos` after the file was opened again leaves a slot that names a file whose metadata
  is freed later; `~RelVersion` deletes `reader` whatever its count, so an evictor that is about to give
  the same count back frees it twice; and the freed memory keeps a count of one, so that an `AddRef`
  of the old address succeeds.  Without a cache, the default, none of this happens.  What holds even then is
  `SlotsExclusive`.
* `RightBound` in `operator.h` is unsigned: a range below every string selects every row from
  the left bound on (the second half of `RangeExact` excludes that case).
* `GetIdx` may start a scan one row below the key asked for (`ScanExact` is about keys from
  the start on), and `ScanIter` regards neither the read epoch nor tombstones.
* `ScanKTuples` takes a level's tuples only once it has *k* of them: a level with fewer is left out, or
  its tuples are mixed with the next level's (`RunsOf` is the condition under which the answer is
  right).  `GetTuplesFromRange` can return an older row of a key whose newer one is outside the range,
  and of files it returns whichever row comes first; `Materialize` leaves out the last column.
* Bloom filters are filled with padded keys and asked for unpadded ones, so a key shorter
  than `KEY_SIZE` is rarely found once persisted.
* A merge of a file with tombstones or empty strings indexes `remap` out of bounds; keys are
  compared as `char` in some places and as bytes in others.
* The comment at `RelVersion.cpp` 174-175 calls the file before the bound the last one to
  compact; line 180 takes the file at the bound in as well.

## 6. What is not modelled

* `relMemTable::ScanTuples` and `Transaction::ScanTuples`: they change nothing and their answers are thrown
  away.
* Several value columns; one stands for them.
* The hash functions of the Bloom filter: `MayHold` says which keys it holds.
* Pure I/O (`FileWriter`, the reading half of `FileReader`) and the profiler.
* Recovery: there is none in the code.
* Isolation: between taking an epoch and entering it (`DB.cpp` 73-74) it is in no table, so
  another thread's snapshot may lie above it.  `ScanMissesNothing` is about registered epochs, and no property
  promises that a read is repeatable.
* Weak memory: exchanges and pointer loads are sequentially consistent in the code; only some
  counters are relaxed (`epoch_id`, `memtable_cnt`, the files' counts), and each access of
  them is one atomic step here.  Data races on plain fields are listed among the hazards.

## 7. Plan

Done, in this order of importance: epochs; versions; write path; memtable chain; compaction;
memtable index; files and scans; multi-key reads; the cache of open files; proofs of every component that
runs concurrently: the epoch table, the version chain with its files and its read pointer, the write path,
the memtable chain, the memtable index, compaction and the cache of open files; and proofs about files,
point reads, scans and multi-key reads.

Next:

1. An abstract snapshot store (a map from keys to time-stamped values), with
   `MemtableIndex` without races shown to implement one memtable's part of it.
2. What a mistaken erasure can still not do (which keys of level 2 and below survive it), and the
   bounds within which files of level 2 overlap.
