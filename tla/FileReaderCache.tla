-------------------------- MODULE FileReaderCache ---------------------------
(***************************************************************************)
(* The cache of open files: find and deletecache (FileReaderCache.cpp),    *)
(* the counts of the readers (FileReader.cpp), the constructor of a        *)
(* version, which opens the new files for their parsers, RowGroup and      *)
(* ScanTuples, which open a file for one transaction, and ~RelVersion,     *)
(* which drops the files no version has any more (RelVersion.cpp).         *)
(*                                                                         *)
(* A reader is the address of a FileReader; a freed address is handed out  *)
(* again, the lowest first.  Freed memory is read as it was left, until it *)
(* is used again: its count is zero unless ~RelVersion deleted the reader. *)
(* A thread that would use a null reader or slot -1 has no step: there the *)
(* program fails, and nothing is said of what comes after.                 *)
(***************************************************************************)
EXTENDS Integers, FiniteSets

CONSTANTS
    Thread,
    File,        \* the files there ever are, by number
    Reader,      \* addresses
    CacheSizes,  \* MAX_FILE_READER_CACHE_SIZE; 0, the default, is no cache
    MaxOpened,   \* bound: the readers opened, if threads outnumber slots
    MaxFinds,    \* bound: the finds of transactions, if they do not
    NULL

Opening == -1    \* (FileReader *)-1
None == -1       \* (idx_t)-1

ASSUME FileReaderCacheAssumption ==
    /\ IsFiniteSet(Thread) /\ IsFiniteSet(File)
    /\ File \subseteq Nat /\ Reader \subseteq Nat /\ NULL \notin File \cup Reader \cup {Opening}
    /\ CacheSizes \subseteq Nat /\ CacheSizes # {}
    /\ MaxFinds \in Nat /\ MaxOpened \in Nat

VARIABLES
    max_size,        \* never changes
    state,           \* of each file: "new", "adding", "live", "deleting", "deleted"
    reader,          \* RelFileMetaData::reader
    reader_pos,      \* RelFileMetaData::reader_pos
    parser,          \* the reader of RelFileMetaData::parser
    open, ref, id,   \* the readers not deleted; their counts and files
    cache,           \* of each slot the file
    cache_deleting,  \* the slots that are marked
    size,            \* the slot that is next
    pc, file_data, x, pos, tmp,   \* each thread's place and locals
    overlapped,      \* history: has a deletion met a find in the cache?
    finds, opened    \* count the finds and the openings that are bounded

fileVars == <<max_size, state, reader, reader_pos, parser>>
heapVars == <<open, ref, id>>
cacheVars == <<cache, cache_deleting, size>>
localVars == <<file_data, x, pos, tmp>>
vars == <<fileVars, heapVars, cacheVars, pc, localVars, overlapped, finds, opened>>

Slot == 0 .. max_size - 1
Crowded == max_size \in 1 .. Cardinality(Thread) - 1
Finding == {"look", "open", "turn", "mark", "evict", "detach", "drop",
            "forget", "settle", "addref", "check"}
Deleting == {"unparse", "unread", "where", "claim", "clear"}

Init ==
    /\ max_size \in CacheSizes
    /\ state = [f \in File |-> "new"]
    /\ reader = [f \in File |-> NULL]
    /\ reader_pos = [f \in File |-> None]
    /\ parser = [f \in File |-> NULL]
    /\ open = {} /\ ref = [r \in Reader |-> 0] /\ id = [r \in Reader |-> NULL]
    /\ cache = [s \in Slot |-> NULL] /\ cache_deleting = {} /\ size = 0
    /\ pc = [t \in Thread |-> "idle"]
    /\ file_data = [t \in Thread |-> NULL]
    /\ x = [t \in Thread |-> NULL]
    /\ pos = [t \in Thread |-> None]
    /\ tmp = [t \in Thread |-> NULL]
    /\ overlapped = FALSE /\ finds = 0 /\ opened = 0

Goto(t, from, to) == pc[t] = from /\ pc' = [pc EXCEPT ![t] = to]

(* A deletion and a find overlap, or the file to be deleted is named by a  *)
(* slot it does not know of, because it was found again before its         *)
(* eviction was over: from here on a cache may fail (RelVersion.cpp:94).   *)
DuringDeletion == max_size # 0 /\ \E t \in Thread : pc[t] \in Deleting
DuringFind(f) ==
    /\ max_size # 0
    /\ \/ \E t \in Thread : pc[t] \in Finding
       \/ \E s \in Slot : cache[s] = f /\ reader_pos[f] # s

-----------------------------------------------------------------------------
(* FileReader::DecRef: the last one deletes the reader.                    *)
DecRef(r) ==
    /\ ref' = [ref EXCEPT ![r] = @ - 1]
    /\ open' = IF ref[r] = 1 THEN open \ {r} ELSE open
    /\ id' = IF ref[r] = 1 THEN [id EXCEPT ![r] = NULL] ELSE id

(* The thread is done with the file.                                       *)
Done(t) ==
    /\ file_data' = [file_data EXCEPT ![t] = NULL]
    /\ x' = [x EXCEPT ![t] = NULL]
    /\ pos' = [pos EXCEPT ![t] = None]
    /\ tmp' = [tmp EXCEPT ![t] = NULL]

(* A version's constructor adds a new file and calls find for its parser.  *)
(* The files are numbered as they are added.                               *)
AddFile(t) ==
    \E f \in File :
        /\ Goto(t, "idle", "look")
        /\ overlapped' = (overlapped \/ DuringDeletion)
        /\ state[f] = "new" /\ \A g \in File : g < f => state[g] # "new"
        /\ state' = [state EXCEPT ![f] = "adding"]
        /\ file_data' = [file_data EXCEPT ![t] = f]
        /\ UNCHANGED <<max_size, reader, reader_pos, parser, heapVars, cacheVars,
                       x, pos, tmp, finds, opened>>

(* A transaction, whose version pins the file, calls find.                 *)
BeginRead(t) ==
    \E f \in File :
        /\ Goto(t, "idle", "look")
        /\ overlapped' = (overlapped \/ DuringDeletion)
        /\ state[f] = "live"
        /\ IF Crowded THEN UNCHANGED finds
           ELSE finds < MaxFinds /\ finds' = finds + 1
        /\ file_data' = [file_data EXCEPT ![t] = f]
        /\ UNCHANGED <<fileVars, heapVars, cacheVars, x, pos, tmp, opened>>

-----------------------------------------------------------------------------
(* find: the exchange of NULL for -1 makes this thread the one that opens  *)
(* the file ...                                                            *)
ClaimOpening(t) ==
    /\ Goto(t, "look", "open")
    /\ reader[file_data[t]] = NULL
    /\ reader' = [reader EXCEPT ![file_data[t]] = Opening]
    /\ UNCHANGED <<max_size, state, reader_pos, parser, heapVars, cacheVars, localVars>>

(* ... or the file's reader is loaded; until there is one the loop goes on.*)
LoadReader(t) ==
    /\ Goto(t, "look", "addref")
    /\ reader[file_data[t]] \in Reader
    /\ x' = [x EXCEPT ![t] = reader[file_data[t]]]
    /\ UNCHANGED <<fileVars, heapVars, cacheVars, file_data, pos, tmp>>

(* A new FileReader, with a count of one for the file.                     *)
Open(t) ==
    /\ Goto(t, "open", IF max_size = 0 THEN "look" ELSE "turn")
    /\ \E r \in Reader \ open :
           /\ \A q \in Reader \ open : r <= q
           /\ Crowded => opened < MaxOpened
           /\ open' = open \cup {r}
           /\ ref' = [ref EXCEPT ![r] = 1]
           /\ id' = [id EXCEPT ![r] = file_data[t]]
           /\ reader' = [reader EXCEPT ![file_data[t]] = r]
    /\ opened' = IF Crowded THEN opened + 1 ELSE opened
    /\ UNCHANGED <<max_size, state, reader_pos, parser, cacheVars, localVars>>

(* The slots are taken in turn ...                                         *)
TakeTurn(t) ==
    /\ Goto(t, "turn", "mark")
    /\ pos' = [pos EXCEPT ![t] = size]
    /\ size' = (size + 1) % max_size
    /\ UNCHANGED <<fileVars, heapVars, cache, cache_deleting, file_data, x, tmp>>

(* Wrong: the mark is set, not exchanged.                                  *)
MarkBlindly(t) ==
    /\ Goto(t, "mark", "evict")
    /\ cache_deleting' = cache_deleting \cup {pos[t]}
    /\ UNCHANGED <<fileVars, heapVars, cache, size, localVars>>

(* ... and the slot marked, unless somebody else has marked it.            *)
Mark(t) ==
    /\ IF pos[t] \in cache_deleting THEN Goto(t, "mark", "turn")
                                    ELSE Goto(t, "mark", "evict")
    /\ cache_deleting' = cache_deleting \cup {pos[t]}
    /\ UNCHANGED <<fileVars, heapVars, cache, size, localVars>>

(* What is in the slot?  A file somebody is opening sends the thread to    *)
(* another slot; the mark stays.                                           *)
Evict(t) ==
    LET g == cache[pos[t]] IN
    /\ Goto(t, "evict", IF g = NULL THEN "settle"
                        ELSE IF reader[g] = Opening THEN "turn" ELSE "detach")
    /\ tmp' = [tmp EXCEPT ![t] = IF g = NULL THEN NULL ELSE reader[g]]
    /\ UNCHANGED <<fileVars, heapVars, cacheVars, file_data, x, pos>>

Detach(t) ==
    /\ Goto(t, "detach", "drop")
    /\ reader' = [reader EXCEPT ![cache[pos[t]]] = NULL]
    /\ UNCHANGED <<max_size, state, reader_pos, parser, heapVars, cacheVars, localVars>>

(* Wrong: the evicted file's count is not given back.                      *)
DropNothing(t) ==
    /\ Goto(t, "drop", "forget")
    /\ UNCHANGED <<fileVars, heapVars, cacheVars, localVars>>

(* The file's count of the reader is given back.                           *)
Drop(t) ==
    /\ Goto(t, "drop", "forget")
    /\ tmp[t] # NULL
    /\ DecRef(tmp[t])
    /\ UNCHANGED <<fileVars, cacheVars, localVars>>

Forget(t) ==
    /\ Goto(t, "forget", "settle")
    /\ reader_pos' = [reader_pos EXCEPT ![cache[pos[t]]] = None]
    /\ UNCHANGED <<max_size, state, reader, parser, heapVars, cacheVars, localVars>>

(* Wrong: the mark stays.                                                  *)
SettleMarked(t) ==
    /\ Goto(t, "settle", "look")
    /\ cache' = [cache EXCEPT ![pos[t]] = file_data[t]]
    /\ pos' = [pos EXCEPT ![t] = None] /\ tmp' = [tmp EXCEPT ![t] = NULL]
    /\ reader_pos' = [reader_pos EXCEPT ![file_data[t]] = pos[t]]
    /\ UNCHANGED <<max_size, state, reader, parser, heapVars, cache_deleting, size,
                   file_data, x>>

Settle(t) ==
    /\ Goto(t, "settle", "look")
    /\ cache' = [cache EXCEPT ![pos[t]] = file_data[t]]
    /\ pos' = [pos EXCEPT ![t] = None] /\ tmp' = [tmp EXCEPT ![t] = NULL]
    /\ reader_pos' = [reader_pos EXCEPT ![file_data[t]] = pos[t]]
    /\ cache_deleting' = cache_deleting \ {pos[t]}
    /\ UNCHANGED <<max_size, state, reader, parser, heapVars, size,
                   file_data, x>>

-----------------------------------------------------------------------------
(* Wrong: a count of zero is no obstacle.                                  *)
AddRefUnchecked(t) ==
    /\ Goto(t, "addref", "check")
    /\ ref' = [ref EXCEPT ![x[t]] = @ + 1]
    /\ UNCHANGED <<fileVars, open, id, cacheVars, localVars>>

(* AddRef of the reader loaded, of which the thread has no count yet; a    *)
(* count of zero sends it back, to call find again.                        *)
AddRef(t) ==
    /\ pc[t] = "addref"
    /\ IF ref[x[t]] = 0
       THEN /\ Goto(t, "addref", "look")
            /\ x' = [x EXCEPT ![t] = NULL]
            /\ UNCHANGED ref
       ELSE /\ Goto(t, "addref", "check")
            /\ ref' = [ref EXCEPT ![x[t]] = @ + 1]
            /\ UNCHANGED x
    /\ UNCHANGED <<fileVars, open, id, cacheVars, file_data, pos, tmp>>

(* The address may have become another file's reader.                      *)
OtherFile(t) ==
    /\ Goto(t, "check", "look")
    /\ id[x[t]] # file_data[t]
    /\ DecRef(x[t])
    /\ x' = [x EXCEPT ![t] = NULL]
    /\ UNCHANGED <<fileVars, cacheVars, file_data, pos, tmp>>

(* find returns, to the constructor, which makes the parser ...            *)
FoundForParser(t) ==
    /\ Goto(t, "check", "idle")
    /\ id[x[t]] = file_data[t] /\ state[file_data[t]] = "adding"
    /\ state' = [state EXCEPT ![file_data[t]] = "live"]
    /\ parser' = [parser EXCEPT ![file_data[t]] = x[t]]
    /\ Done(t)
    /\ UNCHANGED <<max_size, reader, reader_pos, heapVars, cacheVars>>

(* ... or to a transaction.                                                *)
Found(t) ==
    /\ Goto(t, "check", "reading")
    /\ id[x[t]] = file_data[t] /\ state[file_data[t]] = "live"
    /\ UNCHANGED <<fileVars, heapVars, cacheVars, localVars>>

(* ~RelFileParser of a RowGroup.                                           *)
EndRead(t) ==
    /\ Goto(t, "reading", "idle")
    /\ DecRef(x[t])
    /\ Done(t)
    /\ UNCHANGED <<fileVars, cacheVars>>

-----------------------------------------------------------------------------
(* ~RelVersion drops a file that no other version has, and so no           *)
(* transaction reads.                                                      *)
DropFile(t) ==
    \E f \in File :
        /\ Goto(t, "idle", "unparse")
        /\ state[f] = "live" /\ \A u \in Thread : file_data[u] # f
        /\ overlapped' = (overlapped \/ DuringFind(f))
        /\ state' = [state EXCEPT ![f] = "deleting"]
        /\ file_data' = [file_data EXCEPT ![t] = f]
        /\ UNCHANGED <<max_size, reader, reader_pos, parser, heapVars, cacheVars,
                       x, pos, tmp, finds, opened>>

(* delete j->parser                                                        *)
DeleteParser(t) ==
    /\ Goto(t, "unparse", "unread")
    /\ DecRef(parser[file_data[t]])
    /\ parser' = [parser EXCEPT ![file_data[t]] = NULL]
    /\ UNCHANGED <<max_size, state, reader, reader_pos, cacheVars, localVars>>

(* delete j->reader: whatever its count, which the memory keeps.           *)
DeleteReader(t) ==
    /\ Goto(t, "unread", "where")
    /\ open' = open \ {reader[file_data[t]]}
    /\ UNCHANGED <<fileVars, ref, id, cacheVars, localVars>>

(* The file is gone.                                                       *)
Deleted(t) ==
    /\ state' = [state EXCEPT ![file_data[t]] = "deleted"]
    /\ Done(t)

(* deletecache: the slot of the file, if it has one ...                    *)
Where(t) ==
    \/ /\ Goto(t, "where", "idle")
       /\ reader_pos[file_data[t]] = None
       /\ Deleted(t)
       /\ UNCHANGED <<max_size, reader, reader_pos, parser, heapVars, cacheVars>>
    \/ /\ Goto(t, "where", "claim")
       /\ reader_pos[file_data[t]] # None
       /\ pos' = [pos EXCEPT ![t] = reader_pos[file_data[t]]]
       /\ UNCHANGED <<fileVars, heapVars, cacheVars, file_data, x, tmp>>

(* ... is marked ...                                                       *)
ClaimSlot(t) ==
    /\ IF pos[t] \in cache_deleting THEN Goto(t, "claim", "where")
                                    ELSE Goto(t, "claim", "clear")
    /\ cache_deleting' = cache_deleting \cup {pos[t]}
    /\ UNCHANGED <<fileVars, heapVars, cache, size, localVars>>

(* ... and cleared, unless the file has left it meanwhile; then the mark   *)
(* stays.                                                                  *)
ClearSlot(t) ==
    LET s == reader_pos[file_data[t]] IN
    /\ Goto(t, "clear", "idle")
    /\ Deleted(t)
    /\ IF s = None THEN UNCHANGED <<cache, cache_deleting>>
       ELSE /\ cache' = [cache EXCEPT ![s] = NULL]
            /\ cache_deleting' = cache_deleting \ {s}
    /\ UNCHANGED <<max_size, reader, reader_pos, parser, heapVars, size>>

-----------------------------------------------------------------------------
FindStep(t) ==
    \/ Open(t) /\ UNCHANGED <<overlapped, finds>>
    \/ /\ \/ ClaimOpening(t) \/ LoadReader(t) \/ TakeTurn(t) \/ Mark(t)
          \/ Evict(t) \/ Detach(t) \/ Drop(t) \/ Forget(t) \/ Settle(t)
          \/ AddRef(t) \/ OtherFile(t) \/ FoundForParser(t) \/ Found(t)
       /\ UNCHANGED <<overlapped, finds, opened>>

DeleteStep(t) ==
    /\ \/ DeleteParser(t) \/ DeleteReader(t)
       \/ Where(t) \/ ClaimSlot(t) \/ ClearSlot(t)
    /\ UNCHANGED <<overlapped, finds, opened>>

Next == \E t \in Thread :
            \/ AddFile(t) \/ BeginRead(t) \/ FindStep(t)
            \/ EndRead(t) /\ UNCHANGED <<overlapped, finds, opened>>
            \/ DropFile(t) \/ DeleteStep(t)

Spec == Init /\ [][Next]_vars

(* A thread inside find goes on; nothing obliges anyone to call it.        *)
FairSpec == Spec /\ \A t \in Thread : WF_vars(FindStep(t))

-----------------------------------------------------------------------------
(* Who has a reader reads the file it asked for, through an open           *)
(* descriptor, although slots are emptied, readers deleted and their       *)
(* addresses used again meanwhile (find, AddRef, get_id).  With a cache    *)
(* this holds until a deletion meets a find; without one, always.          *)
HeldIsOpen ==
    ~overlapped =>
        /\ \A t \in Thread : pc[t] = "reading" => x[t] \in open /\ id[x[t]] = file_data[t]
        /\ \A f \in File : state[f] = "live" => parser[f] \in open /\ id[parser[f]] = f

(* The files whose metadata still own a reader.                            *)
Owning(r) ==
    {f \in File : /\ reader[f] = r
                  /\ \/ state[f] \in {"adding", "live"}
                     \/ \E t \in Thread : /\ file_data[t] = f
                                         /\ pc[t] \in {"unparse", "unread"}}

(* A reader's count is what its file, the file's parser, the threads that  *)
(* read and the one that is about to drop it make up; so no reader is      *)
(* deleted under anyone and none stays open for nobody (AddRef, DecRef),   *)
(* with a cache until a deletion meets a find.                             *)
ReadersCounted ==
    ~overlapped =>
        \A r \in open :
            ref[r] = Cardinality(Owning(r))
                     + Cardinality({f \in File : parser[f] = r})
                     + Cardinality({t \in Thread : pc[t] \in {"check", "reading"} /\ x[t] = r})
                     + Cardinality({t \in Thread : pc[t] = "drop" /\ tmp[t] = r})

(* Between its exchange of the mark and the store that clears it a thread  *)
(* has the slot to itself.  The slots are plain pointers and the only      *)
(* guard is a mark that some paths leave set: whatever is found, evicted   *)
(* and deleted at the same time, and where the other properties fail, no   *)
(* two threads touch one slot (find, deletecache).                         *)
HasSlot(t) == pc[t] \in {"evict", "detach", "drop", "forget", "settle", "clear"}
SlotsExclusive ==
    \A t, u \in Thread : HasSlot(t) /\ HasSlot(u) /\ t # u => pos[t] # pos[u]

(* Threads that empty each other's slots and try again do not keep all of  *)
(* them from returning: with a slot for every thread, and no deletion      *)
(* during finds, some find returns again and again as long as threads are  *)
(* inside find (find).  A single one may be held up by others that begin   *)
(* finds without end; with fewer slots two may undo each other's work.     *)
FindsReturn ==
    ~Crowded =>
        \/ <>overlapped
        \/ []<>(\A t \in Thread : pc[t] \notin Finding)
        \/ []<><<\E t \in Thread : Found(t) \/ FoundForParser(t)>>_vars
=============================================================================
