----------------------- MODULE FileReaderCacheProofs ------------------------
(***************************************************************************)
(* Proofs about FileReaderCache for every number of threads, files,        *)
(* readers and slots: that a slot has one user at a time, always, and what *)
(* holds of readers as long as no deletion has met a find in the cache.    *)
(***************************************************************************)
EXTENDS FileReaderCache, FiniteSetTheorems, TLAPS

(* A thread that claimed the file's opening and has not put it in a slot.  *)
Carrying == {"open", "turn", "mark", "evict", "detach", "drop", "forget", "settle"}
(* A thread that has marked the slot pos.                                  *)
Marking == {"evict", "detach", "drop", "forget", "settle", "clear"}
(* A thread that has taken out of the slot pos what it names.              *)
Emptying == {"drop", "forget", "settle"}
Place == {"idle", "reading"} \cup Finding \cup Deleting

Owner(f) == \/ state[f] \in {"adding", "live"}
            \/ \E t \in Thread : file_data[t] = f /\ pc[t] \in {"unparse", "unread"}

TypeOK ==
    /\ max_size \in Nat
    /\ state \in [File -> {"new", "adding", "live", "deleting", "deleted"}]
    /\ reader \in [File -> Reader \cup {NULL, Opening}]
    /\ reader_pos \in [File -> Slot \cup {None}]
    /\ parser \in [File -> Reader \cup {NULL}]
    /\ open \subseteq Reader
    /\ ref \in [Reader -> Int]
    /\ id \in [Reader -> File \cup {NULL}]
    /\ cache \in [Slot -> File \cup {NULL}]
    /\ cache_deleting \subseteq Slot
    /\ size \in Nat
    /\ max_size # 0 => size \in Slot
    /\ pc \in [Thread -> Place]
    /\ file_data \in [Thread -> File \cup {NULL}]
    /\ x \in [Thread -> Reader \cup {NULL}]
    /\ pos \in [Thread -> Slot \cup {None}]
    /\ tmp \in [Thread -> Reader \cup {NULL, Opening}]

(* What each thread's place says of its file, and the file's state of the  *)
(* threads.                                                                *)
PlaceInv ==
    /\ \A t \in Thread :
          /\ pc[t] # "idle" => file_data[t] \in File
          /\ pc[t] \in Finding => state[file_data[t]] \in {"adding", "live"}
          /\ pc[t] = "reading" => state[file_data[t]] = "live"
          /\ pc[t] \in Deleting =>
                /\ state[file_data[t]] = "deleting"
                /\ \A u \in Thread : u # t => file_data[u] # file_data[t]
          /\ pc[t] = "unparse" => parser[file_data[t]] \in Reader
          /\ pc[t] \in Deleting \ {"unparse"} => parser[file_data[t]] = NULL
    /\ \A f \in File :
          /\ state[f] = "new" => reader[f] = NULL
          /\ state[f] \in {"new", "adding"} => parser[f] = NULL
          /\ state[f] = "adding" =>
                \E t \in Thread : pc[t] \in Finding /\ file_data[t] = f
          /\ state[f] = "live" => parser[f] \in Reader
          /\ state[f] = "deleting" =>
                \E t \in Thread : pc[t] \in Deleting /\ file_data[t] = f
    /\ max_size # 0 =>
          \A t, u \in Thread : ~(pc[t] \in Finding /\ pc[u] \in Deleting)

(* A mark belongs to one thread.                                           *)
MarkInv ==
    /\ \A t \in Thread :
          /\ pc[t] \in {"turn", "mark", "claim"} \cup Marking => max_size # 0
          /\ pc[t] \in {"mark", "claim"} \cup Marking => pos[t] \in Slot
          /\ pc[t] \in Marking => pos[t] \in cache_deleting
    /\ \A s \in cache_deleting : \E t \in Thread : pc[t] \in Marking /\ pos[t] = s
    /\ \A t, u \in Thread :
          pc[t] \in Marking /\ pc[u] \in Marking /\ pos[t] = pos[u] => t = u

(* A slot that still holds the file it names.                              *)
Hosts(s, f) ==
    cache[s] = f /\ \A t \in Thread : pc[t] \in Emptying => pos[t] # s

(* A file that has a reader is with the thread that opened it or in one    *)
(* slot.                                                                   *)
HomeInv ==
    /\ \A t \in Thread :
          /\ pc[t] = "open" => reader[file_data[t]] = Opening
          /\ pc[t] \in Carrying \ {"open"} => reader[file_data[t]] \in Reader
          /\ pc[t] \in Carrying => \A s \in Slot : ~Hosts(s, file_data[t])
          /\ pc[t] = "detach" => tmp[t] = reader[cache[pos[t]]]
          /\ pc[t] \in {"detach", "drop", "forget"} => cache[pos[t]] \in File
    /\ \A t, u \in Thread :
          pc[t] \in Carrying /\ pc[u] \in Carrying /\ file_data[t] = file_data[u]
          => t = u
    /\ \A f \in File : \A s \in Slot : Hosts(s, f) => reader[f] \in Reader
    /\ \A f \in File : \A s, z \in Slot : Hosts(s, f) /\ Hosts(z, f) => s = z
    /\ \A s \in Slot : cache[s] \in File =>
          state[cache[s]] \in {"adding", "live", "deleting"}
    /\ max_size # 0 => \A f \in File :
          state[f] \in {"adding", "live"} /\ reader[f] # NULL =>
              \/ \E t \in Thread : pc[t] \in Carrying /\ file_data[t] = f
              \/ \E s \in Slot : Hosts(s, f)

(* A file's reader_pos names, if any, a slot that names the file; for a    *)
(* file that is being deleted, there is no other.                          *)
PosInv ==
    /\ \A f \in File : state[f] # "deleted" /\ reader_pos[f] # None =>
          cache[reader_pos[f]] = f
    /\ \A t \in Thread :
          /\ pc[t] = "settle" =>
                \A f \in File : state[f] # "deleted" => reader_pos[f] # pos[t]
          /\ pc[t] \in Deleting =>
                \A s \in Slot : cache[s] = file_data[t] => reader_pos[file_data[t]] = s
          /\ pc[t] \in {"claim", "clear"} => reader_pos[file_data[t]] = pos[t]

(* Whoever has a count of a reader has an open one, and of its own file.   *)
HeapInv ==
    /\ \A f \in File :
          /\ Owner(f) /\ reader[f] \in Reader =>
                reader[f] \in open /\ id[reader[f]] = f
          /\ parser[f] \in Reader => parser[f] \in open /\ id[parser[f]] = f
    /\ \A t \in Thread :
          /\ pc[t] = "addref" => x[t] \in Reader /\ (x[t] \in open \/ ref[x[t]] = 0)
          /\ pc[t] \in {"check", "reading"} => x[t] \in open
          /\ pc[t] = "reading" => id[x[t]] = file_data[t]
          /\ pc[t] = "drop" => tmp[t] \in open
          /\ max_size = 0 /\ pc[t] \in {"addref", "check"} =>
                x[t] = reader[file_data[t]]

Counted ==
    \A r \in open :
        ref[r] = Cardinality(Owning(r))
                 + Cardinality({f \in File : parser[f] = r})
                 + Cardinality({t \in Thread : pc[t] \in {"check", "reading"} /\ x[t] = r})
                 + Cardinality({t \in Thread : pc[t] = "drop" /\ tmp[t] = r})

IInv == TypeOK /\ PlaceInv /\ MarkInv /\ HomeInv /\ PosInv /\ HeapInv /\ Counted

-----------------------------------------------------------------------------
LEMMA InitInv == Init => IInv
  <1> SUFFICES ASSUME Init PROVE IInv
    OBVIOUS
  <1> USE FileReaderCacheAssumption
  <1>1. TypeOK
    BY DEF Init, TypeOK, Slot, Place, None, Opening
  <1>2. PlaceInv /\ MarkInv /\ PosInv
    BY DEF Init, PlaceInv, MarkInv, PosInv, Finding, Deleting, Marking, None
  <1>3. HomeInv
    BY DEF Init, HomeInv, Hosts, Carrying
  <1>4. HeapInv
    BY DEF Init, HeapInv, Owner
  <1>5. Counted
    BY DEF Init, Counted
  <1>6. QED
    BY <1>1, <1>2, <1>3, <1>4, <1>5 DEF IInv

-----------------------------------------------------------------------------
(* Types.                                                                  *)
LEMMA DecRefTyped ==
  ASSUME TypeOK, NEW r \in Reader, DecRef(r)
  PROVE  /\ open' \subseteq Reader
         /\ ref' \in [Reader -> Int]
         /\ id' \in [Reader -> File \cup {NULL}]
  BY DEF TypeOK, DecRef

LEMMA DoneTyped ==
  ASSUME TypeOK, NEW t \in Thread, Done(t)
  PROVE  /\ file_data' \in [Thread -> File \cup {NULL}]
         /\ x' \in [Thread -> Reader \cup {NULL}]
         /\ pos' \in [Thread -> Slot \cup {None}]
         /\ tmp' \in [Thread -> Reader \cup {NULL, Opening}]
  BY DEF TypeOK, Done

LEMMA GotoTyped ==
  ASSUME TypeOK, NEW t \in Thread, NEW from, NEW to \in Place, Goto(t, from, to)
  PROVE  pc' \in [Thread -> Place]
  BY DEF TypeOK, Goto

LEMMA TurnInRange ==
  ASSUME max_size \in Nat, size \in Nat, max_size # 0
  PROVE  (size + 1) % max_size \in Slot /\ (size + 1) % max_size \in Nat
  <1> DEFINE n == max_size
  <1>1. n \in Nat /\ n > 0 /\ size + 1 \in Nat
    OBVIOUS
  <1>2. (size + 1) % n \in 0 .. n - 1
    <2> HIDE DEF n
    <2>1. QED
      BY <1>1
  <1>3. QED
    BY <1>1, <1>2 DEF Slot

Step(t) == \/ AddFile(t) \/ BeginRead(t) \/ FindStep(t) \/ EndRead(t)
           \/ DropFile(t) \/ DeleteStep(t)

LEMMA PlaceTyped ==
  ASSUME TypeOK, NEW t \in Thread, Step(t)
  PROVE  pc' \in [Thread -> Place]
  <1>1. \E from, to : Goto(t, from, to) /\ to \in Place
    <2>1. CASE AddFile(t) \/ BeginRead(t) \/ EndRead(t) \/ DropFile(t)
      BY <2>1 DEF AddFile, BeginRead, EndRead, DropFile, Place, Finding, Deleting
    <2>2. CASE ClaimOpening(t) \/ LoadReader(t) \/ Open(t) \/ TakeTurn(t) \/ Mark(t)
      BY <2>2 DEF ClaimOpening, LoadReader, Open, TakeTurn, Mark, Place, Finding
    <2>3. CASE Evict(t) \/ Detach(t) \/ Drop(t) \/ Forget(t) \/ Settle(t)
      BY <2>3 DEF Evict, Detach, Drop, Forget, Settle, Place, Finding
    <2>4. CASE AddRef(t) \/ OtherFile(t) \/ FoundForParser(t) \/ Found(t)
      BY <2>4 DEF AddRef, OtherFile, FoundForParser, Found, Place, Finding
    <2>5. CASE DeleteStep(t)
      BY <2>5 DEF DeleteStep, DeleteParser, DeleteReader, Where, ClaimSlot, ClearSlot,
                  Place, Deleting
    <2>6. QED
      BY <2>1, <2>2, <2>3, <2>4, <2>5 DEF Step, FindStep
  <1>2. QED
    BY <1>1, GotoTyped

LEMMA TypeStep ==
  ASSUME IInv, NEW t \in Thread, Step(t)
  PROVE  TypeOK'
  <1> USE FileReaderCacheAssumption DEF IInv
  <1>1. pc' \in [Thread -> Place]
    BY PlaceTyped
  <1>2. pc[t] # "idle" => file_data[t] \in File
    BY DEF PlaceInv
  <1>3. CASE AddFile(t) \/ BeginRead(t) \/ DropFile(t)
    <2>1. CASE AddFile(t)
      BY <1>1, <2>1 DEF TypeOK, Slot, AddFile, heapVars, cacheVars
    <2>2. CASE BeginRead(t)
      BY <1>1, <2>2 DEF TypeOK, Slot, BeginRead, fileVars, heapVars, cacheVars
    <2>3. CASE DropFile(t)
      BY <1>1, <2>3 DEF TypeOK, Slot, DropFile, heapVars, cacheVars
    <2>4. QED
      BY <1>3, <2>1, <2>2, <2>3
  <1>4. CASE ClaimOpening(t) \/ LoadReader(t)
    BY <1>1, <1>2, <1>4 DEF TypeOK, Slot, ClaimOpening, LoadReader, Goto,
                            fileVars, heapVars, cacheVars, localVars
  <1>5. CASE Open(t)
    BY <1>1, <1>2, <1>5 DEF TypeOK, Slot, Open, Goto, cacheVars, localVars
  <1>6. CASE TakeTurn(t)
    <2>1. max_size # 0 /\ size \in Slot
      BY <1>6 DEF TakeTurn, Goto, MarkInv, TypeOK
    <2>2. size' \in Slot /\ size' \in Nat
      BY <1>6, <2>1, TurnInRange DEF TakeTurn, TypeOK
    <2>3. QED
      BY <1>1, <1>6, <2>1, <2>2
         DEF TypeOK, Slot, TakeTurn, fileVars, heapVars
  <1>7. CASE Mark(t) \/ ClaimSlot(t)
    <2>1. pos[t] \in Slot
      BY <1>7 DEF Mark, ClaimSlot, Goto, MarkInv
    <2>2. QED
      BY <1>1, <1>7, <2>1 DEF TypeOK, Slot, Mark, ClaimSlot,
                              fileVars, heapVars, localVars
  <1>8. CASE Evict(t)
    <2>1. pos[t] \in Slot
      BY <1>8 DEF Evict, Goto, MarkInv, Marking
    <2>2. tmp' \in [Thread -> Reader \cup {NULL, Opening}]
      BY <1>8, <2>1 DEF TypeOK, Evict
    <2>3. QED
      BY <1>1, <1>8, <2>2 DEF TypeOK, Slot, Evict, fileVars, heapVars, cacheVars
  <1>9. CASE Detach(t) \/ Forget(t)
    BY <1>1, <1>9 DEF TypeOK, Slot, Detach, Forget, heapVars, cacheVars, localVars
  <1>10. CASE Drop(t)
    <2>1. tmp[t] \in Reader
      BY <1>10 DEF Drop, Goto, HeapInv, TypeOK
    <2>2. QED
      BY <1>1, <1>10, <2>1, DecRefTyped
         DEF TypeOK, Slot, Drop, fileVars, cacheVars, localVars
  <1>11. CASE Settle(t)
    <2>1. pos[t] \in Slot
      BY <1>11 DEF Settle, Goto, MarkInv, Marking
    <2>2. QED
      BY <1>1, <1>2, <1>11, <2>1 DEF TypeOK, Slot, Settle, Goto, heapVars
  <1>12. CASE AddRef(t)
    BY <1>1, <1>12 DEF TypeOK, Slot, AddRef, fileVars, cacheVars, localVars
  <1>13. CASE OtherFile(t) \/ EndRead(t)
    <2>1. x[t] \in Reader
      BY <1>13 DEF OtherFile, EndRead, Goto, HeapInv, TypeOK
    <2>2. QED
      BY <1>1, <1>13, <2>1, DecRefTyped, DoneTyped
         DEF TypeOK, Slot, OtherFile, EndRead, fileVars, cacheVars, localVars
  <1>14. CASE FoundForParser(t) \/ Found(t)
    <2>1. x[t] \in Reader
      BY <1>14 DEF FoundForParser, Found, Goto, HeapInv, TypeOK
    <2>2. QED
      BY <1>1, <1>2, <1>14, <2>1, DoneTyped
         DEF TypeOK, Slot, FoundForParser, Found, fileVars, heapVars, cacheVars, localVars
  <1>15. CASE DeleteParser(t)
    <2>1. parser[file_data[t]] \in Reader
      BY <1>15 DEF DeleteParser, Goto, PlaceInv
    <2>2. QED
      BY <1>1, <1>15, <2>1, DecRefTyped
         DEF TypeOK, Slot, DeleteParser, cacheVars, localVars
  <1>16. CASE DeleteReader(t)
    BY <1>1, <1>16 DEF TypeOK, Slot, DeleteReader, fileVars, cacheVars, localVars
  <1>17. CASE Where(t)
    <2>1. file_data[t] \in File
      BY <1>2, <1>17 DEF Where, Goto
    <2>2. CASE pos' = [pos EXCEPT ![t] = reader_pos[file_data[t]]]
               /\ UNCHANGED <<fileVars, heapVars, cacheVars, file_data, x, tmp>>
      BY <1>1, <2>1, <2>2 DEF TypeOK, Slot, fileVars, heapVars, cacheVars
    <2>3. CASE Deleted(t) /\ UNCHANGED <<max_size, reader, reader_pos, parser,
                                         heapVars, cacheVars>>
      BY <1>1, <2>1, <2>3, DoneTyped DEF TypeOK, Slot, Deleted, heapVars, cacheVars
    <2>4. QED
      BY <1>17, <2>2, <2>3 DEF Where
  <1>18. CASE ClearSlot(t)
    <2>1. cache' \in [Slot -> File \cup {NULL}] /\ cache_deleting' \subseteq Slot
      BY <1>18 DEF TypeOK, ClearSlot
    <2>2. QED
      BY <1>1, <1>18, <2>1, DoneTyped DEF TypeOK, Slot, ClearSlot, Deleted, heapVars
  <1>19. QED
    BY <1>3, <1>4, <1>5, <1>6, <1>7, <1>8, <1>9, <1>10, <1>11, <1>12, <1>13,
       <1>14, <1>15, <1>16, <1>17, <1>18
       DEF Step, FindStep, DeleteStep

-----------------------------------------------------------------------------
(* Places.  Inside find, nothing changes but a file's reader.              *)
LEMMA PlaceStep ==
  ASSUME IInv, ~overlapped', NEW t \in Thread, Step(t)
  PROVE  PlaceInv'
  <1> USE FileReaderCacheAssumption DEF IInv
  <1>1. CASE AddFile(t)
    <2> PICK f \in File :
          /\ Goto(t, "idle", "look") /\ ~DuringDeletion
          /\ state[f] = "new"
          /\ state' = [state EXCEPT ![f] = "adding"]
          /\ file_data' = [file_data EXCEPT ![t] = f]
          /\ UNCHANGED <<max_size, reader, reader_pos, parser>>
      BY <1>1 DEF AddFile
    <2>1. max_size # 0 => \A u \in Thread : pc[u] \notin Deleting
      BY DEF DuringDeletion
    <2>2. \A u \in Thread : pc[u] # "idle" => u # t /\ file_data[u] # f
      BY DEF PlaceInv, TypeOK, Goto, Place, Finding, Deleting
    <2>3. QED
      BY <2>1, <2>2 DEF TypeOK, PlaceInv, Goto, Finding, Deleting
  <1>2. CASE BeginRead(t)
    <2> PICK f \in File :
          /\ Goto(t, "idle", "look") /\ ~DuringDeletion
          /\ state[f] = "live"
          /\ file_data' = [file_data EXCEPT ![t] = f]
          /\ UNCHANGED fileVars
      BY <1>2 DEF BeginRead
    <2>1. max_size # 0 => \A u \in Thread : pc[u] \notin Deleting
      BY DEF DuringDeletion
    <2>2. \A u \in Thread : pc[u] \in Deleting => u # t /\ file_data[u] # f
      BY DEF PlaceInv, TypeOK, Goto, Deleting
    <2>3. QED
      BY <2>1, <2>2 DEF TypeOK, PlaceInv, Goto, fileVars, Finding, Deleting
  <1>3. CASE ClaimOpening(t) \/ Open(t)
    BY <1>3 DEF TypeOK, PlaceInv, HomeInv, ClaimOpening, Open, Goto, localVars,
                Finding, Deleting, Opening
  <1>4. CASE LoadReader(t) \/ TakeTurn(t) \/ Mark(t)
    BY <1>4 DEF TypeOK, PlaceInv, LoadReader, TakeTurn, Mark, Goto,
                fileVars, localVars, Finding, Deleting
  <1>5. CASE Evict(t) \/ Detach(t) \/ Forget(t)
    BY <1>5 DEF TypeOK, PlaceInv, Evict, Detach, Forget, Goto,
                fileVars, localVars, Finding, Deleting
  <1>6. CASE Drop(t) \/ Settle(t)
    BY <1>6 DEF TypeOK, PlaceInv, Drop, Settle, Goto,
                fileVars, localVars, Finding, Deleting
  <1>7. CASE AddRef(t) \/ OtherFile(t) \/ Found(t)
    BY <1>7 DEF TypeOK, PlaceInv, AddRef, OtherFile, Found, Goto,
                fileVars, localVars, Finding, Deleting
  <1>8. CASE FoundForParser(t)
    <2>1. /\ x[t] \in Reader /\ file_data[t] \in File
          /\ pc[t] = "check" /\ pc' = [pc EXCEPT ![t] = "idle"]
          /\ state' = [state EXCEPT ![file_data[t]] = "live"]
          /\ parser' = [parser EXCEPT ![file_data[t]] = x[t]]
          /\ file_data' = [file_data EXCEPT ![t] = NULL]
          /\ reader' = reader /\ max_size' = max_size
          /\ state[file_data[t]] = "adding"
      BY <1>8 DEF FoundForParser, Goto, Done, HeapInv, PlaceInv, TypeOK
    <2>2. QED
      BY <2>1 DEF TypeOK, PlaceInv, Finding, Deleting
  <1>9. CASE EndRead(t)
    BY <1>9 DEF TypeOK, PlaceInv, EndRead, Done, Goto, fileVars, Finding, Deleting
  <1>10. CASE DropFile(t)
    <2> PICK f \in File :
          /\ Goto(t, "idle", "unparse")
          /\ state[f] = "live" /\ \A u \in Thread : file_data[u] # f
          /\ ~DuringFind(f)
          /\ state' = [state EXCEPT ![f] = "deleting"]
          /\ file_data' = [file_data EXCEPT ![t] = f]
          /\ UNCHANGED <<max_size, reader, reader_pos, parser>>
      BY <1>10 DEF DropFile
    <2>1. max_size # 0 => \A u \in Thread : pc[u] \notin Finding
      BY DEF DuringFind
    <2>2. QED
      BY <2>1 DEF TypeOK, PlaceInv, Goto, Finding, Deleting
  <1>11. CASE DeleteParser(t) \/ DeleteReader(t) \/ ClaimSlot(t)
    <2>1. CASE DeleteParser(t)
      BY <2>1 DEF TypeOK, PlaceInv, DeleteParser, Goto, localVars, Finding, Deleting
    <2>2. CASE DeleteReader(t) \/ ClaimSlot(t)
      BY <2>2 DEF TypeOK, PlaceInv, DeleteReader, ClaimSlot, Goto,
                  fileVars, localVars, Finding, Deleting
    <2>3. QED
      BY <1>11, <2>1, <2>2
  <1>12. CASE Where(t) \/ ClearSlot(t)
    <2>1. CASE Deleted(t) /\ pc[t] \in Deleting /\ pc' = [pc EXCEPT ![t] = "idle"]
               /\ UNCHANGED <<max_size, reader, parser>>
      <3>1. /\ file_data[t] \in File
            /\ \A u \in Thread : u # t => file_data'[u] = file_data[u]
                                          /\ file_data[u] # file_data[t]
            /\ file_data'[t] = NULL /\ NULL \notin File
            /\ \A f \in File : f # file_data[t] => state'[f] = state[f]
            /\ state'[file_data[t]] = "deleted"
            /\ \A u \in Thread : u # t => pc'[u] = pc[u]
            /\ pc'[t] = "idle"
        BY <2>1 DEF Deleted, Done, TypeOK, PlaceInv, Deleting
      <3>2. ASSUME NEW u \in Thread, u # t, pc[u] # "idle"
            PROVE  /\ file_data[u] \in File /\ file_data[u] # file_data[t]
                   /\ file_data'[u] = file_data[u] /\ pc'[u] = pc[u]
                   /\ state'[file_data[u]] = state[file_data[u]]
        BY <3>1, <3>2 DEF PlaceInv
      <3>3. \A u \in Thread : pc'[u] # "idle" => u # t /\ pc[u] # "idle"
        BY <3>1
      <3>4. PlaceInv!1'
        BY <2>1, <3>1, <3>2, <3>3 DEF PlaceInv, Finding, Deleting
      <3>5. PlaceInv!2'
        BY <2>1, <3>1, <3>2, <3>3 DEF PlaceInv, Finding, Deleting
      <3>6. PlaceInv!3'
        BY <2>1, <3>1, <3>2, <3>3 DEF PlaceInv, Finding, Deleting
      <3>7. QED
        BY <3>4, <3>5, <3>6 DEF PlaceInv
    <2>2. CASE Goto(t, "where", "claim") /\ UNCHANGED <<fileVars, file_data>>
      BY <2>2 DEF TypeOK, PlaceInv, Goto, fileVars, Finding, Deleting
    <2>3. QED
      BY <1>12, <2>1, <2>2 DEF Where, ClearSlot, Goto, Deleting
  <1>13. QED
    BY <1>1, <1>2, <1>3, <1>4, <1>5, <1>6, <1>7, <1>8, <1>9, <1>10, <1>11, <1>12
       DEF Step, FindStep, DeleteStep

-----------------------------------------------------------------------------
(* Marks.                                                                  *)
LEMMA MarkStays ==
  ASSUME IInv, NEW t \in Thread,
         UNCHANGED <<max_size, cache_deleting>>,
         \A u \in Thread : u # t => pc'[u] = pc[u] /\ pos'[u] = pos[u],
         pc[t] \in Marking => pc'[t] \in Marking /\ pos'[t] = pos[t],
         pc'[t] \in Marking => pc[t] \in Marking,
         pc'[t] \in {"turn", "mark", "claim"} => max_size # 0,
         pc'[t] \in {"mark", "claim"} => pos'[t] \in Slot
  PROVE  MarkInv'
  BY DEF IInv, MarkInv, Slot

LEMMA MarkStep ==
  ASSUME IInv, NEW t \in Thread, Step(t)
  PROVE  MarkInv'
  <1> USE FileReaderCacheAssumption DEF IInv
  <1>1. CASE AddFile(t) \/ BeginRead(t) \/ DropFile(t)
    BY <1>1, MarkStays DEF TypeOK, AddFile, BeginRead, DropFile, Goto,
                           fileVars, heapVars, cacheVars, Marking
  <1>2. CASE ClaimOpening(t) \/ LoadReader(t) \/ Open(t)
    BY <1>2, MarkStays DEF TypeOK, ClaimOpening, LoadReader, Open, Goto,
                           fileVars, cacheVars, localVars, Marking
  <1>3. CASE TakeTurn(t)
    <2>1. max_size # 0 /\ size \in Slot
      BY <1>3 DEF TakeTurn, Goto, MarkInv, TypeOK
    <2>2. QED
      BY <1>3, <2>1, MarkStays DEF TypeOK, TakeTurn, Goto, fileVars, Marking
  <1>4. ASSUME pos[t] \in Slot, max_size # 0, UNCHANGED <<max_size, pos>>,
               cache_deleting' = cache_deleting \cup {pos[t]},
               NEW from \in {"mark", "claim"}, NEW to \in {"turn", "where", "evict", "clear"},
               Goto(t, from, to),
               pos[t] \in cache_deleting <=> to \in {"turn", "where"}
        PROVE  MarkInv'
    <2>1. CASE pos[t] \in cache_deleting
      <3>1. cache_deleting' = cache_deleting /\ pc'[t] \in {"turn", "where"}
        BY <1>4, <2>1 DEF TypeOK, Goto
      <3>2. QED
        BY <1>4, <3>1, MarkStays DEF TypeOK, Goto, Marking
    <2>2. CASE pos[t] \notin cache_deleting
      <3>1. to \in Marking /\ \A u \in Thread : pc[u] \in Marking => pos[u] # pos[t]
        BY <1>4, <2>2 DEF MarkInv, Marking
      <3>2. QED
        BY <1>4, <3>1 DEF TypeOK, MarkInv, Goto, Marking, Slot
    <2>3. QED
      BY <2>1, <2>2
  <1>5. CASE Mark(t) \/ ClaimSlot(t)
    <2>1. pos[t] \in Slot /\ max_size # 0
      BY <1>5 DEF Mark, ClaimSlot, Goto, MarkInv
    <2>2. QED
      BY <1>4, <1>5, <2>1 DEF Mark, ClaimSlot, fileVars, localVars
  <1>6. CASE Evict(t)
    <2>1. pos[t] \in Slot /\ pc[t] = "evict"
      BY <1>6 DEF Evict, Goto, MarkInv, Marking
    <2>2. cache[pos[t]] # NULL => reader[cache[pos[t]]] # Opening
      <3>1. SUFFICES ASSUME cache[pos[t]] # NULL PROVE reader[cache[pos[t]]] \in Reader
        BY DEF Opening
      <3>2. Hosts(pos[t], cache[pos[t]]) /\ cache[pos[t]] \in File
        BY <2>1, <3>1 DEF TypeOK, MarkInv, Hosts, Emptying, Marking
      <3>3. QED
        BY <2>1, <3>2 DEF HomeInv
    <2>3. pc' = [pc EXCEPT ![t] = "settle"] \/ pc' = [pc EXCEPT ![t] = "detach"]
      BY <1>6, <2>2 DEF Evict, Goto
    <2>4. UNCHANGED <<max_size, cache_deleting, pos>>
      BY <1>6 DEF Evict, fileVars, cacheVars
    <2>5. QED
      BY <2>1, <2>3, <2>4, MarkStays DEF TypeOK, Marking
  <1>7. CASE Detach(t) \/ Drop(t) \/ Forget(t)
    BY <1>7, MarkStays DEF TypeOK, Detach, Drop, Forget, Goto,
                           fileVars, cacheVars, localVars, Marking
  <1>8. ASSUME pc[t] \in {"settle", "clear"}, pc'[t] \in {"look", "idle"},
               \A u \in Thread : u # t => pc'[u] = pc[u] /\ pos'[u] = pos[u],
               UNCHANGED max_size,
               cache_deleting' = cache_deleting \ {pos[t]}
        PROVE  MarkInv'
    BY <1>8 DEF MarkInv, Marking, Slot
  <1>9. CASE Settle(t)
    BY <1>8, <1>9 DEF TypeOK, Settle, Goto
  <1>10. CASE AddRef(t)
    <2>1. pc[t] = "addref" /\ pc'[t] \in {"look", "check"}
          /\ \A u \in Thread : u # t => pc'[u] = pc[u]
      BY <1>10 DEF TypeOK, AddRef, Goto
    <2>2. QED
      BY <1>10, <2>1, MarkStays DEF AddRef, fileVars, cacheVars, localVars, Marking
  <1>11. CASE OtherFile(t) \/ Found(t) \/ FoundForParser(t) \/ EndRead(t)
    BY <1>11, MarkStays DEF TypeOK, OtherFile, Found, FoundForParser, EndRead, Done, Goto,
                            fileVars, cacheVars, localVars, Marking
  <1>12. CASE DeleteParser(t) \/ DeleteReader(t)
    BY <1>12, MarkStays DEF TypeOK, DeleteParser, DeleteReader, Goto,
                            fileVars, cacheVars, localVars, Marking
  <1>13. CASE Where(t)
    <2>1. file_data[t] \in File
      BY <1>13 DEF Where, Goto, PlaceInv
    <2>2. reader_pos[file_data[t]] # None =>
            reader_pos[file_data[t]] \in Slot /\ max_size # 0
      <3>1. reader_pos[file_data[t]] # None => reader_pos[file_data[t]] \in Slot
        BY <2>1 DEF TypeOK
      <3>2. max_size = 0 => Slot = {}
        BY DEF Slot
      <3>3. QED
        BY <3>1, <3>2
    <2>3. QED
      BY <1>13, <2>1, <2>2, MarkStays
         DEF TypeOK, Where, Deleted, Done, Goto, fileVars, cacheVars, Marking
  <1>14. CASE ClearSlot(t)
    <2>1. pos[t] \in Slot /\ reader_pos[file_data[t]] = pos[t]
      BY <1>14 DEF ClearSlot, Goto, MarkInv, PosInv, Marking
    <2>2. reader_pos[file_data[t]] # None
      BY <2>1 DEF Slot, None, TypeOK
    <2>3. QED
      BY <1>8, <1>14, <2>1, <2>2 DEF TypeOK, ClearSlot, Deleted, Done, Goto
  <1>15. QED
    BY <1>1, <1>2, <1>3, <1>5, <1>6, <1>7, <1>9, <1>10, <1>11, <1>12, <1>13, <1>14
       DEF Step, FindStep, DeleteStep

-----------------------------------------------------------------------------
(* Slots and the threads that fill them.                                   *)

(* A step of a thread that carries nothing and empties no slot.            *)
LEMMA HomeStays ==
  ASSUME IInv, NEW t \in Thread,
         UNCHANGED <<max_size, reader, cache>>,
         \A u \in Thread : u # t => /\ pc'[u] = pc[u] /\ pos'[u] = pos[u]
                                    /\ tmp'[u] = tmp[u] /\ file_data'[u] = file_data[u],
         pc[t] \notin Carrying, pc'[t] \notin Carrying,
         \A f \in File :
            /\ state'[f] \in {"adding", "live"} =>
                  state[f] \in {"adding", "live"} \/ reader[f] = NULL
            /\ state[f] \in {"adding", "live", "deleting"} /\ (\E s \in Slot : cache[s] = f)
               => state'[f] \in {"adding", "live", "deleting"}
  PROVE  HomeInv'
  <1>1. Slot' = Slot
    BY DEF Slot
  <1>2. \A s, f : Hosts(s, f)' <=> Hosts(s, f)
    BY DEF Hosts, Emptying, Carrying
  <1>3. \A u \in Thread : pc'[u] \in Carrying => u # t
    OBVIOUS
  <1>4. HomeInv!1' /\ HomeInv!2' /\ HomeInv!3' /\ HomeInv!4' /\ HomeInv!5'
    BY <1>1, <1>2, <1>3 DEF IInv, HomeInv, Carrying
  <1>5. HomeInv!6'
    BY <1>1, <1>2, <1>3 DEF IInv, HomeInv
  <1>6. QED
    BY <1>4, <1>5 DEF HomeInv

LEMMA HomeIdleStep ==
  ASSUME IInv, NEW t \in Thread,
         \/ AddFile(t) \/ BeginRead(t) \/ LoadReader(t) \/ AddRef(t) \/ OtherFile(t)
         \/ Found(t) \/ FoundForParser(t) \/ EndRead(t) \/ DropFile(t)
         \/ DeleteParser(t) \/ DeleteReader(t) \/ ClaimSlot(t)
  PROVE  HomeInv'
  <1> USE FileReaderCacheAssumption DEF IInv
  <1>1. CASE AddFile(t)
    <2>1. \A f \in File : state[f] = "new" => reader[f] = NULL
      BY DEF PlaceInv
    <2>2. QED
      BY <1>1, <2>1, HomeStays
         DEF TypeOK, AddFile, Goto, heapVars, cacheVars, Carrying
  <1>2. CASE BeginRead(t) \/ DropFile(t)
    BY <1>2, HomeStays DEF TypeOK, BeginRead, DropFile, Goto,
                           fileVars, heapVars, cacheVars, Carrying
  <1>3. CASE LoadReader(t) \/ AddRef(t) \/ OtherFile(t) \/ Found(t)
    <2>1. pc[t] \notin Carrying /\ pc'[t] \notin Carrying
          /\ \A u \in Thread : u # t => pc'[u] = pc[u]
      BY <1>3 DEF TypeOK, LoadReader, AddRef, OtherFile, Found, Goto, Carrying
    <2>2. QED
      BY <1>3, <2>1, HomeStays DEF LoadReader, AddRef, OtherFile, Found,
                           fileVars, heapVars, cacheVars, localVars
  <1>4. CASE FoundForParser(t) \/ EndRead(t)
    BY <1>4, HomeStays DEF TypeOK, FoundForParser, EndRead, Done, Goto,
                           fileVars, heapVars, cacheVars, Carrying
  <1>5. CASE DeleteParser(t) \/ DeleteReader(t) \/ ClaimSlot(t)
    <2>1. pc[t] \notin Carrying /\ pc'[t] \notin Carrying
          /\ \A u \in Thread : u # t => pc'[u] = pc[u]
      BY <1>5 DEF TypeOK, DeleteParser, DeleteReader, ClaimSlot, Goto, Carrying
    <2>2. QED
      BY <1>5, <2>1, HomeStays DEF DeleteParser, DeleteReader, ClaimSlot,
                           fileVars, heapVars, cacheVars, localVars
  <1>6. QED
    BY <1>1, <1>2, <1>3, <1>4, <1>5

LEMMA HomeDeleteStep ==
  ASSUME IInv, NEW t \in Thread, Where(t) \/ ClearSlot(t)
  PROVE  HomeInv'
  <1> USE FileReaderCacheAssumption DEF IInv
  <1>1. file_data[t] \in File /\ state[file_data[t]] = "deleting"
        /\ pc[t] \in {"where", "clear"}
    BY DEF Where, ClearSlot, Goto, PlaceInv, Deleting
  <1>2. CASE Goto(t, "where", "claim")
    <2>1. UNCHANGED <<fileVars, cacheVars, file_data, tmp>>
          /\ pos' = [pos EXCEPT ![t] = reader_pos[file_data[t]]]
      BY <1>2 DEF Where, ClearSlot, Goto, TypeOK
    <2>2. QED
      BY <1>2, <2>1, HomeStays DEF TypeOK, Goto, fileVars, cacheVars, Carrying
  <1>3. CASE Goto(t, "where", "idle")
    <2>1. /\ Deleted(t) /\ reader_pos[file_data[t]] = None
          /\ UNCHANGED <<max_size, reader, reader_pos, parser, heapVars, cacheVars>>
      BY <1>3 DEF Where, ClearSlot, Goto, TypeOK
    <2>2. \A s \in Slot : cache[s] # file_data[t]
      <3>1. \A s \in Slot : cache[s] = file_data[t] => s = None
        BY <1>1, <2>1 DEF PosInv, Deleting
      <3>2. None \notin Slot
        BY DEF Slot, None, TypeOK
      <3>3. QED
        BY <3>1, <3>2
    <2>3. QED
      BY <1>1, <1>3, <2>1, <2>2, HomeStays
         DEF TypeOK, Goto, Deleted, Done, cacheVars, Carrying
  <1>4. CASE ClearSlot(t)
    <2> DEFINE s == pos[t]
               f == file_data[t]
    <2>1. s \in Slot /\ reader_pos[f] = s /\ max_size # 0 /\ cache[s] = f
      <3>1. pc[t] = "clear"
        BY <1>4 DEF ClearSlot, Goto
      <3>2. s \in Slot /\ reader_pos[f] = s /\ max_size # 0
        BY <3>1 DEF MarkInv, PosInv, Marking
      <3>3. s # None
        BY <3>2 DEF Slot, None, TypeOK
      <3>4. QED
        BY <1>1, <3>2, <3>3 DEF PosInv
    <2>2. /\ cache' = [cache EXCEPT ![s] = NULL]
          /\ state' = [state EXCEPT ![f] = "deleted"]
          /\ pc' = [pc EXCEPT ![t] = "idle"]
          /\ UNCHANGED <<max_size, reader>>
      BY <1>4, <2>1 DEF ClearSlot, Deleted, Goto, Slot, None, TypeOK
    <2>3. \A u \in Thread : pc[u] \notin Carrying /\ pc'[u] \notin Carrying
      BY <1>1, <2>1, <2>2 DEF PlaceInv, TypeOK, Carrying, Finding, Deleting
    <2>4. \A z \in Slot : cache[z] = f => z = s
      BY <1>1, <2>1 DEF PosInv, Deleting
    <2>5. Slot' = Slot
      BY <2>2 DEF Slot
    <2>6. \A z \in Slot, h \in File : Hosts(z, h)' <=> Hosts(z, h) /\ h # f
      <3> TAKE z \in Slot, h \in File
      <3>1. Hosts(z, h) <=> cache[z] = h
        BY <2>3 DEF Hosts, Emptying, Carrying
      <3>2. Hosts(z, h)' <=> cache'[z] = h
        BY <2>3 DEF Hosts, Emptying, Carrying
      <3>3. QED
        BY <2>1, <2>2, <2>4, <3>1, <3>2 DEF TypeOK
    <2>7. HomeInv!1' /\ HomeInv!2'
      BY <2>3 DEF HomeInv, Carrying
    <2>8. HomeInv!3' /\ HomeInv!4'
      BY <2>2, <2>5, <2>6 DEF HomeInv
    <2>9. HomeInv!5'
      BY <1>1, <2>1, <2>2, <2>4, <2>5 DEF HomeInv, TypeOK
    <2>10. HomeInv!6'
      BY <1>1, <2>1, <2>2, <2>3, <2>5, <2>6 DEF HomeInv, TypeOK
    <2>11. QED
      BY <2>7, <2>8, <2>9, <2>10 DEF HomeInv
  <1>5. QED
    BY <1>2, <1>3, <1>4 DEF Where

(* A carrier goes on, and no slot that holds a file is emptied.            *)
LEMMA HomeCarries ==
  ASSUME IInv, NEW t \in Thread,
         UNCHANGED <<max_size, reader, cache, state, file_data>>,
         \A u \in Thread : u # t => /\ pc'[u] = pc[u] /\ pos'[u] = pos[u]
                                    /\ tmp'[u] = tmp[u],
         pc[t] \in Carrying \ {"open"}, pc'[t] \in Carrying \ {"open"},
         \A s \in Slot : cache[s] \in File => (Hosts(s, cache[s])' <=> Hosts(s, cache[s])),
         pc'[t] = "detach" => tmp'[t] = reader[cache[pos'[t]]],
         pc'[t] \in {"detach", "drop", "forget"} => cache[pos'[t]] \in File
  PROVE  HomeInv'
  <1>1. Slot' = Slot
    BY DEF Slot
  <1>2. \A s \in Slot, f \in File : Hosts(s, f)' <=> Hosts(s, f)
    BY DEF Hosts
  <1>3. \A u \in Thread : /\ pc'[u] \in Carrying <=> pc[u] \in Carrying
                          /\ pc'[u] = "open" <=> pc[u] = "open"
    OBVIOUS
  <1>4. \A u \in Thread : pc[u] \in Carrying => file_data[u] \in File
    BY DEF IInv, PlaceInv, Carrying
  <1>5. HomeInv!1'
    BY <1>1, <1>2, <1>3, <1>4 DEF IInv, HomeInv
  <1>6. HomeInv!2' /\ HomeInv!3' /\ HomeInv!4' /\ HomeInv!5' /\ HomeInv!6'
    BY <1>1, <1>2, <1>3 DEF IInv, HomeInv
  <1>7. QED
    BY <1>5, <1>6 DEF HomeInv

LEMMA OpenKeepsHome ==
  ASSUME IInv, NEW t \in Thread, ClaimOpening(t) \/ Open(t)
  PROVE  HomeInv'
  <1> USE FileReaderCacheAssumption DEF IInv
  <1> DEFINE f == file_data[t]
  <1>1. f \in File /\ pc[t] \in {"look", "open"} /\ state[f] \in {"adding", "live"}
    BY DEF ClaimOpening, Open, Goto, PlaceInv, Finding
  <1>2. UNCHANGED <<max_size, cache, state, file_data, pos, tmp>>
    BY DEF ClaimOpening, Open, cacheVars, localVars
  <1>3. Slot' = Slot
    BY <1>2 DEF Slot
  <1>4. /\ \A u \in Thread : u # t => pc'[u] = pc[u]
        /\ pc'[t] \in {"open", "look", "turn"}
        /\ \A g \in File : g # f => reader'[g] = reader[g]
    BY <1>1 DEF ClaimOpening, Open, Goto, TypeOK
  <1>5. \A s, g : Hosts(s, g)' <=> Hosts(s, g)
    BY <1>1, <1>2, <1>4 DEF Hosts, Emptying
  <1>6. \A u \in Thread : u # t /\ pc[u] \in Carrying => file_data[u] # f
    BY <1>1 DEF HomeInv, ClaimOpening, Open, Goto, Carrying
  <1>7. \A s \in Slot : ~Hosts(s, f)
    <2>1. reader[f] \notin Reader
      BY DEF HomeInv, ClaimOpening, Open, Goto, Opening
    <2>2. QED
      BY <1>1, <2>1 DEF HomeInv
  <1>8. /\ pc'[t] = "open" => reader'[f] = Opening
        /\ pc'[t] # "open" => reader'[f] \in Reader
        /\ pc'[t] = "look" => max_size = 0
    BY <1>1 DEF ClaimOpening, Open, Goto, TypeOK
  <1>9. ASSUME NEW u \in Thread, u # t, pc[u] \in Carrying
        PROVE  file_data[u] \in File /\ reader'[file_data[u]] = reader[file_data[u]]
    BY <1>4, <1>6, <1>9 DEF PlaceInv, Carrying
  <1>10. HomeInv!1'
    <2> SUFFICES ASSUME NEW u \in Thread PROVE HomeInv!1!(u)'
      OBVIOUS
    <2>1. CASE u = t
      BY <2>1, <1>2, <1>3, <1>4, <1>5, <1>7, <1>8 DEF Carrying
    <2>2. CASE u # t
      <3>1. pc[u] = "detach" =>
              cache[pos[u]] \in File /\ reader'[cache[pos[u]]] = reader[cache[pos[u]]]
        <4>1. SUFFICES ASSUME pc[u] = "detach" PROVE cache[pos[u]] \in File /\ cache[pos[u]] # f
          BY <1>4
        <4>2. pos[u] \in Slot /\ cache[pos[u]] \in File
          BY <4>1 DEF MarkInv, HomeInv, Marking
        <4>3. Hosts(pos[u], cache[pos[u]])
          BY <4>1, <4>2 DEF Hosts, MarkInv, Emptying, Marking
        <4>4. QED
          BY <1>7, <4>2, <4>3
      <3>2. QED
        BY <2>2, <3>1, <1>2, <1>3, <1>4, <1>5, <1>9 DEF HomeInv, Carrying
    <2>3. QED
      BY <2>1, <2>2
  <1>11. HomeInv!2'
    BY <1>2, <1>4, <1>6 DEF HomeInv, Carrying
  <1>12. HomeInv!3' /\ HomeInv!4' /\ HomeInv!5'
    <2>1. HomeInv!3'
      BY <1>3, <1>4, <1>5, <1>7 DEF HomeInv
    <2>2. HomeInv!4'
      BY <1>3, <1>5 DEF HomeInv
    <2>3. HomeInv!5'
      BY <1>2, <1>3 DEF HomeInv
    <2>4. QED
      BY <2>1, <2>2, <2>3
  <1>13. HomeInv!6'
    <2> SUFFICES ASSUME max_size # 0, NEW g \in File,
                        state[g] \in {"adding", "live"}, reader'[g] # NULL
                 PROVE  \/ \E u \in Thread : pc'[u] \in Carrying /\ file_data[u] = g
                        \/ \E s \in Slot : Hosts(s, g)
      BY <1>2, <1>3, <1>5
    <2>1. CASE g = f
      BY <2>1, <1>1, <1>4, <1>8 DEF Carrying
    <2>2. CASE g # f
      BY <2>2, <1>4 DEF HomeInv
    <2>3. QED
      BY <2>1, <2>2
  <1>14. QED
    BY <1>10, <1>11, <1>12, <1>13 DEF HomeInv

LEMMA EvictKeepsHome ==
  ASSUME IInv, NEW t \in Thread,
         TakeTurn(t) \/ Mark(t) \/ Evict(t) \/ Drop(t) \/ Forget(t)
  PROVE  HomeInv'
  <1> USE FileReaderCacheAssumption DEF IInv
  <1>1. CASE TakeTurn(t) \/ Mark(t)
    <2>1. pc[t] \in {"turn", "mark"} /\ pc'[t] \in {"turn", "mark", "evict"}
          /\ \A u \in Thread : u # t => pc'[u] = pc[u] /\ pos'[u] = pos[u]
      BY <1>1 DEF TypeOK, TakeTurn, Mark, Goto, localVars
    <2>2. UNCHANGED <<max_size, reader, cache, state, file_data, tmp>>
      BY <1>1 DEF TakeTurn, Mark, fileVars, localVars
    <2>3. \A s, f : Hosts(s, f)' <=> Hosts(s, f)
      BY <2>1, <2>2 DEF Hosts, Emptying
    <2>4. QED
      BY <2>1, <2>2, <2>3, HomeCarries DEF Carrying
  <1>2. CASE Evict(t)
    <2> DEFINE s == pos[t]
    <2>1. s \in Slot /\ pc[t] = "evict"
      BY <1>2 DEF Evict, Goto, MarkInv, Marking
    <2>2. cache[s] = NULL \/ cache[s] \in File
      BY <2>1 DEF TypeOK
    <2>3. UNCHANGED <<max_size, reader, cache, state, file_data, pos>>
          /\ \A u \in Thread : u # t => pc'[u] = pc[u] /\ tmp'[u] = tmp[u]
      BY <1>2 DEF TypeOK, Evict, Goto, fileVars, cacheVars
    <2>4. CASE cache[s] = NULL
      <3>1. pc'[t] = "settle"
        BY <1>2, <2>4 DEF TypeOK, Evict, Goto
      <3>2. \A z \in Slot : cache[z] \in File => (Hosts(z, cache[z])' <=> Hosts(z, cache[z]))
        BY <2>1, <2>3, <2>4, <3>1 DEF Hosts, Emptying
      <3>3. QED
        BY <2>1, <2>3, <3>1, <3>2, HomeCarries DEF Carrying
    <2>5. CASE cache[s] \in File
      <3>1. pc'[t] \in {"turn", "detach"} /\ tmp'[t] = reader[cache[s]]
        BY <1>2, <2>5 DEF TypeOK, Evict, Goto
      <3>2. \A z, f : Hosts(z, f)' <=> Hosts(z, f)
        BY <2>1, <2>3, <3>1 DEF Hosts, Emptying
      <3>3. QED
        BY <2>1, <2>3, <2>5, <3>1, <3>2, HomeCarries DEF Carrying
    <2>6. QED
      BY <2>2, <2>4, <2>5
  <1>3. CASE Drop(t) \/ Forget(t)
    <2>1. pc[t] \in {"drop", "forget"} /\ pc'[t] \in {"forget", "settle"}
          /\ \A u \in Thread : u # t => pc'[u] = pc[u]
      BY <1>3 DEF TypeOK, Drop, Forget, Goto
    <2>2. UNCHANGED <<max_size, reader, cache, state, file_data, pos, tmp>>
      BY <1>3 DEF Drop, Forget, fileVars, cacheVars, localVars
    <2>3. \A s, f : Hosts(s, f)' <=> Hosts(s, f)
      BY <2>1, <2>2 DEF Hosts, Emptying
    <2>4. QED
      BY <2>1, <2>2, <2>3, HomeCarries DEF Carrying, HomeInv
  <1>4. QED
    BY <1>1, <1>2, <1>3

LEMMA DetachKeepsHome ==
  ASSUME IInv, NEW t \in Thread, Detach(t)
  PROVE  HomeInv'
  <1> USE FileReaderCacheAssumption DEF IInv
  <1> DEFINE s == pos[t]
             g == cache[s]
  <1>1. s \in Slot /\ g \in File /\ pc[t] = "detach"
    BY DEF Detach, Goto, MarkInv, HomeInv, Marking
  <1>2. /\ UNCHANGED <<max_size, cache, state, file_data, pos, tmp>>
        /\ pc' = [pc EXCEPT ![t] = "drop"]
        /\ reader' = [reader EXCEPT ![g] = NULL]
    BY DEF Detach, Goto, cacheVars, localVars
  <1>3. Slot' = Slot
    BY <1>2 DEF Slot
  <1>4. Hosts(s, g)
    BY <1>1 DEF Hosts, MarkInv, Emptying, Marking
  <1>5. \A z \in Slot, f \in File : Hosts(z, f)' <=> Hosts(z, f) /\ f # g
    <2> TAKE z \in Slot, f \in File
    <2>1. Hosts(z, f)' <=> Hosts(z, f) /\ z # s
      BY <1>1, <1>2 DEF Hosts, Emptying, TypeOK
    <2>2. Hosts(z, f) /\ f = g => z = s
      BY <1>1, <1>4 DEF HomeInv
    <2>3. Hosts(z, f) /\ z = s => f = g
      BY DEF Hosts
    <2>4. QED
      BY <2>1, <2>2, <2>3
  <1>6. \A u \in Thread : pc[u] \in Carrying => file_data[u] \in File /\ file_data[u] # g
    BY <1>1, <1>4 DEF HomeInv, PlaceInv, Carrying
  <1>7. \A u \in Thread : pc[u] = "detach" /\ u # t => cache[pos[u]] # g
    <2> SUFFICES ASSUME NEW u \in Thread, pc[u] = "detach", u # t, cache[pos[u]] = g
                 PROVE  FALSE
      OBVIOUS
    <2>1. pos[u] \in Slot /\ pos[u] # s
      BY <1>1 DEF MarkInv, Marking
    <2>2. Hosts(pos[u], g)
      BY DEF Hosts, MarkInv, Emptying, Marking
    <2>3. QED
      BY <1>1, <1>4, <2>1, <2>2 DEF HomeInv
  <1>8. \A f \in File : f # g => reader'[f] = reader[f]
    BY <1>2 DEF TypeOK
  <1>9. \A u \in Thread : /\ pc'[u] \in Carrying <=> pc[u] \in Carrying
                          /\ pc'[u] = "open" <=> pc[u] = "open"
                          /\ u # t => pc'[u] = pc[u]
    BY <1>1, <1>2 DEF TypeOK, Carrying
  <1>10. HomeInv!1'
    <2> SUFFICES ASSUME NEW u \in Thread PROVE HomeInv!1!(u)'
      OBVIOUS
    <2>1. HomeInv!1!(u)!1' /\ HomeInv!1!(u)!2' /\ HomeInv!1!(u)!3'
      <3>1. HomeInv!1!(u)!1' /\ HomeInv!1!(u)!2'
        BY <1>2, <1>6, <1>8, <1>9 DEF HomeInv, Carrying
      <3>2. HomeInv!1!(u)!3'
        BY <1>2, <1>3, <1>5, <1>6, <1>9 DEF HomeInv
      <3>3. QED
        BY <3>1, <3>2
    <2>2. HomeInv!1!(u)!4' /\ HomeInv!1!(u)!5'
      BY <1>1, <1>2, <1>7, <1>8, <1>9 DEF HomeInv, TypeOK
    <2>3. QED
      BY <2>1, <2>2
  <1>11. HomeInv!2' /\ HomeInv!5'
    BY <1>2, <1>3, <1>9 DEF HomeInv
  <1>12. HomeInv!3' /\ HomeInv!4'
    BY <1>2, <1>3, <1>5, <1>8 DEF HomeInv
  <1>13. HomeInv!6'
    <2> SUFFICES ASSUME max_size # 0, NEW f \in File,
                        state[f] \in {"adding", "live"}, reader'[f] # NULL
                 PROVE  \/ \E u \in Thread : pc'[u] \in Carrying /\ file_data[u] = f
                        \/ \E z \in Slot : Hosts(z, f)'
      BY <1>2, <1>3
    <2>1. f # g /\ reader[f] # NULL
      BY <1>1, <1>2 DEF TypeOK
    <2>2. QED
      BY <2>1, <1>5, <1>9 DEF HomeInv
  <1>14. QED
    BY <1>10, <1>11, <1>12, <1>13 DEF HomeInv

LEMMA SettleKeepsHome ==
  ASSUME IInv, NEW t \in Thread, Settle(t)
  PROVE  HomeInv'
  <1> USE FileReaderCacheAssumption DEF IInv
  <1> PICK s \in Slot, f \in File : s = pos[t] /\ f = file_data[t]
    BY DEF Settle, Goto, MarkInv, PlaceInv, Marking
  <1>1. /\ pc[t] = "settle" /\ max_size # 0
        /\ state[f] \in {"adding", "live"} /\ reader[f] \in Reader
    BY DEF Settle, Goto, MarkInv, HomeInv, PlaceInv, Marking, Carrying, Finding
  <1>2. /\ UNCHANGED <<max_size, reader, state, file_data>>
        /\ pc' = [pc EXCEPT ![t] = "look"]
        /\ cache' = [cache EXCEPT ![s] = f]
        /\ \A u \in Thread : u # t => pos'[u] = pos[u] /\ tmp'[u] = tmp[u]
    BY DEF Settle, Goto, TypeOK
  <1>3. Slot' = Slot
    BY <1>2 DEF Slot
  <1>4. \A u \in Thread : u # t /\ pc[u] \in Marking => pos[u] # s
    BY <1>1 DEF MarkInv, Marking
  <1>5. \A z \in Slot : ~Hosts(z, f)
    BY <1>1 DEF HomeInv, Carrying
  <1>6. \A u \in Thread : u # t => pc'[u] = pc[u]
    BY <1>2 DEF TypeOK
  <1>7. pc'[t] = "look"
    BY <1>2 DEF TypeOK
  <1>8. Hosts(s, f)'
    BY <1>1, <1>2, <1>4, <1>6, <1>7 DEF Hosts, Emptying, Marking, TypeOK
  <1>9. \A h : ~Hosts(s, h)
    BY <1>1 DEF Hosts, Emptying
  <1>10. \A z \in Slot, h \in File :
            z # s => (Hosts(z, h)' <=> Hosts(z, h))
    BY <1>1, <1>2, <1>6, <1>7 DEF Hosts, Emptying, TypeOK
  <1>11. \A h \in File : Hosts(s, h)' => h = f
    BY <1>1, <1>2 DEF Hosts, TypeOK
  <1>12. \A u \in Thread : pc'[u] \in Carrying =>
            u # t /\ pc[u] = pc'[u] /\ file_data[u] # f /\ file_data[u] \in File
    <2> SUFFICES ASSUME NEW u \in Thread, pc'[u] \in Carrying
                 PROVE  u # t /\ pc[u] = pc'[u] /\ file_data[u] # f /\ file_data[u] \in File
      OBVIOUS
    <2>1. u # t /\ pc[u] = pc'[u]
      BY <1>6, <1>7 DEF Carrying
    <2>2. pc[t] \in Carrying
      BY <1>1 DEF Carrying
    <2>3. file_data[u] # f
      BY <2>1, <2>2 DEF HomeInv
    <2>4. file_data[u] \in File
      BY <2>1 DEF PlaceInv, Carrying
    <2>5. QED
      BY <2>1, <2>3, <2>4
  <1>13. HomeInv!1'
    <2> SUFFICES ASSUME NEW u \in Thread PROVE HomeInv!1!(u)'
      OBVIOUS
    <2>1. HomeInv!1!(u)!1' /\ HomeInv!1!(u)!2'
      BY <1>2, <1>12 DEF HomeInv
    <2>2. HomeInv!1!(u)!3'
      <3> SUFFICES ASSUME pc'[u] \in Carrying, NEW z \in Slot, Hosts(z, file_data[u])'
                   PROVE  FALSE
        BY <1>2, <1>3
      <3>1. file_data[u] \in File /\ file_data[u] # f /\ pc[u] \in Carrying
        BY <1>12
      <3>2. PICK h \in File : h = file_data[u]
        BY <3>1
      <3>3. Hosts(z, h)'
        BY <1>2, <3>2
      <3>4. QED
        BY <1>10, <1>11, <3>1, <3>2, <3>3 DEF HomeInv
    <2>3. pc'[u] \in {"detach", "drop", "forget"} =>
            u # t /\ pos[u] \in Slot /\ pos'[u] = pos[u] /\ tmp'[u] = tmp[u]
            /\ cache'[pos[u]] = cache[pos[u]]
      BY <1>1, <1>2, <1>4, <1>12 DEF Carrying, Marking, MarkInv, TypeOK
    <2>4. HomeInv!1!(u)!4' /\ HomeInv!1!(u)!5'
      BY <1>2, <1>12, <2>3 DEF HomeInv, Carrying
    <2>5. QED
      BY <2>1, <2>2, <2>4
  <1>14. HomeInv!2'
    BY <1>2, <1>12 DEF HomeInv
  <1>15. HomeInv!3'
    BY <1>1, <1>2, <1>3, <1>10, <1>11 DEF HomeInv
  <1>16. HomeInv!4'
    BY <1>3, <1>5, <1>10, <1>11 DEF HomeInv
  <1>17. HomeInv!5'
    BY <1>1, <1>2, <1>3 DEF HomeInv, TypeOK
  <1>18. HomeInv!6'
    <2> SUFFICES ASSUME NEW h \in File, h # f,
                        state[h] \in {"adding", "live"}, reader[h] # NULL
                 PROVE  \/ \E u \in Thread : pc'[u] \in Carrying /\ file_data[u] = h
                        \/ \E z \in Slot : Hosts(z, h)'
      BY <1>1, <1>2, <1>3, <1>8
    <2>1. CASE \E u \in Thread : pc[u] \in Carrying /\ file_data[u] = h
      BY <2>1, <1>6
    <2>2. CASE \E z \in Slot : Hosts(z, h)
      BY <2>2, <1>9, <1>10
    <2>3. QED
      BY <1>1, <2>1, <2>2 DEF HomeInv
  <1>19. QED
    BY <1>13, <1>14, <1>15, <1>16, <1>17, <1>18 DEF HomeInv

LEMMA HomeStep ==
  ASSUME IInv, NEW t \in Thread, Step(t)
  PROVE  HomeInv'
  BY HomeIdleStep, HomeDeleteStep, OpenKeepsHome, EvictKeepsHome, DetachKeepsHome,
     SettleKeepsHome DEF Step, FindStep, DeleteStep

-----------------------------------------------------------------------------
(* reader_pos.                                                             *)
LEMMA PosStays ==
  ASSUME IInv, NEW t \in Thread,
         UNCHANGED <<max_size, reader_pos, cache>>,
         \A f \in File : state'[f] # "deleted" => state[f] # "deleted",
         \A u \in Thread : u # t => /\ pc'[u] = pc[u] /\ pos'[u] = pos[u]
                                    /\ file_data'[u] = file_data[u],
         pc'[t] = "settle" =>
            \A f \in File : state[f] # "deleted" => reader_pos[f] # pos'[t],
         pc'[t] \in Deleting =>
            \A s \in Slot : cache[s] = file_data'[t] => reader_pos[file_data'[t]] = s,
         pc'[t] \in {"claim", "clear"} => reader_pos[file_data'[t]] = pos'[t]
  PROVE  PosInv'
  <1>1. Slot' = Slot
    BY DEF Slot
  <1>2. PosInv!1'
    BY DEF IInv, PosInv
  <1>3. PosInv!2'
    <2> SUFFICES ASSUME NEW u \in Thread PROVE PosInv!2!(u)'
      OBVIOUS
    <2>1. CASE u = t
      BY <1>1, <2>1
    <2>2. CASE u # t
      BY <1>1, <2>2 DEF IInv, PosInv
    <2>3. QED
      BY <2>1, <2>2
  <1>4. QED
    BY <1>2, <1>3 DEF PosInv

LEMMA PosIdleStep ==
  ASSUME IInv, NEW t \in Thread,
         \/ AddFile(t) \/ BeginRead(t) \/ ClaimOpening(t) \/ LoadReader(t) \/ Open(t)
         \/ TakeTurn(t) \/ Mark(t) \/ Detach(t) \/ Drop(t) \/ AddRef(t) \/ OtherFile(t)
         \/ Found(t) \/ FoundForParser(t) \/ EndRead(t)
  PROVE  PosInv'
  <1> USE FileReaderCacheAssumption DEF IInv
  <1>1. \A f \in File : state'[f] # "deleted" => state[f] # "deleted"
    <2>1. CASE AddFile(t)
      BY <2>1 DEF TypeOK, AddFile
    <2>2. CASE FoundForParser(t)
      BY <2>2 DEF TypeOK, FoundForParser
    <2>3. CASE UNCHANGED state
      BY <2>3
    <2>4. QED
      BY <2>1, <2>2, <2>3
         DEF BeginRead, ClaimOpening, LoadReader, Open, TakeTurn, Mark, Detach, Drop,
             AddRef, OtherFile, Found, EndRead, fileVars
  <1>2. UNCHANGED <<max_size, reader_pos, cache>>
    BY DEF AddFile, BeginRead, ClaimOpening, LoadReader, Open, TakeTurn, Mark, Detach,
           Drop, AddRef, OtherFile, Found, FoundForParser, EndRead, fileVars, cacheVars
  <1>3. pc'[t] # "settle" /\ pc'[t] \notin Deleting
        /\ \A u \in Thread : u # t => pc'[u] = pc[u]
    <2>1. CASE AddFile(t) \/ BeginRead(t) \/ ClaimOpening(t) \/ LoadReader(t) \/ Open(t)
               \/ TakeTurn(t) \/ Mark(t)
      BY <2>1 DEF TypeOK, AddFile, BeginRead, ClaimOpening, LoadReader, Open, TakeTurn,
                  Mark, Goto, Deleting
    <2>2. CASE Detach(t) \/ Drop(t) \/ AddRef(t) \/ OtherFile(t) \/ Found(t)
               \/ FoundForParser(t) \/ EndRead(t)
      BY <2>2 DEF TypeOK, Detach, Drop, AddRef, OtherFile, Found, FoundForParser,
                  EndRead, Goto, Deleting
    <2>3. QED
      BY <2>1, <2>2
  <1>4. \A u \in Thread : u # t => pos'[u] = pos[u] /\ file_data'[u] = file_data[u]
    <2>1. CASE AddFile(t) \/ BeginRead(t)
      BY <2>1 DEF TypeOK, AddFile, BeginRead
    <2>2. CASE FoundForParser(t) \/ EndRead(t)
      BY <2>2 DEF TypeOK, FoundForParser, EndRead, Done
    <2>3. CASE TakeTurn(t)
      BY <2>3 DEF TypeOK, TakeTurn
    <2>4. CASE UNCHANGED <<pos, file_data>>
      BY <2>4
    <2>5. QED
      BY <2>1, <2>2, <2>3, <2>4
         DEF ClaimOpening, LoadReader, Open, Mark, Detach, Drop, AddRef, OtherFile,
             Found, localVars
  <1>5. QED
    BY <1>1, <1>2, <1>3, <1>4, PosStays DEF Deleting

LEMMA PosStep ==
  ASSUME IInv, ~overlapped', NEW t \in Thread, Step(t)
  PROVE  PosInv'
  <1> USE FileReaderCacheAssumption DEF IInv
  <1>1. CASE Evict(t)
    <2>1. pos[t] \in Slot /\ pc[t] = "evict" /\ pos' = pos /\ file_data' = file_data
      BY <1>1 DEF Evict, Goto, MarkInv, Marking
    <2>2. pc'[t] = "settle" => cache[pos[t]] = NULL
      BY <1>1 DEF Evict, Goto, TypeOK
    <2>3. cache[pos[t]] = NULL =>
            \A f \in File : state[f] # "deleted" => reader_pos[f] # pos[t]
      BY <2>1 DEF PosInv, Slot, None, TypeOK
    <2>4. pc'[t] \notin Deleting /\ \A u \in Thread : u # t => pc'[u] = pc[u]
      BY <1>1 DEF TypeOK, Evict, Goto, Deleting
    <2>5. QED
      BY <1>1, <2>1, <2>2, <2>3, <2>4, PosStays DEF Evict, fileVars, cacheVars, Deleting
  <1>2. CASE Forget(t)
    <2> PICK s \in Slot, g \in File : s = pos[t] /\ g = cache[s]
      BY <1>2 DEF Forget, Goto, MarkInv, HomeInv, Marking
    <2>1. /\ reader_pos' = [reader_pos EXCEPT ![g] = None]
          /\ pc' = [pc EXCEPT ![t] = "settle"]
          /\ UNCHANGED <<max_size, state, cache, pos, file_data>>
          /\ pc[t] = "forget" /\ max_size # 0
      BY <1>2 DEF Forget, Goto, cacheVars, localVars, MarkInv, Marking
    <2>2. \A u \in Thread : pc[u] \notin Deleting /\ pc'[u] \notin Deleting
      BY <2>1 DEF PlaceInv, TypeOK, Finding, Deleting
    <2>3. None \notin Slot /\ Slot' = Slot
      BY <2>1 DEF Slot, None, TypeOK
    <2>4. PosInv!1'
      BY <2>1 DEF PosInv, TypeOK
    <2>5. \A f \in File : state[f] # "deleted" => reader_pos'[f] # s
      BY <2>1, <2>3 DEF PosInv, TypeOK
    <2>6. \A u \in Thread : pc'[u] = "settle" => u = t \/ pc[u] = "settle"
      BY <2>1 DEF TypeOK
    <2>7. \A u \in Thread : pc[u] = "settle" => pos[u] \in Slot
      BY DEF MarkInv, Marking
    <2>8. ASSUME NEW u \in Thread, pc'[u] = "settle", NEW f \in File, state'[f] # "deleted"
          PROVE  reader_pos'[f] # pos'[u]
      BY <2>1, <2>3, <2>5, <2>6, <2>7, <2>8 DEF PosInv, TypeOK
    <2>9. PosInv!2'
      BY <2>2, <2>8 DEF Deleting
    <2>10. QED
      BY <2>4, <2>9 DEF PosInv
  <1>3. CASE Settle(t)
    <2> PICK s \in Slot, f \in File : s = pos[t] /\ f = file_data[t]
      BY <1>3 DEF Settle, Goto, MarkInv, PlaceInv, Marking
    <2>1. /\ reader_pos' = [reader_pos EXCEPT ![f] = s]
          /\ cache' = [cache EXCEPT ![s] = f]
          /\ pc' = [pc EXCEPT ![t] = "look"]
          /\ UNCHANGED <<max_size, state, file_data>>
          /\ pc[t] = "settle" /\ max_size # 0
          /\ \A u \in Thread : u # t => pos'[u] = pos[u]
      BY <1>3 DEF Settle, Goto, MarkInv, Marking, TypeOK
    <2>2. \A u \in Thread : pc[u] \notin Deleting /\ pc'[u] \notin Deleting
      BY <2>1 DEF PlaceInv, TypeOK, Finding, Deleting
    <2>3. \A g \in File : state[g] # "deleted" => reader_pos[g] # s
      BY <2>1 DEF PosInv
    <2>4. PosInv!1'
      <3> SUFFICES ASSUME NEW g \in File, state[g] # "deleted", reader_pos'[g] # None
                   PROVE  cache'[reader_pos'[g]] = g
        BY <2>1
      <3>1. CASE g = f
        BY <2>1, <3>1 DEF TypeOK
      <3>2. CASE g # f
        <4>1. reader_pos'[g] = reader_pos[g] /\ reader_pos[g] # s /\ reader_pos[g] \in Slot
          BY <2>1, <2>3, <3>2 DEF TypeOK
        <4>2. cache'[reader_pos[g]] = cache[reader_pos[g]]
          BY <2>1, <4>1 DEF TypeOK
        <4>3. QED
          BY <4>1, <4>2 DEF PosInv
      <3>3. QED
        BY <3>1, <3>2
    <2>5. \A u \in Thread : pc'[u] = "settle" => u # t /\ pc[u] = "settle" /\ pos[u] # s
      BY <2>1 DEF TypeOK, MarkInv, Marking
    <2>6. ASSUME NEW u \in Thread, pc'[u] = "settle", NEW g \in File, state'[g] # "deleted"
          PROVE  reader_pos'[g] # pos'[u]
      BY <2>1, <2>5, <2>6 DEF PosInv, TypeOK
    <2>7. PosInv!2'
      BY <2>2, <2>6 DEF Deleting
    <2>8. QED
      BY <2>4, <2>7 DEF PosInv
  <1>4. CASE DropFile(t)
    <2> PICK f \in File :
          /\ Goto(t, "idle", "unparse")
          /\ state[f] = "live" /\ ~DuringFind(f)
          /\ state' = [state EXCEPT ![f] = "deleting"]
          /\ file_data' = [file_data EXCEPT ![t] = f]
          /\ UNCHANGED <<max_size, reader_pos, cacheVars, pos>>
      BY <1>4 DEF DropFile
    <2>1. \A s \in Slot : cache[s] = f => reader_pos[f] = s
      BY <1>4 DEF DuringFind, Slot, TypeOK
    <2>2. QED
      BY <2>1, PosStays DEF TypeOK, Goto, cacheVars, Deleting
  <1>5. CASE DeleteParser(t) \/ DeleteReader(t) \/ ClaimSlot(t)
    <2>1. /\ pc[t] \in Deleting /\ pc'[t] \in Deleting \cup {"where"}
          /\ pc'[t] \in {"claim", "clear"} => pc[t] \in {"claim", "clear"}
          /\ pc'[t] # "settle"
          /\ \A u \in Thread : u # t => pc'[u] = pc[u]
      BY <1>5 DEF TypeOK, DeleteParser, DeleteReader, ClaimSlot, Goto, Deleting
    <2>2. UNCHANGED <<max_size, reader_pos, cache, state, pos, file_data>>
      BY <1>5 DEF DeleteParser, DeleteReader, ClaimSlot, fileVars, cacheVars, localVars
    <2>3. QED
      BY <2>1, <2>2, PosStays DEF PosInv
  <1>6. CASE Where(t)
    <2>1. pc[t] \in Deleting
      BY <1>6 DEF Where, Goto, Deleting
    <2>2. CASE Goto(t, "where", "idle") /\ Deleted(t) /\ UNCHANGED <<max_size, reader_pos, cacheVars>>
      BY <2>2, PosStays DEF TypeOK, Goto, Deleted, Done, cacheVars, Deleting
    <2>3. CASE /\ Goto(t, "where", "claim")
               /\ pos' = [pos EXCEPT ![t] = reader_pos[file_data[t]]]
               /\ UNCHANGED <<fileVars, cacheVars, file_data>>
      <3>1. pos'[t] = reader_pos[file_data[t]] /\ pc'[t] = "claim"
            /\ \A u \in Thread : u # t => pc'[u] = pc[u] /\ pos'[u] = pos[u]
        BY <2>3 DEF TypeOK, Goto
      <3>2. QED
        BY <2>1, <2>3, <3>1, PosStays DEF PosInv, fileVars, cacheVars
    <2>4. QED
      BY <1>6, <2>2, <2>3 DEF Where
  <1>7. CASE ClearSlot(t)
    <2>1. PICK s \in Slot, f \in File :
            /\ s = pos[t] /\ f = file_data[t] /\ reader_pos[f] = s /\ max_size # 0
            /\ pc[t] = "clear"
      <3>1. pc[t] = "clear"
        BY <1>7 DEF ClearSlot, Goto
      <3>2. pos[t] \in Slot /\ max_size # 0
        BY <3>1 DEF MarkInv, Marking
      <3>3. file_data[t] \in File
        BY <3>1 DEF PlaceInv
      <3>4. reader_pos[file_data[t]] = pos[t]
        BY <3>1 DEF PosInv
      <3>5. QED
        BY <3>1, <3>2, <3>3, <3>4
    <2>2. /\ cache' = [cache EXCEPT ![s] = NULL]
          /\ state' = [state EXCEPT ![f] = "deleted"]
          /\ pc' = [pc EXCEPT ![t] = "idle"]
          /\ UNCHANGED <<max_size, reader_pos>>
      BY <1>7, <2>1 DEF ClearSlot, Deleted, Goto, Slot, None, TypeOK
    <2>3. \A u \in Thread : u # t => pos'[u] = pos[u] /\ file_data'[u] = file_data[u]
                                     /\ pc'[u] = pc[u]
      BY <1>7 DEF ClearSlot, Deleted, Done, Goto, TypeOK
    <2>4. cache[s] = f
      BY <2>1 DEF PosInv, PlaceInv, Deleting, Slot, None, TypeOK
    <2>5. PosInv!1'
      <3> SUFFICES ASSUME NEW g \in File, state'[g] # "deleted", reader_pos[g] # None
                   PROVE  cache'[reader_pos[g]] = g
        BY <2>2
      <3>1. g # f /\ state[g] # "deleted"
        BY <2>2 DEF TypeOK
      <3>2. reader_pos[g] # s
        BY <2>4, <3>1 DEF PosInv
      <3>3. QED
        BY <2>2, <3>1, <3>2 DEF PosInv, TypeOK
    <2>6. \A u \in Thread : pc'[u] \notin Finding
      BY <2>1, <2>2 DEF PlaceInv, TypeOK, Finding, Deleting
    <2>7. ASSUME NEW u \in Thread, pc'[u] \in Deleting
          PROVE  /\ u # t /\ pc[u] = pc'[u]
                 /\ \A z \in Slot : cache'[z] = file_data[u] => reader_pos[file_data[u]] = z
      <3>1. u # t /\ pc[u] = pc'[u] /\ file_data[u] \in File
        BY <2>2, <2>7 DEF PlaceInv, TypeOK, Deleting
      <3>2. QED
        BY <2>2, <2>7, <3>1, FileReaderCacheAssumption DEF PosInv, TypeOK
    <2>8. Slot' = Slot
      BY <2>2 DEF Slot
    <2>9. PosInv!2'
      BY <2>2, <2>3, <2>6, <2>7, <2>8 DEF PosInv, Finding, Deleting
    <2>10. QED
      BY <2>5, <2>9 DEF PosInv
  <1>8. QED
    BY <1>1, <1>2, <1>3, <1>4, <1>5, <1>6, <1>7, PosIdleStep
       DEF Step, FindStep, DeleteStep

-----------------------------------------------------------------------------
(* Counts.                                                                 *)
Parsed(r) == {f \in File : parser[f] = r}
Held(r) == {t \in Thread : pc[t] \in {"check", "reading"} /\ x[t] = r}
Dropping(r) == {t \in Thread : pc[t] = "drop" /\ tmp[t] = r}
Count(r) == Cardinality(Owning(r)) + Cardinality(Parsed(r)) + Cardinality(Held(r))
            + Cardinality(Dropping(r))

LEMMA Finite ==
  \A r : /\ IsFiniteSet(Owning(r)) /\ Cardinality(Owning(r)) \in Nat
         /\ IsFiniteSet(Parsed(r)) /\ Cardinality(Parsed(r)) \in Nat
         /\ IsFiniteSet(Held(r)) /\ Cardinality(Held(r)) \in Nat
         /\ IsFiniteSet(Dropping(r)) /\ Cardinality(Dropping(r)) \in Nat
  <1> TAKE r
  <1>1. Owning(r) \subseteq File /\ Parsed(r) \subseteq File
    BY DEF Owning, Parsed
  <1>2. Held(r) \subseteq Thread /\ Dropping(r) \subseteq Thread
    BY DEF Held, Dropping
  <1>3. /\ IsFiniteSet(Owning(r)) /\ IsFiniteSet(Parsed(r))
        /\ IsFiniteSet(Held(r)) /\ IsFiniteSet(Dropping(r))
    BY <1>1, <1>2, FS_Subset, FileReaderCacheAssumption
  <1>4. QED
    BY <1>3, FS_CardinalityType

LEMMA FiniteNext ==
  \A r : /\ IsFiniteSet(Owning(r)') /\ Cardinality(Owning(r)') \in Nat
         /\ IsFiniteSet(Parsed(r)') /\ Cardinality(Parsed(r)') \in Nat
         /\ IsFiniteSet(Held(r)') /\ Cardinality(Held(r)') \in Nat
         /\ IsFiniteSet(Dropping(r)') /\ Cardinality(Dropping(r)') \in Nat
  <1> TAKE r
  <1>1. Owning(r)' \subseteq File /\ Parsed(r)' \subseteq File
    BY DEF Owning, Parsed
  <1>2. Held(r)' \subseteq Thread /\ Dropping(r)' \subseteq Thread
    BY DEF Held, Dropping
  <1>3. /\ IsFiniteSet(Owning(r)') /\ IsFiniteSet(Parsed(r)')
        /\ IsFiniteSet(Held(r)') /\ IsFiniteSet(Dropping(r)')
    BY <1>1, <1>2, FS_Subset, FileReaderCacheAssumption
  <1>4. QED
    BY <1>3, FS_CardinalityType

LEMMA CountedIs == Counted <=> \A r \in open : ref[r] = Count(r)
  BY DEF Counted, Count, Parsed, Held, Dropping

LEMMA CountedNext == Counted' <=> \A r \in open' : ref'[r] = Count(r)'
  BY DEF Counted, Count, Parsed, Held, Dropping

(* Of a reader that is closed nobody has a count.                          *)
LEMMA ClosedIsFree ==
  ASSUME IInv, NEW r \in Reader, r \notin open
  PROVE  Owning(r) = {} /\ Parsed(r) = {} /\ Held(r) = {} /\ Dropping(r) = {}
  BY DEF IInv, HeapInv, Owning, Owner, Parsed, Held, Dropping

LEMMA OwnerStays ==
  ASSUME NEW t \in Thread, NEW f \in File,
         \A u \in Thread : u # t => pc'[u] = pc[u] /\ file_data'[u] = file_data[u],
         pc[t] \notin {"unparse", "unread"}, pc'[t] \notin {"unparse", "unread"},
         state'[f] \in {"adding", "live"} <=> state[f] \in {"adding", "live"}
  PROVE  Owner(f)' <=> Owner(f)
  BY DEF Owner

(* A step that gives and takes no count.                                   *)
LEMMA QuietHeap ==
  ASSUME IInv, TypeOK', NEW t \in Thread,
         UNCHANGED <<open, ref, id, parser, max_size>>,
         \A f \in File : reader'[f] \in Reader \/ reader[f] \in Reader =>
            reader'[f] = reader[f] /\ (Owner(f)' <=> Owner(f)),
         \A u \in Thread : u # t => /\ pc'[u] = pc[u] /\ x'[u] = x[u]
                                    /\ tmp'[u] = tmp[u] /\ file_data'[u] = file_data[u],
         pc[t] \notin {"check", "reading", "drop"},
         pc'[t] \notin {"check", "reading", "drop"},
         pc'[t] = "addref" =>
            /\ x'[t] \in Reader /\ (x'[t] \in open \/ ref[x'[t]] = 0)
            /\ max_size = 0 => x'[t] = reader[file_data'[t]] /\ file_data'[t] \in File
  PROVE  HeapInv' /\ Counted'
  <1>1. \A r \in Reader : /\ Owning(r)' = Owning(r) /\ Parsed(r)' = Parsed(r)
                          /\ Held(r)' = Held(r) /\ Dropping(r)' = Dropping(r)
    <2> TAKE r \in Reader
    <2>1. Owning(r)' = Owning(r)
      BY DEF Owning, Owner
    <2>2. Parsed(r)' = Parsed(r)
      BY DEF Parsed
    <2>3. Held(r)' = Held(r) /\ Dropping(r)' = Dropping(r)
      BY DEF Held, Dropping
    <2>4. QED
      BY <2>1, <2>2, <2>3
  <1>2. \A r \in Reader : Count(r)' = Count(r)
    BY <1>1 DEF Count
  <1>3. Counted'
    <2>1. open' \subseteq Reader
      BY DEF TypeOK
    <2>2. \A r \in open' : ref'[r] = Count(r)'
      BY <1>2, <2>1, CountedIs DEF IInv
    <2>3. QED
      BY <2>2, CountedNext
  <1>4. HeapInv!1'
    BY DEF IInv, HeapInv
  <1>5. HeapInv!2'
    <2> SUFFICES ASSUME NEW u \in Thread PROVE HeapInv!2!(u)'
      OBVIOUS
    <2>1. CASE u = t
      BY <2>1 DEF IInv, HeapInv, TypeOK
    <2>2. CASE u # t
      <3>1. pc[u] # "idle" => file_data[u] \in File
        BY DEF IInv, PlaceInv
      <3>2. QED
        BY <2>2, <3>1 DEF IInv, HeapInv, TypeOK
    <2>3. QED
      BY <2>1, <2>2
  <1>6. QED
    BY <1>3, <1>4, <1>5 DEF HeapInv

(* Nobody's slot, mark, turn or place is a count.                          *)
LEMMA QuietSteps ==
  ASSUME IInv, TypeOK', NEW t \in Thread,
         \/ AddFile(t) \/ BeginRead(t) \/ ClaimOpening(t) \/ LoadReader(t) \/ TakeTurn(t)
         \/ Mark(t) \/ Evict(t) \/ Forget(t) \/ Settle(t) \/ DropFile(t) \/ Where(t)
         \/ ClaimSlot(t) \/ ClearSlot(t)
  PROVE  HeapInv' /\ Counted'
  <1> USE FileReaderCacheAssumption DEF IInv
  <1>1. CASE AddFile(t) \/ BeginRead(t) \/ DropFile(t)
    <2>1. PICK f \in File, to \in {"look", "unparse"} :
            /\ Goto(t, "idle", to)
            /\ file_data' = [file_data EXCEPT ![t] = f]
            /\ UNCHANGED <<max_size, reader, parser, heapVars, x, tmp>>
            /\ \A g \in File : g # f => state'[g] = state[g]
            /\ \/ state[f] = "new" /\ to = "look"
               \/ state[f] = "live" /\ state'[f] = "live" /\ to = "look"
               \/ state[f] = "live" /\ state'[f] = "deleting" /\ to = "unparse"
      <3>1. CASE AddFile(t)
        BY <3>1 DEF AddFile, TypeOK
      <3>2. CASE BeginRead(t)
        BY <3>2 DEF BeginRead, fileVars, TypeOK
      <3>3. CASE DropFile(t)
        BY <3>3 DEF DropFile, TypeOK
      <3>4. QED
        BY <1>1, <3>1, <3>2, <3>3
    <2>2. /\ pc[t] = "idle" /\ pc'[t] = to /\ file_data'[t] = f
          /\ \A u \in Thread : u # t => pc'[u] = pc[u] /\ file_data'[u] = file_data[u]
      BY <2>1 DEF TypeOK, Goto
    <2>3. ASSUME NEW g \in File, reader[g] \in Reader PROVE Owner(g)' <=> Owner(g)
      <3>1. CASE g # f
        BY <2>1, <2>2, <3>1 DEF Owner
      <3>2. CASE g = f
        BY <2>1, <2>2, <2>3, <3>2 DEF Owner, PlaceInv
      <3>3. QED
        BY <3>1, <3>2
    <2>4. QED
      BY <2>1, <2>2, <2>3, QuietHeap DEF heapVars
  <1>2. CASE ClaimOpening(t)
    <2>1. /\ pc[t] = "look" /\ pc'[t] = "open" /\ file_data[t] \in File
          /\ \A u \in Thread : u # t => pc'[u] = pc[u]
          /\ UNCHANGED <<state, parser, max_size, heapVars, file_data, x, tmp>>
          /\ reader[file_data[t]] = NULL
          /\ reader' = [reader EXCEPT ![file_data[t]] = Opening]
      BY <1>2 DEF TypeOK, ClaimOpening, Goto, localVars, PlaceInv
    <2>2. \A f \in File : Owner(f)' <=> Owner(f)
      BY <2>1 DEF Owner
    <2>3. \A f \in File : reader'[f] \in Reader \/ reader[f] \in Reader => reader'[f] = reader[f]
      BY <2>1 DEF TypeOK, Opening
    <2>4. QED
      BY <2>1, <2>2, <2>3, QuietHeap DEF heapVars
  <1>3. CASE LoadReader(t)
    <2>1. /\ pc[t] = "look" /\ pc'[t] = "addref" /\ file_data[t] \in File
          /\ \A u \in Thread : u # t => pc'[u] = pc[u] /\ x'[u] = x[u]
          /\ UNCHANGED <<fileVars, heapVars, file_data, tmp>>
          /\ reader[file_data[t]] \in Reader /\ x'[t] = reader[file_data[t]]
      BY <1>3 DEF TypeOK, LoadReader, Goto, PlaceInv
    <2>2. \A f \in File : Owner(f)' <=> Owner(f)
      BY <2>1 DEF Owner, fileVars
    <2>3. x'[t] \in open
      BY <2>1 DEF HeapInv, Owner, PlaceInv, Finding
    <2>4. QED
      BY <2>1, <2>2, <2>3, QuietHeap DEF heapVars, fileVars
  <1>4. CASE TakeTurn(t) \/ Mark(t) \/ Evict(t) \/ Forget(t) \/ Settle(t)
    <2>1. /\ pc[t] \in {"turn", "mark", "evict", "forget", "settle"}
          /\ pc'[t] \in {"turn", "mark", "evict", "detach", "settle", "look"}
          /\ \A u \in Thread : u # t => pc'[u] = pc[u] /\ tmp'[u] = tmp[u]
          /\ UNCHANGED <<state, reader, parser, max_size, heapVars, file_data, x>>
      <3>1. CASE TakeTurn(t) \/ Mark(t) \/ Evict(t)
        BY <3>1 DEF TypeOK, TakeTurn, Mark, Evict, Goto, fileVars, localVars
      <3>2. CASE Forget(t) \/ Settle(t)
        BY <3>2 DEF TypeOK, Forget, Settle, Goto, fileVars, localVars
      <3>3. QED
        BY <1>4, <3>1, <3>2
    <2>2. \A f \in File : Owner(f)' <=> Owner(f)
      BY <2>1 DEF Owner
    <2>3. QED
      BY <2>1, <2>2, QuietHeap DEF heapVars
  <1>5. CASE Where(t) \/ ClaimSlot(t) \/ ClearSlot(t)
    <2>1. /\ pc[t] \in {"where", "claim", "clear"}
          /\ pc'[t] \in {"idle", "where", "claim", "clear"}
          /\ \A u \in Thread : u # t => /\ pc'[u] = pc[u] /\ x'[u] = x[u]
                                        /\ tmp'[u] = tmp[u] /\ file_data'[u] = file_data[u]
          /\ UNCHANGED <<reader, parser, max_size, heapVars>>
          /\ \A f \in File : state'[f] = state[f] \/ (f = file_data[t] /\ state'[f] = "deleted")
      <3>1. /\ pc[t] \in {"where", "claim", "clear"}
            /\ pc'[t] \in {"idle", "where", "claim", "clear"}
            /\ \A u \in Thread : u # t => pc'[u] = pc[u]
        BY <1>5 DEF TypeOK, Where, ClaimSlot, ClearSlot, Goto
      <3>2. CASE Deleted(t) /\ UNCHANGED <<max_size, reader, parser, heapVars>>
        BY <3>1, <3>2 DEF TypeOK, Deleted, Done
      <3>3. CASE UNCHANGED <<fileVars, heapVars, file_data, x, tmp>>
        BY <3>1, <3>3 DEF fileVars
      <3>4. QED
        BY <1>5, <3>2, <3>3 DEF Where, ClaimSlot, ClearSlot, localVars
    <2>2. \A f \in File : state'[f] \in {"adding", "live"} <=> state[f] \in {"adding", "live"}
      BY <2>1 DEF PlaceInv, Deleting
    <2>3. \A f \in File : Owner(f)' <=> Owner(f)
      BY <2>1, <2>2, OwnerStays
    <2>4. QED
      BY <2>1, <2>3, QuietHeap DEF heapVars
  <1>6. QED
    BY <1>1, <1>2, <1>3, <1>4, <1>5

(* DecRef by one that has a count.                                         *)
LEMMA Released ==
  ASSUME IInv, TypeOK', NEW r \in open, DecRef(r),
         Count(r)' = Count(r) - 1,
         \A q \in Reader : q # r =>
            /\ Owning(q)' = Owning(q) /\ Parsed(q)' = Parsed(q)
            /\ Held(q)' = Held(q) /\ Dropping(q)' = Dropping(q)
  PROVE  /\ Counted'
         /\ \A q \in Reader : q \notin open' =>
               /\ Owning(q)' = {} /\ Parsed(q)' = {}
               /\ Held(q)' = {} /\ Dropping(q)' = {}
         /\ \A q \in open' : id'[q] = id[q]
         /\ \A q \in Reader : (q \in open \/ ref[q] = 0) => (q \in open' \/ ref'[q] = 0)
  <1>1. r \in Reader /\ ref[r] = Count(r) /\ open \subseteq Reader
    BY CountedIs DEF IInv, TypeOK
  <1>2. \A q \in Reader : q # r => Count(q)' = Count(q) /\ ref'[q] = ref[q]
    BY DEF Count, DecRef, IInv, TypeOK
  <1>3. ref'[r] = Count(r)' /\ (r \notin open' => Count(r)' = 0)
    BY <1>1 DEF DecRef, IInv, TypeOK
  <1>4. \A q \in Reader : q # r => (q \in open' <=> q \in open)
    BY <1>1 DEF DecRef
  <1>5. Counted'
    <2>1. open' \subseteq Reader
      BY DEF TypeOK
    <2>2. ASSUME NEW q \in open' PROVE ref'[q] = Count(q)'
      <3>1. CASE q = r
        BY <1>3, <3>1
      <3>2. CASE q # r
        BY <1>2, <1>4, <2>1, <3>2, CountedIs DEF IInv
      <3>3. QED
        BY <3>1, <3>2
    <2>3. QED
      BY <2>2, CountedNext
  <1>6. \A q \in Reader : q \notin open' => /\ Owning(q)' = {} /\ Parsed(q)' = {}
                                            /\ Held(q)' = {} /\ Dropping(q)' = {}
    <2> SUFFICES ASSUME NEW q \in Reader, q \notin open'
                 PROVE  /\ Owning(q)' = {} /\ Parsed(q)' = {}
                        /\ Held(q)' = {} /\ Dropping(q)' = {}
      OBVIOUS
    <2>1. CASE q = r
      <3>1. Count(r)' = 0
        BY <1>3, <2>1
      <3>2. /\ Cardinality(Owning(r)') = 0 /\ Cardinality(Parsed(r)') = 0
            /\ Cardinality(Held(r)') = 0 /\ Cardinality(Dropping(r)') = 0
        <4>1. Cardinality(Owning(r)') + Cardinality(Parsed(r)') + Cardinality(Held(r)')
              + Cardinality(Dropping(r)') = 0
          BY <3>1 DEF Count
        <4>2. /\ Cardinality(Owning(r)') \in Nat /\ Cardinality(Parsed(r)') \in Nat
              /\ Cardinality(Held(r)') \in Nat /\ Cardinality(Dropping(r)') \in Nat
          BY FiniteNext
        <4>3. QED
          BY <4>1, <4>2
      <3>3. QED
        BY <2>1, <3>2, FiniteNext, FS_EmptySet
    <2>2. CASE q # r
      BY <1>4, <2>2, ClosedIsFree
    <2>3. QED
      BY <2>1, <2>2
  <1>7. \A q \in open' : id'[q] = id[q]
    BY <1>1 DEF DecRef, IInv, TypeOK
  <1>8. \A q \in Reader : (q \in open \/ ref[q] = 0) => (q \in open' \/ ref'[q] = 0)
    BY <1>1, <1>2, <1>3, <1>4
  <1>9. QED
    BY <1>5, <1>6, <1>7, <1>8

LEMMA ReleasedHeap ==
  ASSUME IInv, TypeOK', NEW t \in Thread, UNCHANGED <<reader, max_size>>,
         \A q \in Reader : q \notin open' =>
            Owning(q)' = {} /\ Parsed(q)' = {} /\ Held(q)' = {} /\ Dropping(q)' = {},
         \A q \in open' : id'[q] = id[q],
         \A q \in Reader : (q \in open \/ ref[q] = 0) => (q \in open' \/ ref'[q] = 0),
         \A f \in File : Owner(f)' => Owner(f),
         \A f \in File : parser'[f] \in Reader => parser'[f] = parser[f],
         \A u \in Thread : u # t => /\ pc'[u] = pc[u] /\ x'[u] = x[u]
                                    /\ tmp'[u] = tmp[u] /\ file_data'[u] = file_data[u],
         pc'[t] \notin {"addref", "check", "reading", "drop"}
  PROVE  HeapInv'
  <1>1. HeapInv!1'
    <2> SUFFICES ASSUME NEW f \in File PROVE HeapInv!1!(f)'
      OBVIOUS
    <2>1. Owner(f)' /\ reader'[f] \in Reader => f \in Owning(reader[f])'
      BY DEF Owner, Owning
    <2>2. parser'[f] \in Reader => f \in Parsed(parser[f])'
      BY DEF Parsed
    <2>3. QED
      BY <2>1, <2>2 DEF IInv, HeapInv
  <1>2. HeapInv!2'
    <2> SUFFICES ASSUME NEW u \in Thread PROVE HeapInv!2!(u)'
      OBVIOUS
    <2>1. CASE u = t
      BY <2>1
    <2>2. CASE u # t
      <3>1. pc'[u] \in {"check", "reading"} => u \in Held(x[u])' /\ x[u] \in Reader
        BY <2>2 DEF Held, IInv, HeapInv, TypeOK
      <3>2. pc'[u] = "drop" => u \in Dropping(tmp[u])' /\ tmp[u] \in Reader
        BY <2>2 DEF Dropping, IInv, HeapInv, TypeOK
      <3>3. QED
        BY <2>2, <3>1, <3>2 DEF IInv, HeapInv
    <2>3. QED
      BY <2>1, <2>2
  <1>3. QED
    BY <1>1, <1>2 DEF HeapInv

LEMMA OneLess ==
  ASSUME NEW r \in Reader,
         \/ /\ Held(r) # {} /\ Owning(r)' = Owning(r) /\ Parsed(r)' = Parsed(r)
            /\ \E t \in Held(r) : Held(r)' = Held(r) \ {t}
            /\ Dropping(r)' = Dropping(r)
         \/ /\ Owning(r)' = Owning(r) /\ Parsed(r)' = Parsed(r) /\ Held(r)' = Held(r)
            /\ \E t \in Dropping(r) : Dropping(r)' = Dropping(r) \ {t}
         \/ /\ Owning(r)' = Owning(r) /\ Held(r)' = Held(r) /\ Dropping(r)' = Dropping(r)
            /\ \E f \in Parsed(r) : Parsed(r)' = Parsed(r) \ {f}
  PROVE  Count(r)' = Count(r) - 1
  <1>1. \A S : IsFiniteSet(S) => \A e \in S : Cardinality(S \ {e}) = Cardinality(S) - 1
    BY FS_RemoveElement
  <1>2. QED
    BY <1>1, Finite DEF Count

(* The evicted file's count, a thread's and the parser's are given back.   *)
LEMMA DropHeap ==
  ASSUME IInv, TypeOK', NEW t \in Thread, Drop(t)
  PROVE  HeapInv' /\ Counted'
  <1>1. PICK r \in open : r = tmp[t] /\ DecRef(r)
    BY DEF Drop, Goto, IInv, HeapInv
  <1>2. /\ pc[t] = "drop" /\ pc'[t] = "forget" /\ r \in Reader
        /\ \A u \in Thread : u # t => pc'[u] = pc[u]
        /\ UNCHANGED <<state, reader, parser, max_size, file_data, x, tmp>>
    BY <1>1 DEF Drop, Goto, fileVars, localVars, IInv, TypeOK
  <1>3. \A f \in File : Owner(f)' <=> Owner(f)
    BY <1>2 DEF Owner
  <1>4. \A q \in Reader : /\ Owning(q)' = Owning(q) /\ Parsed(q)' = Parsed(q)
                          /\ Held(q)' = Held(q)
    BY <1>2 DEF Owning, Parsed, Held
  <1>5. t \in Dropping(r) /\ Dropping(r)' = Dropping(r) \ {t}
        /\ \A q \in Reader : q # r => Dropping(q)' = Dropping(q)
    BY <1>1, <1>2 DEF Dropping
  <1>6. Count(r)' = Count(r) - 1
    BY <1>2, <1>4, <1>5, OneLess
  <1>7. QED
    BY <1>1, <1>2, <1>3, <1>4, <1>5, <1>6, Released, ReleasedHeap

LEMMA GiveBackHeap ==
  ASSUME IInv, TypeOK', NEW t \in Thread, OtherFile(t) \/ EndRead(t)
  PROVE  HeapInv' /\ Counted'
  <1>1. PICK r \in open : r = x[t] /\ DecRef(r)
    BY DEF OtherFile, EndRead, Goto, IInv, HeapInv
  <1>2. /\ pc[t] \in {"check", "reading"} /\ pc'[t] \in {"look", "idle"} /\ r \in Reader
        /\ \A u \in Thread : u # t => /\ pc'[u] = pc[u] /\ x'[u] = x[u] /\ tmp'[u] = tmp[u]
                                      /\ file_data'[u] = file_data[u]
        /\ UNCHANGED <<state, reader, parser, max_size>>
    BY <1>1 DEF OtherFile, EndRead, Done, Goto, fileVars, localVars, IInv, TypeOK
  <1>3. \A f \in File : Owner(f)' <=> Owner(f)
    BY <1>2 DEF Owner
  <1>4. \A q \in Reader : /\ Owning(q)' = Owning(q) /\ Parsed(q)' = Parsed(q)
                          /\ Dropping(q)' = Dropping(q)
    BY <1>2 DEF Owning, Parsed, Dropping
  <1>5. t \in Held(r) /\ Held(r)' = Held(r) \ {t}
        /\ \A q \in Reader : q # r => Held(q)' = Held(q)
    BY <1>1, <1>2 DEF Held
  <1>6. Count(r)' = Count(r) - 1
    BY <1>2, <1>4, <1>5, OneLess
  <1>7. QED
    BY <1>1, <1>2, <1>3, <1>4, <1>5, <1>6, Released, ReleasedHeap

LEMMA DeleteParserHeap ==
  ASSUME IInv, TypeOK', NEW t \in Thread, DeleteParser(t)
  PROVE  HeapInv' /\ Counted'
  <1>1. PICK f \in File, r \in open :
          f = file_data[t] /\ r = parser[f] /\ DecRef(r)
    BY DEF DeleteParser, Goto, IInv, HeapInv, PlaceInv
  <1>2. /\ pc[t] = "unparse" /\ pc'[t] = "unread" /\ r \in Reader
        /\ \A u \in Thread : u # t => pc'[u] = pc[u]
        /\ UNCHANGED <<state, reader, max_size, file_data, x, tmp>>
        /\ parser' = [parser EXCEPT ![f] = NULL]
    BY <1>1 DEF DeleteParser, Goto, localVars, IInv, TypeOK
  <1>3. \A g \in File : Owner(g)' <=> Owner(g)
    BY <1>2 DEF Owner
  <1>4. \A q \in Reader : /\ Owning(q)' = Owning(q) /\ Held(q)' = Held(q)
                          /\ Dropping(q)' = Dropping(q)
    <2> TAKE q \in Reader
    <2>1. Owning(q)' = Owning(q)
      BY <1>2 DEF Owning
    <2>2. QED
      BY <1>2, <2>1 DEF Held, Dropping
  <1>5. f \in Parsed(r) /\ Parsed(r)' = Parsed(r) \ {f}
        /\ \A q \in Reader : q # r => Parsed(q)' = Parsed(q)
    BY <1>1, <1>2, FileReaderCacheAssumption DEF Parsed, IInv, TypeOK
  <1>6. Count(r)' = Count(r) - 1
    BY <1>2, <1>4, <1>5, OneLess
  <1>7. \A g \in File : parser'[g] \in Reader => parser'[g] = parser[g]
    BY <1>2, FileReaderCacheAssumption DEF IInv, TypeOK
  <1>8. QED
    BY <1>1, <1>2, <1>3, <1>4, <1>5, <1>6, <1>7, Released, ReleasedHeap

(* A thread's step that moves one count or makes one.                      *)
LEMMA OpenHeap ==
  ASSUME IInv, TypeOK', NEW t \in Thread, Open(t)
  PROVE  HeapInv' /\ Counted'
  <1> USE FileReaderCacheAssumption
  <1>1. PICK f \in File, r \in Reader \ open :
          /\ f = file_data[t]
          /\ open' = open \cup {r} /\ ref' = [ref EXCEPT ![r] = 1]
          /\ id' = [id EXCEPT ![r] = f] /\ reader' = [reader EXCEPT ![f] = r]
    <2>1. file_data[t] \in File
      BY DEF Open, Goto, IInv, PlaceInv
    <2>2. QED
      BY <2>1 DEF Open
  <1>2. /\ pc[t] = "open" /\ pc'[t] \in {"look", "turn"} /\ reader[f] = Opening
        /\ \A u \in Thread : u # t => pc'[u] = pc[u]
        /\ UNCHANGED <<state, parser, max_size, file_data, x, tmp>>
        /\ state[f] \in {"adding", "live"}
    BY <1>1 DEF Open, Goto, localVars, IInv, TypeOK, HomeInv, PlaceInv, Finding
  <1>3. \A g \in File : Owner(g)' <=> Owner(g)
    BY <1>2 DEF Owner
  <1>4. /\ Owning(r) = {} /\ Parsed(r) = {} /\ Held(r) = {} /\ Dropping(r) = {}
    BY <1>1, ClosedIsFree
  <1>5. \A q \in Reader : /\ Parsed(q)' = Parsed(q) /\ Held(q)' = Held(q)
                          /\ Dropping(q)' = Dropping(q)
    BY <1>2 DEF Parsed, Held, Dropping
  <1>6. \A q \in Reader : q # r => Owning(q)' = Owning(q)
    <2> SUFFICES ASSUME NEW q \in Reader, q # r PROVE Owning(q)' = Owning(q)
      OBVIOUS
    <2>1. \A g \in File : reader'[g] = q <=> reader[g] = q
      BY <1>1, <1>2 DEF IInv, TypeOK, Opening
    <2>2. QED
      BY <1>2, <2>1 DEF Owning
  <1>7. Owning(r)' = {f}
    <2>1. \A g \in File : g \in Owning(r)' => g = f
      <3> SUFFICES ASSUME NEW g \in File, g # f, g \in Owning(r)' PROVE FALSE
        OBVIOUS
      <3>1. reader[g] = r /\ Owner(g)
        BY <1>1, <1>3 DEF Owning, Owner, IInv, TypeOK
      <3>2. QED
        BY <1>1, <3>1 DEF IInv, HeapInv
    <2>2. f \in Owning(r)'
      BY <1>1, <1>2 DEF Owning, IInv, TypeOK
    <2>3. Owning(r)' \subseteq File
      BY DEF Owning
    <2>4. QED
      BY <2>1, <2>2, <2>3
  <1>8. Counted'
    <2>1. Count(r)' = 1
      <3>1. Cardinality(Owning(r)') = 1
        BY <1>7, FS_Singleton
      <3>2. /\ Cardinality(Parsed(r)') = 0 /\ Cardinality(Held(r)') = 0
            /\ Cardinality(Dropping(r)') = 0
        BY <1>4, <1>5, FS_EmptySet
      <3>3. QED
        BY <3>1, <3>2 DEF Count
    <2>2. \A q \in open : q # r /\ Count(q)' = Count(q) /\ ref'[q] = ref[q]
      <3>1. \A q \in open : q # r /\ q \in Reader /\ ref'[q] = ref[q]
        BY <1>1 DEF IInv, TypeOK
      <3>2. \A q \in open : Count(q)' = Count(q)
        BY <1>5, <1>6, <3>1 DEF Count
      <3>3. QED
        BY <3>1, <3>2
    <2>3. \A q \in open : ref[q] = Count(q)
      BY CountedIs DEF IInv
    <2>4. ref'[r] = 1
      BY <1>1 DEF IInv, TypeOK
    <2>5. \A q \in open' : ref'[q] = Count(q)'
      BY <1>1, <2>1, <2>2, <2>3, <2>4
    <2>6. QED
      BY <2>5, CountedNext
  <1>9. /\ \A q \in open : q \in open' /\ q # r /\ id'[q] = id[q]
        /\ r \in open' /\ id'[r] = f
    BY <1>1 DEF IInv, TypeOK
  <1>10. HeapInv!1'
    <2> SUFFICES ASSUME NEW g \in File PROVE HeapInv!1!(g)'
      OBVIOUS
    <2>1. g # f => reader'[g] = reader[g]
      BY <1>1 DEF IInv, TypeOK
    <2>2. reader'[f] = r
      BY <1>1 DEF IInv, TypeOK
    <2>3. QED
      BY <1>2, <1>3, <1>9, <2>1, <2>2 DEF IInv, HeapInv
  <1>11. HeapInv!2'
    <2> SUFFICES ASSUME NEW u \in Thread PROVE HeapInv!2!(u)'
      OBVIOUS
    <2>1. CASE u = t
      BY <1>2, <2>1
    <2>2. CASE u # t
      <3>1. pc[u] = "addref" => x[u] \in open' \/ ref'[x[u]] = 0
        BY <1>1 DEF IInv, HeapInv, TypeOK
      <3>2. max_size = 0 /\ pc[u] \in {"addref", "check"} =>
              reader[file_data[u]] \in Reader /\ file_data[u] \in File
        BY DEF IInv, HeapInv, TypeOK, PlaceInv
      <3>3. max_size = 0 /\ pc[u] \in {"addref", "check"} =>
              reader'[file_data[u]] = reader[file_data[u]]
        BY <1>1, <1>2, <3>2 DEF IInv, TypeOK, Opening
      <3>4. QED
        BY <1>2, <1>9, <2>2, <3>1, <3>3 DEF IInv, HeapInv
    <2>3. QED
      BY <2>1, <2>2
  <1>12. QED
    BY <1>8, <1>10, <1>11 DEF HeapInv

LEMMA DetachHeap ==
  ASSUME IInv, TypeOK', NEW t \in Thread, Detach(t)
  PROVE  HeapInv' /\ Counted'
  <1> USE FileReaderCacheAssumption
  <1>1. PICK s \in Slot, g \in File : s = pos[t] /\ g = cache[s]
    BY DEF Detach, Goto, IInv, MarkInv, HomeInv, Marking
  <1>2. /\ pc[t] = "detach" /\ pc'[t] = "drop" /\ max_size # 0
        /\ \A u \in Thread : u # t => pc'[u] = pc[u]
        /\ UNCHANGED <<state, parser, max_size, open, ref, id, file_data, x, tmp>>
        /\ reader' = [reader EXCEPT ![g] = NULL]
    BY <1>1 DEF Detach, Goto, heapVars, localVars, IInv, TypeOK, MarkInv, Marking
  <1>3. Hosts(s, g)
    BY <1>1, <1>2 DEF Hosts, IInv, MarkInv, Emptying, Marking
  <1>4. PICK r \in Reader : r = reader[g] /\ r = tmp[t]
    BY <1>1, <1>2, <1>3 DEF IInv, HomeInv
  <1>5. state[g] \in {"adding", "live"}
    BY <1>1, <1>2 DEF IInv, HomeInv, PlaceInv, Finding
  <1>6. r \in open /\ g \in Owning(r)
    BY <1>4, <1>5 DEF IInv, HeapInv, Owner, Owning
  <1>7. \A f \in File : Owner(f)' <=> Owner(f)
    BY <1>2 DEF Owner
  <1>8. Owning(r)' = Owning(r) \ {g}
        /\ \A q \in Reader : q # r => Owning(q)' = Owning(q)
    <2>1. \A f \in File : f # g => reader'[f] = reader[f]
      BY <1>2 DEF IInv, TypeOK
    <2>2. reader'[g] = NULL
      BY <1>2 DEF IInv, TypeOK
    <2>3. QED
      BY <1>2, <1>4, <2>1, <2>2 DEF Owning
  <1>9. \A q \in Reader : Parsed(q)' = Parsed(q) /\ Held(q)' = Held(q)
    BY <1>2 DEF Parsed, Held
  <1>10. /\ t \notin Dropping(r) /\ Dropping(r)' = Dropping(r) \cup {t}
         /\ \A q \in Reader : q # r => Dropping(q)' = Dropping(q)
    BY <1>2, <1>4 DEF Dropping
  <1>11. \A q \in Reader : Count(q)' = Count(q)
    <2>1. Cardinality(Owning(r)') = Cardinality(Owning(r)) - 1
      BY <1>6, <1>8, Finite, FS_RemoveElement
    <2>2. Cardinality(Dropping(r)') = Cardinality(Dropping(r)) + 1
      BY <1>10, Finite, FS_AddElement
    <2>3. Count(r)' = Count(r)
      BY <1>9, <2>1, <2>2, Finite DEF Count
    <2>4. \A q \in Reader : q # r => Count(q)' = Count(q)
      BY <1>8, <1>9, <1>10 DEF Count
    <2>5. QED
      BY <2>3, <2>4
  <1>12. Counted'
    BY <1>2, <1>11, CountedIs, CountedNext DEF IInv, TypeOK
  <1>13. HeapInv!1'
    BY <1>2, <1>7 DEF IInv, HeapInv, TypeOK
  <1>14. HeapInv!2'
    BY <1>2, <1>4, <1>6 DEF IInv, HeapInv
  <1>15. QED
    BY <1>12, <1>13, <1>14 DEF HeapInv

LEMMA AddRefHeap ==
  ASSUME IInv, TypeOK', NEW t \in Thread, AddRef(t)
  PROVE  HeapInv' /\ Counted'
  <1>1. PICK r \in Reader : r = x[t]
    BY DEF AddRef, Goto, IInv, HeapInv
  <1>2. /\ pc[t] = "addref" /\ pc'[t] \in {"look", "check"}
        /\ \A u \in Thread : u # t => pc'[u] = pc[u]
        /\ \A u \in Thread : u # t => x'[u] = x[u]
        /\ UNCHANGED <<state, reader, parser, max_size, open, id, file_data, tmp>>
    BY DEF AddRef, Goto, fileVars, IInv, TypeOK
  <1>3. \A f \in File : Owner(f)' <=> Owner(f)
    BY <1>2 DEF Owner
  <1>4. CASE ref[r] = 0
    BY <1>1, <1>2, <1>3, <1>4, QuietHeap DEF AddRef, Goto, IInv, TypeOK
  <1>5. CASE ref[r] # 0
    <2>1. /\ pc'[t] = "check" /\ x' = x /\ ref' = [ref EXCEPT ![r] = @ + 1] /\ r \in open
      BY <1>1, <1>2, <1>5 DEF AddRef, Goto, IInv, HeapInv, TypeOK
    <2>2. \A q \in Reader : /\ Owning(q)' = Owning(q) /\ Parsed(q)' = Parsed(q)
                            /\ Dropping(q)' = Dropping(q)
      BY <1>2, <2>1 DEF Owning, Parsed, Dropping
    <2>3. /\ t \notin Held(r) /\ Held(r)' = Held(r) \cup {t}
          /\ \A q \in Reader : q # r => Held(q)' = Held(q)
      BY <1>1, <1>2, <2>1 DEF Held
    <2>4. Count(r)' = Count(r) + 1
      <3>1. Cardinality(Held(r)') = Cardinality(Held(r)) + 1
        BY <2>3, Finite, FS_AddElement
      <3>2. QED
        BY <2>2, <3>1, Finite DEF Count
    <2>5. \A q \in Reader : q # r => Count(q)' = Count(q)
      BY <2>2, <2>3 DEF Count
    <2>6. Counted'
      BY <1>2, <2>1, <2>4, <2>5, CountedIs, CountedNext DEF IInv, TypeOK
    <2>7. \A q \in Reader : q \in open \/ ref[q] = 0 => q \in open' \/ ref'[q] = 0
      BY <1>2, <2>1 DEF IInv, TypeOK
    <2>8. HeapInv!1'
      BY <1>2, <1>3 DEF IInv, HeapInv
    <2>9. HeapInv!2'
      BY <1>1, <1>2, <2>1, <2>7 DEF IInv, HeapInv
    <2>10. QED
      BY <2>6, <2>8, <2>9 DEF HeapInv
  <1>6. QED
    BY <1>4, <1>5

LEMMA FoundHeap ==
  ASSUME IInv, TypeOK', NEW t \in Thread, FoundForParser(t) \/ Found(t)
  PROVE  HeapInv' /\ Counted'
  <1> USE FileReaderCacheAssumption
  <1>1. PICK f \in File, r \in open : f = file_data[t] /\ r = x[t] /\ id[r] = f
    BY DEF FoundForParser, Found, Goto, IInv, HeapInv, PlaceInv
  <1>2. /\ pc[t] = "check" /\ r \in Reader
        /\ \A u \in Thread : u # t => pc'[u] = pc[u]
        /\ UNCHANGED <<reader, max_size, open, ref, id>>
    BY DEF FoundForParser, Found, Goto, fileVars, heapVars, IInv, TypeOK
  <1>3. CASE FoundForParser(t)
    <2>1. /\ pc'[t] = "idle" /\ state[f] = "adding" /\ parser[f] = NULL
          /\ state' = [state EXCEPT ![f] = "live"]
          /\ parser' = [parser EXCEPT ![f] = r]
          /\ \A u \in Thread : u # t => /\ x'[u] = x[u] /\ tmp'[u] = tmp[u]
                                        /\ file_data'[u] = file_data[u]
      BY <1>1, <1>3 DEF FoundForParser, Done, Goto, IInv, TypeOK, PlaceInv
    <2>2. \A g \in File : Owner(g)' <=> Owner(g)
      BY <1>2, <2>1, OwnerStays DEF IInv, TypeOK
    <2>3. \A q \in Reader : Owning(q)' = Owning(q) /\ Dropping(q)' = Dropping(q)
      BY <1>2, <2>1, <2>2 DEF Owning, Owner, Dropping
    <2>4. /\ t \in Held(r) /\ Held(r)' = Held(r) \ {t}
          /\ \A q \in Reader : q # r => Held(q)' = Held(q)
      BY <1>1, <1>2, <2>1 DEF Held
    <2>5. /\ f \notin Parsed(r) /\ Parsed(r)' = Parsed(r) \cup {f}
          /\ \A q \in Reader : q # r => Parsed(q)' = Parsed(q)
      BY <1>2, <2>1 DEF Parsed, IInv, TypeOK
    <2>6. \A q \in Reader : Count(q)' = Count(q)
      <3>1. Cardinality(Held(r)') = Cardinality(Held(r)) - 1
        BY <2>4, Finite, FS_RemoveElement
      <3>2. Cardinality(Parsed(r)') = Cardinality(Parsed(r)) + 1
        BY <2>5, Finite, FS_AddElement
      <3>3. Count(r)' = Count(r)
        BY <1>2, <2>3, <3>1, <3>2, Finite DEF Count
      <3>4. \A q \in Reader : q # r => Count(q)' = Count(q)
        BY <2>3, <2>4, <2>5 DEF Count
      <3>5. QED
        BY <3>3, <3>4
    <2>7. Counted'
      BY <1>2, <2>6, CountedIs, CountedNext DEF IInv, TypeOK
    <2>8. HeapInv!1'
      BY <1>1, <1>2, <2>1, <2>2 DEF IInv, HeapInv, TypeOK
    <2>9. HeapInv!2'
      BY <1>2, <2>1 DEF IInv, HeapInv
    <2>10. QED
      BY <2>7, <2>8, <2>9 DEF HeapInv
  <1>4. CASE Found(t)
    <2>1. pc'[t] = "reading" /\ UNCHANGED <<state, parser, file_data, x, tmp>>
      BY <1>4 DEF Found, Goto, fileVars, localVars, IInv, TypeOK
    <2>2. \A g \in File : Owner(g)' <=> Owner(g)
      BY <1>2, <2>1 DEF Owner
    <2>3. \A q \in Reader : /\ Owning(q)' = Owning(q) /\ Parsed(q)' = Parsed(q)
                            /\ Held(q)' = Held(q) /\ Dropping(q)' = Dropping(q)
      BY <1>2, <2>1 DEF Owning, Parsed, Held, Dropping
    <2>4. \A q \in Reader : Count(q)' = Count(q)
      BY <2>3 DEF Count
    <2>5. Counted'
      BY <1>2, <2>4, CountedIs, CountedNext DEF IInv, TypeOK
    <2>6. HeapInv!1'
      BY <1>2, <2>1, <2>2 DEF IInv, HeapInv
    <2>7. HeapInv!2'
      BY <1>1, <1>2, <2>1 DEF IInv, HeapInv
    <2>8. QED
      BY <2>5, <2>6, <2>7 DEF HeapInv
  <1>5. QED
    BY <1>3, <1>4

(* The reader of a file that is deleted is held by nobody else.            *)
LEMMA DeleteReaderHeap ==
  ASSUME IInv, TypeOK', NEW t \in Thread, DeleteReader(t)
  PROVE  HeapInv' /\ Counted'
  <1>1. PICK f \in File : f = file_data[t] /\ pc[t] = "unread" /\ parser[f] = NULL
    BY DEF DeleteReader, Goto, IInv, PlaceInv, Deleting
  <1>2. /\ pc'[t] = "where" /\ open' = open \ {reader[f]}
        /\ \A u \in Thread : u # t => pc'[u] = pc[u]
        /\ UNCHANGED <<state, reader, parser, max_size, ref, id, file_data, x, tmp>>
    BY <1>1 DEF DeleteReader, Goto, fileVars, localVars, IInv, TypeOK
  <1>3. \A u \in Thread : u # t /\ pc[u] # "idle" => file_data[u] \in File /\ file_data[u] # f
    BY <1>1 DEF IInv, PlaceInv, Deleting
  <1>4. Owner(f) /\ (reader[f] \in open => id[reader[f]] = f)
    BY <1>1 DEF IInv, HeapInv, Owner, TypeOK
  <1>5. \A g \in File : Owner(g)' => Owner(g) /\ g # f
    <2>1. \A g \in File : Owner(g)' => Owner(g)
      BY <1>2 DEF Owner
    <2>2. ~Owner(f)'
      BY <1>1, <1>2, <1>3 DEF Owner, IInv, PlaceInv, Deleting
    <2>3. QED
      BY <2>1, <2>2
  <1>6. \A g \in File : g # f => (Owner(g)' <=> Owner(g))
    BY <1>1, <1>2 DEF Owner
  <1>7. \A g \in File : Owner(g)' /\ reader[g] \in Reader => reader[g] \in open'
    BY <1>2, <1>4, <1>5 DEF IInv, HeapInv
  <1>8. \A g \in File : parser[g] \in Reader => parser[g] \in open'
    BY <1>1, <1>2, <1>4, FileReaderCacheAssumption DEF IInv, HeapInv
  <1>9. \A u \in Thread :
          /\ pc[u] = "addref" => x[u] \in open' \/ ref[x[u]] = 0
          /\ pc[u] \in {"check", "reading"} => x[u] \in open'
          /\ pc[u] # "drop"
    <2> SUFFICES ASSUME NEW u \in Thread
                 PROVE  /\ pc[u] = "addref" => x[u] \in open' \/ ref[x[u]] = 0
                        /\ pc[u] \in {"check", "reading"} => x[u] \in open'
                        /\ pc[u] # "drop"
      OBVIOUS
    <2>1. max_size # 0 => pc[u] \notin Finding
      BY <1>1 DEF IInv, PlaceInv, Deleting
    <2>2. pc[u] # "drop"
      BY <2>1 DEF IInv, MarkInv, Marking, Finding
    <2>3. CASE pc[u] = "reading"
      BY <1>1, <1>2, <1>3, <1>4, <2>3 DEF IInv, HeapInv
    <2>4. CASE pc[u] \in {"addref", "check"}
      <3>1. max_size = 0 /\ u # t /\ file_data[u] \in File /\ file_data[u] # f
        BY <1>1, <1>3, <2>1, <2>4 DEF Finding
      <3>2. x[u] = reader[file_data[u]] /\ x[u] \in Reader /\ Owner(file_data[u])
        BY <2>4, <3>1 DEF IInv, HeapInv, Owner, PlaceInv, Finding, TypeOK
      <3>3. QED
        BY <1>2, <1>4, <2>4, <3>1, <3>2 DEF IInv, HeapInv
    <2>5. QED
      BY <2>2, <2>3, <2>4
  <1>10. \A q \in open' : Count(q)' = Count(q)
    <2> SUFFICES ASSUME NEW q \in open' PROVE Count(q)' = Count(q)
      OBVIOUS
    <2>1. q # reader[f]
      BY <1>2
    <2>2. Owning(q)' = Owning(q)
      BY <1>2, <1>6, <2>1 DEF Owning, Owner
    <2>3. Parsed(q)' = Parsed(q) /\ Held(q)' = Held(q) /\ Dropping(q)' = Dropping(q)
      BY <1>1, <1>2 DEF Parsed, Held, Dropping
    <2>4. QED
      BY <2>2, <2>3 DEF Count
  <1>11. Counted'
    BY <1>2, <1>10, CountedIs, CountedNext DEF IInv, TypeOK
  <1>12. HeapInv!1'
    BY <1>2, <1>5, <1>7, <1>8 DEF IInv, HeapInv
  <1>13. HeapInv!2'
    BY <1>1, <1>2, <1>9 DEF IInv, HeapInv
  <1>14. QED
    BY <1>11, <1>12, <1>13 DEF HeapInv


LEMMA HeapStep ==
  ASSUME IInv, TypeOK', NEW t \in Thread, Step(t)
  PROVE  HeapInv' /\ Counted'
  BY QuietSteps, DropHeap, GiveBackHeap, DeleteParserHeap, OpenHeap, DetachHeap,
     AddRefHeap, FoundHeap, DeleteReaderHeap DEF Step, FindStep, DeleteStep

-----------------------------------------------------------------------------
LEMMA StutterStep ==
  ASSUME IInv, UNCHANGED vars
  PROVE  IInv'
  <1> USE DEF vars, fileVars, heapVars, cacheVars, localVars
  <1>1. Slot' = Slot
    BY DEF Slot
  <1>2. \A f : Owner(f)' <=> Owner(f)
    BY DEF Owner
  <1>3. \A r : Owning(r)' = Owning(r)
    BY DEF Owning
  <1>4. TypeOK' /\ PlaceInv' /\ MarkInv'
    BY <1>1 DEF IInv, TypeOK, PlaceInv, MarkInv
  <1>5. HomeInv' /\ PosInv'
    BY <1>1 DEF IInv, HomeInv, Hosts, PosInv
  <1>6. HeapInv'
    BY <1>2 DEF IInv, HeapInv
  <1>7. Counted'
    BY <1>3 DEF IInv, Counted
  <1>8. QED
    BY <1>4, <1>5, <1>6, <1>7 DEF IInv

(* As long as no deletion has met a find, the invariant holds.             *)
LEMMA Invariant == Spec => [](~overlapped => IInv)
  <1>1. Init => (~overlapped => IInv)
    BY InitInv
  <1>2. (~overlapped => IInv) /\ [Next]_vars => (~overlapped => IInv)'
    <2> SUFFICES ASSUME ~overlapped => IInv, [Next]_vars, ~overlapped' PROVE IInv'
      OBVIOUS
    <2>0. IInv
      BY DEF vars, Next, AddFile, BeginRead, FindStep, DropFile, DeleteStep
    <2>1. CASE UNCHANGED vars
      BY <2>0, <2>1, StutterStep
    <2>2. CASE Next
      <3>1. PICK t \in Thread : Step(t)
        BY <2>2 DEF Next, Step
      <3>2. TypeOK'
        BY <2>0, <3>1, TypeStep
      <3>3. HeapInv' /\ Counted'
        BY <2>0, <3>1, <3>2, HeapStep
      <3>4. PlaceInv' /\ MarkInv' /\ HomeInv' /\ PosInv'
        BY <2>0, <3>1, PlaceStep, MarkStep, HomeStep, PosStep
      <3>5. QED
        BY <3>2, <3>3, <3>4 DEF IInv
    <2>3. QED
      BY <2>1, <2>2
  <1>3. QED
    BY <1>1, <1>2, PTL DEF Spec

(* Whoever has a reader reads the file it asked for through an open        *)
(* descriptor, and so does every file's parser, whatever the number of     *)
(* threads, files and slots, with a cache until a deletion meets a find    *)
(* (find, AddRef, DecRef, deletecache).                                    *)
THEOREM HeldStaysOpen == Spec => []HeldIsOpen
  <1>1. (~overlapped => IInv) => HeldIsOpen
    <2> SUFFICES ASSUME IInv PROVE HeldIsOpen
      BY DEF HeldIsOpen
    <2>1. \A f \in File : state[f] = "live" => parser[f] \in Reader
      BY DEF IInv, PlaceInv
    <2>2. QED
      BY <2>1 DEF IInv, HeapInv, HeldIsOpen
  <1>2. QED
    BY <1>1, Invariant, PTL

(* The count of an open reader is exactly the number of those who have it, *)
(* so that no step deletes a reader in use and none is left open for       *)
(* nobody, with a cache until a deletion meets a find (AddRef, DecRef).    *)
THEOREM CountsAreExact == Spec => []ReadersCounted
  <1>1. (~overlapped => IInv) => ReadersCounted
    BY DEF IInv, Counted, ReadersCounted
  <1>2. QED
    BY <1>1, Invariant, PTL

(* Without a cache no deletion meets a find: both hold at any time.        *)
THEOREM NoCacheNoOverlap == Spec => [](max_size = 0 => ~overlapped)
  <1>1. Init => (max_size = 0 => ~overlapped)
    BY DEF Init
  <1>2. (max_size = 0 => ~overlapped) /\ [Next]_vars => (max_size = 0 => ~overlapped)'
    BY DEF Next, vars, fileVars, AddFile, BeginRead, DropFile, EndRead,
           DuringDeletion, DuringFind,
           FindStep, ClaimOpening, LoadReader, Open, TakeTurn, Mark, Evict, Detach,
           Drop, Forget, Settle, AddRef, OtherFile, FoundForParser, Found,
           DeleteStep, DeleteParser, DeleteReader, Where, ClaimSlot, ClearSlot
  <1>3. QED
    BY <1>1, <1>2, PTL DEF Spec

-----------------------------------------------------------------------------
(* Slots have one user, deletions meeting finds or not: what of the types  *)
(* and places does not depend on readers.                                  *)
ShapeOK ==
    /\ max_size \in Nat
    /\ state \in [File -> {"new", "adding", "live", "deleting", "deleted"}]
    /\ reader_pos \in [File -> Slot \cup {None}]
    /\ cache_deleting \subseteq Slot
    /\ size \in Nat
    /\ max_size # 0 => size \in Slot
    /\ pc \in [Thread -> Place]
    /\ file_data \in [Thread -> File \cup {NULL}]
    /\ pos \in [Thread -> Slot \cup {None}]

FileInv ==
    \A t \in Thread :
        /\ pc[t] # "idle" => file_data[t] \in File
        /\ pc[t] \in Finding \cup {"reading"} => state[file_data[t]] \in {"adding", "live"}
        /\ pc[t] \in Deleting =>
              /\ state[file_data[t]] = "deleting"
              /\ \A u \in Thread : u # t => file_data[u] # file_data[t]
        /\ pc[t] \in {"claim", "clear"} =>
              reader_pos[file_data[t]] \in {None, pos[t]}

(* A mark that a thread has set is its own; there may be marks of nobody.  *)
OwnMark ==
    /\ \A t \in Thread :
          /\ pc[t] \in {"turn", "mark", "claim"} \cup Marking => max_size # 0
          /\ pc[t] \in {"mark", "claim"} \cup Marking => pos[t] \in Slot
          /\ pc[t] \in Marking => pos[t] \in cache_deleting
    /\ \A t, u \in Thread :
          pc[t] \in Marking /\ pc[u] \in Marking /\ pos[t] = pos[u] => t = u

ExclInv == ShapeOK /\ FileInv /\ OwnMark

(* The actions that touch neither files' states nor slots.                 *)
Elsewhere(t) == \/ ClaimOpening(t) \/ LoadReader(t) \/ Open(t) \/ Detach(t)
                \/ Drop(t) \/ AddRef(t) \/ OtherFile(t) \/ Found(t)
                \/ DeleteParser(t) \/ DeleteReader(t)

LEMMA ElsewhereStays ==
  ASSUME ExclInv, NEW t \in Thread, Elsewhere(t)
  PROVE  /\ UNCHANGED <<max_size, state, reader_pos, cache_deleting, size, file_data, pos>>
         /\ \A u \in Thread : u # t => pc'[u] = pc[u]
         /\ pc' \in [Thread -> Place]
         /\ \/ pc[t] = "look" /\ pc'[t] \in {"open", "addref"}
            \/ pc[t] = "open" /\ pc'[t] = "look"
            \/ pc[t] = "open" /\ pc'[t] = "turn" /\ max_size # 0
            \/ pc[t] = "detach" /\ pc'[t] = "drop"
            \/ pc[t] = "drop" /\ pc'[t] = "forget"
            \/ pc[t] \in {"addref", "check"} /\ pc'[t] \in {"look", "check", "reading"}
            \/ pc[t] = "unparse" /\ pc'[t] = "unread"
            \/ pc[t] = "unread" /\ pc'[t] = "where"
  <1> USE DEF ExclInv, ShapeOK, Place, Finding, Deleting, Goto,
              fileVars, cacheVars, localVars
  <1>1. CASE ClaimOpening(t) \/ LoadReader(t) \/ Open(t) \/ Detach(t) \/ Drop(t)
    BY <1>1 DEF ClaimOpening, LoadReader, Open, Detach, Drop
  <1>2. CASE AddRef(t) \/ OtherFile(t) \/ Found(t)
    BY <1>2 DEF AddRef, OtherFile, Found
  <1>3. CASE DeleteParser(t) \/ DeleteReader(t)
    BY <1>3 DEF DeleteParser, DeleteReader
  <1>4. QED
    BY <1>1, <1>2, <1>3 DEF Elsewhere

LEMMA ExclElsewhere ==
  ASSUME ExclInv, NEW t \in Thread, Elsewhere(t)
  PROVE  ExclInv'
  <1>0. Slot' = Slot
    BY ElsewhereStays DEF Slot
  <1>1. ShapeOK'
    BY <1>0, ElsewhereStays DEF ExclInv, ShapeOK
  <1>2. FileInv'
    BY ElsewhereStays DEF ExclInv, FileInv, Finding, Deleting
  <1>3. OwnMark'
    BY <1>0, ElsewhereStays DEF ExclInv, OwnMark, Marking
  <1>4. QED
    BY <1>1, <1>2, <1>3 DEF ExclInv

(* A thread calls find or ~RelVersion, or returns.                         *)
LEMMA ExclEnds ==
  ASSUME ExclInv, NEW t \in Thread,
         AddFile(t) \/ BeginRead(t) \/ DropFile(t) \/ FoundForParser(t) \/ EndRead(t)
  PROVE  ExclInv'
  <1> USE FileReaderCacheAssumption
  <1>0. /\ UNCHANGED <<max_size, reader_pos, cache_deleting, size>> /\ Slot' = Slot
        /\ pc' \in [Thread -> Place] /\ pc'[t] \in {"look", "unparse", "idle"}
        /\ pc[t] \in {"idle", "check", "reading"}
        /\ \A u \in Thread : u # t => /\ pc'[u] = pc[u] /\ pos'[u] = pos[u]
                                      /\ file_data'[u] = file_data[u]
        /\ pos' \in [Thread -> Slot \cup {None}]
    BY DEF AddFile, BeginRead, DropFile, FoundForParser, EndRead, Goto, Done, Slot,
           ExclInv, ShapeOK, Place, Finding, Deleting, fileVars, cacheVars
  <1>1. OwnMark'
    BY <1>0 DEF ExclInv, OwnMark, Marking
  <1>2. CASE AddFile(t) \/ BeginRead(t) \/ DropFile(t)
    <2>1. PICK f \in File :
            /\ file_data' = [file_data EXCEPT ![t] = f]
            /\ pc[t] = "idle"
            /\ \/ /\ pc'[t] = "look"
                  /\ \/ state[f] = "new" /\ state' = [state EXCEPT ![f] = "adding"]
                     \/ state[f] = "live" /\ state' = state
               \/ /\ pc'[t] = "unparse" /\ state[f] = "live"
                  /\ \A u \in Thread : file_data[u] # f
                  /\ state' = [state EXCEPT ![f] = "deleting"]
      BY <1>2 DEF AddFile, BeginRead, DropFile, Goto, ExclInv, ShapeOK, fileVars
    <2>2. ShapeOK'
      BY <1>0, <2>1 DEF ExclInv, ShapeOK
    <2>3. FileInv'
      <3> SUFFICES ASSUME NEW u \in Thread PROVE FileInv!(u)'
        BY DEF FileInv
      <3>1. \A w \in Thread : pc[w] \in Deleting => file_data[w] # f
        BY <2>1 DEF ExclInv, FileInv, ShapeOK, Finding
      <3>2. CASE u = t
        BY <1>0, <2>1, <3>2 DEF ExclInv, FileInv, ShapeOK, Finding, Deleting
      <3>3. CASE u # t
        BY <1>0, <2>1, <3>1, <3>3 DEF ExclInv, FileInv, ShapeOK, Finding, Deleting
      <3>4. QED
        BY <3>2, <3>3
    <2>4. QED
      BY <1>1, <2>2, <2>3 DEF ExclInv
  <1>3. CASE FoundForParser(t) \/ EndRead(t)
    <2>1. /\ pc'[t] = "idle" /\ file_data' = [file_data EXCEPT ![t] = NULL]
          /\ \/ state' = state
             \/ /\ file_data[t] \in File /\ state[file_data[t]] = "adding"
                /\ state' = [state EXCEPT ![file_data[t]] = "live"]
      BY <1>3 DEF FoundForParser, EndRead, Goto, Done, ExclInv, ShapeOK, FileInv, fileVars
    <2>2. ShapeOK'
      BY <1>0, <2>1 DEF ExclInv, ShapeOK
    <2>3. FileInv'
      <3> SUFFICES ASSUME NEW u \in Thread, u # t PROVE FileInv!(u)'
        BY <2>1 DEF FileInv, Finding, Deleting
      <3>1. QED
        BY <1>0, <2>1 DEF ExclInv, FileInv, ShapeOK, Finding, Deleting
    <2>4. QED
      BY <1>1, <2>2, <2>3 DEF ExclInv
  <1>4. QED
    BY <1>2, <1>3

(* The slots are taken in turn, marked and emptied.                        *)
LEMMA ExclSlots ==
  ASSUME ExclInv, NEW t \in Thread,
         TakeTurn(t) \/ Mark(t) \/ Evict(t) \/ Forget(t) \/ Settle(t)
  PROVE  ExclInv'
  <1>0. /\ UNCHANGED <<max_size, state, file_data>> /\ Slot' = Slot
        /\ \A u \in Thread : u # t => pc'[u] = pc[u] /\ pos'[u] = pos[u]
        /\ pc' \in [Thread -> Place]
        /\ pc[t] \in {"turn", "mark", "evict", "forget", "settle"}
        /\ pc'[t] \in {"turn", "mark", "evict", "detach", "settle", "look"}
    BY DEF TakeTurn, Mark, Evict, Forget, Settle, Goto, Slot, fileVars, localVars,
           ExclInv, ShapeOK, Place, Finding, Deleting
  <1>1. CASE TakeTurn(t)
    <2>1. max_size # 0 /\ size \in Slot /\ size' \in Slot /\ size' \in Nat
      <3>1. max_size # 0 /\ size \in Slot
        BY <1>1 DEF TakeTurn, Goto, ExclInv, OwnMark, ShapeOK
      <3>2. QED
        BY <1>1, <3>1, TurnInRange DEF TakeTurn, ExclInv, ShapeOK
    <2>2. /\ UNCHANGED <<reader_pos, cache_deleting>>
          /\ pos' = [pos EXCEPT ![t] = size] /\ pc'[t] = "mark" /\ pc[t] = "turn"
      BY <1>1 DEF TakeTurn, Goto, fileVars, ExclInv, ShapeOK
    <2>3. ShapeOK'
      BY <1>0, <2>1, <2>2 DEF ExclInv, ShapeOK
    <2>4. FileInv'
      BY <1>0, <2>2 DEF ExclInv, FileInv, Finding, Deleting
    <2>5. OwnMark'
      BY <1>0, <2>1, <2>2 DEF ExclInv, OwnMark, ShapeOK, Marking
    <2>6. QED
      BY <2>3, <2>4, <2>5 DEF ExclInv
  <1>2. CASE Mark(t) \/ Evict(t)
    <2>1. /\ UNCHANGED <<reader_pos, size, pos>>
          /\ \/ /\ pc[t] = "mark" /\ pc'[t] \in {"turn", "evict"}
                /\ pc'[t] = "evict" => pos[t] \notin cache_deleting
                /\ cache_deleting' = cache_deleting \cup {pos[t]}
             \/ /\ pc[t] = "evict" /\ pc'[t] \in {"settle", "turn", "detach"}
                /\ cache_deleting' = cache_deleting
      BY <1>2 DEF Mark, Evict, Goto, fileVars, cacheVars, localVars, ExclInv, ShapeOK
    <2>2. max_size # 0 /\ pos[t] \in Slot
      BY <2>1 DEF ExclInv, OwnMark, Marking
    <2>3. ShapeOK'
      BY <1>0, <2>1, <2>2 DEF ExclInv, ShapeOK
    <2>4. FileInv'
      BY <1>0, <2>1 DEF ExclInv, FileInv, Finding, Deleting
    <2>5. OwnMark'
      BY <1>0, <2>1, <2>2 DEF ExclInv, OwnMark, ShapeOK, Marking
    <2>6. QED
      BY <2>3, <2>4, <2>5 DEF ExclInv
  <1>3. CASE Forget(t)
    <2>1. /\ UNCHANGED <<size, pos, cache_deleting>>
          /\ pc[t] = "forget" /\ pc'[t] = "settle"
          /\ reader_pos' \in [File -> Slot \cup {None}]
          /\ \A f \in File : reader_pos'[f] \in {reader_pos[f], None}
      BY <1>3 DEF Forget, Goto, cacheVars, localVars, ExclInv, ShapeOK
    <2>2. ShapeOK'
      BY <1>0, <2>1 DEF ExclInv, ShapeOK
    <2>3. FileInv'
      BY <1>0, <2>1 DEF ExclInv, FileInv, Finding, Deleting
    <2>4. OwnMark'
      BY <1>0, <2>1 DEF ExclInv, OwnMark, Marking
    <2>5. QED
      BY <2>2, <2>3, <2>4 DEF ExclInv
  <1>4. CASE Settle(t)
    <2>1. /\ size' = size /\ pc[t] = "settle" /\ pc'[t] = "look"
          /\ pos' = [pos EXCEPT ![t] = None]
          /\ reader_pos' = [reader_pos EXCEPT ![file_data[t]] = pos[t]]
          /\ cache_deleting' = cache_deleting \ {pos[t]}
      BY <1>4 DEF Settle, Goto, ExclInv, ShapeOK
    <2>2. file_data[t] \in File /\ pos[t] \in Slot
          /\ state[file_data[t]] \in {"adding", "live"}
      BY <2>1 DEF ExclInv, FileInv, OwnMark, Marking, Finding
    <2>3. ShapeOK'
      BY <1>0, <2>1, <2>2 DEF ExclInv, ShapeOK
    <2>4. FileInv'
      <3> SUFFICES ASSUME NEW u \in Thread PROVE FileInv!(u)'
        BY DEF FileInv
      <3>1. CASE u = t
        BY <1>0, <2>1, <2>2, <3>1 DEF ExclInv, FileInv, Finding, Deleting
      <3>2. CASE u # t
        <4>1. pc[u] \in Deleting => file_data[u] # file_data[t]
          BY <3>2 DEF ExclInv, FileInv
        <4>2. pc[u] \in {"claim", "clear"} =>
                reader_pos'[file_data[u]] = reader_pos[file_data[u]]
          BY <2>1, <2>2, <4>1 DEF ExclInv, ShapeOK, FileInv, Deleting
        <4>3. QED
          BY <1>0, <3>2, <4>2 DEF ExclInv, FileInv
      <3>3. QED
        BY <3>1, <3>2
    <2>5. OwnMark'
      BY <1>0, <2>1, <2>2 DEF ExclInv, OwnMark, ShapeOK, Marking
    <2>6. QED
      BY <2>3, <2>4, <2>5 DEF ExclInv
  <1>5. QED
    BY <1>1, <1>2, <1>3, <1>4

(* deletecache clears the slot it has marked, or none: meanwhile the file  *)
(* can only have been taken out of the slot.                               *)
LEMMA ExclDelete ==
  ASSUME ExclInv, NEW t \in Thread, Where(t) \/ ClaimSlot(t) \/ ClearSlot(t)
  PROVE  ExclInv'
  <1> USE FileReaderCacheAssumption
  <1>0. /\ UNCHANGED <<max_size, reader_pos, size>> /\ Slot' = Slot
        /\ \A u \in Thread : u # t => /\ pc'[u] = pc[u] /\ pos'[u] = pos[u]
                                      /\ file_data'[u] = file_data[u]
        /\ pc' \in [Thread -> Place]
        /\ pc[t] \in {"where", "claim", "clear"} /\ pc'[t] \in {"idle", "where", "claim", "clear"}
    BY DEF Where, ClaimSlot, ClearSlot, Deleted, Done, Goto, Slot, fileVars, cacheVars,
           localVars, ExclInv, ShapeOK, Place, Finding, Deleting
  <1>1. /\ file_data[t] \in File /\ state[file_data[t]] = "deleting"
        /\ \A u \in Thread : u # t => file_data[u] # file_data[t]
    BY <1>0 DEF ExclInv, FileInv, Deleting
  <1>2. CASE pc'[t] = "idle"
    <2>1. /\ state' = [state EXCEPT ![file_data[t]] = "deleted"]
          /\ file_data' = [file_data EXCEPT ![t] = NULL]
          /\ pos' = [pos EXCEPT ![t] = None]
          /\ \/ cache_deleting' = cache_deleting
             \/ /\ pc[t] = "clear" /\ reader_pos[file_data[t]] # None
                /\ cache_deleting' = cache_deleting \ {reader_pos[file_data[t]]}
      BY <1>0, <1>2 DEF Where, ClaimSlot, ClearSlot, Deleted, Done, Goto, cacheVars,
                        ExclInv, ShapeOK
    <2>2. cache_deleting' \in {cache_deleting, cache_deleting \ {pos[t]}}
          /\ (cache_deleting' # cache_deleting => pc[t] = "clear")
      BY <2>1 DEF ExclInv, FileInv
    <2>3. ShapeOK'
      BY <1>0, <1>1, <2>1, <2>2 DEF ExclInv, ShapeOK
    <2>4. FileInv'
      <3> SUFFICES ASSUME NEW u \in Thread, u # t PROVE FileInv!(u)'
        BY <1>2, <2>1 DEF FileInv, Finding, Deleting
      <3>1. QED
        BY <1>0, <1>1, <2>1 DEF ExclInv, FileInv, ShapeOK, Finding, Deleting
    <2>5. OwnMark'
      <3>1. ASSUME NEW u \in Thread, u # t, pc[u] \in Marking
            PROVE  pos[u] \in cache_deleting'
        BY <2>2, <3>1 DEF ExclInv, OwnMark, Marking
      <3>2. QED
        BY <1>0, <1>2, <3>1 DEF ExclInv, OwnMark, Marking
    <2>6. QED
      BY <2>3, <2>4, <2>5 DEF ExclInv
  <1>3. CASE pc'[t] # "idle"
    <2>1. /\ UNCHANGED <<state, file_data>>
          /\ \/ /\ pc[t] = "where" /\ pc'[t] = "claim" /\ UNCHANGED cache_deleting
                /\ reader_pos[file_data[t]] # None
                /\ pos' = [pos EXCEPT ![t] = reader_pos[file_data[t]]]
             \/ /\ pc[t] = "claim" /\ pos' = pos /\ pc'[t] \in {"where", "clear"}
                /\ pc'[t] = "clear" => pos[t] \notin cache_deleting
                /\ cache_deleting' = cache_deleting \cup {pos[t]}
      BY <1>0, <1>3 DEF Where, ClaimSlot, ClearSlot, Goto, fileVars, cacheVars, localVars,
                        ExclInv, ShapeOK
    <2>2. /\ pos'[t] \in Slot /\ max_size # 0
          /\ pos' \in [Thread -> Slot \cup {None}]
          /\ pc[t] = "claim" => pos[t] \in Slot
      <3>1. pc[t] = "where" => reader_pos[file_data[t]] \in Slot
        BY <1>1, <2>1 DEF ExclInv, ShapeOK
      <3>2. Slot # {} => max_size # 0
        BY DEF Slot, ExclInv, ShapeOK
      <3>3. QED
        BY <2>1, <3>1, <3>2 DEF ExclInv, OwnMark, ShapeOK
    <2>3. ShapeOK'
      BY <1>0, <2>1, <2>2 DEF ExclInv, ShapeOK
    <2>4. FileInv'
      <3> SUFFICES ASSUME NEW u \in Thread PROVE FileInv!(u)'
        BY DEF FileInv
      <3>1. CASE u = t
        BY <1>0, <1>1, <2>1, <3>1 DEF ExclInv, FileInv, ShapeOK, Finding, Deleting
      <3>2. CASE u # t
        BY <1>0, <2>1, <3>2 DEF ExclInv, FileInv
      <3>3. QED
        BY <3>1, <3>2
    <2>5. OwnMark'
      BY <1>0, <2>1, <2>2 DEF ExclInv, OwnMark, ShapeOK, Marking
    <2>6. QED
      BY <2>3, <2>4, <2>5 DEF ExclInv
  <1>4. QED
    BY <1>2, <1>3

(* No two threads use one slot, whatever is found, evicted and deleted at  *)
(* the same time, for any numbers of threads, files and slots (find,       *)
(* deletecache): also where a deletion has met a find.                     *)
THEOREM SlotsStayExclusive == Spec => []SlotsExclusive
  <1>1. Init => ExclInv
    BY FileReaderCacheAssumption
       DEF Init, ExclInv, ShapeOK, FileInv, OwnMark, Slot, Place, None, Finding,
           Deleting, Marking
  <1>2. ExclInv /\ [Next]_vars => ExclInv'
    <2> SUFFICES ASSUME ExclInv, [Next]_vars PROVE ExclInv'
      OBVIOUS
    <2>1. CASE UNCHANGED vars
      BY <2>1 DEF vars, fileVars, heapVars, cacheVars, localVars,
                  ExclInv, ShapeOK, FileInv, OwnMark, Slot
    <2>2. CASE Next
      <3>1. PICK t \in Thread : Step(t)
        BY <2>2 DEF Next, Step
      <3>2. QED
        BY <3>1, ExclElsewhere, ExclEnds, ExclSlots, ExclDelete
           DEF Step, FindStep, DeleteStep, Elsewhere
    <2>3. QED
      BY <2>1, <2>2
  <1>3. ExclInv => SlotsExclusive
    BY DEF ExclInv, OwnMark, SlotsExclusive, HasSlot, Marking
  <1>4. QED
    BY <1>1, <1>2, <1>3, PTL DEF Spec
=============================================================================
