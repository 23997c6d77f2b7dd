------------------------- MODULE MCFileReaderCache --------------------------
(* An instance of FileReaderCache for TLC.  Two threads and three files    *)
(* are the least that evict each other's readers from two slots.  No       *)
(* symmetry: liveness is checked.                                          *)
EXTENDS FileReaderCache

(* No cache, fewer slots than threads, a slot for each of them.            *)
Sizes == {0, 1, 2}
Addresses == 1 .. 8
=============================================================================
