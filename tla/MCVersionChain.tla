--------------------------- MODULE MCVersionChain ---------------------------
(* Instances of VersionChain for TLC.  V0 is one of the addresses; the     *)
(* others are interchangeable, and so are files and threads of a kind.     *)
EXTENDS VersionChain, TLC

Symmetry == Permutations(Client) \cup Permutations(Compactor)
            \cup Permutations(Addr \ {V0}) \cup Permutations(File)
=============================================================================
