---------------------------- MODULE MCFileBlocks -----------------------------
(* Instances of FileBlocks for TLC: a direct slot and one of indirect      *)
(* blocks.                                                                 *)
EXTENDS FileBlocks, TLC
MCDepth == <<0, 2>>
MCSymmetry == Permutations(Procs) \cup Permutations(Files)
=============================================================================
