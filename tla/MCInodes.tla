------------------------------ MODULE MCInodes -------------------------------
(* Instances of Inodes for TLC. *)
EXTENDS Inodes, TLC
MCSymmetry == Permutations(Procs)
=============================================================================
