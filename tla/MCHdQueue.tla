------------------------------ MODULE MCHdQueue ------------------------------
(* Instances of HdQueue for TLC: process p owns the block at position p.   *)
(* The sectors of a block either both hold the same, or never do.          *)
EXTENDS HdQueue
MCPosition == [p \in Procs |-> p]
MCOneContent == {[i \in {0, 1} |-> 0]}
MCContents == {[i \in {0, 1} |-> i], [i \in {0, 1} |-> 1 - i]}
=============================================================================
