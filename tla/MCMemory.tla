------------------------------ MODULE MCMemory ------------------------------
(* Instances of Memory for TLC: three tasks, of which one is init, one     *)
(* page directory entry for the old segment and one for the stack.         *)
EXTENDS Memory, TLC

MCAddr(d) == {<<d, "x">>}
MCArgAddrs == MCAddr(1)
MCPipeAddrs == MCAddr(1)
Symmetry == Permutations(Frames) \cup Permutations(Tasks \ {FirstTask})
=============================================================================
