----------------------------- MODULE MCDirectory -----------------------------
(* Instances of Directory for TLC: names in the root, and in a directory   *)
(* below it.                                                               *)
EXTENDS Directory, TLC
MCPaths == {<<"a">>, <<"b">>, <<"a", "b">>}
MCNewPaths == {<<"b">>}
MCSymmetry == Permutations(Procs)
=============================================================================
