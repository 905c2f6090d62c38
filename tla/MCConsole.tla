----------------------------- MODULE MCConsole -----------------------------
(* Instance of Console for TLC: the memory has room for one more row than  *)
(* the screen.  At most two cells are not blank, and one while a cursor    *)
(* other than the first is saved.                                          *)
EXTENDS Console, FiniteSets
MCFewGlyphs ==
    Cardinality({i \in Words : scr.mem[i] # Blank})
        <= IF saved = [x |-> 0, y |-> 0] THEN 2 ELSE 1
=============================================================================
