---------------------------- MODULE MCBufferCache ----------------------------
(* Instances of BufferCache for TLC: buffer 1 holds a bitmap, block `map'.  *)
EXTENDS BufferCache, TLC
CONSTANT map
MCOneBitmap == {[b \in {1} |-> map]}
MCSymmetry == Permutations(Procs) \cup Permutations(Blocks \ {map})
Lost == refetched \cup late \cup lost

\* At most one buffer is dirty, and none while processes hold buffers and
\* ask for others; contents are lost in one way at a time (two blocks when a
\* buffer is taken while it is locked, until that buffer is read), and when
\* they have been lost the calls under way are finished and no new one begins,
\* but a sync() beside a getblk() that waits in sync_dev().
MCBounds ==
    /\ Cardinality({b \in Buffers : buf[b].dirt}) <= 1
    /\ (\E b \in Buffers : buf[b].dirt) => \A p \in Procs : Keeps(p) = {}
    /\ Cardinality(refetched \cup late) + (IF lost = {} THEN 0 ELSE 1) <= 1
    /\ Cardinality(lost) <= 1 \/ \E p \in Procs : At(p, "lockwait")
    /\ Lost # {} => \A p \in Procs :
         /\ Keeps(p) = {} /\ ~At(p, "find")
         /\ At(p, "sync") /\ bh[p] = NoBuffer /\ idx[p] = 1
              => \E q \in Procs : pc[q] = "syncwait" /\ bh[q] # NoBuffer /\ buf[bh[q]].dirt
=============================================================================
