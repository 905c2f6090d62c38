----------------------------- MODULE BufferCache -----------------------------
(***************************************************************************)
(* The block cache: fs/buffer.c, with the disk driver reduced to transfers *)
(* that end in any order.                                                  *)
(*                                                                         *)
(* A process runs in the kernel until it sleeps; the steps between two     *)
(* sleeps are separate actions here, but no other process runs between     *)
(* them (MayRun).  Transfers end at any time.  One device.                 *)
(*                                                                         *)
(* Of the contents of a block only this is kept: a copy is "new", what was *)
(* last put in the block, or "old".  Putting something in a block makes    *)
(* every other copy of it old.                                             *)
(***************************************************************************)
EXTENDS Integers, FiniteSets

CONSTANTS Procs,
          NR_BUFFERS, \* buffers are numbered as they lie in memory
          Blocks,
          Bitmaps,    \* which buffers may hold bitmap blocks, and which blocks
          Errors,     \* TRUE: a transfer can fail
          MaxKept     \* how many buffers a process may hold while it asks for
                      \* another (find_entry and iput, _bmap and new_block,
                      \* free_dind and free_ind)

Buffers == 1..NR_BUFFERS
NoBlock == 0
NoBuffer == 0
Copies == {"new", "old"}

ASSUME BufferAssumption ==
    /\ IsFiniteSet(Procs) /\ NR_BUFFERS \in Nat /\ NoBlock \notin Blocks
    /\ Errors \in BOOLEAN /\ MaxKept \in Nat
    /\ \A f \in Bitmaps : /\ f \in [DOMAIN f -> Blocks] /\ DOMAIN f \subseteq Buffers
                         /\ DOMAIN f # {}
                         /\ Cardinality(Buffers \ DOMAIN f) > MaxKept * Cardinality(Procs)
                         /\ \A b, c \in DOMAIN f : f[b] = f[c] => b = c

VARIABLES
    buf,       \* buf[b]: b_blocknr (NoBlock: b_dev = 0), b_count, b_dirt,
               \* b_uptodate, b_lock and b_data of the buffer head
    hashed,    \* the buffers in the hash table
    next_free, \* the links of the free list
    prev_free,
    free_list, \* its head
    io,        \* io[b]: the transfer under way; "sent" and "sentold" when
               \* the controller has taken the data of a write
    dest,      \* dest[b]: the block of that transfer
    disk,      \* disk[x]: the copy of block x on the disk
    refetched, \* blocks brought in while their old buffer was still to be
               \* written out (ghost)
    late,      \* blocks changed after the data of a write had left, and not
               \* written since (ghost)
    lost,      \* blocks whose write the driver has given up, or whose buffer
               \* was taken while it was written for another block (ghost)
    pc,        \* where each process is
    want,      \* want[p]: the block it asks for
    bh,        \* bh[p]: the buffer it has found or tries
    kept,      \* kept[p][b]: the block p holds buffer b for while it asks for
               \* another one, or NoBlock
    idx,       \* idx[p]: the buffer sync_dev() or sys_sync() is at
    pinned     \* pinned[b]: the bitmap block that buffer b holds for good,
               \* as the device has been mounted

cache == <<buf, hashed, next_free, prev_free, free_list>>
races == <<refetched, late, lost>>
device == <<io, dest, disk, races, pinned>>
vars == <<cache, device, pc, want, bh, kept, idx>>

Running == {"find", "scan", "evict", "take", "got", "sync"}
Sleeping == {"hashwait", "scanwait", "bufwait", "woken", "syncwait", "syncio",
             "lockwait", "readwait", "failed"}

TypeOK ==
    /\ buf \in [Buffers -> [blk : Blocks \cup {NoBlock}, count : 0..Cardinality(Procs) + 1,
                            dirt : BOOLEAN, uptodate : BOOLEAN, lock : BOOLEAN,
                            data : Copies]]
    /\ hashed \subseteq Buffers
    /\ next_free \in [Buffers -> Buffers] /\ prev_free \in [Buffers -> Buffers]
    /\ free_list \in Buffers
    /\ io \in [Buffers -> {"none", "read", "write", "sent", "sentold"}]
    /\ dest \in [Buffers -> Blocks \cup {NoBlock}]
    /\ disk \in [Blocks -> Copies] /\ refetched \cup late \cup lost \subseteq Blocks
    /\ pc \in [Procs -> Running \cup Sleeping \cup {"idle", "hold"}]
    /\ want \in [Procs -> Blocks \cup {NoBlock}]
    /\ bh \in [Procs -> Buffers \cup {NoBuffer}]
    /\ kept \in [Procs -> [Buffers -> Blocks \cup {NoBlock}]]
    /\ idx \in [Procs -> 0..NR_BUFFERS + 1]

(* After mount_root(): the bitmaps are read in and held. *)
Init ==
    /\ pinned \in Bitmaps
    /\ disk = [x \in Blocks |-> "new"] /\ refetched = {} /\ late = {} /\ lost = {}
    /\ buf = [b \in Buffers |->
                [blk |-> IF b \in DOMAIN pinned THEN pinned[b] ELSE NoBlock,
                 count |-> IF b \in DOMAIN pinned THEN 1 ELSE 0,
                 dirt |-> FALSE, uptodate |-> b \in DOMAIN pinned, lock |-> FALSE,
                 data |-> IF b \in DOMAIN pinned THEN "new" ELSE "old"]]
    /\ hashed = DOMAIN pinned
    /\ next_free = [b \in Buffers |-> IF b = NR_BUFFERS THEN 1 ELSE b + 1]
    /\ prev_free = [b \in Buffers |-> IF b = 1 THEN NR_BUFFERS ELSE b - 1]
    /\ free_list = 1
    /\ io = [b \in Buffers |-> "none"] /\ dest = [b \in Buffers |-> NoBlock]
    /\ pc = [p \in Procs |-> "idle"]
    /\ want = [p \in Procs |-> NoBlock] /\ bh = [p \in Procs |-> NoBuffer]
    /\ kept = [p \in Procs |-> [b \in Buffers |-> NoBlock]]
    /\ idx = [p \in Procs |-> 0]

MayRun(p) == \A q \in Procs \ {p} : pc[q] \notin Running
At(p, l) == pc[p] = l /\ MayRun(p)
Goto(p, l) == pc' = [pc EXCEPT ![p] = l]
Awake(b) == ~buf[b].lock

-----------------------------------------------------------------------------
(* The queues *)

RemoveFromQueues(b) ==
    /\ hashed' = hashed \ {b}
    /\ LET n == next_free[b]
           q == prev_free[b]
       IN /\ next_free' = [next_free EXCEPT ![q] = n]
          /\ prev_free' = [prev_free EXCEPT ![n] = q]
          /\ free_list' = IF free_list = b THEN n ELSE free_list

(* At the end of the free list; in the hash table if it has a device. *)
\* faulty: the last buffer of the list is not linked to the new one
InsertHalfLinked(b, x) ==
    /\ hashed' = IF x = NoBlock THEN hashed ELSE hashed \cup {b}
    /\ next_free' = [next_free EXCEPT ![b] = free_list]
    /\ prev_free' = [prev_free EXCEPT ![b] = prev_free[free_list], ![free_list] = b]
    /\ UNCHANGED free_list
InsertIntoQueues(b, x) ==
    LET q == prev_free[free_list] IN
    /\ hashed' = IF x = NoBlock THEN hashed ELSE hashed \cup {b}
    /\ next_free' = [next_free EXCEPT ![b] = free_list, ![q] = b]
    /\ prev_free' = [prev_free EXCEPT ![b] = q, ![free_list] = b]
    /\ UNCHANGED free_list

(* find_buffer(); a block whose buffer getblk() is writing out has none.   *)
Evicting(x) == {b \in Buffers \ hashed : buf[b].blk = x}
Cached(x) == {b \in hashed : buf[b].blk = x}

(* wake_up(&buffer_wait): the last sleeper wakes, and each wakes the one   *)
(* before it as the first thing it does.  The caller goes on at l.         *)
\* faulty: nobody wakes
WakeNobody(p, l) == Goto(p, l)
WakeBufferWait(p, l) ==
    pc' = [q \in Procs |-> IF pc[q] = "bufwait" THEN "woken"
                           ELSE IF q = p THEN l ELSE pc[q]]

-----------------------------------------------------------------------------
(* getblk() *)

(* A process asks for a block.  It may hold others, never the same one:    *)
(* the entry of a file while iput() gives its inode back, an indirect      *)
(* block while new_block() takes a free one or free_ind() reads the next.  *)
Keeps(p) == {b \in Buffers : kept[p][b] # NoBlock}
Ask(p, x) ==
    /\ \/ At(p, "idle") /\ UNCHANGED kept
       \/ /\ At(p, "hold") /\ Cardinality(Keeps(p)) < MaxKept
          /\ x # want[p] /\ \A b \in Buffers : kept[p][b] # x
          /\ kept' = [kept EXCEPT ![p][bh[p]] = want[p]]
    /\ want' = [want EXCEPT ![p] = x]
    /\ Goto(p, "find")
    /\ UNCHANGED <<cache, device, bh, idx>>

(* get_hash_table() finds a buffer, and waits for it if it is locked. *)
\* faulty: b_count is not raised
FoundUncounted(p, b) == UNCHANGED buf
Found(p, b) == buf' = [buf EXCEPT ![b].count = @ + 1]
Find(p) ==
    /\ At(p, "find") \/ At(p, "woken")
    /\ \/ \E b \in Cached(want[p]) :
            /\ Found(p, b)
            /\ bh' = [bh EXCEPT ![p] = b]
            /\ Goto(p, IF buf[b].lock THEN "hashwait" ELSE "got")
       \/ /\ Cached(want[p]) = {}
          /\ bh' = [bh EXCEPT ![p] = free_list]
          /\ Goto(p, "scan")
          /\ UNCHANGED buf
    /\ UNCHANGED <<hashed, next_free, prev_free, free_list, device,
                   want, kept, idx>>

HashWake(p) ==
    /\ At(p, "hashwait") /\ Awake(bh[p])
    /\ IF buf[bh[p]].blk = want[p]
       THEN Goto(p, "got") /\ UNCHANGED buf
       ELSE /\ buf' = [buf EXCEPT ![bh[p]].count = @ - 1]
            /\ WakeBufferWait(p, "find")
    /\ UNCHANGED <<hashed, next_free, prev_free, free_list, device,
                   want, bh, kept, idx>>

(* The search of the free list for a buffer nobody uses; it waits for one  *)
(* that is being written, and for any when all are in use.                 *)
NextToTry(p) ==
    LET b == next_free[bh[p]] IN
    /\ bh' = [bh EXCEPT ![p] = IF b = free_list THEN NoBuffer ELSE b]
    /\ Goto(p, IF b = free_list THEN "bufwait" ELSE "scan")

Scan(p) ==
    /\ At(p, "scan")
    /\ IF buf[bh[p]].count # 0 THEN NextToTry(p)
       ELSE Goto(p, IF buf[bh[p]].lock THEN "scanwait" ELSE "evict") /\ UNCHANGED bh
    /\ UNCHANGED <<cache, device, want, kept, idx>>

\* faulty: b_count is not looked at again after the wait
UnusedNotChecked(b) == TRUE
Unused(b) == buf[b].count = 0
ScanWake(p) ==
    /\ At(p, "scanwait") /\ Awake(bh[p])
    /\ IF Unused(bh[p]) THEN Goto(p, "evict") /\ UNCHANGED bh
       ELSE NextToTry(p)
    /\ UNCHANGED <<cache, device, want, kept, idx>>

(* Take the buffer out of the queues; write it out first if it is dirty.   *)
\* faulty: a dirty buffer is not written
NeedsNoWriting(b) == FALSE
NeedsWriting(b) == buf[b].dirt
Evict(p) ==
    /\ At(p, "evict")
    /\ buf' = [buf EXCEPT ![bh[p]].count = @ + 1]
    /\ RemoveFromQueues(bh[p])
    /\ IF NeedsWriting(bh[p]) THEN Goto(p, "sync") /\ idx' = [idx EXCEPT ![p] = 1]
       ELSE Goto(p, "take") /\ UNCHANGED idx
    /\ UNCHANGED <<device, want, bh, kept>>

(* The buffer gets its new block, unless somebody else has brought that    *)
(* block in meanwhile: then it is put back and all begins again.  Nobody   *)
(* looks whether it is clean and unlocked by now, which it is not when its *)
(* write failed: sys_sync() of another process may be writing it again.    *)
\* faulty: the hash table is not looked at again
NotBeaten(x) == TRUE
Unbeaten(x) == Cached(x) = {}
Take(p) ==
    /\ At(p, "take")
    /\ LET b == bh[p]
           x == IF Unbeaten(want[p]) THEN want[p] ELSE NoBlock
       IN /\ buf' = [buf EXCEPT ![b] =
                        [blk |-> x, count |-> IF x = NoBlock THEN 0 ELSE @.count,
                         dirt |-> FALSE, uptodate |-> FALSE, lock |-> @.lock,
                         data |-> "old"]]
          /\ InsertIntoQueues(b, x)
          /\ Goto(p, IF x = NoBlock THEN "find"
                     ELSE IF buf[b].lock THEN "lockwait" ELSE "got")
          /\ bh' = IF x = NoBlock THEN [bh EXCEPT ![p] = NoBuffer] ELSE bh
          /\ refetched' = refetched \cup {y \in {x} \cap Blocks :
                                    \E c \in Evicting(y) \ {b} : buf[c].dirt}
          /\ lost' = IF buf[b].lock THEN lost \cup ({x} \cap Blocks) ELSE lost
    /\ UNCHANGED <<io, dest, disk, late, pinned, want, kept, idx>>

-----------------------------------------------------------------------------
(* ll_rw_block(), bread(), brelse() *)

Start(b, rw) ==
    /\ io' = [io EXCEPT ![b] = rw] /\ dest' = [dest EXCEPT ![b] = buf[b].blk]
    /\ buf' = [buf EXCEPT ![b].lock = TRUE]

(* bread(): read the buffer unless it is up to date.  lock_buffer() waits  *)
(* at "lockwait" for a buffer that getblk() has taken while it was locked. *)
Read(p) ==
    /\ \/ /\ At(p, "got") /\ buf[bh[p]].uptodate
          /\ Goto(p, "hold") /\ UNCHANGED <<buf, io, dest>>
       \/ /\ \/ At(p, "got") /\ ~buf[bh[p]].uptodate
             \/ At(p, "lockwait") /\ Awake(bh[p])
          /\ Goto(p, "readwait") /\ Start(bh[p], "read")
    /\ UNCHANGED <<hashed, next_free, prev_free, free_list, disk, races,
                   pinned, want, bh, kept, idx>>

ReadDone(p) ==
    /\ At(p, "readwait") /\ Awake(bh[p])
    /\ Goto(p, IF buf[bh[p]].uptodate THEN "hold" ELSE "failed")
    /\ UNCHANGED <<cache, device, want, bh, kept, idx>>

(* A program changes a block it holds, or new_block() and new_inode() a    *)
(* bitmap.                                                                 *)
Modify(p, b) ==
    /\ \/ At(p, "hold") /\ b = bh[p]
       \/ At(p, "idle") /\ b \in DOMAIN pinned
    /\ LET x == buf[b].blk IN
       /\ buf' = [c \in Buffers |->
                    IF c = b THEN [buf[b] EXCEPT !.data = "new", !.dirt = TRUE]
                    ELSE IF buf[c].blk = x THEN [buf[c] EXCEPT !.data = "old"]
                    ELSE buf[c]]
       /\ disk' = [disk EXCEPT ![x] = "old"]
       /\ io' = [c \in Buffers |-> IF dest[c] = x /\ io[c] = "sent"
                                   THEN "sentold" ELSE io[c]]
       /\ late' = IF io[b] = "sent" THEN late \cup {x} ELSE late
    /\ UNCHANGED <<dest, refetched, lost, pinned, hashed, next_free, prev_free,
                   free_list, pc, want, bh, kept, idx>>

(* brelse(), also of a buffer that bread() could not read.  The process    *)
(* goes back to one that it held meanwhile.                                *)
Brelse(p) ==
    /\ At(p, "hold") \/ At(p, "failed")
    /\ Awake(bh[p])
    /\ buf' = [buf EXCEPT ![bh[p]].count = @ - 1]
    /\ \/ /\ Keeps(p) = {}
          /\ WakeBufferWait(p, "idle")
          /\ want' = [want EXCEPT ![p] = NoBlock]
          /\ bh' = [bh EXCEPT ![p] = NoBuffer]
          /\ UNCHANGED kept
       \/ \E b \in Keeps(p) :
            /\ WakeBufferWait(p, "hold")
            /\ want' = [want EXCEPT ![p] = kept[p][b]]
            /\ bh' = [bh EXCEPT ![p] = b]
            /\ kept' = [kept EXCEPT ![p][b] = NoBlock]
    /\ UNCHANGED <<hashed, next_free, prev_free, free_list, device, idx>>

-----------------------------------------------------------------------------
(* sync_dev(), called by getblk(), and the loop of sys_sync(): write every *)
(* dirty buffer, waiting for those that are locked.                        *)

Attention(p) == {b \in Buffers : /\ b >= idx[p]
                                 /\ buf[b].blk # NoBlock \/ bh[p] = NoBuffer
                                 /\ buf[b].lock \/ buf[b].dirt}

SysSync(p) ==
    /\ At(p, "idle")
    /\ Goto(p, "sync")
    /\ idx' = [idx EXCEPT ![p] = 1]
    /\ UNCHANGED <<cache, device, want, bh, kept>>

Sync(p) ==
    /\ At(p, "sync")
    /\ \/ /\ Attention(p) = {}
          /\ idx' = [idx EXCEPT ![p] = 0]
          /\ Goto(p, IF bh[p] = NoBuffer THEN "idle" ELSE "take")
          /\ UNCHANGED <<buf, io, dest>>
       \/ \E b \in Attention(p) :
            /\ \A c \in Attention(p) : b <= c
            /\ idx' = [idx EXCEPT ![p] = b]
            /\ IF buf[b].lock THEN Goto(p, "syncwait") /\ UNCHANGED <<buf, io, dest>>
               ELSE Goto(p, "syncio") /\ Start(b, "write")
    /\ UNCHANGED <<hashed, next_free, prev_free, free_list, disk, races,
                   pinned, want, bh, kept>>

SyncWake(p) ==
    /\ At(p, "syncwait") /\ Awake(idx[p])
    /\ IF buf[idx[p]].dirt
       THEN Goto(p, "syncio") /\ Start(idx[p], "write") /\ UNCHANGED idx
       ELSE Goto(p, "sync") /\ idx' = [idx EXCEPT ![p] = @ + 1] /\ UNCHANGED <<buf, io, dest>>
    /\ UNCHANGED <<hashed, next_free, prev_free, free_list, disk, races,
                   pinned, want, bh, kept>>

SyncIoDone(p) ==
    /\ At(p, "syncio") /\ Awake(idx[p])
    /\ Goto(p, "sync") /\ idx' = [idx EXCEPT ![p] = @ + 1]
    /\ UNCHANGED <<cache, device, want, bh, kept>>

-----------------------------------------------------------------------------
(* The driver: read_intr(), write_intr() and bad_rw_intr() of hd.c.  The   *)
(* data of a write leave the buffer before the interrupt that says they    *)
(* are on the disk.                                                        *)

(* The data of the buffer as the block of the transfer has them; when the  *)
(* buffer has been given to another block since, they may be either.       *)
Sent(b) == IF dest[b] # buf[b].blk THEN {"sent", "sentold"}
           ELSE IF buf[b].data = "new" THEN {"sent"} ELSE {"sentold"}
Send(b) ==
    /\ io[b] = "write"
    /\ \E s \in Sent(b) : io' = [io EXCEPT ![b] = s]
    /\ UNCHANGED <<cache, dest, disk, races, pinned, pc, want, bh, kept, idx>>

Ended(b) == io' = [io EXCEPT ![b] = "none"] /\ dest' = [dest EXCEPT ![b] = NoBlock]

WriteEnds(b) ==
    /\ io[b] \in {"sent", "sentold"}
    /\ disk' = [disk EXCEPT ![dest[b]] = IF io[b] = "sent" THEN "new" ELSE "old"]
    /\ buf' = [buf EXCEPT ![b] = [@ EXCEPT !.lock = FALSE, !.uptodate = TRUE,
                                            !.dirt = FALSE]]
    /\ Ended(b)
    /\ late' = IF io[b] = "sent" THEN late \ {dest[b]} ELSE late
    /\ UNCHANGED <<hashed, next_free, prev_free, free_list, refetched, lost, pinned,
                   pc, want, bh, kept, idx>>

(* A write fails, perhaps after its first sector, and is tried again from  *)
(* the start or given up: the buffer is dirty still, but not up to date.   *)
WriteFails(b) ==
    /\ Errors /\ io[b] \in {"sent", "sentold"}
    /\ \E c \in {"old", disk[dest[b]]} : disk' = [disk EXCEPT ![dest[b]] = c]
    /\ \/ io' = [io EXCEPT ![b] = "write"] /\ UNCHANGED <<buf, dest, lost>>
       \/ /\ Ended(b)
          /\ buf' = [buf EXCEPT ![b] = [@ EXCEPT !.lock = FALSE, !.uptodate = FALSE]]
          /\ lost' = lost \cup {dest[b]}
    /\ UNCHANGED <<hashed, next_free, prev_free, free_list, refetched, late, pinned,
                   pc, want, bh, kept, idx>>

ReadEnds(b) ==
    /\ io[b] = "read"
    /\ \/ buf' = [buf EXCEPT ![b] = [@ EXCEPT !.lock = FALSE, !.uptodate = TRUE,
                                              !.dirt = FALSE, !.data = disk[dest[b]]]]
       \/ /\ Errors
          /\ buf' = [buf EXCEPT ![b] = [@ EXCEPT !.lock = FALSE, !.uptodate = FALSE]]
    /\ Ended(b)
    /\ UNCHANGED <<hashed, next_free, prev_free, free_list, disk, races, pinned, pc,
                   want, bh, kept, idx>>

-----------------------------------------------------------------------------
Step(p) ==
    \/ Find(p) \/ HashWake(p) \/ Scan(p) \/ ScanWake(p) \/ Evict(p) \/ Take(p)
    \/ Read(p) \/ ReadDone(p) \/ Sync(p) \/ SyncWake(p) \/ SyncIoDone(p)
    \/ Brelse(p)
Transfer(b) == Send(b) \/ WriteEnds(b) \/ WriteFails(b) \/ ReadEnds(b)

Next ==
    \/ \E p \in Procs : \/ Step(p) \/ SysSync(p)
                        \/ \E x \in Blocks : Ask(p, x)
                        \/ \E b \in Buffers : Modify(p, b)
    \/ \E b \in Buffers : Transfer(b)

Spec == Init /\ [][Next]_vars

-----------------------------------------------------------------------------
(* Properties *)

(* A block has at most one buffer in the hash table (getblk looks again    *)
(* after it has slept).                                                    *)
OneBufferPerBlock ==
    \A b, c \in hashed : buf[b].blk = buf[c].blk => b = c

(* b_count is the number of processes that use the buffer, and one for a   *)
(* bitmap (get_hash_table, getblk, brelse).                                *)
Using == {"hashwait", "take", "got", "lockwait", "readwait", "failed", "hold", "sync",
          "syncwait", "syncio"}
Users(b) == {p \in Procs : \/ bh[p] = b /\ pc[p] \in Using
                           \/ kept[p][b] # NoBlock}
CountsUsers ==
    \A b \in Buffers :
        buf[b].count = Cardinality(Users(b)) + (IF b \in DOMAIN pinned THEN 1 ELSE 0)

(* A buffer keeps its block as long as a process uses it, also while that  *)
(* process waits for another one (getblk looks at b_count again after it   *)
(* has waited; get_hash_table checks for it).                              *)
HolderKeepsBlock ==
    \A p \in Procs :
        /\ pc[p] \in {"hashwait", "got", "lockwait", "readwait", "failed", "hold"} =>
             buf[bh[p]].blk = want[p] /\ bh[p] \in hashed
        /\ \A b \in Keeps(p) : buf[b].blk = kept[p][b] /\ b \in hashed

(* The free list is one ring that links, both ways, every buffer that no   *)
(* getblk() has taken out, and only those (remove_from_queues,             *)
(* insert_into_queues).                                                    *)
Takes(p) == pc[p] \in {"take", "sync", "syncwait", "syncio"} /\ bh[p] # NoBuffer
TakenOut == {bh[p] : p \in {q \in Procs : Takes(q)}}
OnFreeList == Buffers \ TakenOut
Closed(s) == \A b \in s : next_free[b] \in s
FreeListSound ==
    /\ free_list \in OnFreeList
    /\ \A b \in OnFreeList : /\ next_free[b] \in OnFreeList /\ prev_free[next_free[b]] = b
                            /\ prev_free[b] \in OnFreeList /\ next_free[prev_free[b]] = b
    /\ \A s \in SUBSET OnFreeList : s # {} /\ Closed(s) => s = OnFreeList

(* What programs last put in a block is what they read from it next: it is *)
(* in the buffer the hash table finds, or, if there is none or it is not   *)
(* read in yet, on the disk; and a buffer newer than the disk is marked    *)
(* dirty, so that sync() writes it (getblk, bread, sync_dev, write_intr).  *)
(* Three ways to lose it are known: refetched, late and lost.              *)
Valid(x) == {b \in Cached(x) : buf[b].uptodate}
Findable(x) ==
    IF Valid(x) # {} THEN \A b \in Valid(x) : buf[b].data = "new"
    ELSE Evicting(x) = {} => disk[x] = "new"
WillBeWritten(x) ==
    \A b \in Valid(x) : buf[b].data = "new" /\ disk[x] = "old" => buf[b].dirt
LatestIsFound == \A x \in Blocks \ (refetched \cup late \cup lost) : Findable(x) /\ WillBeWritten(x)

(* While processes wait for any buffer to become free, whatever buffers    *)
(* they hold meanwhile, another one is on the way to a brelse() that wakes *)
(* them: getblk() and brelse() never have everyone wait for everyone, with *)
(* more buffers than the processes can hold at a time.  (getblk gives a    *)
(* buffer back without waking anybody when it has been beaten to the       *)
(* block.)                                                                 *)
Active(q) == want[q] # NoBlock /\ pc[q] # "bufwait"
SleepersAreWoken ==
    (\E p \in Procs : pc[p] = "bufwait") => \E q \in Procs : Active(q)

(* "Now, when we know nobody can get to this node (as it's removed from    *)
(* the free list), we write it out.  We can sleep here without fear of     *)
(* race-conditions" (buffer.c:169-173).  Nobody uses the buffer when       *)
(* getblk() gives it to its new block: the code does not prevent it.       *)
TakenUndisturbed == \A p \in Procs : pc[p] = "take" => ~buf[bh[p]].lock
(* Nobody brings its old block in before that is on the disk: the code     *)
(* does not prevent this either.                                           *)
NoneRefetched == refetched = {}

(* "Race-conditions have been avoided by NEVER letting a interrupt change  *)
(* a buffer (except for the data, of course)" (buffer.c:2-4): then nothing *)
(* marks a buffer clean but who has seen it written.  The interrupt at the *)
(* end of a write does (hd.c:284), also after a change.                    *)
NoneLate == late = {}
=============================================================================
