------------------------------- MODULE Inodes --------------------------------
(***************************************************************************)
(* The inodes in memory: fs/inode.c, and new_inode() and free_inode() of   *)
(* fs/bitmap.c, under the system calls that open, create, change, close    *)
(* and unlink files, and sync().                                           *)
(*                                                                         *)
(* A process gives way only where it sleeps: on the lock of an inode       *)
(* (wait_on_inode), and while a block is read (read_inode, write_inode,    *)
(* truncate).  Every action goes from one sleep to the next.  The block    *)
(* cache is taken at its word: the inode blocks are the variable disk.     *)
(* Of a d_inode only the number of links and a version are kept.           *)
(***************************************************************************)
EXTENDS Integers, FiniteSets

CONSTANTS Procs,
          NR_INODE, \* slots of inode_table
          NInodes   \* inodes 1..NInodes on the disk: s_ninodes

Slots == 1..NR_INODE
Inums == 1..NInodes
NoSlot == 0
NoInode == 0

ASSUME InodeAssumption ==
    /\ IsFiniteSet(Procs)
    /\ NR_INODE \in Nat \ {0} /\ NInodes \in Nat \ {0}

Contents == [nlinks : 0..1, ver : 0..1]

VARIABLES
    inode,  \* inode[s]: i_num (NoInode: i_dev = 0), i_count, i_dirt, i_lock
            \* and the d_inode part of slot s
    disk,   \* disk[n]: the d_inode of n
    imap,   \* the inodes marked as used in s_imap
    names,  \* the inodes that have a directory entry
    latest, \* latest[n]: what system calls last made of inode n (ghost)
    file,   \* file[p]: the inode p has open
    op,     \* op[p]: the system call p is in
    pc,     \* pc[p]: where p sleeps
    nr,     \* nr[p]: the inode number it asked for, or is writing
    cur,    \* cur[p]: the slot it works on
    empty,  \* empty[p]: the slot iget() took, in case it needs one
    broken, \* what went wrong for good
    reused  \* slots taken again while iput() of the last user slept (ghost)

calls == <<file, op, pc, nr, cur, empty>>
vars == <<inode, disk, imap, names, latest, calls, broken, reused>>

ZeroInode == [inum |-> NoInode, count |-> 0, dirt |-> FALSE, lock |-> FALSE,
              d |-> [nlinks |-> 0, ver |-> 0]]

Running == {"scan", "got", "put", "last"}

TypeOK ==
    /\ inode \in [Slots -> [inum : Inums \cup {NoInode}, count : 0..2 * Cardinality(Procs),
                            dirt : BOOLEAN, lock : BOOLEAN, d : Contents]]
    /\ disk \in [Inums -> Contents] /\ latest \in [Inums -> Contents]
    /\ imap \subseteq Inums /\ names \subseteq Inums
    /\ file \in [Procs -> Slots \cup {NoSlot}]
    /\ op \in [Procs -> {"none", "open", "unlink", "close", "sync"}]
    /\ pc \in [Procs -> Running \cup {"user", "iget", "read", "iput", "write", "truncate"}]
    /\ nr \in [Procs -> Inums \cup {NoInode}]
    /\ cur \in [Procs -> Slots \cup {NoSlot}] /\ empty \in [Procs -> Slots \cup {NoSlot}]
    /\ broken \in {"no", "table full", "free_inode", "freed inode read", "locked slot cleared"}
    /\ reused \subseteq Slots

(* Inode 1 is on the disk and has a name. *)
Init ==
    /\ inode = [s \in Slots |-> ZeroInode]
    /\ disk = [n \in Inums |-> [nlinks |-> IF n = 1 THEN 1 ELSE 0, ver |-> 0]]
    /\ latest = disk /\ imap = {1} /\ names = {1}
    /\ file = [p \in Procs |-> NoSlot] /\ op = [p \in Procs |-> "none"]
    /\ pc = [p \in Procs |-> "user"] /\ nr = [p \in Procs |-> NoInode]
    /\ cur = [p \in Procs |-> NoSlot] /\ empty = [p \in Procs |-> NoSlot]
    /\ broken = "no" /\ reused = {}

(* Only where a process sleeps does another one run. *)
At(p, l) == /\ pc[p] = l /\ broken = "no"
            /\ \A q \in Procs \ {p} : pc[q] \notin Running
Goto(p, l) == pc' = [pc EXCEPT ![p] = l]
Return(p) == /\ Goto(p, "user") /\ op' = [op EXCEPT ![p] = "none"]
             /\ cur' = [cur EXCEPT ![p] = NoSlot] /\ nr' = [nr EXCEPT ![p] = NoInode]

-----------------------------------------------------------------------------
(* iget() *)

(* get_empty_inode() would write a dirty slot out before it takes it, and  *)
(* wait for a locked one; there is none (TableSound).  It panics when   *)
(* every slot is in use.                                                   *)
Unused == {s \in Slots : inode[s].count = 0 /\ ~inode[s].dirt /\ ~inode[s].lock}
TableFull == /\ \A s \in Slots : inode[s].count > 0
             /\ broken' = "table full"

(* sys_open(), sys_unlink() with the number of an entry they have found. *)
Lookup(p, n, call) ==
    /\ At(p, "user") /\ n \in names
    /\ call = "open" => file[p] = NoSlot
    /\ \/ \E s \in Unused :
            /\ inode' = [inode EXCEPT ![s] = [ZeroInode EXCEPT !.count = 1]]
            /\ empty' = [empty EXCEPT ![p] = s]
            /\ nr' = [nr EXCEPT ![p] = n] /\ op' = [op EXCEPT ![p] = call]
            /\ Goto(p, "scan") /\ UNCHANGED broken
       \/ TableFull /\ UNCHANGED <<inode, empty, nr, op, pc>>
    /\ UNCHANGED <<disk, imap, names, latest, file, cur, reused>>

(* The inode is in slot s: count it, give the empty slot back. *)
Last(s) == \E q \in Procs : /\ pc[q] \in {"write", "truncate"} /\ op[q] # "sync"
                            /\ cur[q] = s
Use(p, s) ==
    /\ inode' = [inode EXCEPT ![s].count = @ + 1, ![empty[p]].count = 0]
    /\ empty' = [empty EXCEPT ![p] = NoSlot] /\ cur' = [cur EXCEPT ![p] = s]
    /\ reused' = IF Last(s) THEN reused \cup {s} ELSE reused
    /\ Goto(p, "got") /\ UNCHANGED broken

(* It is nowhere: read it into the empty slot. *)
ReadIn(p, e) ==
    /\ inode' = [inode EXCEPT ![e].inum = nr[p], ![e].lock = TRUE]
    /\ empty' = [empty EXCEPT ![p] = NoSlot] /\ cur' = [cur EXCEPT ![p] = e]
    /\ broken' = IF nr[p] \in imap THEN broken ELSE "freed inode read"
    /\ Goto(p, "read") /\ UNCHANGED reused

Holding(n) == {s \in Slots : inode[s].inum = n}
Scan(p) ==
    /\ At(p, "scan")
    /\ IF Holding(nr[p]) = {} THEN ReadIn(p, empty[p])
       ELSE LET s == CHOOSE s \in Holding(nr[p]) : \A t \in Holding(nr[p]) : s <= t
            IN IF ~inode[s].lock THEN Use(p, s)
               ELSE /\ Goto(p, "iget") /\ cur' = [cur EXCEPT ![p] = s]
                    /\ UNCHANGED <<inode, empty, broken, reused>>
    /\ UNCHANGED <<disk, imap, names, latest, file, op, nr>>

(* The slot may hold another inode after the wait. *)
\* faulty: this is not looked at
SameAnyway(p) == TRUE
SameInode(p) == inode[cur[p]].inum = nr[p]
IgetWakes(p) ==
    /\ At(p, "iget") /\ ~inode[cur[p]].lock
    /\ IF SameInode(p) THEN Use(p, cur[p])
       ELSE Goto(p, "scan") /\ UNCHANGED <<inode, empty, cur, broken, reused>>
    /\ UNCHANGED <<disk, imap, names, latest, file, op, nr>>

ReadInode(p) ==
    /\ At(p, "read")
    /\ inode' = [inode EXCEPT ![cur[p]].d = disk[inode[cur[p]].inum], ![cur[p]].lock = FALSE]
    /\ Goto(p, "got")
    /\ UNCHANGED <<disk, imap, names, latest, file, op, nr, cur, empty, broken, reused>>

-----------------------------------------------------------------------------
(* What system calls do with an inode *)

Open(p) ==
    /\ At(p, "got") /\ op[p] = "open"
    /\ file' = [file EXCEPT ![p] = cur[p]]
    /\ Return(p)
    /\ UNCHANGED <<inode, disk, imap, names, latest, empty, broken, reused>>

Update(s, d) ==
    /\ inode' = [inode EXCEPT ![s].d = d, ![s].dirt = TRUE]
    /\ latest' = [latest EXCEPT ![inode[s].inum] = d]

(* The entry goes, the number of links drops, and iput() follows. *)
Unlink(p) ==
    /\ At(p, "got") /\ op[p] = "unlink"
    /\ Update(cur[p], [inode[cur[p]].d EXCEPT !.nlinks = 0])
    /\ names' = names \ {nr[p]}
    /\ Goto(p, "put")
    /\ UNCHANGED <<disk, imap, file, op, nr, cur, empty, broken, reused>>

(* Writing to an open file changes its size, times and zones. *)
Change(p) ==
    /\ At(p, "user") /\ file[p] # NoSlot
    /\ Update(file[p], [inode[file[p]].d EXCEPT !.ver = 1 - @])
    /\ UNCHANGED <<disk, imap, names, calls, broken, reused>>

Close(p) ==
    /\ At(p, "user") /\ file[p] # NoSlot
    /\ file' = [file EXCEPT ![p] = NoSlot] /\ cur' = [cur EXCEPT ![p] = file[p]]
    /\ op' = [op EXCEPT ![p] = "close"] /\ Goto(p, "put")
    /\ UNCHANGED <<inode, disk, imap, names, latest, nr, empty, broken, reused>>

(* new_inode(): the first inode that is free; the file is open after it.   *)
Create(p) ==
    /\ At(p, "user") /\ file[p] = NoSlot
    /\ \/ \E s \in Unused, n \in Inums \ imap :
            /\ \A k \in Inums \ imap : n <= k
            /\ imap' = imap \cup {n} /\ names' = names \cup {n}
            /\ inode' = [inode EXCEPT ![s] = [inum |-> n, count |-> 1, dirt |-> TRUE,
                                              lock |-> FALSE, d |-> [nlinks |-> 1, ver |-> 0]]]
            /\ latest' = [latest EXCEPT ![n] = [nlinks |-> 1, ver |-> 0]]
            /\ file' = [file EXCEPT ![p] = s] /\ UNCHANGED broken
       \/ TableFull /\ UNCHANGED <<inode, imap, names, latest, file>>
    /\ UNCHANGED <<disk, op, pc, nr, cur, empty, reused>>

-----------------------------------------------------------------------------
(* iput() and sync_inodes() *)

(* Waits for the lock; only the last user has more to do. *)
MoreUsers(s) == inode[s].count > 1
\* faulty: iput() does not wait
Locked(s) == FALSE
InodeLocked(s) == inode[s].lock
Iput(p) ==
    /\ At(p, "put") \/ At(p, "iput")
    /\ IF InodeLocked(cur[p]) THEN At(p, "put") /\ Goto(p, "iput") /\ UNCHANGED <<inode, op, cur, nr>>
       ELSE IF MoreUsers(cur[p])
       THEN inode' = [inode EXCEPT ![cur[p]].count = @ - 1] /\ Return(p)
       ELSE Goto(p, "last") /\ UNCHANGED <<inode, op, cur, nr>>
    /\ UNCHANGED <<disk, imap, names, latest, file, empty, broken, reused>>

(* write_inode(): lock the slot, look the block up by i_num, read it. *)
StartWrite(p, s) == inode' = [inode EXCEPT ![s].lock = TRUE] /\ Goto(p, "write")

(* From the label repeat on: i_count is not looked at again. *)
\* faulty: the inode is given up without being written
NotDirty(s) == FALSE
Dirty(s) == inode[s].dirt
IputLast(p) ==
    /\ At(p, "last")
    /\ LET s == cur[p] IN
       \/ inode[s].d.nlinks = 0 /\ Goto(p, "truncate") /\ UNCHANGED <<inode, op, cur, nr, reused>>
       \/ inode[s].d.nlinks # 0 /\ Dirty(s) /\ StartWrite(p, s) /\ UNCHANGED <<op, cur, nr, reused>>
       \/ /\ inode[s].d.nlinks # 0 /\ ~Dirty(s)
          /\ inode' = [inode EXCEPT ![s].count = @ - 1]
          /\ reused' = reused \ {s} /\ Return(p)
    /\ UNCHANGED <<disk, imap, names, latest, file, empty, broken>>

SyncInode(p, s) ==
    /\ At(p, "user") /\ inode[s].dirt /\ ~inode[s].lock
    /\ StartWrite(p, s)
    /\ op' = [op EXCEPT ![p] = "sync"] /\ cur' = [cur EXCEPT ![p] = s]
    /\ UNCHANGED <<disk, imap, names, latest, file, nr, empty, broken, reused>>

(* The block is there: copy the inode into its place and unlock it. *)
Copied(n, s) == [disk EXCEPT ![n] = inode[s].d]
WriteInode(p) ==
    /\ At(p, "write")
    /\ LET s == cur[p] IN
       /\ disk' = Copied(inode[s].inum, s)
       /\ inode' = [inode EXCEPT ![s].dirt = FALSE, ![s].lock = FALSE]
    /\ IF op[p] = "sync" THEN Return(p) ELSE Goto(p, "last") /\ UNCHANGED <<op, cur, nr>>
    /\ UNCHANGED <<imap, names, latest, file, empty, broken, reused>>

(* truncate() has given the blocks back; free_inode() clears the bit and   *)
(* the whole slot, but panics if the inode is in use again.  When sync()   *)
(* sleeps in write_inode() it will write the cleared slot, or whatever the *)
(* slot holds by then, and unlock it: the model stops there.               *)
BitCleared(n) == imap \ {n}
FreeInode(p) ==
    /\ At(p, "truncate")
    /\ LET s == cur[p] IN
       IF inode[s].count > 1 \/ inode[s].inum \notin imap
       THEN broken' = "free_inode" /\ UNCHANGED <<inode, imap, reused, op, pc, nr, cur>>
       ELSE /\ imap' = BitCleared(inode[s].inum)
            /\ inode' = [inode EXCEPT ![s] = ZeroInode]
            /\ reused' = reused \ {s}
            /\ broken' = IF inode[s].lock THEN "locked slot cleared" ELSE broken
            /\ Return(p)
    /\ UNCHANGED <<disk, names, latest, file, empty>>

-----------------------------------------------------------------------------
Next == \E p \in Procs :
    \/ \E n \in Inums : Lookup(p, n, "open") \/ Lookup(p, n, "unlink")
    \/ Scan(p) \/ IgetWakes(p) \/ ReadInode(p)
    \/ Open(p) \/ Unlink(p) \/ Change(p) \/ Close(p) \/ Create(p)
    \/ Iput(p) \/ IputLast(p) \/ WriteInode(p) \/ FreeInode(p)
    \/ \E s \in Slots : SyncInode(p, s)

Spec == Init /\ [][Next]_vars

-----------------------------------------------------------------------------
(* Properties *)

(* i_count is the number of those who hold the slot: open files, calls     *)
(* between iget() and iput(), and slots kept empty by an iget().           *)
Holds(p, s) == \/ pc[p] \in {"read", "got", "put", "iput", "last", "write", "truncate"}
                  /\ op[p] # "sync" /\ cur[p] = s
Count(s) == Cardinality({p \in Procs : file[p] = s})
            + Cardinality({p \in Procs : Holds(p, s)})
            + Cardinality({p \in Procs : empty[p] = s})
CountsAreExact == \A s \in Slots : inode[s].count = Count(s)

(* An unused slot is clean and unlocked, so that get_empty_inode() never   *)
(* sleeps and iget() finds the table as it was when it was called; and the *)
(* counts say which slots are unused.                                      *)
TableSound ==
    /\ TypeOK /\ CountsAreExact
    /\ \A s \in Slots : inode[s].count = 0 => ~inode[s].dirt /\ ~inode[s].lock

(* An inode has at most one slot, and what system calls last made of it is *)
(* there, or on the disk when it has none (iget, read_inode, write_inode,  *)
(* iput, get_empty_inode).                                                 *)
Reading(s) == \E p \in Procs : pc[p] = "read" /\ cur[p] = s
InMemory(s, n) ==
    IF Reading(s) THEN disk[n] = latest[n]
    ELSE inode[s].d = latest[n] /\ (~inode[s].dirt => disk[n] = latest[n])
LatestInode ==
    broken = "no" =>
        \A n \in imap : \/ Holding(n) = {} /\ disk[n] = latest[n]
                        \/ \E s \in Slots : Holding(n) = {s} /\ InMemory(s, n)

(* What is open, or has a name, is allocated; and an inode is allocated    *)
(* only as long as it has a name or a slot.  free_inode() panics only for  *)
(* one that was taken again while the iput() of its last user slept and    *)
(* that lost its name meanwhile, never because its bit is clear already.   *)
AllocatedIsUsed ==
    /\ broken = "no" =>
         /\ \A p \in Procs : file[p] # NoSlot => inode[file[p]].inum \in imap
         /\ names \subseteq imap
         /\ \A n \in imap : n \in names \/ Holding(n) # {}
    /\ broken = "free_inode" =>
         \E p \in Procs : pc[p] = "truncate" /\ cur[p] \in reused /\ inode[cur[p]].inum \in imap
=============================================================================
