----------------------------- MODULE FileBlocks ------------------------------
(***************************************************************************)
(* The blocks of files: _bmap() of fs/inode.c, new_block() and free_block()*)
(* of fs/bitmap.c, fs/truncate.c, and fs/file_dev.c.                       *)
(*                                                                         *)
(* The pointers to the blocks of a file are in its inode or in indirect    *)
(* blocks.  Processes read, write and truncate files, the same one at the  *)
(* same time too; a process gives way only where a block is read or a      *)
(* buffer is waited for.  What is in a data block is left out.             *)
(***************************************************************************)
EXTENDS Integers, Sequences, FiniteSets

CONSTANTS Procs, Files,
          NoFile,    \* instead of a file
          Blocks,    \* data zone of the device
          Depth,     \* Depth[s]: indirections below slot s of i_zone
          Entries,   \* entries of an indirect block
          ReadErrors \* TRUE: reading a block can fail

NoBlock == 0
Inode == 0     \* instead of a block, as the place of a pointer
Slots == DOMAIN Depth

ASSUME BlocksAssumption ==
    /\ NoFile \notin Files /\ Depth \in Seq(0..2) /\ NoBlock \notin Blocks /\ Blocks \subseteq Nat
    /\ Entries \subseteq Nat /\ IsFiniteSet(Entries) /\ ReadErrors \in BOOLEAN

VARIABLES
    zone,    \* zone[f][s]: i_zone of file f
    entries, \* entries[b]: the pointers in block b, if it is an indirect block
    zmap,    \* the blocks marked as used in s_zmap
    pc,      \* where each process sleeps
    op, file, path, \* its call, file, and the slots still to follow
    at,      \* at[p]: the block in which p looks up the next slot
    blk,     \* blk[p]: the block p has got from new_block() or reads
    todo,    \* todo[p]: the blocks p has still to give back
    refused, \* blocks that truncate() could not give back (ghost)
    doubled, \* TRUE: two writers have got a block for the same place (ghost)
    overlap  \* TRUE: a file is truncated while it is written or truncated

calls == <<op, file, path, at>>
blockVars == <<zone, entries, zmap, pc, calls, blk, todo, refused, doubled, overlap>>

Awake == {"walk", "found"}
Zeroes == [e \in Entries |-> NoBlock]

BlocksTypeOK ==
    /\ zone \in [Files -> [Slots -> Blocks \cup {NoBlock}]]
    /\ entries \in [Blocks -> [Entries -> Blocks \cup {NoBlock}]]
    /\ zmap \subseteq Blocks /\ refused \subseteq Blocks
    /\ pc \in [Procs -> Awake \cup {"user", "new", "indirect", "data", "free"}]
    /\ op \in [Procs -> {"none", "read", "write", "truncate"}]
    /\ file \in [Procs -> Files \cup {NoFile}]
    /\ at \in [Procs -> Blocks \cup {Inode}]
    /\ blk \in [Procs -> Blocks \cup {NoBlock}]
    /\ doubled \in BOOLEAN /\ overlap \in BOOLEAN

BlocksInit ==
    /\ zone = [f \in Files |-> [s \in Slots |-> NoBlock]]
    /\ entries = [b \in Blocks |-> Zeroes]
    /\ zmap = {} /\ refused = {} /\ doubled = FALSE /\ overlap = FALSE
    /\ pc = [p \in Procs |-> "user"] /\ op = [p \in Procs |-> "none"]
    /\ file = [p \in Procs |-> NoFile]
    /\ path = [p \in Procs |-> <<>>] /\ todo = [p \in Procs |-> <<>>]
    /\ at = [p \in Procs |-> Inode] /\ blk = [p \in Procs |-> NoBlock]

At(p, l) == /\ pc[p] = l /\ ~overlap
            /\ \A q \in Procs \ {p} : pc[q] \notin Awake
Goto(p, l) == pc' = [pc EXCEPT ![p] = l]
Return(p) == /\ Goto(p, "user")
             /\ op' = [op EXCEPT ![p] = "none"] /\ path' = [path EXCEPT ![p] = <<>>]
             /\ at' = [at EXCEPT ![p] = Inode] /\ blk' = [blk EXCEPT ![p] = NoBlock]
             /\ file' = [file EXCEPT ![p] = NoFile]

(* The pointers of file f, in its inode and below it. *)
Top(f) == {[place |-> <<f, s>>, blk |-> zone[f][s], depth |-> Depth[s]] : s \in Slots}
\* what the indirect blocks among ptrs point to
Below(ptrs) ==
    UNION {{[place |-> <<i.blk, e>>, blk |-> entries[i.blk][e], depth |-> i.depth - 1] :
              e \in Entries} : i \in {j \in ptrs : j.blk # NoBlock /\ j.depth > 0}}
BlocksBelow(i) == {j.blk : j \in Below({i}) \cup Below(Below({i}))}
Pointers(f) == {i \in Top(f) \cup Below(Top(f)) \cup Below(Below(Top(f))) : i.blk # NoBlock}

-----------------------------------------------------------------------------
(* file_read() and file_write(), a block at a time: _bmap() *)

Paths == UNION {{<<s>> \o w : w \in [1..Depth[s] -> Entries]} : s \in Slots}
Meets(p, f, others) == \E q \in Procs \ {p} : op[q] \in others /\ file[q] = f

Begin(p, f, w, call) ==
    /\ At(p, "user")
    /\ op' = [op EXCEPT ![p] = call] /\ file' = [file EXCEPT ![p] = f]
    /\ path' = [path EXCEPT ![p] = w]
    /\ overlap' = (call = "write" /\ Meets(p, f, {"truncate"}))
    /\ Goto(p, "walk")
    /\ UNCHANGED <<zone, entries, zmap, at, blk, todo, refused, doubled>>

Pointer(p) == IF at[p] = Inode THEN zone[file[p]][Head(path[p])]
              ELSE entries[at[p]][Head(path[p])]

(* new_block(): the first free block is marked before a buffer for it is   *)
(* waited for.                                                             *)
\* faulty: a block is marked when its buffer is there
MarkedLater(b) == UNCHANGED zmap
Marked(b) == zmap' = zmap \cup {b}
Walk(p) ==
    /\ At(p, "walk")
    /\ \/ /\ Pointer(p) # NoBlock
          /\ blk' = [blk EXCEPT ![p] = Pointer(p)]
          /\ Goto(p, "found") /\ UNCHANGED <<zmap, calls>>
       \/ /\ Pointer(p) = NoBlock /\ op[p] = "write"
          /\ \E b \in Blocks \ zmap :
                /\ \A c \in Blocks \ zmap : b <= c
                /\ Marked(b)
                /\ blk' = [blk EXCEPT ![p] = b]
          /\ Goto(p, "new") /\ UNCHANGED calls
       \/ /\ Pointer(p) = NoBlock /\ op[p] = "write" => zmap = Blocks
          /\ Return(p) /\ UNCHANGED zmap
    /\ UNCHANGED <<zone, entries, todo, refused, doubled, overlap>>

(* The new block is cleared, and its number stored in the inode or in the  *)
(* indirect block, which is held since it was read.  new_block() panics    *)
(* when somebody else has the buffer; here it goes on.                     *)
Cleared(b) == [entries EXCEPT ![b] = Zeroes]
NewBlock(p) ==
    /\ At(p, "new")
    /\ LET b == blk[p]
           s == Head(path[p])
       IN /\ zone' = IF at[p] # Inode THEN zone ELSE [zone EXCEPT ![file[p]][s] = b]
          /\ entries' = IF at[p] = Inode THEN Cleared(b)
                        ELSE [Cleared(b) EXCEPT ![at[p]][s] = b]
    /\ doubled' = (doubled \/ Pointer(p) # NoBlock)
    /\ Goto(p, "found")
    /\ UNCHANGED <<zmap, calls, blk, todo, refused, overlap>>

(* Read the block found: the last one is the block of the file. *)
Found(p) ==
    /\ At(p, "found")
    /\ Goto(p, IF Len(path[p]) = 1 THEN "data" ELSE "indirect")
    /\ UNCHANGED <<zone, entries, zmap, calls, blk, todo, refused, doubled, overlap>>

Indirect(p) ==
    /\ At(p, "indirect")
    /\ \/ /\ at' = [at EXCEPT ![p] = blk[p]] /\ path' = [path EXCEPT ![p] = Tail(@)]
          /\ Goto(p, "walk") /\ UNCHANGED <<op, file, blk>>
       \/ ReadErrors /\ Return(p)
    /\ UNCHANGED <<zone, entries, zmap, todo, refused, doubled, overlap>>

(* The block of the file is read, and copied from or to. *)
Data(p) ==
    /\ At(p, "data") /\ Return(p)
    /\ UNCHANGED <<zone, entries, zmap, todo, refused, doubled, overlap>>

-----------------------------------------------------------------------------
(* truncate() *)

Item(b, d, s) == [blk |-> b, depth |-> d, slot |-> s]
InUse(ptrs) == {s \in DOMAIN ptrs : ptrs[s] # NoBlock}
Orders(S) == {w \in [1..Cardinality(S) -> S] :
                /\ \A s \in S : \E k \in DOMAIN w : w[k] = s
                /\ \A j, k \in DOMAIN w : j < k => w[j] < w[k]}

Truncate(p, f) ==
    /\ At(p, "user") /\ \E s \in Slots : zone[f][s] # NoBlock
    /\ op' = [op EXCEPT ![p] = "truncate"] /\ file' = [file EXCEPT ![p] = f]
    /\ \E w \in Orders(InUse(zone[f])) :
         todo' = [todo EXCEPT ![p] = [k \in DOMAIN w |-> Item(zone[f][w[k]], Depth[w[k]], w[k])]]
    /\ overlap' = Meets(p, f, {"write", "truncate"})
    /\ Goto(p, "free")
    /\ UNCHANGED <<zone, entries, zmap, path, at, blk, refused, doubled>>

(* The rest of the work, w; the direct block, if the block just given back *)
(* was one, is forgotten at once, the slots of indirect blocks at the end. *)
Proceed(p, w, s) ==
    /\ todo' = [todo EXCEPT ![p] = w]
    /\ zone' = IF w = <<>> THEN [zone EXCEPT ![file[p]] = [t \in Slots |-> NoBlock]]
               ELSE IF s # 0 /\ Depth[s] = 0 THEN [zone EXCEPT ![file[p]][s] = NoBlock]
               ELSE zone
    /\ IF w = <<>> THEN Return(p) ELSE UNCHANGED <<pc, calls, blk>>

\* faulty: only the blocks it points to are given back
NotItself(i) == <<>>
Itself(i) == <<[i EXCEPT !.depth = 0]>>
(* free_ind(), free_dind(): the block, read, then those it points to and   *)
(* then itself; if it cannot be read, only itself.                         *)
FreeIndirect(p) ==
    LET i == Head(todo[p])
        below(w) == [k \in DOMAIN w |-> Item(entries[i.blk][w[k]], i.depth - 1, 0)]
        itself == Itself(i)
    IN /\ At(p, "free") /\ i.depth > 0
       /\ \/ /\ \E w \in Orders(InUse(entries[i.blk])) :
                  todo' = [todo EXCEPT ![p] = below(w) \o itself \o Tail(@)]
             /\ UNCHANGED refused
          \/ /\ ReadErrors
             /\ todo' = [todo EXCEPT ![p] = itself \o Tail(@)]
             /\ refused' = refused \cup (BlocksBelow(i) \ {NoBlock})
       /\ UNCHANGED <<zone, entries, zmap, pc, calls, blk, doubled, overlap>>

(* free_block() gives up on a block whose buffer somebody else holds: for  *)
(* sure while it is the indirect block that is to point to his new block,  *)
(* perhaps while he waits for it.                                          *)
Holds(b) == \E q \in Procs : pc[q] = "new" /\ at[q] = b
Wants(b) == \E q \in Procs : pc[q] \in {"indirect", "data"} /\ blk[q] = b
FreeBlock(p) ==
    LET i == Head(todo[p])
        b == i.blk
    IN /\ At(p, "free") /\ i.depth = 0
       /\ \/ /\ ~Holds(b)
             /\ zmap' = zmap \ {b} /\ UNCHANGED refused
          \/ /\ Holds(b) \/ Wants(b)
             /\ refused' = refused \cup {b} /\ UNCHANGED zmap
       /\ Proceed(p, Tail(todo[p]), i.slot)
       /\ UNCHANGED <<entries, doubled, overlap>>

-----------------------------------------------------------------------------
Step(p) ==
    \/ Walk(p) \/ NewBlock(p) \/ Found(p) \/ Indirect(p) \/ Data(p)
    \/ FreeIndirect(p) \/ FreeBlock(p)
BlocksNext == \E p \in Procs :
    \/ Step(p)
    \/ \E f \in Files : \/ Truncate(p, f)
                        \/ \E w \in Paths : Begin(p, f, w, "read") \/ Begin(p, f, w, "write")

BlocksSpec == BlocksInit /\ [][BlocksNext]_blockVars

-----------------------------------------------------------------------------
(* Properties *)

Truncating(f) == \E p \in Procs : op[p] = "truncate" /\ file[p] = f
Referenced == UNION {Pointers(f) : f \in {g \in Files : ~Truncating(g)}}
InHands == {blk[p] : p \in {q \in Procs : pc[q] = "new"}}
ToFree == UNION {UNION {{todo[p][k].blk} \cup BlocksBelow(todo[p][k]) : k \in DOMAIN todo[p]} :
                 p \in Procs}

(* A block belongs to one place of one file, and is marked as used, also   *)
(* when two processes write to the same place, the device is full half-way *)
(* through an indirect block, or a file is truncated while it is read      *)
(* (_bmap, new_block, free_block, truncate).  What a process is about to   *)
(* write goes to a block that no other file has (file_write).              *)
WritesStayInFile(p) ==
    pc[p] = "data" /\ op[p] = "write" =>
        /\ blk[p] \in zmap
        /\ \A f \in Files \ {file[p]} : \A i \in Pointers(f) :
             ~Truncating(f) => i.blk # blk[p]
BlocksNotShared ==
    /\ BlocksTypeOK
    /\ ~overlap =>
         /\ \A i, j \in Referenced : i.blk = j.blk => i.place = j.place
         /\ \A i \in Referenced : i.blk \in zmap \ InHands
         /\ \A p \in Procs : WritesStayInFile(p)

(* A block marked as used is in a file, or on its way into or out of one;  *)
(* it is lost only when two writers get a block for the same place, or     *)
(* truncate() finds it in use or cannot read the block that points to it.  *)
NoBlockLost ==
    ~overlap /\ ~doubled =>
        zmap \subseteq {i.blk : i \in Referenced} \cup InHands \cup ToFree \cup refused
=============================================================================
