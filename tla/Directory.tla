------------------------------ MODULE Directory ------------------------------
(***************************************************************************)
(* Directories: fs/namei.c.  Processes of the superuser create, link and   *)
(* remove files and directories at once.                                   *)
(*                                                                         *)
(* A directory is searched block by block and every block may have to be   *)
(* read, so a process can give way between two blocks; also in iget(), and *)
(* when mkdir() asks for a block.  Inodes are what Inodes shows of them:   *)
(* iput() of the last user of an inode without links gives it back.  "."   *)
(* and ".." are not among the entries, only counted as links.              *)
(*                                                                         *)
(* What a call has found out may no longer be so when it acts on it.  The  *)
(* model says where (Act), and stops there.                                *)
(***************************************************************************)
EXTENDS Integers, Sequences, FiniteSets

CONSTANTS Procs,
          Paths,                 \* the path names in use, sequences of names
          NewPaths,              \* those that link() makes
          NInodes,               \* inodes 1..NInodes; 1 is the root
          DIR_ENTRIES_PER_BLOCK,
          MaxEntries             \* no room on the device for longer directories

Inums == 1..NInodes
Root == 1
None == 0

ASSUME DirectoryAssumption ==
    /\ IsFiniteSet(Procs) /\ NewPaths \subseteq Paths
    /\ \A w \in Paths : w \in Seq(STRING) /\ w # <<>>
    /\ NInodes \in Nat \ {0} /\ MaxEntries \in Nat /\ DIR_ENTRIES_PER_BLOCK \in Nat \ {0}

VARIABLES
    inode,  \* inode[n]: kind, i_nlinks and i_count; "none" when n is free,
            \* "new" as long as i_mode is 0
    ent,    \* ent[n]: the entries of directory n, an unused one has ino None
    at,     \* at[p]: where process p is and what it has in hand
    broken  \* "stale": somebody has acted on what was no longer so,
            \* "uncounted": on a link that link() has not counted yet

dirVars == <<inode, ent, at, broken>>

Unused == [name |-> None, ino |-> None]
Free == [kind |-> "none", nlinks |-> 0, count |-> 0]
Calls == {"open", "mkdir", "unlink", "rmdir", "link"}

(* pc: where p sleeps.  path: the names to follow.  to: the new name of    *)
(* link(), whose old inode is old.  dir: the directory p holds.  ino: the  *)
(* inode it holds, or at "iget" only knows the number of.  slot: the entry *)
(* it has found, seen: what was in it.  i: the entry its search has come   *)
(* to, end: the number of entries when it began.  At "linked" link() has   *)
(* written its entry and is in iput() of the directory.                    *)
AtUser == [pc |-> "user", call |-> "none", path |-> <<>>, to |-> <<>>, old |-> None,
           dir |-> None, ino |-> None, slot |-> 0, i |-> 0, end |-> 0]

DirInit ==
    /\ inode = [n \in Inums |-> IF n = Root THEN [kind |-> "dir", nlinks |-> 2, count |-> 1]
                                ELSE Free]
    /\ ent = [n \in Inums |-> <<>>]
    /\ at = [p \in Procs |-> AtUser] /\ broken = "no"

At(p, l) == at[p].pc = l /\ broken = "no"
GoesOn(p, me) == at' = [at EXCEPT ![p] = me]
Returns(p) == GoesOn(p, AtUser)

(* iget() and iput() of n, when the table of inodes is f. *)
Get(f, n) == [f EXCEPT ![n].count = @ + 1]
Put(f, n) == IF f[n].count = 1 /\ f[n].nlinks = 0 THEN [f EXCEPT ![n] = Free]
             ELSE [f EXCEPT ![n].count = @ - 1]
PutBoth(f, m, n) == Put(Put(f, m), n)
Link(f, n, k) == [f EXCEPT ![n].nlinks = @ + k]
Used(n) == inode[n].kind # "none"

(* permission(): nobody, not even root, may search or change a directory   *)
(* that has been removed.                                                  *)
Permission(n) == inode[n].kind = "dir" /\ inode[n].nlinks > 0

-----------------------------------------------------------------------------
(* get_dir(), dir_namei(), namei(): one name after the other *)

LookIn(me, n, w) == [me EXCEPT !.pc = "find", !.dir = n, !.path = w, !.ino = None,
                               !.i = 1, !.end = Len(ent[n])]
Begin(p, c, w, to) ==
    /\ At(p, "user")
    /\ inode' = Get(inode, Root)
    /\ GoesOn(p, LookIn([AtUser EXCEPT !.call = c, !.to = to], Root, w))
    /\ UNCHANGED <<ent, broken>>

Block(k) == k..k + DIR_ENTRIES_PER_BLOCK - 1
NextBlock(me) == [me EXCEPT !.i = @ + DIR_ENTRIES_PER_BLOCK]

(* Whether a name that is found is only one on the way: of a directory, or *)
(* the old name of link().                                                 *)
OnTheWay(me) == Len(me.path) > 1 \/ (me.call = "link" /\ me.old = None)

(* find_entry(), a block of it: the entry is not there, or in slot k.      *)
Hits(me) == {k \in Block(me.i) : /\ k <= me.end /\ ent[me.dir][k].ino # None
                                 /\ ent[me.dir][k].name = Head(me.path)}
FindNext(p) ==
    LET me == at[p] IN
    /\ At(p, "find") /\ Hits(me) = {} /\ me.i + DIR_ENTRIES_PER_BLOCK <= me.end
    /\ GoesOn(p, NextBlock(me))
    /\ UNCHANGED <<inode, ent, broken>>

(* An inode is looked up by its number; open() and the search for a name   *)
(* have given up the directory before, unlink() and rmdir() keep it.       *)
FoundInode(p) ==
    LET me == at[p] IN
    /\ At(p, "find")
    /\ \E k \in Hits(me) :
       LET next == [me EXCEPT !.pc = "iget", !.ino = ent[me.dir][k].ino, !.i = 0, !.end = 0] IN
       \/ /\ OnTheWay(me) \/ me.call = "open"
          /\ inode' = Put(inode, me.dir) /\ GoesOn(p, [next EXCEPT !.dir = None])
       \/ /\ ~OnTheWay(me)
          /\ me.call = "unlink" \/ (me.call = "rmdir" /\ Permission(me.dir))
          /\ GoesOn(p, [next EXCEPT !.slot = k]) /\ UNCHANGED inode
    /\ UNCHANGED <<ent, broken>>

PutOld(f, me) == IF me.old = None THEN f ELSE Put(f, me.old)
\* faulty: link() forgets its old inode when the new name exists
KeepsOld(me) == Put(inode, me.dir)
GivesUp(me) == PutOld(Put(inode, me.dir), me)
(* mkdir() and link() of a name that exists; a name that does not, when it *)
(* should; a directory that has been removed.                              *)
Fail(p) ==
    LET me == at[p]
        missing == Hits(me) = {} /\ me.i + DIR_ENTRIES_PER_BLOCK > me.end
    IN /\ At(p, "find")
       /\ \/ /\ Hits(me) # {} /\ ~OnTheWay(me)
             /\ \/ me.call \in {"mkdir", "link"}
                \/ me.call = "rmdir" /\ ~Permission(me.dir)
          \/ missing /\ (OnTheWay(me) \/ me.call \in {"unlink", "rmdir"})
          \/ missing /\ me.call = "open" /\ ~Permission(me.dir)
          \/ missing /\ me.call \in {"open", "mkdir"} /\ \A n \in Inums : Used(n)
       /\ inode' = GivesUp(me) /\ Returns(p)
       /\ UNCHANGED <<ent, broken>>

(* iget(): the number may be that of an inode that has been given back. *)
Iget(p) ==
    LET me == at[p] IN
    /\ At(p, "iget")
    /\ IF Used(me.ino) THEN /\ inode' = Get(inode, me.ino)
                            /\ GoesOn(p, [me EXCEPT !.pc = "read"]) /\ UNCHANGED broken
       ELSE broken' = "stale" /\ UNCHANGED <<inode, at>>
    /\ UNCHANGED ent

(* The inode has been read: go into the directory, ... *)
Enter(p) ==
    LET me == at[p] IN
    /\ At(p, "read") /\ Len(me.path) > 1
    /\ IF Permission(me.ino)
       THEN GoesOn(p, LookIn(me, me.ino, Tail(me.path))) /\ UNCHANGED inode
       ELSE inode' = PutOld(Put(inode, me.ino), me) /\ Returns(p)
    /\ UNCHANGED <<ent, broken>>

(* ... keep it as the old inode of link(), and look the new name up, ...   *)
OldName(p) ==
    LET me == at[p] IN
    /\ At(p, "read") /\ Len(me.path) = 1 /\ OnTheWay(me)
    /\ IF inode[me.ino].kind = "file"
       THEN /\ inode' = Get(inode, Root)
            /\ GoesOn(p, LookIn([me EXCEPT !.old = me.ino], Root, me.to))
       ELSE inode' = Put(inode, me.ino) /\ Returns(p)
    /\ UNCHANGED <<ent, broken>>

(* ... or it is what open() opens; the file is closed at once.             *)
OpenOld(p) ==
    /\ At(p, "read") /\ Len(at[p].path) = 1 /\ at[p].call = "open"
    /\ inode' = Put(inode, at[p].ino) /\ Returns(p)
    /\ UNCHANGED <<ent, broken>>

-----------------------------------------------------------------------------
(* New names: open_namei(), sys_mkdir(), sys_link() *)

(* new_inode(), if a name has not been found; link() has its inode.        *)
Create(p) ==
    LET me == at[p] IN
    /\ At(p, "find") /\ Hits(me) = {} /\ me.i + DIR_ENTRIES_PER_BLOCK > me.end
    /\ ~OnTheWay(me)
    /\ \/ /\ me.call = "link"
          /\ GoesOn(p, [me EXCEPT !.pc = "add", !.i = 1]) /\ UNCHANGED inode
       \/ \E n \in Inums :
          /\ ~Used(n) /\ \A k \in 1..n - 1 : Used(k)
          /\ me.call = "mkdir" \/ (me.call = "open" /\ Permission(me.dir))
          /\ inode' = [inode EXCEPT ![n] = [kind |-> IF me.call = "mkdir" THEN "new" ELSE "file",
                                             nlinks |-> 1, count |-> 1]]
          /\ GoesOn(p, [me EXCEPT !.pc = IF me.call = "mkdir" THEN "block" ELSE "add",
                                !.ino = n, !.i = 1])
    /\ UNCHANGED <<ent, broken>>

(* mkdir() gets a block for its entries, or all is undone. *)
NewDir(p) ==
    LET me == at[p] IN
    /\ At(p, "block")
    /\ inode' = [inode EXCEPT ![me.ino].kind = "dir", ![me.ino].nlinks = 2]
    /\ ent' = [ent EXCEPT ![me.ino] = <<>>]
    /\ GoesOn(p, [me EXCEPT !.pc = "add"])
    /\ UNCHANGED broken
NoNewDir(p) ==
    LET me == at[p] IN
    /\ At(p, "block")
    /\ inode' = PutBoth(Link(inode, me.ino, -1), me.dir, me.ino) /\ Returns(p)
    /\ UNCHANGED <<ent, broken>>

(* add_entry(), a block of it: the first unused entry, or a new one. *)
Room(me) == LET s == ent[me.dir] IN
            {k \in Block(me.i) : k <= MaxEntries /\ (k = Len(s) + 1 \/ (k <= Len(s) /\ s[k].ino = None))}
AddNext(p) ==
    LET me == at[p] IN
    /\ At(p, "add") /\ Room(me) = {} /\ me.i + DIR_ENTRIES_PER_BLOCK <= MaxEntries
    /\ GoesOn(p, NextBlock(me))
    /\ UNCHANGED <<inode, ent, broken>>

Act(fresh) == broken' = IF fresh THEN "no" ELSE "stale"
Entry(n, w) == {k \in DOMAIN ent[n] : ent[n][k].ino # None /\ ent[n][k].name = w}
SetEntry(n, k, e) == ent' = [ent EXCEPT ![n] = [j \in DOMAIN @ \cup {k} |->
                                                  IF j = k THEN e ELSE @[j]]]
\* faulty: the new directory is not counted as a link to the one above
NoLinkAbove(me) == inode
LinkAbove(me) == Link(inode, me.dir, 1)
Added(me) ==
    CASE me.call = "open" -> PutBoth(inode, me.dir, me.ino)
      [] me.call = "mkdir" -> PutBoth(LinkAbove(me), me.dir, me.ino)
      [] me.call = "link" -> inode
Add(p) ==
    LET me == at[p] IN
    /\ At(p, "add")
    /\ \E k \in Room(me) :
       /\ \A j \in Room(me) : k <= j
       /\ SetEntry(me.dir, k, [name |-> Head(me.path),
                               ino |-> IF me.call = "link" THEN me.old ELSE me.ino])
    /\ Act(Entry(me.dir, Head(me.path)) = {} /\ Permission(me.dir))
    /\ inode' = Added(me)
    /\ GoesOn(p, IF me.call = "link" THEN [me EXCEPT !.pc = "linked"] ELSE AtUser)

(* link() counts the link when iput() of the directory has come back.      *)
LinkCounted(p) ==
    LET me == at[p] IN
    /\ At(p, "linked")
    /\ inode' = PutBoth(Link(inode, me.old, 1), me.dir, me.old) /\ Returns(p)
    /\ UNCHANGED <<ent, broken>>

(* No room.  mkdir() gives the block of the new directory back and then    *)
(* the inode, with which truncate() gives it back again: a panic.          *)
AddFails(p) ==
    LET me == at[p] IN
    /\ At(p, "add") /\ Room(me) = {} /\ me.i + DIR_ENTRIES_PER_BLOCK > MaxEntries
    /\ CASE me.call = "open" -> inode' = PutBoth(Link(inode, me.ino, -1), me.ino, me.dir)
         [] me.call = "link" -> inode' = PutBoth(inode, me.dir, me.old)
         [] me.call = "mkdir" -> inode' = Put(inode, me.dir)
    /\ broken' = IF me.call = "mkdir" THEN "free_block" ELSE broken
    /\ Returns(p) /\ UNCHANGED ent

-----------------------------------------------------------------------------
(* sys_unlink(), sys_rmdir() *)

ClearEntry(n, k) == SetEntry(n, k, Unused)
Same(me) == /\ ent[me.dir][me.slot].ino = me.ino
            /\ ent[me.dir][me.slot].name = Head(me.path)

(* The name goes, and the inode with its last link.  An inode without      *)
(* links is given one first ("Deleting nonexistent file"): another process *)
(* has taken name and link away meanwhile, or the link was never counted.  *)
GoneToo(me) == ent[me.dir][me.slot].ino = None /\ inode[me.ino].nlinks = 0
Uncounted(me) == Same(me) /\ inode[me.ino].nlinks = 0
Unlink(p) ==
    LET me == at[p] IN
    /\ At(p, "read") /\ Len(me.path) = 1 /\ me.call = "unlink"
    /\ IF inode[me.ino].kind = "file"
       THEN /\ ClearEntry(me.dir, me.slot)
            /\ IF Uncounted(me) THEN broken' = "uncounted" ELSE Act(Same(me) \/ GoneToo(me))
            /\ inode' = PutBoth(IF inode[me.ino].nlinks = 0 THEN inode
                                ELSE Link(inode, me.ino, -1), me.ino, me.dir)
       ELSE inode' = PutBoth(inode, me.ino, me.dir) /\ UNCHANGED <<ent, broken>>
    /\ Returns(p)

RmdirBegins(p) ==
    LET me == at[p] IN
    /\ At(p, "read") /\ Len(me.path) = 1 /\ me.call = "rmdir"
    /\ IF inode[me.ino].kind = "dir"
       THEN /\ GoesOn(p, [me EXCEPT !.pc = "empty", !.i = 1, !.end = Len(ent[me.ino])])
            /\ UNCHANGED inode
       ELSE inode' = PutBoth(inode, me.ino, me.dir) /\ Returns(p)
    /\ UNCHANGED <<ent, broken>>

(* empty_dir(), a block of it, and the end of sys_rmdir(). *)
Occupied(me) == {k \in Block(me.i) : k <= me.end /\ ent[me.ino][k].ino # None}
MoreBlocks(me) == me.i + DIR_ENTRIES_PER_BLOCK <= me.end
Rmdir(p) ==
    LET me == at[p] IN
    /\ At(p, "empty")
    /\ IF Occupied(me) # {} THEN /\ inode' = PutBoth(inode, me.ino, me.dir) /\ Returns(p)
                                 /\ UNCHANGED <<ent, broken>>
       ELSE IF MoreBlocks(me) THEN GoesOn(p, NextBlock(me)) /\ UNCHANGED <<inode, ent, broken>>
       ELSE /\ ClearEntry(me.dir, me.slot)
            /\ Act(Same(me) /\ \A k \in DOMAIN ent[me.ino] : \/ k \in me.i..me.end
                                                       \/ ent[me.ino][k].ino = None)
            /\ inode' = PutBoth([Link(inode, me.dir, -1) EXCEPT ![me.ino].nlinks = 0],
                                me.dir, me.ino)
            /\ Returns(p)

-----------------------------------------------------------------------------
DirNext == \E p \in Procs :
    \/ \E w \in Paths : \/ \E c \in Calls \ {"link"} : Begin(p, c, w, <<>>)
                        \/ \E v \in NewPaths : Begin(p, "link", w, v)
    \/ FindNext(p) \/ FoundInode(p) \/ Fail(p) \/ Iget(p) \/ Enter(p)
    \/ OldName(p) \/ OpenOld(p) \/ Create(p) \/ NewDir(p) \/ NoNewDir(p)
    \/ AddNext(p) \/ Add(p) \/ AddFails(p) \/ LinkCounted(p)
    \/ Unlink(p) \/ RmdirBegins(p) \/ Rmdir(p)

DirSpec == DirInit /\ [][DirNext]_dirVars

-----------------------------------------------------------------------------
(* Properties *)

(* Every way through every call, its failures included, gives back each    *)
(* inode it has taken, once: i_count is the number of those in hand.       *)
InHand(n) ==
    {h \in Procs \X {"dir", "ino", "old"} :
       at[h[1]][h[2]] = n /\ ~(h[2] = "ino" /\ at[h[1]].pc = "iget")}
InodesGivenBack ==
    broken # "free_block" =>
        \A n \in Inums : inode[n].count = Cardinality(InHand(n)) + (IF n = Root THEN 1 ELSE 0)

(* The directories form a tree: a name is in a directory once, and is that *)
(* of an inode in use; i_nlinks is the number of names of a file, less     *)
(* those that link() has still to count, and two more than the number of   *)
(* its directories for a directory, which has one name itself; what has no *)
(* name is in the hands of a call; a directory that has been removed is    *)
(* empty (add_entry, sys_mkdir, sys_rmdir, sys_unlink, sys_link).          *)
NamesOf(n) == {e \in Inums \X (1..MaxEntries) :
                 /\ inode[e[1]].kind = "dir" /\ e[2] \in DOMAIN ent[e[1]]
                 /\ ent[e[1]][e[2]].ino = n}
SubDirs(n) == {k \in DOMAIN ent[n] : ent[n][k].ino # None /\ inode[ent[n][k].ino].kind = "dir"}
BeingMade(n) == \E p \in Procs : at[p].pc \in {"block", "add"} /\ at[p].ino = n
DirSound(n) ==
    /\ \A j, k \in DOMAIN ent[n] : ent[n][j].ino # None /\ ent[n][k].ino # None
                                   /\ ent[n][j].name = ent[n][k].name => j = k
    /\ \A k \in DOMAIN ent[n] : ent[n][k].ino = None \/ Used(ent[n][k].ino)
    /\ \/ inode[n].nlinks = 2 + Cardinality(SubDirs(n))
          /\ (n = Root \/ BeingMade(n) \/ Cardinality(NamesOf(n)) = 1)
       \/ inode[n].nlinks = 0 /\ NamesOf(n) = {} /\ \A k \in DOMAIN ent[n] : ent[n][k].ino = None
Linkers(n) == {p \in Procs : at[p].pc = "linked" /\ at[p].old = n}
FileSound(n) ==
    /\ BeingMade(n)
       \/ inode[n].nlinks + Cardinality(Linkers(n)) = Cardinality(NamesOf(n))
    /\ inode[n].nlinks > 0 \/ inode[n].count > 0
TreeSound ==
    broken = "no" => \A n \in Inums : /\ inode[n].kind = "dir" => DirSound(n)
                                      /\ inode[n].kind = "file" => FileSound(n)

(* The complaint "Deleting nonexistent file" of sys_unlink() is never made *)
(* of a file whose name is there: i_nlinks is 0 only when no name is left. *)
DeletesWhatExists == broken # "uncounted"
=============================================================================
