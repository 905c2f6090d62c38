---------------------------- MODULE Files_proofs ----------------------------
(***************************************************************************)
(* The counts of file_table and of pipes are right whatever processes do   *)
(* with descriptors, and what a pipe holds stays in order.  IInv adds to   *)
(* the counts what a call that has slept finds again: the entries it had   *)
(* taken are still its own.  RingsOrdered is what IInv says nothing of:    *)
(* head, tail and page of a ring agree.                                    *)
(***************************************************************************)
EXTENDS Files, FiniteSetTheorems, TLAPS

(* Where a process can be, and what it remembers there. *)
Places ==
    [pc : {"unborn", "user", "exit"}, asleep : BOOLEAN]
    \cup [pc : {"open"}, asleep : BOOLEAN, fd : Fds]
    \cup [pc : {"dup2"}, asleep : BOOLEAN, fd : Fds, arg : Fds]
    \cup [pc : {"pipe"}, asleep : BOOLEAN, r : Fds, w : Fds]
    \cup [pc : {Read, Write}, asleep : BOOLEAN, x : Pipes, count : Nat, fresh : BOOLEAN]
Entries == [f_count : Int, f_inode : Pipes \cup {Nothing, File}, f_mode : {Nothing, Read, Write}]
Rings == [i_count : Int, head : Int, tail : Int, page : [0..PAGE_SIZE - 1 -> Int],
          i_wait : Procs \cup {Nothing}, sent : Int, got : Int]
Typed ==
    /\ filp \in [Procs -> [Fds -> FileTable \cup {None}]]
    /\ file \in [FileTable -> Entries]
    /\ pipe \in [Pipes -> Rings]
    /\ at \in [Procs -> Places]

(* An unused entry is as new; one with the inode of a pipe is one of its   *)
(* ends.                                                                   *)
EntriesSound ==
    \A f \in FileTable : /\ file[f].f_count = 0 => file[f] = NewFile
                         /\ file[f].f_inode \in Pipes => file[f].f_mode \in {Read, Write}

(* f has been taken by p and is not set up yet: only descriptor fd of p    *)
(* points to it.                                                           *)
OwnedBy(p, fd) ==
    LET f == filp[p][fd] IN
    /\ f \in FileTable /\ file[f].f_inode = Nothing
    /\ \A q \in Procs, d \in Fds : filp[q][d] = f => q = p /\ d = fd

(* What a process finds when it goes on with a call. *)
CallSound(p) ==
    /\ At(p, "unborn") => \A fd \in Fds : filp[p][fd] = None
    /\ At(p, "open") => OwnedBy(p, at[p].fd)
    /\ At(p, "dup2") => filp[p][at[p].arg] = None
    /\ At(p, "pipe") => /\ OwnedBy(p, at[p].r) /\ OwnedBy(p, at[p].w)
                        /\ filp[p][at[p].r] # filp[p][at[p].w]
CallsSound == \A p \in Procs : CallSound(p)

(* i_count of a pipe is the number of entries with its inode. *)
EndsOf(x) == {f \in FileTable : file[f].f_inode = x}
PipesCounted == \A x \in Pipes : pipe[x].i_count = Cardinality(EndsOf(x))

IInv ==
    /\ Typed
    /\ EntriesSound
    /\ CallsSound
    /\ FilesCounted
    /\ PipesCounted
-----------------------------------------------------------------------------
(* Where processes are *)

LEMMA Names ==
    /\ None \notin FileTable /\ Pipes \cap {Nothing, File} = {} /\ Nothing # File
    /\ Read # Write /\ Nothing \notin {Read, Write}
    /\ PAGE_SIZE \in Nat /\ PAGE_SIZE > 0 /\ Numbers \in Nat /\ Numbers > 0
BY FilesAssumption DEF None, FileTable, Nothing, File, Read, Write, Numbers

(* n is where m was, but for sleeping. *)
Alike(m, n) ==
    /\ n \in Places /\ n.pc = m.pc
    /\ m.pc = "open" => n.fd = m.fd
    /\ m.pc = "dup2" => n.arg = m.arg
    /\ m.pc = "pipe" => n.r = m.r /\ n.w = m.w
MovesTo(p, me) ==
    /\ at' \in [Procs -> Places] /\ at'[p] = me
    /\ \A q \in Procs \ {p} : Alike(at[q], at'[q])

LEMMA PlaceFields ==
    ASSUME NEW m \in Places
    PROVE  /\ m.pc \in {"open", "dup2"} => m.fd \in Fds
           /\ m.pc = "dup2" => m.arg \in Fds
           /\ m.pc = "pipe" => m.r \in Fds /\ m.w \in Fds
           /\ m.pc \in {Read, Write} => m.x \in Pipes /\ m.count \in Nat
           /\ m.pc \in {"unborn", "user", "exit", "open", "dup2", "pipe", Read, Write}
BY DEF Places, Read, Write

LEMMA Woken ==
    ASSUME NEW m \in Places
    PROVE  Alike(m, [m EXCEPT !.asleep = FALSE])
<1> DEFINE n == [m EXCEPT !.asleep = FALSE]
<1>1. CASE m \in [pc : {"unborn", "user", "exit"}, asleep : BOOLEAN]
  BY <1>1 DEF Alike, Places
<1>2. CASE m \in [pc : {"open"}, asleep : BOOLEAN, fd : Fds]
  BY <1>2 DEF Alike, Places
<1>3. CASE m \in [pc : {"dup2"}, asleep : BOOLEAN, fd : Fds, arg : Fds]
  BY <1>3 DEF Alike, Places
<1>4. CASE m \in [pc : {"pipe"}, asleep : BOOLEAN, r : Fds, w : Fds]
  BY <1>4 DEF Alike, Places
<1>5. CASE m \in [pc : {Read, Write}, asleep : BOOLEAN, x : Pipes, count : Nat, fresh : BOOLEAN]
  BY <1>5 DEF Alike, Places, Read, Write
<1> QED
  BY <1>1, <1>2, <1>3, <1>4, <1>5 DEF Places

LEMMA WakesMoves ==
    ASSUME IInv, NEW p \in Procs, NEW x, NEW me \in Places, WakesUp(p, x, me)
    PROVE  MovesTo(p, me)
<1>1. \A q \in Procs : at[q] \in Places
  BY DEF IInv, Typed
<1>2. at'[p] = me
  BY DEF WakesUp
<1>3. \A q \in Procs : Alike(at[q], at[q]) /\ Alike(at[q], [at[q] EXCEPT !.asleep = FALSE])
  BY <1>1, Woken DEF Alike
<1>4. ASSUME NEW q \in Procs \ {p}
      PROVE  at'[q] = at[q] \/ at'[q] = [at[q] EXCEPT !.asleep = FALSE]
  BY DEF WakesUp
<1>5. \A q \in Procs \ {p} : Alike(at[q], at'[q])
  BY <1>3, <1>4
<1>6. at' \in [Procs -> Places]
  <2>1. \A q \in Procs : at'[q] \in Places
    BY <1>2, <1>5 DEF Alike
  <2>2. at' = [q \in Procs |-> at'[q]]
    BY DEF WakesUp
  <2> QED
    BY <2>1, <2>2
<1> QED
  BY <1>2, <1>5, <1>6 DEF MovesTo

LEMMA GotoMoves ==
    ASSUME IInv, NEW p \in Procs, NEW me \in Places, Goto(p, me)
    PROVE  MovesTo(p, me)
BY DEF IInv, Typed, Goto, MovesTo, Alike

-----------------------------------------------------------------------------
(* Descriptors *)

LEMMA DescriptorsFinite ==
    ASSUME NEW f
    PROVE  IsFiniteSet(Descriptors(f)) /\ Cardinality(Descriptors(f)) \in Nat
<1>1. IsFiniteSet(Fds)
  BY FilesAssumption, FS_Interval DEF Fds
<1>2. IsFiniteSet(Procs \X Fds)
  BY <1>1, FilesAssumption, FS_Product
<1> QED
  BY <1>2, FS_Subset, FS_CardinalityType DEF Descriptors

LEMMA Unheld ==
    ASSUME IInv, NEW f \in FileTable
    PROVE  /\ file[f].f_count = 0 <=> \A q \in Procs, d \in Fds : filp[q][d] # f
           /\ file[f].f_count = 0 => file[f] = NewFile
<1>1. file[f].f_count = 0 <=> Descriptors(f) = {}
  BY DescriptorsFinite, FS_EmptySet DEF IInv, FilesCounted
<1>2. Descriptors(f) = {} <=> \A q \in Procs, d \in Fds : filp[q][d] # f
  <2>1. ASSUME NEW q \in Procs, NEW d \in Fds, filp[q][d] = f
        PROVE  <<q, d>> \in Descriptors(f)
    BY <2>1 DEF Descriptors
  <2>2. ASSUME NEW e \in Descriptors(f)
        PROVE  e[1] \in Procs /\ e[2] \in Fds /\ filp[e[1]][e[2]] = f
    BY DEF Descriptors
  <2> QED
    BY <2>1, <2>2
<1> QED
  BY <1>1, <1>2 DEF IInv, EntriesSound

(* One more descriptor points to f, or one less. *)
LEMMA Pointed ==
    ASSUME IInv, NEW p \in Procs, NEW fd \in Fds, NEW f \in FileTable,
           filp[p][fd] = None, filp' = [filp EXCEPT ![p][fd] = f],
           file'[f].f_count = file[f].f_count + 1,
           \A g \in FileTable \ {f} : file'[g].f_count = file[g].f_count
    PROVE  FilesCounted'
<1>1. f # None
  BY Names
<1>2. Descriptors(f)' = Descriptors(f) \cup {<<p, fd>>} /\ <<p, fd>> \notin Descriptors(f)
  BY <1>1 DEF IInv, Typed, Descriptors
<1>3. \A g \in FileTable \ {f} : Descriptors(g)' = Descriptors(g)
  BY Names DEF IInv, Typed, Descriptors
<1>4. Cardinality(Descriptors(f) \cup {<<p, fd>>}) = Cardinality(Descriptors(f)) + 1
  BY <1>2, DescriptorsFinite, FS_AddElement
<1> QED
  BY <1>2, <1>3, <1>4 DEF IInv, FilesCounted

LEMMA Unpointed ==
    ASSUME IInv, NEW p \in Procs, NEW fd \in Fds, NEW f \in FileTable,
           filp[p][fd] = f, filp' = [filp EXCEPT ![p][fd] = None],
           file'[f].f_count = file[f].f_count - 1,
           \A g \in FileTable \ {f} : file'[g].f_count = file[g].f_count
    PROVE  FilesCounted'
<1>1. f # None
  BY Names
<1>2. Descriptors(f)' = Descriptors(f) \ {<<p, fd>>} /\ <<p, fd>> \in Descriptors(f)
  BY <1>1 DEF IInv, Typed, Descriptors
<1>3. \A g \in FileTable \ {f} : Descriptors(g)' = Descriptors(g)
  BY Names DEF IInv, Typed, Descriptors
<1>4. Cardinality(Descriptors(f) \ {<<p, fd>>}) = Cardinality(Descriptors(f)) - 1
  BY <1>2, DescriptorsFinite, FS_RemoveElement
<1> QED
  BY <1>2, <1>3, <1>4 DEF IInv, FilesCounted

(* Two descriptors are taken, or given up, together. *)
LEMMA TwoPointed ==
    ASSUME IInv, NEW p \in Procs, NEW r \in Fds, NEW w \in Fds, r # w,
           NEW f \in FileTable, NEW g \in FileTable, f # g,
           filp[p][r] = None, filp[p][w] = None,
           filp' = [filp EXCEPT ![p][r] = f, ![p][w] = g],
           file[f].f_count = 0, file[g].f_count = 0,
           file'[f].f_count = 1, file'[g].f_count = 1,
           \A h \in FileTable \ {f, g} : file'[h].f_count = file[h].f_count
    PROVE  FilesCounted'
<1>1. \A q \in Procs, d \in Fds : filp[q][d] # f /\ filp[q][d] # g
  BY Unheld
<1>2. Descriptors(f)' = {<<p, r>>} /\ Descriptors(g)' = {<<p, w>>}
  BY <1>1, Names DEF IInv, Typed, Descriptors
<1>3. \A h \in FileTable \ {f, g} : Descriptors(h)' = Descriptors(h)
  BY Names DEF IInv, Typed, Descriptors
<1>4. Cardinality(Descriptors(f))' = 1 /\ Cardinality(Descriptors(g))' = 1
  BY <1>2, FS_Singleton
<1> QED
  BY <1>3, <1>4 DEF IInv, FilesCounted

LEMMA TwoUnpointed ==
    ASSUME IInv, NEW p \in Procs, NEW r \in Fds, NEW w \in Fds,
           OwnedBy(p, r), OwnedBy(p, w), filp[p][r] # filp[p][w],
           filp' = [filp EXCEPT ![p][r] = None, ![p][w] = None],
           file' = EntriesFreed(filp[p][r], filp[p][w])
    PROVE  FilesCounted'
<1>1. PICK f, g \in FileTable : f = filp[p][r] /\ g = filp[p][w]
  BY DEF OwnedBy
<1>2. Descriptors(f)' = {} /\ Descriptors(g)' = {}
  BY <1>1, Names DEF IInv, Typed, OwnedBy, Descriptors
<1>3. \A h \in FileTable \ {f, g} : Descriptors(h)' = Descriptors(h)
  BY <1>1, Names DEF IInv, Typed, Descriptors
<1>4. Cardinality(Descriptors(f))' = 0 /\ Cardinality(Descriptors(g))' = 0
  BY <1>2, FS_EmptySet
<1>5. /\ file'[f].f_count = 0 /\ file'[g].f_count = 0
      /\ \A h \in FileTable \ {f, g} : file'[h] = file[h]
  BY <1>1 DEF IInv, Typed, EntriesFreed, NewFile
<1> QED
  BY <1>3, <1>4, <1>5 DEF IInv, FilesCounted
-----------------------------------------------------------------------------
(* What a step leaves as it was *)

(* p does something with its own descriptors, or with those of a process c *)
(* it makes: who is in the middle of a call still owns what it had taken.  *)
LEMMA OthersKept ==
    ASSUME IInv, NEW p \in Procs, NEW c \in Procs,
           \A q \in Procs \ {p, c} : Alike(at[q], at'[q]),
           \A q \in Procs \ {c} : filp'[q] = filp[q],
           \A d \in Fds : \/ filp'[c][d] = None
                          \/ \E e \in Fds : filp'[c][d] = filp[p][e]
                          \/ \E g \in FileTable : filp'[c][d] = g /\ file[g].f_count = 0,
           \A f \in FileTable : \/ file'[f].f_inode = file[f].f_inode
                                \/ file[f].f_count = 0
                                \/ \E e \in Fds : filp[p][e] = f
    PROVE  \A q \in Procs \ {p, c} : CallSound(q)'
<1> SUFFICES ASSUME NEW q \in Procs \ {p, c}
             PROVE  CallSound(q)'
  OBVIOUS
<1>1. CallSound(q) /\ Alike(at[q], at'[q]) /\ filp'[q] = filp[q]
  BY DEF IInv, CallsSound
<1>2. ASSUME NEW fd \in Fds, OwnedBy(q, fd)
      PROVE  OwnedBy(q, fd)'
  <2>1. PICK f \in FileTable : f = filp[q][fd]
    BY <1>2 DEF OwnedBy
  <2>2. file[f].f_inode = Nothing /\ \A r \in Procs, d \in Fds : filp[r][d] = f => r = q /\ d = fd
    BY <1>2, <2>1 DEF OwnedBy
  <2>3. file[f].f_count # 0
    BY <2>1, Unheld
  <2>4. \A e \in Fds : filp[p][e] # f
    BY <2>2
  <2>5. file'[f].f_inode = Nothing /\ filp'[q][fd] = f
    BY <1>1, <2>1, <2>2, <2>3, <2>4
  <2>6. \A d \in Fds : filp'[c][d] # f
    BY <2>3, <2>4, Names
  <2>7. \A r \in Procs, d \in Fds : filp'[r][d] = f => r = q /\ d = fd
    BY <2>2, <2>6
  <2> QED
    BY <2>5, <2>7 DEF OwnedBy
<1>3. at[q] \in Places
  BY DEF IInv, Typed
<1>4. at'[q].pc = at[q].pc
  BY <1>1 DEF Alike
<1>5. CASE at[q].pc = "open"
  <2>1. PICK fd \in Fds : fd = at[q].fd /\ fd = at'[q].fd
    BY <1>1, <1>3, <1>5, PlaceFields DEF Alike
  <2>2. OwnedBy(q, at[q].fd)
    BY <1>1, <1>5 DEF CallSound, At
  <2>3. OwnedBy(q, fd)'
    BY <1>2, <2>1, <2>2
  <2> QED
    BY <1>4, <1>5, <2>1, <2>3 DEF CallSound, At, OwnedBy
<1>6. CASE at[q].pc = "dup2"
  BY <1>1, <1>4, <1>6 DEF CallSound, At, Alike
<1>7. CASE at[q].pc = "pipe"
  <2>1. PICK r \in Fds, w \in Fds : /\ r = at[q].r /\ r = at'[q].r
                                   /\ w = at[q].w /\ w = at'[q].w
    BY <1>1, <1>3, <1>7, PlaceFields DEF Alike
  <2>2. OwnedBy(q, r) /\ OwnedBy(q, w) /\ filp[q][r] # filp[q][w]
    BY <1>1, <1>7, <2>1 DEF CallSound, At
  <2>3. OwnedBy(q, r)' /\ OwnedBy(q, w)'
    BY <1>2, <2>2
  <2> QED
    BY <1>1, <1>4, <1>7, <2>1, <2>2, <2>3 DEF CallSound, At, OwnedBy
<1>8. CASE at[q].pc \notin {"open", "dup2", "pipe"}
  BY <1>1, <1>4, <1>8 DEF CallSound, At
<1> QED
  BY <1>5, <1>6, <1>7, <1>8

LEMMA EndsFinite ==
    ASSUME NEW x
    PROVE  IsFiniteSet(EndsOf(x)) /\ Cardinality(EndsOf(x)) \in Nat
<1>1. IsFiniteSet(FileTable)
  BY FilesAssumption, FS_Interval DEF FileTable
<1> QED
  BY <1>1, FS_Subset, FS_CardinalityType DEF EndsOf

LEMMA PipesKept ==
    ASSUME IInv,
           \A f \in FileTable, x \in Pipes : file'[f].f_inode = x <=> file[f].f_inode = x,
           \A x \in Pipes : pipe'[x].i_count = pipe[x].i_count
    PROVE  PipesCounted'
<1>1. \A x \in Pipes : EndsOf(x)' = EndsOf(x)
  BY DEF EndsOf
<1> QED
  BY <1>1 DEF IInv, PipesCounted

LEMMA CountsKept ==
    ASSUME IInv, filp' = filp,
           \A f \in FileTable : file'[f].f_count = file[f].f_count
    PROVE  FilesCounted'
<1>1. \A f \in FileTable : Descriptors(f)' = Descriptors(f)
  BY DEF Descriptors
<1> QED
  BY <1>1 DEF IInv, FilesCounted

-----------------------------------------------------------------------------
(* Opening and closing *)

LEMMA Owned ==
    ASSUME IInv, NEW p \in Procs, NEW fd \in Fds, OwnedBy(p, fd)
    PROVE  \E f \in FileTable : f = filp[p][fd] /\ file[f].f_count = 1 /\ file[f].f_inode = Nothing
<1>1. PICK f \in FileTable : f = filp[p][fd]
  BY DEF OwnedBy
<1>2. Descriptors(f) = {<<p, fd>>}
  BY <1>1 DEF OwnedBy, Descriptors
<1>3. file[f].f_count = 1
  BY <1>2, FS_Singleton DEF IInv, FilesCounted
<1> QED
  BY <1>1, <1>3 DEF OwnedBy

LEMMA OpenBeginIInv ==
    ASSUME IInv, NEW p \in Procs, OpenBegin(p)
    PROVE  IInv'
<1>1. PICK fd \in FreeFds(p, 1), f \in FreeFiles(1) :
         /\ filp' = [filp EXCEPT ![p][fd] = f]
         /\ file' = [file EXCEPT ![f].f_count = @ + 1]
         /\ Goto(p, [pc |-> "open", asleep |-> FALSE, fd |-> fd])
  BY DEF OpenBegin
<1>2. fd \in Fds /\ filp[p][fd] = None /\ f \in FileTable /\ file[f].f_count = 0
  BY DEF FreeFds, FreeFiles, Lowest
<1>3. file[f] = NewFile /\ \A q \in Procs, d \in Fds : filp[q][d] # f
  BY <1>2, Unheld
<1> DEFINE me == [pc |-> "open", asleep |-> FALSE, fd |-> fd]
<1>4. MovesTo(p, me)
  <2>1. me \in Places
    BY <1>2 DEF Places
  <2> QED
    BY <1>1, <2>1, GotoMoves
<1>5. pipe' = pipe
  BY DEF OpenBegin
<1>6. /\ file'[f] = [f_count |-> 1, f_inode |-> Nothing, f_mode |-> Nothing]
      /\ \A g \in FileTable \ {f} : file'[g] = file[g]
      /\ file' \in [FileTable -> Entries]
  BY <1>1, <1>2, <1>3 DEF IInv, Typed, NewFile, Entries
<1>7. /\ filp'[p][fd] = f /\ \A d \in Fds \ {fd} : filp'[p][d] = filp[p][d]
      /\ \A q \in Procs \ {p} : filp'[q] = filp[q]
      /\ filp' \in [Procs -> [Fds -> FileTable \cup {None}]]
  BY <1>1, <1>2 DEF IInv, Typed
<1>8. Typed'
  BY <1>4, <1>5, <1>6, <1>7 DEF IInv, Typed, MovesTo
<1>9. EntriesSound'
  BY <1>6, Names DEF IInv, EntriesSound, NewFile
<1>10. CallsSound'
  <2>1. \A q \in Procs \ {p} : CallSound(q)'
    <3>1. /\ \A q \in Procs \ {p} : Alike(at[q], at'[q])
          /\ \A g \in FileTable : file'[g].f_inode = file[g].f_inode \/ file[g].f_count = 0
      BY <1>2, <1>4, <1>6 DEF MovesTo
    <3>2. \A d \in Fds : \/ filp'[p][d] = f
                         \/ \E e \in Fds : filp'[p][d] = filp[p][e]
      BY <1>7
    <3> QED
      BY <1>2, <1>7, <3>1, <3>2, OthersKept
  <2>2. OwnedBy(p, fd)'
    BY <1>2, <1>3, <1>6, <1>7 DEF OwnedBy
  <2>3. CallSound(p)'
    BY <1>4, <2>2 DEF CallSound, At, MovesTo, OwnedBy
  <2> QED
    BY <2>1, <2>3 DEF CallsSound
<1>11. FilesCounted'
  BY <1>1, <1>2, <1>3, <1>6, Pointed DEF NewFile
<1>12. PipesCounted'
  BY <1>3, <1>5, <1>6, PipesKept DEF NewFile
<1> QED
  BY <1>8, <1>9, <1>10, <1>11, <1>12 DEF IInv

LEMMA OpenDoneIInv ==
    ASSUME IInv, NEW p \in Procs, OpenDone(p)
    PROVE  IInv'
<1>1. PICK fd \in Fds : fd = at[p].fd /\ OwnedBy(p, fd)
  <2>1. at[p] \in Places /\ at[p].pc = "open" /\ CallSound(p)
    BY DEF OpenDone, Runs, At, IInv, Typed, CallsSound
  <2> QED
    BY <2>1, PlaceFields DEF CallSound, At
<1>2. PICK f \in FileTable : f = filp[p][fd] /\ file[f].f_count = 1 /\ file[f].f_inode = Nothing
  BY <1>1, Owned
<1>3. MovesTo(p, AtUser)
  BY GotoMoves DEF OpenDone, AtUser, Places
<1>4. /\ file'[f] = [f_count |-> 1, f_inode |-> File, f_mode |-> Read]
      /\ \A g \in FileTable \ {f} : file'[g] = file[g]
      /\ file' \in [FileTable -> Entries]
  BY <1>1, <1>2 DEF OpenDone, IInv, Typed, Entries
<1>5. filp' = filp /\ pipe' = pipe
  BY DEF OpenDone
<1>6. Typed'
  BY <1>3, <1>4, <1>5 DEF IInv, Typed, MovesTo
<1>7. EntriesSound'
  BY <1>4, Names DEF IInv, EntriesSound, NewFile
<1>8. CallsSound'
  <2>1. \A q \in Procs \ {p} : CallSound(q)'
    BY <1>2, <1>3, <1>4, <1>5, OthersKept DEF MovesTo
  <2>2. CallSound(p)'
    BY <1>3 DEF CallSound, At, MovesTo, AtUser
  <2> QED
    BY <2>1, <2>2 DEF CallsSound
<1>9. FilesCounted'
  BY <1>2, <1>4, <1>5, CountsKept
<1>10. PipesCounted'
  BY <1>2, <1>4, <1>5, Names, PipesKept
<1> QED
  BY <1>6, <1>7, <1>8, <1>9, <1>10 DEF IInv

LEMMA OpenFailsIInv ==
    ASSUME IInv, NEW p \in Procs, OpenFails(p)
    PROVE  IInv'
<1>1. PICK fd \in Fds : fd = at[p].fd /\ OwnedBy(p, fd)
  <2>1. at[p] \in Places /\ at[p].pc = "open" /\ CallSound(p)
    BY DEF OpenFails, Runs, At, IInv, Typed, CallsSound
  <2> QED
    BY <2>1, PlaceFields DEF CallSound, At
<1>2. PICK f \in FileTable : f = filp[p][fd] /\ file[f].f_count = 1 /\ file[f].f_inode = Nothing
  BY <1>1, Owned
<1>3. MovesTo(p, AtUser)
  BY GotoMoves DEF OpenFails, AtUser, Places
<1>4. /\ file'[f] = NewFile
      /\ \A g \in FileTable \ {f} : file'[g] = file[g]
      /\ file' \in [FileTable -> Entries]
  BY <1>1, <1>2 DEF OpenFails, IInv, Typed, Entries, NewFile
<1>5. pipe' = pipe /\ filp' = [filp EXCEPT ![p][fd] = None]
  BY <1>1 DEF OpenFails
<1>6. /\ filp'[p][fd] = None /\ \A d \in Fds \ {fd} : filp'[p][d] = filp[p][d]
      /\ \A q \in Procs \ {p} : filp'[q] = filp[q]
      /\ filp' \in [Procs -> [Fds -> FileTable \cup {None}]]
  BY <1>5 DEF IInv, Typed
<1>7. Typed'
  BY <1>3, <1>4, <1>5, <1>6 DEF IInv, Typed, MovesTo
<1>8. EntriesSound'
  BY <1>4, Names DEF IInv, EntriesSound, NewFile
<1>9. CallsSound'
  <2>1. \A q \in Procs \ {p} : CallSound(q)'
    BY <1>2, <1>3, <1>4, <1>6, OthersKept DEF MovesTo
  <2>2. CallSound(p)'
    BY <1>3 DEF CallSound, At, MovesTo, AtUser
  <2> QED
    BY <2>1, <2>2 DEF CallsSound
<1>10. FilesCounted'
  <2>1. file'[f].f_count = file[f].f_count - 1
    BY <1>2, <1>4 DEF NewFile
  <2> QED
    BY <1>2, <1>4, <1>5, <2>1, Unpointed
<1>11. PipesCounted'
  BY <1>2, <1>4, <1>5, Names, PipesKept DEF NewFile
<1> QED
  BY <1>7, <1>8, <1>9, <1>10, <1>11 DEF IInv

(* Closing a descriptor, in whatever call. *)
LEMMA CloseThenIInv ==
    ASSUME IInv, NEW p \in Procs, NEW fd \in Open(p), NEW me \in Places,
           me.pc \in {"user", "exit"} \/ (me.pc = "dup2" /\ me.arg = fd),
           CloseThen(p, fd, me)
    PROVE  IInv'
<1>1. PICK f \in FileTable : f = filp[p][fd] /\ fd \in Fds
  BY DEF Open, IInv, Typed
<1>2. file[f].f_count \in Nat \ {0}
  BY <1>1, DescriptorsFinite, Unheld DEF IInv, FilesCounted
<1>3. /\ filp' = [filp EXCEPT ![p][fd] = None]
      /\ file[f].f_count = 1 => file' = [file EXCEPT ![f] = NewFile]
      /\ file[f].f_count # 1 => file' = [file EXCEPT ![f].f_count = @ - 1]
  BY <1>1 DEF CloseThen
<1>4. MovesTo(p, me)
  BY WakesMoves, GotoMoves DEF CloseThen
<1>5. /\ filp'[p][fd] = None /\ \A d \in Fds \ {fd} : filp'[p][d] = filp[p][d]
      /\ \A q \in Procs \ {p} : filp'[q] = filp[q]
      /\ filp' \in [Procs -> [Fds -> FileTable \cup {None}]]
  BY <1>1, <1>3 DEF IInv, Typed
<1>6. /\ file[f].f_count = 1 => file'[f] = NewFile
      /\ file[f].f_count # 1 => /\ file'[f] = [file[f] EXCEPT !.f_count = @ - 1]
                                /\ file'[f].f_inode = file[f].f_inode
                                /\ file'[f].f_mode = file[f].f_mode
      /\ file'[f].f_count = file[f].f_count - 1
      /\ \A g \in FileTable \ {f} : file'[g] = file[g]
      /\ file' \in [FileTable -> Entries]
  <2>1. file[f] \in Entries /\ NewFile \in Entries /\ NewFile.f_count = 0
    BY DEF IInv, Typed, Entries, NewFile
  <2>2. CASE file[f].f_count = 1
    BY <1>3, <2>1, <2>2 DEF IInv, Typed
  <2>3. CASE file[f].f_count # 1
    <3>1. file \in [FileTable -> Entries]
      BY DEF IInv, Typed
    <3>2. file' = [file EXCEPT ![f].f_count = @ - 1]
      BY <1>3, <2>3
    <3>3. [file EXCEPT ![f].f_count = @ - 1] \in [FileTable -> Entries]
      BY <3>1 DEF Entries
    <3>4. file'[f] = [file[f] EXCEPT !.f_count = @ - 1]
      BY <3>1, <3>2
    <3>5. /\ file'[f].f_inode = file[f].f_inode /\ file'[f].f_mode = file[f].f_mode
          /\ file'[f].f_count = file[f].f_count - 1
      BY <2>1, <3>4 DEF Entries
    <3>6. \A g \in FileTable \ {f} : file'[g] = file[g]
      BY <3>1, <3>2
    <3> QED
      BY <2>3, <3>2, <3>3, <3>4, <3>5, <3>6
  <2> QED
    BY <2>2, <2>3
<1>7. EntriesSound'
  BY <1>2, <1>6, Names DEF IInv, EntriesSound, NewFile
<1>8. CallsSound'
  <2>1. \A q \in Procs \ {p} : CallSound(q)'
    BY <1>1, <1>4, <1>5, <1>6, OthersKept DEF MovesTo
  <2>2. CallSound(p)'
    BY <1>4, <1>5 DEF CallSound, At, MovesTo
  <2> QED
    BY <2>1, <2>2 DEF CallsSound
<1>9. FilesCounted'
  BY <1>1, <1>3, <1>6, Unpointed
<1>10. CASE LastUser(f) /\ file[f].f_inode \in Pipes
  <2>1. PICK x \in Pipes : x = file[f].f_inode
    BY <1>10
  <2>2. /\ file[f].f_count = 1 /\ file'[f].f_inode \notin Pipes
    BY <1>6, <1>10, Names DEF LastUser, NewFile
  <2>3. pipe' = PutPipe(x)
    BY <1>1, <1>10, <2>1 DEF CloseThen
  <2>4. pipe[x] \in Rings
    BY DEF IInv, Typed
  <2>5. NewPipe \in Rings
    BY FilesAssumption DEF NewPipe, Rings
  <2>9. /\ pipe' \in [Pipes -> Rings]
        /\ pipe'[x].i_count = pipe[x].i_count - 1
        /\ \A y \in Pipes \ {x} : pipe'[y] = pipe[y]
    <3>1. CASE pipe[x].i_count = 1
      BY <2>3, <2>5, <3>1 DEF IInv, Typed, PutPipe, NewPipe
    <3>2. CASE pipe[x].i_count # 1
      <4>1. pipe \in [Pipes -> Rings]
        BY DEF IInv, Typed
      <4>2. pipe' = [pipe EXCEPT ![x].i_count = @ - 1, ![x].i_wait = Nothing]
        BY <2>3, <3>2 DEF PutPipe
      <4>3. pipe'[x] = [pipe[x] EXCEPT !.i_count = @ - 1, !.i_wait = Nothing]
        BY <4>1, <4>2 DEF Rings
      <4>4. pipe'[x] \in Rings /\ pipe'[x].i_count = pipe[x].i_count - 1
        <5>1. PICK r \in Rings, n \in Int : r = pipe[x] /\ n = r.i_count - 1
          BY <2>4 DEF Rings
        <5>2. pipe'[x] = [r EXCEPT !.i_count = n, !.i_wait = Nothing]
          BY <4>3, <5>1
        <5> QED
          BY <5>1, <5>2 DEF Rings
      <4>5. \A y \in Pipes \ {x} : pipe'[y] = pipe[y]
        BY <4>1, <4>2
      <4>6. pipe' = [y \in Pipes |-> pipe'[y]]
        BY <4>1, <4>2
      <4>7. pipe' \in [Pipes -> Rings]
        BY <4>1, <4>4, <4>5, <4>6
      <4> QED
        BY <4>4, <4>5, <4>7
    <3> QED
      BY <3>1, <3>2
  <2>10. Typed'
    BY <1>4, <1>5, <1>6, <2>9 DEF Typed, MovesTo
  <2>11. EndsOf(x)' = EndsOf(x) \ {f} /\ f \in EndsOf(x)
    BY <1>6, <2>1, <2>2 DEF EndsOf
  <2>12. Cardinality(EndsOf(x) \ {f}) = Cardinality(EndsOf(x)) - 1
    BY <2>11, EndsFinite, FS_RemoveElement
  <2>13. \A y \in Pipes \ {x} : EndsOf(y)' = EndsOf(y)
    BY <1>6, <2>1, <2>2 DEF EndsOf
  <2>14. PipesCounted'
    BY <2>9, <2>11, <2>12, <2>13 DEF IInv, PipesCounted
  <2> QED
    BY <1>7, <1>8, <1>9, <2>10, <2>14 DEF IInv
<1>11. CASE ~(LastUser(f) /\ file[f].f_inode \in Pipes)
  <2>1. pipe' = pipe
    BY <1>1, <1>11 DEF CloseThen
  <2>2. Typed'
    BY <1>4, <1>5, <1>6, <2>1 DEF IInv, Typed, MovesTo
  <2>3. \A x \in Pipes : file'[f].f_inode = x <=> file[f].f_inode = x
    BY <1>6, <1>11, Names DEF LastUser, NewFile
  <2>4. PipesCounted'
    BY <1>6, <2>1, <2>3, PipesKept
  <2> QED
    BY <1>7, <1>8, <1>9, <2>2, <2>4 DEF IInv
<1> QED
  BY <1>10, <1>11

LEMMA CloseIInv ==
    ASSUME IInv, NEW p \in Procs, Close(p) \/ Dup2(p) \/ CloseNext(p)
    PROVE  IInv'
<1>1. CASE Close(p)
  <2>1. AtUser \in Places
    BY DEF AtUser, Places
  <2> QED
    BY <1>1, <2>1, CloseThenIInv DEF Close, AtUser
<1>2. CASE Dup2(p)
  <2>1. PICK fd \in Fds, new \in Open(p) :
            CloseThen(p, new, [pc |-> "dup2", asleep |-> FALSE, fd |-> fd, arg |-> new])
    BY <1>2 DEF Dup2
  <2>2. [pc |-> "dup2", asleep |-> FALSE, fd |-> fd, arg |-> new] \in Places
    BY DEF Open, Places
  <2> QED
    BY <2>1, <2>2, CloseThenIInv
<1>3. CASE CloseNext(p)
  <2>1. PICK fd \in Open(p) : CloseThen(p, fd, at[p])
    BY <1>3 DEF CloseNext, Lowest
  <2>2. at[p] \in Places /\ at[p].pc = "exit"
    BY <1>3 DEF CloseNext, Runs, At, IInv, Typed
  <2> QED
    BY <2>1, <2>2, CloseThenIInv
<1> QED
  BY <1>1, <1>2, <1>3

(* One more descriptor for what is open already. *)
LEMMA DupsIInv ==
    ASSUME IInv, NEW p \in Procs, NEW me \in Places, me.pc \in {"user"}, MovesTo(p, me),
           NEW fd \in Fds, NEW new \in Fds, NEW f \in FileTable,
           filp[p][fd] = f, filp[p][new] = None,
           filp' = [filp EXCEPT ![p][new] = f],
           file' = [file EXCEPT ![f].f_count = @ + 1],
           pipe' = pipe
    PROVE  IInv'
<1>1. file[f].f_count \in Nat
  BY DescriptorsFinite DEF IInv, FilesCounted
<1>2. file[f] \in Entries
  BY DEF IInv, Typed
<1>3. /\ file'[f].f_count = file[f].f_count + 1
      /\ file'[f].f_inode = file[f].f_inode
      /\ file'[f].f_mode = file[f].f_mode
      /\ \A g \in FileTable \ {f} : file'[g] = file[g]
      /\ file' \in [FileTable -> Entries]
  <2>1. file \in [FileTable -> Entries]
    BY DEF IInv, Typed
  <2>2. [file EXCEPT ![f].f_count = @ + 1] \in [FileTable -> Entries]
    BY <2>1 DEF Entries
  <2>3. file'[f] = [file[f] EXCEPT !.f_count = @ + 1]
    BY <2>1
  <2>4. /\ file'[f].f_inode = file[f].f_inode /\ file'[f].f_mode = file[f].f_mode
        /\ file'[f].f_count = file[f].f_count + 1
    BY <1>2, <2>3 DEF Entries
  <2> QED
    BY <2>1, <2>2, <2>4
<1>4. /\ filp'[p][new] = f /\ \A d \in Fds \ {new} : filp'[p][d] = filp[p][d]
      /\ \A q \in Procs \ {p} : filp'[q] = filp[q]
      /\ filp' \in [Procs -> [Fds -> FileTable \cup {None}]]
  BY DEF IInv, Typed
<1>5. Typed'
  BY <1>3, <1>4 DEF IInv, Typed, MovesTo
<1>6. EntriesSound'
  BY <1>1, <1>3 DEF IInv, EntriesSound
<1>7. CallsSound'
  <2>1. \A d \in Fds : \E e \in Fds : filp'[p][d] = filp[p][e]
    BY <1>4
  <2>2. \A q \in Procs \ {p} : CallSound(q)'
    BY <1>3, <1>4, <2>1, OthersKept DEF MovesTo
  <2>3. CallSound(p)'
    BY DEF CallSound, At, MovesTo
  <2> QED
    BY <2>2, <2>3 DEF CallsSound
<1>8. FilesCounted'
  BY <1>3, Pointed, ZenonT(60)
<1>9. PipesCounted'
  BY <1>3, PipesKept
<1> QED
  BY <1>5, <1>6, <1>7, <1>8, <1>9 DEF IInv

LEMMA DupIInv ==
    ASSUME IInv, NEW p \in Procs, Dup(p)
    PROVE  IInv'
<1>1. PICK fd \in Open(p), new \in Fds :
         /\ filp[p][new] = None
         /\ filp' = [filp EXCEPT ![p][new] = filp[p][fd]]
         /\ file' = [file EXCEPT ![filp[p][fd]].f_count = @ + 1]
         /\ pipe' = pipe /\ at' = at
  BY DEF Dup, Lowest
<1>2. PICK f \in FileTable : f = filp[p][fd] /\ fd \in Fds
  BY DEF Open, IInv, Typed
<1>3. at[p] \in Places /\ at[p].pc = "user" /\ MovesTo(p, at[p])
  BY <1>1 DEF Dup, Runs, At, IInv, Typed, MovesTo, Alike
<1> QED
  BY <1>1, <1>2, <1>3, DupsIInv

LEMMA Dup2DoneIInv ==
    ASSUME IInv, NEW p \in Procs, Dup2Done(p)
    PROVE  IInv'
<1>1. PICK fd \in Fds, new \in Fds : fd = at[p].fd /\ new = at[p].arg /\ filp[p][new] = None
  <2>1. at[p] \in Places /\ at[p].pc = "dup2" /\ CallSound(p)
    BY DEF Dup2Done, Runs, At, IInv, Typed, CallsSound
  <2> QED
    BY <2>1, PlaceFields DEF CallSound, At
<1>2. AtUser \in Places /\ AtUser.pc = "user"
  BY DEF AtUser, Places
<1>3. MovesTo(p, AtUser)
  BY <1>2, GotoMoves DEF Dup2Done
<1>4. CASE filp[p][fd] = None
  <2>1. UNCHANGED <<filp, file, pipe>>
    BY <1>1, <1>4 DEF Dup2Done
  <2>2. Typed' /\ EntriesSound'
    BY <1>3, <2>1 DEF IInv, Typed, EntriesSound, MovesTo
  <2>3. FilesCounted' /\ PipesCounted'
    BY <2>1, CountsKept, PipesKept
  <2>4. CallsSound'
    <3>1. \A q \in Procs \ {p} : CallSound(q)'
      BY <1>3, <2>1, OthersKept DEF MovesTo
    <3>2. CallSound(p)'
      BY <1>2, <1>3 DEF CallSound, At, MovesTo
    <3> QED
      BY <3>1, <3>2 DEF CallsSound
  <2> QED
    BY <2>2, <2>3, <2>4 DEF IInv
<1>5. CASE filp[p][fd] # None
  <2>1. PICK f \in FileTable : f = filp[p][fd]
    BY <1>5 DEF IInv, Typed
  <2>2. /\ filp' = [filp EXCEPT ![p][new] = f] /\ pipe' = pipe
        /\ file' = [file EXCEPT ![f].f_count = @ + 1]
    BY <1>1, <1>5, <2>1 DEF Dup2Done
  <2> QED
    BY <1>1, <1>2, <1>3, <2>1, <2>2, DupsIInv
<1> QED
  BY <1>4, <1>5

-----------------------------------------------------------------------------
(* Pipes *)

LEMMA PipeBeginIInv ==
    ASSUME IInv, NEW p \in Procs, PipeBegin(p)
    PROVE  IInv'
<1>1. PICK r \in FreeFds(p, 2), w \in FreeFds(p, 2), f \in FreeFiles(2), g \in FreeFiles(2) :
         /\ r < w /\ f < g
         /\ filp' = [filp EXCEPT ![p][r] = f, ![p][w] = g]
         /\ file' = [file EXCEPT ![f].f_count = 1, ![g].f_count = 1]
         /\ Goto(p, [pc |-> "pipe", asleep |-> FALSE, r |-> r, w |-> w])
  BY DEF PipeBegin
<1>2. /\ r \in Fds /\ filp[p][r] = None /\ w \in Fds /\ filp[p][w] = None
      /\ f \in FileTable /\ file[f].f_count = 0 /\ g \in FileTable /\ file[g].f_count = 0
  BY DEF FreeFds, FreeFiles, Lowest
<1>3. r # w /\ f # g
  BY <1>1, <1>2 DEF Fds, FileTable
<1>4. /\ file[f] = NewFile /\ file[g] = NewFile
      /\ \A q \in Procs, d \in Fds : filp[q][d] # f /\ filp[q][d] # g
  BY <1>2, Unheld
<1> DEFINE me == [pc |-> "pipe", asleep |-> FALSE, r |-> r, w |-> w]
<1>5. MovesTo(p, me)
  <2>1. me \in Places
    BY <1>2 DEF Places
  <2> QED
    BY <1>1, <2>1, GotoMoves
<1>6. pipe' = pipe
  BY DEF PipeBegin
<1>7. /\ file'[f] = [f_count |-> 1, f_inode |-> Nothing, f_mode |-> Nothing]
      /\ file'[g] = [f_count |-> 1, f_inode |-> Nothing, f_mode |-> Nothing]
      /\ \A h \in FileTable \ {f, g} : file'[h] = file[h]
      /\ file' \in [FileTable -> Entries]
  BY <1>1, <1>2, <1>3, <1>4 DEF IInv, Typed, NewFile, Entries
<1>8. /\ filp'[p][r] = f /\ filp'[p][w] = g
      /\ \A d \in Fds \ {r, w} : filp'[p][d] = filp[p][d]
      /\ \A q \in Procs \ {p} : filp'[q] = filp[q]
      /\ filp' \in [Procs -> [Fds -> FileTable \cup {None}]]
  BY <1>1, <1>2, <1>3 DEF IInv, Typed
<1>9. Typed'
  BY <1>5, <1>6, <1>7, <1>8 DEF IInv, Typed, MovesTo
<1>10. EntriesSound'
  BY <1>7, Names DEF IInv, EntriesSound, NewFile
<1>11. \A h \in FileTable : file'[h].f_inode = file[h].f_inode
  BY <1>4, <1>7 DEF NewFile
<1>12. CallsSound'
  <2>1. \A q \in Procs \ {p} : CallSound(q)'
    <3>1. \A d \in Fds : \/ filp'[p][d] = f \/ filp'[p][d] = g
                         \/ \E e \in Fds : filp'[p][d] = filp[p][e]
      BY <1>8
    <3>2. \A d \in Fds : \/ \E e \in Fds : filp'[p][d] = filp[p][e]
                         \/ \E h \in FileTable : filp'[p][d] = h /\ file[h].f_count = 0
      BY <1>2, <3>1
    <3> QED
      BY <1>5, <1>8, <1>11, <3>2, OthersKept DEF MovesTo
  <2>2. OwnedBy(p, r)'
    BY <1>2, <1>3, <1>4, <1>7, <1>8 DEF OwnedBy
  <2>3. OwnedBy(p, w)'
    BY <1>2, <1>3, <1>4, <1>7, <1>8 DEF OwnedBy
  <2>4. CallSound(p)'
    BY <1>3, <1>5, <1>8, <2>2, <2>3 DEF CallSound, At, MovesTo, OwnedBy
  <2> QED
    BY <2>1, <2>4 DEF CallsSound
<1>13. FilesCounted'
  <2>1. file'[f].f_count = 1 /\ file'[g].f_count = 1
    BY <1>7
  <2>2. \A h \in FileTable \ {f, g} : file'[h].f_count = file[h].f_count
    BY <1>7
  <2>3. filp' = [filp EXCEPT ![p][r] = f, ![p][w] = g]
    BY <1>1
  <2> QED
    BY <1>2, <1>3, <2>1, <2>2, <2>3, TwoPointed, ZenonT(60)
<1>14. PipesCounted'
  BY <1>6, <1>11, PipesKept
<1> QED
  BY <1>9, <1>10, <1>12, <1>13, <1>14 DEF IInv

(* What sys_pipe() finds when it goes on: two entries of its own. *)
LEMMA PipeTaken ==
    ASSUME IInv, NEW p \in Procs, At(p, "pipe")
    PROVE  \E r, w \in Fds, f, g \in FileTable :
             /\ r = at[p].r /\ w = at[p].w /\ OwnedBy(p, r) /\ OwnedBy(p, w)
             /\ f = filp[p][r] /\ g = filp[p][w] /\ f # g
             /\ file[f].f_count = 1 /\ file[f].f_inode = Nothing
             /\ file[g].f_count = 1 /\ file[g].f_inode = Nothing
<1>1. at[p] \in Places /\ at[p].pc = "pipe" /\ CallSound(p)
  BY DEF At, IInv, Typed, CallsSound
<1>2. PICK r, w \in Fds : r = at[p].r /\ w = at[p].w
  BY <1>1, PlaceFields
<1>3. OwnedBy(p, r) /\ OwnedBy(p, w) /\ filp[p][r] # filp[p][w]
  BY <1>1, <1>2 DEF CallSound, At
<1>4. PICK f \in FileTable : f = filp[p][r] /\ file[f].f_count = 1 /\ file[f].f_inode = Nothing
  BY <1>3, Owned
<1>5. PICK g \in FileTable : g = filp[p][w] /\ file[g].f_count = 1 /\ file[g].f_inode = Nothing
  BY <1>3, Owned
<1> QED
  BY <1>2, <1>3, <1>4, <1>5

LEMMA PipeDoneIInv ==
    ASSUME IInv, NEW p \in Procs, PipeDone(p)
    PROVE  IInv'
<1>1. PICK r, w \in Fds, f, g \in FileTable :
             /\ r = at[p].r /\ w = at[p].w /\ OwnedBy(p, r) /\ OwnedBy(p, w)
             /\ f = filp[p][r] /\ g = filp[p][w] /\ f # g
             /\ file[f].f_count = 1 /\ file[f].f_inode = Nothing
             /\ file[g].f_count = 1 /\ file[g].f_inode = Nothing
  BY PipeTaken DEF PipeDone, Runs
<1>2. PICK x \in Pipes :
         /\ pipe[x].i_count = 0
         /\ pipe' = [pipe EXCEPT ![x] = [NewPipe EXCEPT !.i_count = 2]]
         /\ file' = [file EXCEPT ![f] = [f_count |-> 1, f_inode |-> x, f_mode |-> Read],
                                 ![g] = [f_count |-> 1, f_inode |-> x, f_mode |-> Write]]
  BY <1>1 DEF PipeDone
<1>3. MovesTo(p, AtUser)
  BY GotoMoves DEF PipeDone, AtUser, Places
<1>4. /\ file'[f] = [f_count |-> 1, f_inode |-> x, f_mode |-> Read]
      /\ file'[g] = [f_count |-> 1, f_inode |-> x, f_mode |-> Write]
      /\ \A h \in FileTable \ {f, g} : file'[h] = file[h]
      /\ file' \in [FileTable -> Entries]
  BY <1>1, <1>2 DEF IInv, Typed, Entries
<1>5. /\ pipe' \in [Pipes -> Rings] /\ pipe'[x].i_count = 2
      /\ \A y \in Pipes \ {x} : pipe'[y] = pipe[y]
  <2>1. [NewPipe EXCEPT !.i_count = 2] \in Rings /\ [NewPipe EXCEPT !.i_count = 2].i_count = 2
    BY FilesAssumption DEF NewPipe, Rings
  <2> QED
    BY <1>2, <2>1 DEF IInv, Typed
<1>6. filp' = filp
  BY DEF PipeDone
<1>7. Typed'
  BY <1>3, <1>4, <1>5, <1>6 DEF IInv, Typed, MovesTo
<1>8. EntriesSound'
  BY <1>4 DEF IInv, EntriesSound
<1>9. CallsSound'
  <2>1. \A q \in Procs \ {p} : CallSound(q)'
    BY <1>1, <1>3, <1>4, <1>6, OthersKept DEF MovesTo
  <2>2. CallSound(p)'
    BY <1>3 DEF CallSound, At, MovesTo, AtUser
  <2> QED
    BY <2>1, <2>2 DEF CallsSound
<1>10. FilesCounted'
  <2>1. \A h \in FileTable : file'[h].f_count = file[h].f_count
    BY <1>1, <1>4
  <2> QED
    BY <1>6, <2>1, CountsKept
<1>11. PipesCounted'
  <2>1. EndsOf(x) = {}
    BY <1>2, EndsFinite, FS_EmptySet DEF IInv, PipesCounted
  <2>2. EndsOf(x)' = {f, g}
    BY <1>4, <2>1 DEF EndsOf
  <2>3. Cardinality({f, g}) = 2
    <3>1. IsFiniteSet({f}) /\ Cardinality({f}) = 1
      BY FS_Singleton
    <3>2. Cardinality({f} \cup {g}) = Cardinality({f}) + 1
      BY <1>1, <3>1, FS_AddElement
    <3>3. {f, g} = {f} \cup {g}
      OBVIOUS
    <3> QED
      BY <3>1, <3>2, <3>3
  <2>4. \A y \in Pipes \ {x} : EndsOf(y)' = EndsOf(y)
    BY <1>1, <1>4, Names DEF EndsOf
  <2> QED
    BY <1>5, <2>2, <2>3, <2>4 DEF IInv, PipesCounted
<1> QED
  BY <1>7, <1>8, <1>9, <1>10, <1>11 DEF IInv

LEMMA PipeFailsIInv ==
    ASSUME IInv, NEW p \in Procs, PipeFails(p)
    PROVE  IInv'
<1>1. PICK r, w \in Fds, f, g \in FileTable :
             /\ r = at[p].r /\ w = at[p].w /\ OwnedBy(p, r) /\ OwnedBy(p, w)
             /\ f = filp[p][r] /\ g = filp[p][w] /\ f # g
             /\ file[f].f_count = 1 /\ file[f].f_inode = Nothing
             /\ file[g].f_count = 1 /\ file[g].f_inode = Nothing
  BY PipeTaken DEF PipeFails, Runs
<1>2. /\ filp' = [filp EXCEPT ![p][r] = None, ![p][w] = None]
      /\ file' = EntriesFreed(f, g) /\ pipe' = pipe
  BY <1>1 DEF PipeFails
<1>3. MovesTo(p, AtUser)
  BY GotoMoves DEF PipeFails, AtUser, Places
<1>4. /\ file'[f] = NewFile /\ file'[g] = NewFile
      /\ \A h \in FileTable \ {f, g} : file'[h] = file[h]
      /\ file' \in [FileTable -> Entries]
  BY <1>1, <1>2 DEF EntriesFreed, NewFile, IInv, Typed, Entries
<1>5. /\ filp'[p][r] = None /\ filp'[p][w] = None
      /\ \A d \in Fds \ {r, w} : filp'[p][d] = filp[p][d]
      /\ \A q \in Procs \ {p} : filp'[q] = filp[q]
      /\ filp' \in [Procs -> [Fds -> FileTable \cup {None}]]
  BY <1>1, <1>2 DEF IInv, Typed
<1>6. Typed'
  BY <1>2, <1>3, <1>4, <1>5 DEF IInv, Typed, MovesTo
<1>7. EntriesSound'
  BY <1>4, Names DEF IInv, EntriesSound, NewFile
<1>8. CallsSound'
  <2>1. \A q \in Procs \ {p} : CallSound(q)'
    <3>1. \A q \in Procs \ {p, p} : Alike(at[q], at'[q])
      BY <1>3 DEF MovesTo
    <3>2. \A d \in Fds : \/ filp'[p][d] = None
                         \/ \E e \in Fds : filp'[p][d] = filp[p][e]
                         \/ \E h \in FileTable : filp'[p][d] = h /\ file[h].f_count = 0
      BY <1>5
    <3>3. \A h \in FileTable : \/ file'[h].f_inode = file[h].f_inode
                               \/ file[h].f_count = 0
                               \/ \E e \in Fds : filp[p][e] = h
      BY <1>1, <1>4
    <3> QED
      BY <1>5, <3>1, <3>2, <3>3, OthersKept
  <2>2. CallSound(p)'
    BY <1>3 DEF CallSound, At, MovesTo, AtUser
  <2> QED
    BY <2>1, <2>2 DEF CallsSound
<1>9. FilesCounted'
  <2>1. r # w /\ file' = EntriesFreed(filp[p][r], filp[p][w])
    BY <1>1, <1>2
  <2> QED
    BY <1>1, <1>2, <2>1, TwoUnpointed
<1>10. PipesCounted'
  <2>1. file'[f].f_inode = Nothing /\ file'[g].f_inode = Nothing
    BY <1>4 DEF NewFile
  <2>2. \A h \in FileTable : file'[h].f_inode = file[h].f_inode
    BY <1>1, <1>4, <2>1
  <2> QED
    BY <1>2, <2>2, PipesKept
<1> QED
  BY <1>6, <1>7, <1>8, <1>9, <1>10 DEF IInv

-----------------------------------------------------------------------------
(* Reading and writing *)

LEMMA PipeCallIInv ==
    ASSUME IInv, NEW p \in Procs, PipeCall(p)
    PROVE  IInv'
<1>1. PICK fd \in Open(p), n \in Sizes :
         /\ file[filp[p][fd]].f_inode \in Pipes
         /\ Goto(p, [pc |-> file[filp[p][fd]].f_mode, asleep |-> FALSE,
                     x |-> file[filp[p][fd]].f_inode, count |-> n, fresh |-> TRUE])
  BY DEF PipeCall
<1>2. PICK f \in FileTable : f = filp[p][fd]
  BY DEF Open, IInv, Typed
<1>3. PICK m \in {Read, Write}, x \in Pipes : m = file[f].f_mode /\ x = file[f].f_inode
  BY <1>1, <1>2 DEF IInv, EntriesSound
<1>4. PICK me \in Places : me = [pc |-> m, asleep |-> FALSE, x |-> x, count |-> n, fresh |-> TRUE]
  <2>1. n \in Nat
    BY FilesAssumption
  <2>2. [pc |-> m, asleep |-> FALSE, x |-> x, count |-> n, fresh |-> TRUE]
           \in [pc : {Read, Write}, asleep : BOOLEAN, x : Pipes, count : Nat, fresh : BOOLEAN]
    BY <2>1
  <2> QED
    BY <2>2 DEF Places
<1>5. MovesTo(p, me)
  BY <1>1, <1>2, <1>3, <1>4, GotoMoves
<1>6. UNCHANGED <<filp, file, pipe>>
  BY DEF PipeCall
<1>7. Typed' /\ EntriesSound'
  BY <1>5, <1>6 DEF IInv, Typed, EntriesSound, MovesTo
<1>8. CallsSound'
  <2>1. \A q \in Procs \ {p} : CallSound(q)'
    BY <1>5, <1>6, OthersKept DEF MovesTo
  <2>2. CallSound(p)'
    BY <1>3, <1>4, <1>5 DEF CallSound, At, MovesTo, Read, Write
  <2> QED
    BY <2>1, <2>2 DEF CallsSound
<1>9. FilesCounted' /\ PipesCounted'
  BY <1>6, CountsKept, PipesKept
<1> QED
  BY <1>7, <1>8, <1>9 DEF IInv

(* The ring of a pipe changes, but not how many ends are open. *)
LEMMA RingIInv ==
    ASSUME IInv, NEW p \in Procs, NEW x \in Pipes, NEW me \in Places,
           me.pc \in {"user", Read, Write}, WakesUp(p, x, me),
           NEW r \in Rings, r.i_count = pipe[x].i_count,
           pipe' = [pipe EXCEPT ![x] = r], UNCHANGED <<filp, file>>
    PROVE  IInv'
<1>1. MovesTo(p, me)
  BY WakesMoves
<1>2. Typed' /\ EntriesSound'
  BY <1>1 DEF IInv, Typed, EntriesSound, MovesTo
<1>3. CallsSound'
  <2>1. \A q \in Procs \ {p} : CallSound(q)'
    BY <1>1, OthersKept DEF MovesTo
  <2>2. CallSound(p)'
    BY <1>1 DEF CallSound, At, MovesTo, Read, Write
  <2> QED
    BY <2>1, <2>2 DEF CallsSound
<1>4. \A y \in Pipes : pipe'[y].i_count = pipe[y].i_count
  BY DEF IInv, Typed
<1>5. FilesCounted' /\ PipesCounted'
  BY <1>4, CountsKept, PipesKept
<1> QED
  BY <1>2, <1>3, <1>5 DEF IInv

LEMMA Caller ==
    ASSUME IInv, NEW p \in Procs, At(p, Read) \/ At(p, Write)
    PROVE  \E x \in Pipes, n \in Nat : /\ x = at[p].x /\ n = at[p].count /\ pipe[x] \in Rings
                                       /\ at[p] \in Places
BY PlaceFields DEF At, IInv, Typed

LEMMA EndsIInv ==
    ASSUME IInv, NEW p \in Procs, At(p, Read) \/ At(p, Write),
           NEW r \in Rings, r.i_count = pipe[at[p].x].i_count, Ends(p, r)
    PROVE  IInv'
<1>1. PICK x \in Pipes : x = at[p].x
  BY Caller
<1>2. [r EXCEPT !.i_wait = Nothing] \in Rings /\ [r EXCEPT !.i_wait = Nothing].i_count = r.i_count
  BY DEF Rings
<1>3. AtUser \in Places /\ AtUser.pc = "user"
  BY DEF AtUser, Places
<1> QED
  BY <1>1, <1>2, <1>3, RingIInv DEF Ends

LEMMA SleepsIInv ==
    ASSUME IInv, NEW p \in Procs, At(p, Read) \/ At(p, Write), NEW n \in Nat,
           NEW r \in Rings, r.i_count = pipe[at[p].x].i_count, Sleeps(p, r, n)
    PROVE  IInv'
<1>1. PICK x \in Pipes : x = at[p].x /\ at[p] \in Places
  BY Caller
<1>2. [r EXCEPT !.i_wait = p] \in Rings /\ [r EXCEPT !.i_wait = p].i_count = r.i_count
  BY DEF Rings
<1>3. at[p] \in [pc : {Read, Write}, asleep : BOOLEAN, x : Pipes, count : Nat, fresh : BOOLEAN]
  BY <1>1 DEF At, Places, Read, Write
<1>4. PICK me \in Places : /\ me = [at[p] EXCEPT !.asleep = TRUE, !.count = n, !.fresh = FALSE]
                           /\ me.pc \in {Read, Write}
  <2> DEFINE me == [at[p] EXCEPT !.asleep = TRUE, !.count = n, !.fresh = FALSE]
  <2>1. me \in [pc : {Read, Write}, asleep : BOOLEAN, x : Pipes, count : Nat, fresh : BOOLEAN]
    BY <1>3
  <2>2. me.pc \in {Read, Write}
    BY <2>1
  <2>3. me \in Places
    BY <2>1 DEF Places
  <2> QED
    BY <2>2, <2>3
<1> QED
  BY <1>1, <1>2, <1>4, RingIInv DEF Sleeps

LEMMA Mod ==
    ASSUME NEW i \in Int, NEW n \in Nat, n > 0
    PROVE  i % n \in 0..n - 1 /\ i % n \in Int
OBVIOUS

LEMMA TakenRing ==
    ASSUME IInv, NEW x \in Pipes, NEW k \in Int
    PROVE  Taken(x, k) \in Rings /\ Taken(x, k).i_count = pipe[x].i_count
<1>1. PICK r \in Rings : r = pipe[x]
  BY DEF IInv, Typed
<1>2. PICK t, g \in Int : t = (r.tail + k) % PAGE_SIZE /\ g = (r.got + k) % Numbers
  <2>1. r.tail + k \in Int /\ r.got + k \in Int
    BY DEF Rings
  <2>2. (r.tail + k) % PAGE_SIZE \in Int /\ (r.got + k) % Numbers \in Int
    BY <2>1, Names, Mod
  <2> QED
    BY <2>2
<1>3. Taken(x, k) = [r EXCEPT !.tail = t, !.got = g]
  BY <1>1, <1>2 DEF Taken
<1>4. [r EXCEPT !.tail = t, !.got = g] \in Rings
  BY DEF Rings
<1>5. [r EXCEPT !.tail = t, !.got = g].i_count = r.i_count
  BY DEF Rings
<1> QED
  BY <1>1, <1>3, <1>4, <1>5

LEMMA AddedRing ==
    ASSUME IInv, NEW x \in Pipes, NEW k \in Int
    PROVE  Added(x, k) \in Rings /\ Added(x, k).i_count = pipe[x].i_count
<1> DEFINE slot(i) == (pipe[x].head + i) % PAGE_SIZE
           in(b) == CHOOSE i \in 0..k - 1 : slot(i) = b
           page == [b \in 0..PAGE_SIZE - 1 |->
                      IF \E i \in 0..k - 1 : slot(i) = b THEN (pipe[x].sent + in(b)) % Numbers
                      ELSE pipe[x].page[b]]
<1>1. PICK r \in Rings : r = pipe[x]
  BY DEF IInv, Typed
<1>2. PICK h, s \in Int : h = (r.head + k) % PAGE_SIZE /\ s = (r.sent + k) % Numbers
  <2>1. r.head + k \in Int /\ r.sent + k \in Int
    BY DEF Rings
  <2>2. (r.head + k) % PAGE_SIZE \in Int /\ (r.sent + k) % Numbers \in Int
    BY <2>1, Names, Mod
  <2> QED
    BY <2>2
<1>3. page \in [0..PAGE_SIZE - 1 -> Int]
  <2>1. r.page \in [0..PAGE_SIZE - 1 -> Int] /\ r.sent \in Int
    BY DEF Rings
  <2>2. ASSUME NEW b \in 0..PAGE_SIZE - 1, \E i \in 0..k - 1 : slot(i) = b
        PROVE  (pipe[x].sent + in(b)) % Numbers \in Int
    <3> HIDE DEF slot
    <3>1. in(b) \in Int
      BY <2>2
    <3> HIDE DEF in
    <3> QED
      BY <1>1, <2>1, <3>1, Names, Mod
  <2>3. ASSUME NEW b \in 0..PAGE_SIZE - 1
        PROVE  pipe[x].page[b] \in Int
    BY <1>1, <2>1
  <2> HIDE DEF slot, in
  <2> QED
    BY <2>2, <2>3
<1>4. r.page \in [0..PAGE_SIZE - 1 -> Int]
  BY DEF Rings
<1>5. DOMAIN r.page = 0..PAGE_SIZE - 1
  BY <1>4
<1>6. PICK P \in [0..PAGE_SIZE - 1 -> Int] : P = page
  BY <1>3
<1>7. Added(x, k) = [r EXCEPT !.head = h, !.sent = s, !.page = P]
  BY <1>1, <1>2, <1>5, <1>6 DEF Added
<1>8. [r EXCEPT !.head = h, !.sent = s, !.page = P] \in Rings
  BY DEF Rings
<1>9. [r EXCEPT !.head = h, !.sent = s, !.page = P].i_count = r.i_count
  BY DEF Rings
<1> QED
  BY <1>1, <1>7, <1>8, <1>9

LEMMA TransferIInv ==
    ASSUME IInv, NEW p \in Procs,
           \/ ReadSome(p) \/ ReadEnds(p) \/ ReadSleeps(p)
           \/ WriteAll(p) \/ WriteSleeps(p) \/ WriteEnds(p)
    PROVE  IInv'
<1>1. At(p, Read) \/ At(p, Write)
  BY DEF ReadSome, ReadEnds, ReadSleeps, WriteAll, WriteSleeps, WriteEnds, Runs
<1>2. PICK x \in Pipes, n \in Nat : x = at[p].x /\ n = at[p].count /\ pipe[x] \in Rings
  BY <1>1, Caller
<1>3. PIPE_SIZE(x) \in Int /\ Room(x) \in Int
  BY <1>2, Names, Mod, SMTT(60) DEF PIPE_SIZE, Room, Rings
<1>4. AtMost(n, PIPE_SIZE(x)) \in Int
  BY <1>3 DEF AtMost
<1>5. CASE ReadSome(p)
  BY <1>1, <1>2, <1>4, <1>5, TakenRing, EndsIInv DEF ReadSome
<1>6. CASE ReadEnds(p)
  BY <1>1, <1>2, <1>6, EndsIInv DEF ReadEnds
<1>7. CASE ReadSleeps(p)
  BY <1>1, <1>2, <1>7, SleepsIInv DEF ReadSleeps
<1>8. CASE WriteAll(p)
  BY <1>1, <1>2, <1>8, AddedRing, EndsIInv DEF WriteAll
<1>9. CASE WriteSleeps(p)
  <2>1. n - Room(x) \in Nat
    BY <1>2, <1>3, <1>9 DEF WriteSleeps, Fits
  <2> QED
    BY <1>1, <1>2, <1>3, <1>9, <2>1, AddedRing, SleepsIInv DEF WriteSleeps
<1>10. CASE WriteEnds(p)
  BY <1>1, <1>2, <1>3, <1>10, AddedRing, EndsIInv DEF WriteEnds
<1> QED
  BY <1>5, <1>6, <1>7, <1>8, <1>9, <1>10

-----------------------------------------------------------------------------
(* fork() and exit() *)

LEMMA ForkIInv ==
    ASSUME IInv, NEW p \in Procs, Fork(p)
    PROVE  IInv'
<1>1. PICK c \in Procs :
         /\ at[c].pc = "unborn"
         /\ filp' = [filp EXCEPT ![c] = filp[p]]
         /\ file' = [f \in FileTable |-> [file[f] EXCEPT !.f_count = Shared(p, f)]]
         /\ Goto(c, AtUser)
  BY DEF Fork, At
<1>2. /\ at[p].pc = "user" /\ p # c /\ pipe' = pipe
      /\ \A d \in Fds : filp[c][d] = None
  BY <1>1 DEF Fork, Runs, At, IInv, CallsSound, CallSound
<1>3. MovesTo(c, AtUser)
  BY <1>1, GotoMoves DEF AtUser, Places
<1> DEFINE own(f) == {fd \in Fds : filp[p][fd] = f}
<1>4. \A f \in FileTable : IsFiniteSet(own(f)) /\ Cardinality(own(f)) \in Nat
  <2>1. IsFiniteSet(Fds)
    BY FilesAssumption, FS_Interval DEF Fds
  <2> QED
    BY <2>1, FS_Subset, FS_CardinalityType
<1>5. \A f \in FileTable : file[f].f_count \in Nat /\ file[f] \in Entries
  BY DescriptorsFinite DEF IInv, Typed, FilesCounted
<1>6. \A f \in FileTable : /\ file'[f].f_count = file[f].f_count + Cardinality(own(f))
                           /\ file'[f].f_inode = file[f].f_inode
                           /\ file'[f].f_mode = file[f].f_mode
                           /\ file'[f] \in Entries
  <2> SUFFICES ASSUME NEW f \in FileTable
               PROVE  /\ file'[f].f_count = file[f].f_count + Cardinality(own(f))
                      /\ file'[f].f_inode = file[f].f_inode
                      /\ file'[f].f_mode = file[f].f_mode
                      /\ file'[f] \in Entries
    OBVIOUS
  <2>1. PICK n \in Int : n = file[f].f_count + Cardinality(own(f))
    <3> HIDE DEF own
    <3> QED
      BY <1>4, <1>5
  <2>2. file'[f] = [file[f] EXCEPT !.f_count = n]
    BY <1>1, <2>1 DEF Shared
  <2>3. PICK e \in Entries : e = file[f]
    BY <1>5
  <2>4. file'[f] = [e EXCEPT !.f_count = n]
    BY <2>2, <2>3
  <2> QED
    BY <2>1, <2>3, <2>4 DEF Entries
<1>7. /\ filp'[c] = filp[p] /\ \A q \in Procs \ {c} : filp'[q] = filp[q]
      /\ filp' \in [Procs -> [Fds -> FileTable \cup {None}]]
  BY <1>1 DEF IInv, Typed
<1>8. Typed'
  <2>1. file' \in [FileTable -> Entries]
    BY <1>1, <1>6
  <2> QED
    BY <1>2, <1>3, <1>7, <2>1 DEF IInv, Typed, MovesTo
<1>9. \A f \in FileTable, d \in Fds : filp[p][d] = f => file[f].f_count # 0
  BY Unheld
<1>10. \A f \in FileTable : file[f].f_count = 0 => own(f) = {}
  BY <1>9
<1>11. EntriesSound'
  <2> SUFFICES ASSUME NEW f \in FileTable
               PROVE  /\ file'[f].f_count = 0 => file'[f] = NewFile
                      /\ file'[f].f_inode \in Pipes => file'[f].f_mode \in {Read, Write}
    BY DEF EntriesSound
  <2>1. file'[f].f_inode \in Pipes => file'[f].f_mode \in {Read, Write}
    BY <1>6 DEF IInv, EntriesSound
  <2>2. ASSUME file'[f].f_count = 0
        PROVE  file'[f] = NewFile
    <3>1. file[f].f_count = 0 /\ Shared(p, f) = 0
      <4>1. Shared(p, f) = file[f].f_count + Cardinality(own(f))
        BY DEF Shared
      <4> HIDE DEF own
      <4> QED
        BY <1>4, <1>5, <1>6, <2>2, <4>1
    <3>2. file[f] = NewFile
      BY <3>1 DEF IInv, EntriesSound
    <3>3. file'[f] = [NewFile EXCEPT !.f_count = 0]
      BY <1>1, <3>1, <3>2
    <3> QED
      BY <3>3 DEF NewFile
  <2> QED
    BY <2>1, <2>2
<1>12. CallsSound'
  <2>1. \A d \in Fds : \E e \in Fds : filp'[c][d] = filp[p][e]
    BY <1>7
  <2>2. \A q \in Procs \ {p, c} : Alike(at[q], at'[q])
    BY <1>3 DEF MovesTo
  <2>3. \A q \in Procs \ {p, c} : CallSound(q)'
    BY <1>6, <1>7, <2>1, <2>2, OthersKept
  <2>4. CallSound(c)'
    BY <1>3 DEF CallSound, At, MovesTo, AtUser
  <2>5. at'[p].pc = "user"
    BY <1>2, <1>3 DEF MovesTo, Alike
  <2>6. CallSound(p)'
    BY <2>5 DEF CallSound, At
  <2> QED
    BY <2>3, <2>4, <2>6 DEF CallsSound
<1>13. FilesCounted'
  <2> SUFFICES ASSUME NEW f \in FileTable
               PROVE  file'[f].f_count = Cardinality(Descriptors(f)')
    BY DEF FilesCounted
  <2>1. Descriptors(f)' = Descriptors(f) \cup ({c} \X own(f))
    <3>1. f # None
      BY Names
    <3>2. ASSUME NEW q \in Procs, NEW d \in Fds
          PROVE  filp'[q][d] = f <=> filp[q][d] = f \/ (q = c /\ filp[p][d] = f)
      BY <1>2, <1>7, <3>1
    <3> QED
      BY <3>2 DEF Descriptors
  <2>2. Descriptors(f) \cap ({c} \X own(f)) = {}
    BY <1>2, Names DEF Descriptors
  <2>3. /\ IsFiniteSet({c} \X own(f))
        /\ Cardinality({c} \X own(f)) = Cardinality(own(f))
    <3>1. IsFiniteSet({c}) /\ Cardinality({c}) = 1
      BY FS_Singleton
    <3>2. /\ IsFiniteSet({c} \X own(f))
          /\ Cardinality({c} \X own(f)) = Cardinality({c}) * Cardinality(own(f))
      BY <1>4, <3>1, FS_Product
    <3> HIDE DEF own
    <3> QED
      BY <1>4, <3>1, <3>2
  <2>4. Cardinality(Descriptors(f) \cup ({c} \X own(f)))
           = Cardinality(Descriptors(f)) + Cardinality(own(f))
    <3> HIDE DEF own
    <3>1. Cardinality(Descriptors(f) \cup ({c} \X own(f)))
             = Cardinality(Descriptors(f)) + Cardinality({c} \X own(f))
               - Cardinality(Descriptors(f) \cap ({c} \X own(f)))
      BY <2>3, DescriptorsFinite, FS_Union
    <3>2. Cardinality(Descriptors(f) \cap ({c} \X own(f))) = 0
      BY <2>2, FS_EmptySet
    <3>3. Cardinality(Descriptors(f)) \in Nat /\ Cardinality(own(f)) \in Nat
      BY <1>4, DescriptorsFinite
    <3> QED
      BY <2>3, <3>1, <3>2, <3>3
  <2> QED
    BY <1>6, <2>1, <2>4 DEF IInv, FilesCounted
<1>14. PipesCounted'
  BY <1>2, <1>6, PipesKept
<1> QED
  BY <1>8, <1>11, <1>12, <1>13, <1>14 DEF IInv

LEMMA ExitIInv ==
    ASSUME IInv, NEW p \in Procs, Exit(p) \/ Closed(p)
    PROVE  IInv'
<1>1. PICK me \in Places : /\ Goto(p, me) /\ me.pc \in {"exit", "unborn"}
                           /\ me.pc = "unborn" => Open(p) = {}
  <2>1. /\ [AtUser EXCEPT !.pc = "exit"] \in [pc : {"unborn", "user", "exit"}, asleep : BOOLEAN]
        /\ [AtUser EXCEPT !.pc = "exit"].pc = "exit"
    BY DEF AtUser
  <2>2. [AtUser EXCEPT !.pc = "exit"] \in Places /\ Unborn \in Places
    BY <2>1 DEF Places, Unborn
  <2>3. CASE Exit(p)
    BY <2>1, <2>2, <2>3 DEF Exit
  <2>4. CASE Closed(p)
    BY <2>2, <2>4 DEF Closed, Unborn
  <2> QED
    BY <2>3, <2>4
<1>2. UNCHANGED <<filp, file, pipe>>
  BY DEF Exit, Closed
<1>3. MovesTo(p, me)
  BY <1>1, GotoMoves
<1>4. Typed' /\ EntriesSound'
  BY <1>2, <1>3 DEF IInv, Typed, EntriesSound, MovesTo
<1>5. CallsSound'
  <2>1. \A q \in Procs \ {p} : CallSound(q)'
    BY <1>2, <1>3, OthersKept DEF MovesTo
  <2>2. me.pc = "unborn" => \A fd \in Fds : filp'[p][fd] = None
    BY <1>1, <1>2 DEF Open
  <2>3. CallSound(p)'
    BY <1>1, <1>3, <2>2 DEF CallSound, At, MovesTo
  <2> QED
    BY <2>1, <2>3 DEF CallsSound
<1>6. FilesCounted' /\ PipesCounted'
  BY <1>2, CountsKept, PipesKept
<1> QED
  BY <1>4, <1>5, <1>6 DEF IInv

-----------------------------------------------------------------------------
(* The rings of pipes *)

(* What is at most n away from 0..n-1, modulo n. *)
Wrapped(a, n) == IF a < 0 THEN a + n ELSE IF a < n THEN a ELSE a - n

LEMMA Wrap ==
    ASSUME NEW n \in Nat, n > 0, NEW a \in Int, -n <= a, a < 2 * n
    PROVE  a % n = Wrapped(a, n) /\ Wrapped(a, n) \in 0..n - 1
<1>1. PICK q, r \in Int : q = a \div n /\ r = a % n
  OBVIOUS
<1>2. a = n * q + r /\ 0 <= r /\ r < n
  BY <1>1
<1>3. q \in {-1, 0, 1}
  <2>1. q < -1 => n * q <= -2 * n
    BY <1>1
  <2>2. q > 1 => n * q >= 2 * n
    BY <1>1
  <2> QED
    BY <1>1, <1>2, <2>1, <2>2
<1>4. CASE q = -1
  <2>1. n * q = -n
    BY <1>4
  <2> QED
    BY <1>1, <1>2, <2>1 DEF Wrapped
<1>5. CASE q = 0
  <2>1. n * q = 0
    BY <1>5
  <2> QED
    BY <1>1, <1>2, <2>1 DEF Wrapped
<1>6. CASE q = 1
  <2>1. n * q = n
    BY <1>6
  <2> QED
    BY <1>1, <1>2, <2>1 DEF Wrapped
<1> QED
  BY <1>3, <1>4, <1>5, <1>6

LEMMA WrapSum ==
    ASSUME NEW n \in Nat, n > 0
    PROVE  \A a \in 0..n - 1, b \in 0..n :
             /\ (a + b) % n = Wrapped(a + b, n) /\ Wrapped(a + b, n) \in 0..n - 1
             /\ (a - b) % n = Wrapped(a - b, n) /\ Wrapped(a - b, n) \in 0..n - 1
<1> SUFFICES ASSUME NEW a \in 0..n - 1, NEW b \in 0..n
             PROVE  /\ (a + b) % n = Wrapped(a + b, n) /\ Wrapped(a + b, n) \in 0..n - 1
                    /\ (a - b) % n = Wrapped(a - b, n) /\ Wrapped(a - b, n) \in 0..n - 1
  OBVIOUS
<1>1. PICK c, d \in Int : c = a + b /\ d = a - b
  OBVIOUS
<1>2. -n <= c /\ c < 2 * n /\ -n <= d /\ d < 2 * n
  BY <1>1
<1> QED
  BY <1>1, <1>2, Wrap

(* A ring holds, from its tail to its head, what went in and has not come  *)
(* out, in order; nothing of it depends on i_count or i_wait.              *)
Slots == 0..PAGE_SIZE - 1
Size(r) == (r.head - r.tail) % PAGE_SIZE
Ordered(r) ==
    /\ r.head \in Slots /\ r.tail \in Slots /\ r.page \in [Slots -> Int]
    /\ r.sent \in 0..Numbers - 1 /\ r.got \in 0..Numbers - 1
    /\ (r.got + Size(r)) % Numbers = r.sent
    /\ \A i \in 0..Size(r) - 1 : r.page[(r.tail + i) % PAGE_SIZE] = (r.got + i) % Numbers
RingsOrdered == \A x \in Pipes : Ordered(pipe[x])

LEMMA RingSize ==
    PAGE_SIZE \in Nat /\ PAGE_SIZE > 1 /\ Numbers \in Nat /\ Numbers = 2 * PAGE_SIZE
BY FilesAssumption DEF Numbers

(* The reader moves the tail: what is left is what came after. *)
LEMMA ReadKeeps ==
    ASSUME NEW r, NEW s, Ordered(r), NEW k \in 0..Size(r),
           s.head = r.head, s.tail = (r.tail + k) % PAGE_SIZE,
           s.sent = r.sent, s.got = (r.got + k) % Numbers, s.page = r.page
    PROVE  Ordered(s)
<1> DEFINE P == PAGE_SIZE
           N == Numbers
<1>1. P \in Nat /\ P > 0 /\ N \in Nat /\ N > 0 /\ N = 2 * P
  BY RingSize
<1>2. /\ r.head \in 0..P - 1 /\ r.tail \in 0..P - 1 /\ r.page \in [0..P - 1 -> Int]
      /\ r.sent \in 0..N - 1 /\ r.got \in 0..N - 1
  BY DEF Ordered, Slots
<1> HIDE DEF P, N
<1>3. /\ \A a \in 0..P - 1, b \in 0..P : /\ (a + b) % P = Wrapped(a + b, P)
                                         /\ Wrapped(a + b, P) \in 0..P - 1
                                         /\ (a - b) % P = Wrapped(a - b, P)
                                         /\ Wrapped(a - b, P) \in 0..P - 1
      /\ \A a \in 0..N - 1, b \in 0..N : /\ (a + b) % N = Wrapped(a + b, N)
                                         /\ Wrapped(a + b, N) \in 0..N - 1
  BY <1>1, WrapSum, Zenon
<1>4. \A i \in 0..P - 1 : i \in 0..P /\ i \in 0..N
  BY <1>1
<1>5. Size(r) = Wrapped(r.head - r.tail, P) /\ Size(r) \in 0..P - 1
  BY <1>3, <1>4, <1>2, Zenon DEF Size, P
<1>6. PICK h, t \in 0..P - 1, g, e \in 0..N - 1, z \in 0..P - 1 :
         h = r.head /\ t = r.tail /\ g = r.got /\ e = r.sent /\ z = Size(r)
  BY <1>2, <1>5
<1>7. k \in 0..z /\ k \in 0..P - 1 /\ k \in 0..P /\ k \in 0..N /\ z - k \in 0..N
  BY <1>1, <1>6
<1>8. s.tail = Wrapped(t + k, P) /\ s.tail \in 0..P - 1
  <2>1. s.tail = (t + k) % P
    BY <1>6 DEF P
  <2>2. (t + k) % P = Wrapped(t + k, P) /\ Wrapped(t + k, P) \in 0..P - 1
    BY <1>3, <1>7, Zenon
  <2> QED
    BY <2>1, <2>2, Zenon
<1>9. s.got = Wrapped(g + k, N) /\ s.got \in 0..N - 1
  <2>1. s.got = (g + k) % N
    BY <1>6 DEF N
  <2> QED
    BY <1>3, <1>7, <2>1, SMTT(60)
<1>10. PICK t2 \in 0..P - 1, g2 \in 0..N - 1 : t2 = s.tail /\ g2 = s.got
  BY <1>8, <1>9
<1>11. z = Wrapped(h - t, P) /\ t2 = Wrapped(t + k, P) /\ g2 = Wrapped(g + k, N)
  BY <1>5, <1>6, <1>8, <1>9, <1>10
<1>12. Size(s) = z - k
  <2>1. Size(s) = Wrapped(h - t2, P)
    <3>1. Size(s) = (h - t2) % P
      BY <1>6, <1>10 DEF Size, P
    <3> QED
      BY <1>3, <1>4, <3>1, Zenon
  <2> QED
    BY <1>1, <1>6, <1>7, <1>10, <1>11, <2>1 DEF Wrapped
<1>13. (s.got + Size(s)) % N = s.sent
  <2>1. e = Wrapped(g + z, N)
    <3>1. e = (g + z) % N
      BY <1>6 DEF Ordered, N
    <3> QED
      BY <1>3, <1>4, <1>6, <3>1, Zenon
  <2>2. (g2 + (z - k)) % N = Wrapped(g2 + (z - k), N)
    BY <1>3, <1>7, <1>10, Zenon
  <2>3. Wrapped(g2 + (z - k), N) = Wrapped(g + z, N)
    BY <1>1, <1>6, <1>7, <1>10, <1>11 DEF Wrapped
  <2> QED
    BY <1>6, <1>10, <1>12, <2>1, <2>2, <2>3, Zenon
<1>14. ASSUME NEW i \in 0..Size(s) - 1
       PROVE  s.page[(s.tail + i) % P] = (s.got + i) % N
  <2>1. /\ i \in 0..P /\ i \in 0..N /\ k + i \in 0..P /\ k + i \in 0..N
        /\ k + i \in 0..z - 1
    BY <1>1, <1>6, <1>7, <1>12
  <2>2. r.page[(t + (k + i)) % P] = (g + (k + i)) % N
    BY <1>6, <2>1, Zenon DEF Ordered, P, N
  <2>3. (t + (k + i)) % P = (t2 + i) % P
    <3>1. (t + (k + i)) % P = Wrapped(t + (k + i), P) /\ (t2 + i) % P = Wrapped(t2 + i, P)
      BY <1>3, <1>6, <1>10, <2>1, Zenon
    <3>2. Wrapped(t + (k + i), P) = Wrapped(t2 + i, P)
      BY <1>1, <1>6, <1>7, <1>10, <1>11, <2>1 DEF Wrapped
    <3> QED
      BY <3>1, <3>2, Zenon
  <2>4. (g + (k + i)) % N = (g2 + i) % N
    <3>1. (g + (k + i)) % N = Wrapped(g + (k + i), N) /\ (g2 + i) % N = Wrapped(g2 + i, N)
      BY <1>3, <1>6, <1>10, <2>1, Zenon
    <3>2. Wrapped(g + (k + i), N) = Wrapped(g2 + i, N)
      BY <1>1, <1>6, <1>7, <1>10, <1>11, <2>1 DEF Wrapped
    <3> QED
      BY <3>1, <3>2, Zenon
  <2> QED
    BY <1>10, <2>2, <2>3, <2>4, Zenon
<1> QED
  BY <1>2, <1>8, <1>9, <1>13, <1>14 DEF Ordered, Slots, P, N

(* As long as no more goes in than the ring has slots, no slot is used twice. *)
LEMMA SlotsDiffer ==
    ASSUME NEW h \in Slots, NEW k \in 0..PAGE_SIZE
    PROVE  \A i, j \in 0..k - 1 : (h + i) % PAGE_SIZE = (h + j) % PAGE_SIZE => i = j
<1> DEFINE P == PAGE_SIZE
<1>1. P \in Nat /\ P > 0 /\ h \in 0..P - 1 /\ k \in 0..P
  BY RingSize DEF Slots
<1> HIDE DEF P
<1> SUFFICES ASSUME NEW i \in 0..k - 1, NEW j \in 0..k - 1, (h + i) % P = (h + j) % P
             PROVE  i = j
  BY DEF P
<1>2. i \in 0..P /\ j \in 0..P /\ i < P /\ j < P
  BY <1>1
<1>3. (h + i) % P = Wrapped(h + i, P) /\ (h + j) % P = Wrapped(h + j, P)
  BY <1>1, <1>2, WrapSum, Zenon
<1>4. Wrapped(h + i, P) = Wrapped(h + j, P)
  BY <1>3, Zenon
<1> QED
  BY <1>1, <1>2, <1>4 DEF Wrapped

(* The writer moves the head, no further than one slot behind the tail:    *)
(* what was there is not touched, and what is new follows it.              *)
LEMMA WriteKeeps ==
    ASSUME NEW r, NEW s, Ordered(r), NEW k \in 0..PAGE_SIZE - 1 - Size(r),
           s.head = (r.head + k) % PAGE_SIZE, s.tail = r.tail,
           s.sent = (r.sent + k) % Numbers, s.got = r.got, s.page \in [Slots -> Int],
           \A b \in Slots : (\A j \in 0..k - 1 : (r.head + j) % PAGE_SIZE # b)
                            => s.page[b] = r.page[b],
           \A j \in 0..k - 1 : s.page[(r.head + j) % PAGE_SIZE] = (r.sent + j) % Numbers
    PROVE  Ordered(s)
<1> DEFINE P == PAGE_SIZE
           N == Numbers
<1>1. P \in Nat /\ P > 0 /\ N \in Nat /\ N > 0 /\ N = 2 * P
  BY RingSize
<1>2. /\ r.head \in 0..P - 1 /\ r.tail \in 0..P - 1 /\ r.page \in [0..P - 1 -> Int]
      /\ r.sent \in 0..N - 1 /\ r.got \in 0..N - 1 /\ s.page \in [0..P - 1 -> Int]
  BY DEF Ordered, Slots
<1> HIDE DEF P, N
<1>3. /\ \A a \in 0..P - 1, b \in 0..P : /\ (a + b) % P = Wrapped(a + b, P)
                                         /\ Wrapped(a + b, P) \in 0..P - 1
                                         /\ (a - b) % P = Wrapped(a - b, P)
                                         /\ Wrapped(a - b, P) \in 0..P - 1
      /\ \A a \in 0..N - 1, b \in 0..N : /\ (a + b) % N = Wrapped(a + b, N)
                                         /\ Wrapped(a + b, N) \in 0..N - 1
  BY <1>1, WrapSum, Zenon
<1>4. \A i \in 0..P - 1 : i \in 0..P /\ i \in 0..N
  BY <1>1
<1>5. Size(r) = Wrapped(r.head - r.tail, P) /\ Size(r) \in 0..P - 1
  BY <1>3, <1>4, <1>2, ZenonT(60) DEF Size, P
<1>6. PICK h, t \in 0..P - 1, g, e \in 0..N - 1, z \in 0..P - 1 :
         h = r.head /\ t = r.tail /\ g = r.got /\ e = r.sent /\ z = Size(r)
  BY <1>2, <1>5
<1>7. k \in 0..P - 1 - z /\ k \in 0..P - 1 /\ k \in 0..P /\ k \in 0..N /\ z + k \in 0..P - 1
  BY <1>1, <1>6 DEF P
<1>8. s.head = Wrapped(h + k, P) /\ s.head \in 0..P - 1
  <2>1. s.head = (h + k) % P
    BY <1>6 DEF P
  <2>2. (h + k) % P = Wrapped(h + k, P) /\ Wrapped(h + k, P) \in 0..P - 1
    BY <1>3, <1>7, Zenon
  <2> QED
    BY <2>1, <2>2, Zenon
<1>9. s.sent = Wrapped(e + k, N) /\ s.sent \in 0..N - 1
  <2>1. s.sent = (e + k) % N
    BY <1>6 DEF N
  <2>2. (e + k) % N = Wrapped(e + k, N) /\ Wrapped(e + k, N) \in 0..N - 1
    BY <1>3, <1>7, Zenon
  <2> QED
    BY <2>1, <2>2, Zenon
<1>10. PICK h2 \in 0..P - 1, e2 \in 0..N - 1 : h2 = s.head /\ e2 = s.sent
  BY <1>8, <1>9
<1>11. z = Wrapped(h - t, P) /\ h2 = Wrapped(h + k, P) /\ e2 = Wrapped(e + k, N)
  BY <1>5, <1>6, <1>8, <1>9, <1>10
<1>12. e = Wrapped(g + z, N)
  <2>1. e = (g + z) % N
    BY <1>6 DEF Ordered, N
  <2> QED
    BY <1>3, <1>4, <1>6, <2>1, Zenon
<1>13. Size(s) = z + k
  <2>1. Size(s) = Wrapped(h2 - t, P)
    <3>1. Size(s) = (h2 - t) % P
      BY <1>6, <1>10 DEF Size, P
    <3> QED
      BY <1>3, <1>4, <3>1, Zenon
  <2> QED
    BY <1>1, <1>6, <1>7, <1>10, <1>11, <2>1 DEF Wrapped
<1>14. (s.got + Size(s)) % N = s.sent
  <2>1. (g + (z + k)) % N = Wrapped(g + (z + k), N)
    BY <1>3, <1>4, <1>6, <1>7, Zenon
  <2>2. Wrapped(g + (z + k), N) = Wrapped(e + k, N)
    BY <1>1, <1>6, <1>7, <1>12 DEF Wrapped
  <2>3. s.got = g
    BY <1>6
  <2> QED
    BY <1>9, <1>13, <2>1, <2>2, <2>3, Zenon
<1>15. ASSUME NEW i \in 0..Size(s) - 1
       PROVE  s.page[(s.tail + i) % P] = (s.got + i) % N
  <2>1. i \in 0..P - 1 /\ i \in 0..P /\ i \in 0..N /\ i \in 0..z + k - 1
    BY <1>1, <1>6, <1>7, <1>13
  <2>2. (t + i) % P = Wrapped(t + i, P) /\ Wrapped(t + i, P) \in 0..P - 1
    BY <1>3, <1>6, <2>1, Zenon
  <2>3. (g + i) % N = Wrapped(g + i, N)
    BY <1>3, <1>6, <2>1, Zenon
  <2>4. CASE i < z
    <3>1. i \in 0..z - 1
      BY <2>1, <2>4
    <3>2. r.page[(t + i) % P] = (g + i) % N
      BY <1>6, <3>1, Zenon DEF Ordered, P, N
    <3>3. ASSUME NEW j \in 0..k - 1
          PROVE  (h + j) % P # (t + i) % P
      <4>1. j \in 0..P
        BY <1>1, <1>6, <1>7
      <4>2. (h + j) % P = Wrapped(h + j, P)
        BY <1>3, <1>6, <4>1, Zenon
      <4>3. Wrapped(h + j, P) # Wrapped(t + i, P)
        BY <1>1, <1>6, <1>7, <1>11, <2>1, <2>4 DEF Wrapped
      <4> QED
        BY <2>2, <4>2, <4>3, Zenon
    <3>4. (t + i) % P \in Slots
      BY <2>2, Zenon DEF Slots, P
    <3>5. s.page[(t + i) % P] = r.page[(t + i) % P]
      BY <1>6, <3>3, <3>4, Zenon DEF P
    <3> QED
      BY <1>6, <3>2, <3>5
  <2>5. CASE i >= z
    <3>1. PICK j \in 0..k - 1 : j = i - z /\ j \in 0..P /\ j \in 0..N
      BY <1>1, <1>6, <1>7, <2>1, <2>5
    <3>2. (h + j) % P = Wrapped(h + j, P) /\ (e + j) % N = Wrapped(e + j, N)
      BY <1>3, <1>6, <3>1, Zenon
    <3>3. Wrapped(h + j, P) = Wrapped(t + i, P)
      <4>1. h = t + z \/ h = t + z - P
        BY <1>1, <1>6, <1>11 DEF Wrapped
      <4>2. i = z + j
        BY <1>6, <2>1, <3>1
      <4> QED
        BY <1>1, <1>6, <1>7, <2>1, <3>1, <4>1, <4>2 DEF Wrapped
    <3>4. Wrapped(e + j, N) = Wrapped(g + i, N)
      <4>1. e = g + z \/ e = g + z - N
        BY <1>1, <1>6, <1>12 DEF Wrapped
      <4>2. i = z + j
        BY <1>6, <2>1, <3>1
      <4> QED
        BY <1>1, <1>6, <1>7, <2>1, <3>1, <4>1, <4>2 DEF Wrapped
    <3>5. s.page[(h + j) % P] = (e + j) % N
      BY <1>6, <3>1, Zenon DEF P, N
    <3> QED
      BY <1>6, <2>2, <2>3, <3>2, <3>3, <3>4, <3>5, Zenon
  <2> QED
    BY <1>6, <2>1, <2>4, <2>5
<1> QED
  BY <1>2, <1>8, <1>9, <1>14, <1>15 DEF Ordered, Slots, P, N

LEMMA NewOrdered ==
    ASSUME NEW r, r.head = 0, r.tail = 0, r.sent = 0, r.got = 0, r.page \in [Slots -> Int]
    PROVE  Ordered(r)
<1>1. 0 \in Slots /\ 0 \in 0..Numbers - 1
  BY RingSize DEF Slots
<1>2. Size(r) = 0
  BY RingSize, WrapSum DEF Size, Wrapped
<1>3. (r.got + Size(r)) % Numbers = r.sent
  BY <1>2, RingSize, WrapSum DEF Wrapped
<1>4. 0..Size(r) - 1 = {}
  BY <1>2
<1> QED
  BY <1>1, <1>3, <1>4 DEF Ordered

LEMMA AlikeOrdered ==
    ASSUME NEW r \in Rings, NEW s \in Rings, Ordered(r),
           s.head = r.head, s.tail = r.tail, s.sent = r.sent, s.got = r.got, s.page = r.page
    PROVE  Ordered(s)
BY DEF Ordered, Size

LEMMA TakenOrdered ==
    ASSUME IInv, NEW x \in Pipes, Ordered(pipe[x]), NEW k \in 0..PIPE_SIZE(x)
    PROVE  Ordered(Taken(x, k))
<1>1. PICK r \in Rings : r = pipe[x] /\ Ordered(r) /\ k \in 0..Size(r)
  BY DEF IInv, Typed, PIPE_SIZE, Size
<1>2. PICK t, g : t = (r.tail + k) % PAGE_SIZE /\ g = (r.got + k) % Numbers
  OBVIOUS
<1>3. Taken(x, k) = [r EXCEPT !.tail = t, !.got = g]
  BY <1>1, <1>2 DEF Taken
<1>4. PICK s : s = [r EXCEPT !.tail = t, !.got = g]
  OBVIOUS
<1>5. s.tail = t /\ s.got = g /\ s.head = r.head /\ s.sent = r.sent /\ s.page = r.page
  BY <1>4 DEF Rings
<1> QED
  BY <1>1, <1>2, <1>3, <1>4, <1>5, ReadKeeps

LEMMA AddedOrdered ==
    ASSUME IInv, NEW x \in Pipes, Ordered(pipe[x]), NEW k \in 0..Room(x)
    PROVE  Ordered(Added(x, k))
<1>1. PICK r \in Rings : r = pipe[x] /\ Ordered(r) /\ k \in 0..PAGE_SIZE - 1 - Size(r)
  BY DEF IInv, Typed, PIPE_SIZE, Room, Size
<1> DEFINE slot(i) == (r.head + i) % PAGE_SIZE
           in(b) == CHOOSE i \in 0..k - 1 : slot(i) = b
           page == [b \in Slots |-> IF \E i \in 0..k - 1 : slot(i) = b
                                    THEN (r.sent + in(b)) % Numbers ELSE r.page[b]]
<1>2. PICK h, e : h = slot(k) /\ e = (r.sent + k) % Numbers
  OBVIOUS
<1>3. DOMAIN r.page = Slots /\ r.page \in [Slots -> Int] /\ r.sent \in Int
  BY DEF Rings, Slots
<1>4. PICK P : P = page
  OBVIOUS
<1>5. Added(x, k) = [r EXCEPT !.head = h, !.sent = e, !.page = P]
  BY <1>1, <1>2, <1>3, <1>4 DEF Added
<1>6. PICK s : s = [r EXCEPT !.head = h, !.sent = e, !.page = P]
  OBVIOUS
<1>7. s.head = h /\ s.sent = e /\ s.page = P /\ s.tail = r.tail /\ s.got = r.got
  BY <1>6 DEF Rings
<1>8. \A i, j \in 0..k - 1 : slot(i) = slot(j) => i = j
  <2>1. r.head \in Slots /\ k \in 0..PAGE_SIZE
    <3>1. Size(r) \in Nat
      BY <1>1, RingSize, WrapSum DEF Ordered, Size, Slots
    <3> QED
      BY <1>1, <3>1, RingSize DEF Ordered
  <2> QED
    BY <2>1, SlotsDiffer
<1>9. \A j \in 0..k - 1 : in(slot(j)) = j
  <2> HIDE DEF slot
  <2> QED
    BY <1>8
<1>10. \A j \in 0..k - 1 : slot(j) \in Slots
  <2> SUFFICES ASSUME NEW j \in 0..k - 1
               PROVE  slot(j) \in Slots
    OBVIOUS
  <2>1. PICK i \in Int : i = r.head + j
    BY DEF Rings
  <2> QED
    BY <2>1, Names, Mod DEF Slots
<1>11. \A j \in 0..k - 1 : s.page[slot(j)] = (r.sent + j) % Numbers
  <2> HIDE DEF slot, in
  <2> QED
    BY <1>4, <1>7, <1>9, <1>10
<1>12. \A b \in Slots : (\A j \in 0..k - 1 : slot(j) # b) => s.page[b] = r.page[b]
  <2> HIDE DEF slot, in
  <2> QED
    BY <1>4, <1>7
<1>13. s.page \in [Slots -> Int]
  <2>1. ASSUME NEW b \in Slots, NEW j \in 0..k - 1, b = slot(j)
        PROVE  (r.sent + in(b)) % Numbers \in Int
    BY <1>3, <1>9, <2>1, Names, Mod
  <2> HIDE DEF slot, in
  <2> QED
    BY <1>3, <1>4, <1>7, <2>1
<1>14. /\ s.head = (r.head + k) % PAGE_SIZE /\ s.sent = (r.sent + k) % Numbers
       /\ s = Added(x, k)
  BY <1>2, <1>5, <1>6, <1>7
<1> QED
  BY <1>1, <1>7, <1>11, <1>12, <1>13, <1>14, WriteKeeps

LEMMA RingOrdered ==
    ASSUME IInv, RingsOrdered, NEW x \in Pipes, NEW r, Ordered(r),
           pipe' = [pipe EXCEPT ![x] = r]
    PROVE  RingsOrdered'
<1>1. \A y \in Pipes : pipe'[y] = r \/ pipe'[y] = pipe[y]
  BY DEF IInv, Typed
<1>2. \A y \in Pipes : Ordered(pipe'[y])
  BY <1>1 DEF RingsOrdered
<1> QED
  BY <1>2 DEF RingsOrdered, Ordered, Size, Slots, Numbers

LEMMA PutOrdered ==
    ASSUME IInv, RingsOrdered, NEW x \in Pipes, pipe' = PutPipe(x)
    PROVE  RingsOrdered'
<1>1. CASE pipe[x].i_count = 1
  <2>1. Ordered(NewPipe)
    BY NewOrdered, RingSize DEF NewPipe, Slots
  <2> QED
    BY <1>1, <2>1, RingOrdered DEF PutPipe
<1>2. CASE pipe[x].i_count # 1
  <2>1. PICK r \in Rings, n \in Int : r = pipe[x] /\ Ordered(r) /\ n = r.i_count - 1
    BY DEF IInv, Typed, Rings, RingsOrdered
  <2>2. pipe' = [pipe EXCEPT ![x] = [r EXCEPT !.i_count = n, !.i_wait = Nothing]]
    BY <1>2, <2>1 DEF PutPipe, IInv, Typed
  <2>3. PICK s : s = [r EXCEPT !.i_count = n, !.i_wait = Nothing]
    OBVIOUS
  <2>4. s \in Rings
    BY <2>1, <2>3 DEF Rings
  <2>5. /\ s.head = r.head /\ s.tail = r.tail /\ s.page = r.page
        /\ s.sent = r.sent /\ s.got = r.got
    BY <2>3 DEF Rings
  <2>6. Ordered(s)
    BY <2>1, <2>4, <2>5, AlikeOrdered
  <2> QED
    BY <2>2, <2>3, <2>6, RingOrdered
<1> QED
  BY <1>1, <1>2

(* Whoever ends a call, or sleeps in it, changes only i_wait after the ring. *)
LEMMA WaitOrdered ==
    ASSUME NEW r \in Rings, Ordered(r), NEW q \in Procs \cup {Nothing}
    PROVE  Ordered([r EXCEPT !.i_wait = q])
<1>1. PICK s : s = [r EXCEPT !.i_wait = q]
  OBVIOUS
<1>2. s \in Rings
  BY <1>1 DEF Rings
<1>3. /\ s.head = r.head /\ s.tail = r.tail /\ s.page = r.page
      /\ s.sent = r.sent /\ s.got = r.got
  BY <1>1 DEF Rings
<1> QED
  BY <1>1, <1>2, <1>3, AlikeOrdered

LEMMA CallOrdered ==
    ASSUME IInv, RingsOrdered, NEW p \in Procs, At(p, Read) \/ At(p, Write),
           NEW r \in Rings, Ordered(r), NEW n, Ends(p, r) \/ Sleeps(p, r, n)
    PROVE  RingsOrdered'
<1>1. PICK x \in Pipes : x = at[p].x
  BY Caller
<1>2. PICK q \in Procs \cup {Nothing} : pipe' = [pipe EXCEPT ![x] = [r EXCEPT !.i_wait = q]]
  BY <1>1 DEF Ends, Sleeps
<1> QED
  BY <1>2, WaitOrdered, RingOrdered

LEMMA TransferOrdered ==
    ASSUME IInv, RingsOrdered, NEW p \in Procs,
           \/ ReadSome(p) \/ ReadEnds(p) \/ ReadSleeps(p)
           \/ WriteAll(p) \/ WriteSleeps(p) \/ WriteEnds(p)
    PROVE  RingsOrdered'
<1>1. At(p, Read) \/ At(p, Write)
  BY DEF ReadSome, ReadEnds, ReadSleeps, WriteAll, WriteSleeps, WriteEnds, Runs
<1>2. PICK x \in Pipes, n \in Nat : /\ x = at[p].x /\ n = at[p].count
                                    /\ pipe[x] \in Rings /\ Ordered(pipe[x])
  BY <1>1, Caller DEF RingsOrdered
<1>3. PIPE_SIZE(x) \in 0..PAGE_SIZE - 1 /\ PIPE_SIZE(x) \in Nat /\ PAGE_SIZE \in Nat
  <2>1. PICK i \in Int : i = pipe[x].head - pipe[x].tail
    BY <1>2 DEF Rings
  <2>2. PIPE_SIZE(x) = i % PAGE_SIZE
    BY <2>1 DEF PIPE_SIZE
  <2> QED
    BY <2>2, Names, Mod
<1>4. Room(x) \in Nat
  <2>1. PICK z \in Nat : z = PIPE_SIZE(x) /\ z <= PAGE_SIZE - 1
    BY <1>3
  <2> QED
    BY <1>3, <2>1 DEF Room
<1>5. \A k \in 0..PIPE_SIZE(x) : Taken(x, k) \in Rings /\ Ordered(Taken(x, k))
  BY <1>2, TakenRing, TakenOrdered
<1>6. \A k \in 0..Room(x) : Added(x, k) \in Rings /\ Ordered(Added(x, k))
  BY <1>2, AddedRing, AddedOrdered
<1>7. AtMost(n, PIPE_SIZE(x)) \in 0..PIPE_SIZE(x)
  BY <1>2, <1>3 DEF AtMost
<1>8. Room(x) \in 0..Room(x)
  BY <1>4
<1>9. CASE ReadSome(p)
  BY <1>1, <1>2, <1>5, <1>7, <1>9, CallOrdered DEF ReadSome
<1>10. CASE ReadEnds(p) \/ ReadSleeps(p)
  BY <1>1, <1>2, <1>10, CallOrdered DEF ReadEnds, ReadSleeps
<1>11. CASE WriteAll(p)
  <2>1. n \in 0..Room(x)
    BY <1>2, <1>4, <1>11 DEF WriteAll, Fits
  <2> QED
    BY <1>1, <1>2, <1>6, <1>11, <2>1, CallOrdered DEF WriteAll
<1>12. CASE WriteSleeps(p) \/ WriteEnds(p)
  BY <1>1, <1>2, <1>6, <1>8, <1>12, CallOrdered DEF WriteSleeps, WriteEnds
<1> QED
  BY <1>9, <1>10, <1>11, <1>12

LEMMA NextOrdered ==
    ASSUME IInv, RingsOrdered, [Next]_vars
    PROVE  RingsOrdered'
<1>1. ASSUME UNCHANGED pipe
      PROVE  RingsOrdered'
  BY <1>1 DEF RingsOrdered, Ordered, Size, Slots, Numbers
<1>2. ASSUME NEW p \in Procs, NEW fd \in Fds, NEW me, CloseThen(p, fd, me)
      PROVE  RingsOrdered'
  BY <1>1, <1>2, PutOrdered DEF CloseThen
<1>3. ASSUME NEW p \in Procs, Close(p) \/ Dup2(p) \/ CloseNext(p)
      PROVE  RingsOrdered'
  BY <1>2, <1>3 DEF Close, Dup2, CloseNext, Lowest, Open
<1>4. ASSUME NEW p \in Procs, PipeDone(p)
      PROVE  RingsOrdered'
  <2>1. PICK r : r = [NewPipe EXCEPT !.i_count = 2]
    OBVIOUS
  <2>2. Ordered(r)
    BY <2>1, NewOrdered, RingSize DEF NewPipe, Slots
  <2> QED
    BY <1>4, <2>1, <2>2, RingOrdered DEF PipeDone
<1>5. ASSUME NEW p \in Procs, Kernel(p) \/ User(p)
      PROVE  RingsOrdered'
  BY <1>1, <1>3, <1>4, <1>5, TransferOrdered
     DEF Kernel, User, OpenBegin, OpenDone, OpenFails, Dup, Dup2Done, PipeBegin, PipeFails,
         PipeCall, Fork, Exit, Closed
<1> QED
  BY <1>1, <1>5 DEF Next, vars

-----------------------------------------------------------------------------
LEMMA InitIInv ==
    ASSUME Init
    PROVE  IInv
<1>1. Typed
  BY FilesAssumption DEF Init, Typed, Places, Entries, Rings, NewFile, NewPipe, AtUser, Unborn
<1>2. EntriesSound
  BY Names DEF Init, EntriesSound, NewFile
<1>3. CallsSound
  BY DEF Init, CallsSound, CallSound, At, AtUser, Unborn
<1>4. FilesCounted
  <2>1. \A f \in FileTable : Descriptors(f) = {}
    BY Names DEF Init, Descriptors
  <2> QED
    BY <2>1, FS_EmptySet DEF Init, FilesCounted, NewFile
<1>5. PipesCounted
  <2>1. \A x \in Pipes : EndsOf(x) = {}
    BY Names DEF Init, EndsOf, NewFile
  <2> QED
    BY <2>1, FS_EmptySet DEF Init, PipesCounted, NewPipe
<1> QED
  BY <1>1, <1>2, <1>3, <1>4, <1>5 DEF IInv

LEMMA NextIInv ==
    ASSUME IInv, [Next]_vars
    PROVE  IInv'
<1>1. CASE UNCHANGED vars
  BY <1>1 DEF vars, IInv, Typed, EntriesSound, CallsSound, CallSound, OwnedBy, At,
              FilesCounted, Descriptors, PipesCounted, EndsOf
<1>2. ASSUME NEW p \in Procs, Kernel(p)
      PROVE  IInv'
  BY <1>2, OpenDoneIInv, OpenFailsIInv, Dup2DoneIInv, PipeDoneIInv, PipeFailsIInv,
     TransferIInv, CloseIInv, ExitIInv DEF Kernel
<1>3. ASSUME NEW p \in Procs, User(p)
      PROVE  IInv'
  BY <1>3, OpenBeginIInv, CloseIInv, DupIInv, PipeBeginIInv, PipeCallIInv, ForkIInv,
     ExitIInv DEF User
<1> QED
  BY <1>1, <1>2, <1>3 DEF Next

THEOREM Inductive == Spec => []IInv
BY InitIInv, NextIInv, PTL DEF Spec

(* Every entry of file_table counts the descriptors that point to it, in   *)
(* whatever process: after open(), dup(), fork(), pipe(), close() and      *)
(* exit() in any order, none is given away in use and none is lost.        *)
THEOREM DescriptorsCounted == Spec => []FilesCounted
<1>1. IInv => FilesCounted
  BY DEF IInv
<1> QED
  BY <1>1, Inductive, PTL

(* i_count of a pipe is the number of its open ends, which is all that a   *)
(* reader has to know an end of file by, and a writer a hang-up.           *)
THEOREM PipeEndsCounted == Spec => []EndsCounted
<1>1. ASSUME IInv, NEW x \in Pipes
      PROVE  pipe[x].i_count = Cardinality(OpenEnds(x, Read)) + Cardinality(OpenEnds(x, Write))
  <2>1. EndsOf(x) = OpenEnds(x, Read) \cup OpenEnds(x, Write)
    BY <1>1 DEF IInv, EntriesSound, EndsOf, OpenEnds
  <2>2. OpenEnds(x, Read) \cap OpenEnds(x, Write) = {}
    BY Names DEF OpenEnds
  <2>3. /\ IsFiniteSet(OpenEnds(x, Read)) /\ IsFiniteSet(OpenEnds(x, Write))
        /\ Cardinality(OpenEnds(x, Read)) \in Nat /\ Cardinality(OpenEnds(x, Write)) \in Nat
    BY <2>1, EndsFinite, FS_Subset, FS_CardinalityType
  <2>4. Cardinality(EndsOf(x))
          = Cardinality(OpenEnds(x, Read)) + Cardinality(OpenEnds(x, Write)) - Cardinality({})
    BY <2>1, <2>2, <2>3, FS_Union
  <2>5. Cardinality({}) = 0
    BY FS_EmptySet
  <2>6. pipe[x].i_count = Cardinality(EndsOf(x))
    BY <1>1 DEF IInv, PipesCounted
  <2> QED
    BY <2>3, <2>4, <2>5, <2>6
<1>2. IInv => EndsCounted
  BY <1>1 DEF EndsCounted
<1> QED
  BY <1>2, Inductive, PTL

(* What is in the page of a pipe between its tail and its head is what was *)
(* written and not read yet, in the order it was written, however readers  *)
(* and writers follow each other around the end of the ring.               *)
THEOREM BytesKeepOrder == Spec => []BytesInOrder
<1>1. Init => RingsOrdered
  <2>1. Ordered(NewPipe)
    BY NewOrdered, RingSize DEF NewPipe, Slots
  <2> QED
    BY <2>1 DEF Init, RingsOrdered
<1>2. RingsOrdered => BytesInOrder
  BY DEF RingsOrdered, Ordered, Size, BytesInOrder, PIPE_SIZE
<1> QED
  BY <1>1, <1>2, NextOrdered, Inductive, PTL DEF Spec

=============================================================================
