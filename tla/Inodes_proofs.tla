---------------------------- MODULE Inodes_proofs ----------------------------
(***************************************************************************)
(* Inodes in memory keep their counts, their identity and their contents.  *)
(* IInv adds to the properties what a call finds again when it has slept:  *)
(* the slot it counts on is still the inode it asked for, and nobody else  *)
(* is about to give it up.                                                 *)
(***************************************************************************)
EXTENDS Inodes, FiniteSetTheorems, TLAPS

Asked == {"open", "unlink"}
Places == Running \cup {"user", "iget", "read", "iput", "write", "truncate"}
Faults == {"no", "table full", "free_inode", "freed inode read", "locked slot cleared"}
Inode == [inum : Inums \cup {NoInode}, count : Int, dirt : BOOLEAN, lock : BOOLEAN, d : Contents]

Typed ==
    /\ inode \in [Slots -> Inode]
    /\ disk \in [Inums -> Contents] /\ latest \in [Inums -> Contents]
    /\ imap \subseteq Inums /\ names \subseteq Inums /\ reused \subseteq Slots
    /\ file \in [Procs -> Slots \cup {NoSlot}]
    /\ op \in [Procs -> {"none", "open", "unlink", "close", "sync"}]
    /\ pc \in [Procs -> Places]
    /\ nr \in [Procs -> Inums \cup {NoInode}]
    /\ cur \in [Procs -> Slots \cup {NoSlot}] /\ empty \in [Procs -> Slots \cup {NoSlot}]
    /\ broken \in Faults

(* The call p is in, wherever it sleeps. *)
CallTyped(p) ==
    /\ pc[p] = "user" => op[p] = "none"
    /\ pc[p] \in {"scan", "iget"} => nr[p] \in Inums /\ empty[p] \in Slots
    /\ pc[p] \notin {"scan", "iget"} => empty[p] = NoSlot
    /\ pc[p] \in {"scan", "iget", "read", "got"} =>
         op[p] \in Asked /\ (op[p] = "open" => file[p] = NoSlot)
    /\ pc[p] \in {"read", "got"} => nr[p] \in Inums
    /\ pc[p] \in {"put", "iput", "last", "truncate"} => op[p] \in {"unlink", "close"}
    /\ pc[p] = "write" => op[p] \in {"unlink", "close", "sync"}
    /\ pc[p] \notin {"user", "scan"} => cur[p] \in Slots
CallsTyped == \A p \in Procs : CallTyped(p)

(* p is in an iput() that has found itself the last user of slot s. *)
LastUser(p, s) == pc[p] \in {"last", "write", "truncate"} /\ op[p] # "sync" /\ cur[p] = s
Transfer(p, s) == pc[p] \in {"read", "write"} /\ cur[p] = s

(* What p counts on in slot s, while others run. *)
Kept(p, s) ==
    /\ empty[p] = s => inode[s] = [ZeroInode EXCEPT !.count = 1]
    /\ file[p] = s \/ Holds(p, s) \/ Transfer(p, s) => inode[s].inum # NoInode
    /\ Holds(p, s) /\ pc[p] \in {"read", "got"} => inode[s].inum = nr[p]
    /\ Transfer(p, s) => inode[s].lock
    /\ pc[p] \in {"got", "last"} /\ cur[p] = s => ~inode[s].lock
    /\ pc[p] = "read" /\ cur[p] = s => inode[s].count = 1
    /\ LastUser(p, s) /\ inode[s].count > 1 => s \in reused
    /\ pc[p] = "truncate" /\ cur[p] = s => inode[s].d.nlinks = 0
SlotsKept == \A p \in Procs, s \in Slots : Kept(p, s)

(* One process at a time has a slot locked, or is giving it up. *)
OneOwner ==
    \A p, q \in Procs, s \in Slots :
        p # q => ~(Transfer(p, s) /\ Transfer(q, s)) /\ ~(LastUser(p, s) /\ LastUser(q, s))

(* A slot that nobody uses has nothing to be written, nor has one without  *)
(* an inode.                                                               *)
UnusedClean ==
    \A s \in Slots : /\ inode[s].count = 0 => ~inode[s].dirt /\ ~inode[s].lock
                     /\ inode[s].inum = NoInode => ~inode[s].dirt

(* An inode has one slot, is allocated while it has one, and keeps its     *)
(* name while the slot is unused.                                          *)
SlotsApart == \A s, t \in Slots : inode[s].inum = inode[t].inum /\ inode[s].inum # NoInode => s = t
SlotsNamed ==
    \A s \in Slots : inode[s].inum # NoInode =>
        /\ inode[s].inum \in imap
        /\ inode[s].count = 0 => inode[s].inum \in names

(* Its links are its name; its contents are in its slot, or on the disk.   *)
Stored(n) ==
    \/ Holding(n) = {} /\ disk[n] = latest[n]
    \/ \E s \in Slots : Holding(n) = {s} /\ InMemory(s, n)
InodeSound(n) ==
    /\ Stored(n)
    /\ n \in names <=> latest[n].nlinks = 1
    /\ n \in names \/ Holding(n) # {}


(* What holds until something has gone wrong for good. *)
Sound ==
    /\ SlotsKept
    /\ OneOwner
    /\ SlotsNamed
    /\ names \subseteq imap /\ \A n \in imap : InodeSound(n)
IInv ==
    /\ Typed
    /\ CallsTyped
    /\ CountsAreExact
    /\ UnusedClean
    /\ SlotsApart
    /\ broken = "no" => Sound
    /\ broken = "free_inode" =>
         \E p \in Procs : pc[p] = "truncate" /\ cur[p] \in reused /\ inode[cur[p]].inum \in imap
-----------------------------------------------------------------------------
(* Counting *)

One(b) == IF b THEN 1 ELSE 0
(* How many times p counts in slot s. *)
Part(p, s) == One(file[p] = s) + One(Holds(p, s)) + One(empty[p] = s)
(* What p does changes nothing of the call that q is in. *)
Still(q) == /\ file'[q] = file[q] /\ op'[q] = op[q] /\ pc'[q] = pc[q]
            /\ nr'[q] = nr[q] /\ cur'[q] = cur[q] /\ empty'[q] = empty[q]
OthersStill(p) == \A q \in Procs \ {p} : Still(q)

LEMMA Numbering ==
    /\ NoSlot \notin Slots /\ NoInode \notin Inums /\ Slots \subseteq Nat /\ Inums \subseteq Nat
    /\ IsFiniteSet(Procs)
BY InodeAssumption DEF NoSlot, Slots, NoInode, Inums

LEMMA SetParts ==
    ASSUME NEW S \in SUBSET Procs
    PROVE  /\ IsFiniteSet(S) /\ Cardinality(S) \in Nat
           /\ \A p \in Procs : Cardinality(S) >= One(p \in S)
           /\ \A p, q \in Procs : p # q => Cardinality(S) >= One(p \in S) + One(q \in S)
<1>1. IsFiniteSet(S) /\ Cardinality(S) \in Nat
  BY Numbering, FS_Subset, FS_CardinalityType
<1>2. ASSUME NEW p \in Procs
      PROVE  Cardinality(S) >= One(p \in S)
  BY <1>1, FS_EmptySet DEF One
<1>3. ASSUME NEW p \in Procs, NEW q \in Procs, p # q
      PROVE  Cardinality(S) >= One(p \in S) + One(q \in S)
  <2>1. CASE p \in S /\ q \in S
    <3>1. Cardinality(S \ {p}) = Cardinality(S) - 1 /\ IsFiniteSet(S \ {p})
      BY <1>1, <2>1, FS_RemoveElement
    <3>2. q \in S \ {p} /\ Cardinality(S \ {p}) \in Nat
      BY <1>3, <2>1, <3>1, FS_CardinalityType
    <3>3. Cardinality(S \ {p}) # 0
      BY <3>1, <3>2, FS_EmptySet
    <3> QED
      BY <1>1, <2>1, <3>1, <3>2, <3>3 DEF One
  <2> QED
    BY <1>1, <1>2, <2>1 DEF One
<1> QED
  BY <1>1, <1>2, <1>3

LEMMA SetChange ==
    ASSUME NEW S \in SUBSET Procs, NEW T \in SUBSET Procs, NEW p \in Procs,
           \A q \in Procs \ {p} : q \in S <=> q \in T
    PROVE  Cardinality(T) = Cardinality(S) + One(p \in T) - One(p \in S)
<1>1. IsFiniteSet(S) /\ Cardinality(S) \in Nat /\ IsFiniteSet(T) /\ Cardinality(T) \in Nat
  BY SetParts
<1>2. CASE p \in S /\ p \notin T
  <2>1. T = S \ {p}
    BY <1>2
  <2> QED
    BY <1>1, <1>2, <2>1, FS_RemoveElement DEF One
<1>3. CASE p \notin S /\ p \in T
  <2>1. T = S \cup {p}
    BY <1>3
  <2> QED
    BY <1>1, <1>3, <2>1, FS_AddElement DEF One
<1>4. CASE p \in S <=> p \in T
  <2>1. S = T
    BY <1>4
  <2> QED
    BY <1>1, <2>1 DEF One
<1> QED
  BY <1>2, <1>3, <1>4

OpenIn(s) == {p \in Procs : file[p] = s}
HeldBy(s) == {p \in Procs : Holds(p, s)}
EmptyIn(s) == {p \in Procs : empty[p] = s}

LEMMA CountParts ==
    ASSUME NEW s
    PROVE  /\ Count(s) \in Nat
           /\ \A p \in Procs : Count(s) >= Part(p, s)
           /\ \A p, q \in Procs : p # q => Count(s) >= Part(p, s) + Part(q, s)
<1>1. /\ OpenIn(s) \in SUBSET Procs /\ HeldBy(s) \in SUBSET Procs /\ EmptyIn(s) \in SUBSET Procs
      /\ Count(s) = Cardinality(OpenIn(s)) + Cardinality(HeldBy(s)) + Cardinality(EmptyIn(s))
  BY DEF OpenIn, HeldBy, EmptyIn, Count
<1>2. \A p \in Procs : Part(p, s) = One(p \in OpenIn(s)) + One(p \in HeldBy(s)) + One(p \in EmptyIn(s))
  BY DEF Part, OpenIn, HeldBy, EmptyIn, One
<1>3. \A S \in SUBSET Procs :
        /\ Cardinality(S) \in Nat /\ \A p \in Procs : Cardinality(S) >= One(p \in S)
        /\ \A p, q \in Procs : p # q => Cardinality(S) >= One(p \in S) + One(q \in S)
  BY SetParts
<1>4. \A b : One(b) \in {0, 1}
  BY DEF One
<1> HIDE DEF OpenIn, HeldBy, EmptyIn
<1>5. ASSUME NEW p \in Procs
      PROVE  Count(s) >= Part(p, s)
  <2>1. /\ Cardinality(OpenIn(s)) >= One(p \in OpenIn(s))
        /\ Cardinality(HeldBy(s)) >= One(p \in HeldBy(s))
        /\ Cardinality(EmptyIn(s)) >= One(p \in EmptyIn(s))
    BY <1>1, <1>3
  <2>2. /\ Cardinality(OpenIn(s)) \in Nat /\ Cardinality(HeldBy(s)) \in Nat
        /\ Cardinality(EmptyIn(s)) \in Nat
    BY <1>1, <1>3
  <2>3. One(p \in OpenIn(s)) \in Int /\ One(p \in HeldBy(s)) \in Int /\ One(p \in EmptyIn(s)) \in Int
    BY DEF One
  <2> QED
    BY <1>1, <1>2, <2>1, <2>2, <2>3
<1>6. ASSUME NEW p \in Procs, NEW q \in Procs, p # q
      PROVE  Count(s) >= Part(p, s) + Part(q, s)
  <2>1. /\ Cardinality(OpenIn(s)) >= One(p \in OpenIn(s)) + One(q \in OpenIn(s))
        /\ Cardinality(HeldBy(s)) >= One(p \in HeldBy(s)) + One(q \in HeldBy(s))
        /\ Cardinality(EmptyIn(s)) >= One(p \in EmptyIn(s)) + One(q \in EmptyIn(s))
    BY <1>1, <1>3, <1>6
  <2>2. /\ Cardinality(OpenIn(s)) \in Nat /\ Cardinality(HeldBy(s)) \in Nat
        /\ Cardinality(EmptyIn(s)) \in Nat
    BY <1>1, <1>3
  <2>3. /\ One(p \in OpenIn(s)) \in Int /\ One(p \in HeldBy(s)) \in Int /\ One(p \in EmptyIn(s)) \in Int
        /\ One(q \in OpenIn(s)) \in Int /\ One(q \in HeldBy(s)) \in Int /\ One(q \in EmptyIn(s)) \in Int
    BY DEF One
  <2> QED
    BY <1>1, <1>2, <2>1, <2>2, <2>3
<1>7. Count(s) \in Nat
  BY <1>1, <1>3
<1> QED
  BY <1>5, <1>6, <1>7

(* When only p moves, a count changes by what p's part does. *)
LEMMA CountMoves ==
    ASSUME NEW p \in Procs, OthersStill(p), NEW s
    PROVE  Count(s)' = Count(s) + Part(p, s)' - Part(p, s)
<1>1. /\ OpenIn(s) \in SUBSET Procs /\ HeldBy(s) \in SUBSET Procs /\ EmptyIn(s) \in SUBSET Procs
      /\ OpenIn(s)' \in SUBSET Procs /\ HeldBy(s)' \in SUBSET Procs /\ EmptyIn(s)' \in SUBSET Procs
  BY DEF OpenIn, HeldBy, EmptyIn
<1>2. /\ Count(s) = Cardinality(OpenIn(s)) + Cardinality(HeldBy(s)) + Cardinality(EmptyIn(s))
      /\ Count(s)' = Cardinality(OpenIn(s)') + Cardinality(HeldBy(s)') + Cardinality(EmptyIn(s)')
  BY DEF OpenIn, HeldBy, EmptyIn, Count
<1>3. /\ Part(p, s) = One(p \in OpenIn(s)) + One(p \in HeldBy(s)) + One(p \in EmptyIn(s))
      /\ Part(p, s)' = One(p \in OpenIn(s)') + One(p \in HeldBy(s)') + One(p \in EmptyIn(s)')
  BY DEF Part, OpenIn, HeldBy, EmptyIn, One
<1>4. \A q \in Procs \ {p} : /\ q \in OpenIn(s) <=> q \in OpenIn(s)'
                             /\ q \in HeldBy(s) <=> q \in HeldBy(s)'
                             /\ q \in EmptyIn(s) <=> q \in EmptyIn(s)'
  BY DEF OthersStill, Still, OpenIn, HeldBy, EmptyIn, Holds
<1> HIDE DEF OpenIn, HeldBy, EmptyIn
<1>5. Cardinality(OpenIn(s)') = Cardinality(OpenIn(s)) + One(p \in OpenIn(s)') - One(p \in OpenIn(s))
  BY <1>1, <1>4, SetChange
<1>6. Cardinality(HeldBy(s)') = Cardinality(HeldBy(s)) + One(p \in HeldBy(s)') - One(p \in HeldBy(s))
  BY <1>1, <1>4, SetChange
<1>7. Cardinality(EmptyIn(s)') = Cardinality(EmptyIn(s)) + One(p \in EmptyIn(s)') - One(p \in EmptyIn(s))
  BY <1>1, <1>4, SetChange
<1>8. /\ Cardinality(OpenIn(s)) \in Nat /\ Cardinality(HeldBy(s)) \in Nat
      /\ Cardinality(EmptyIn(s)) \in Nat
  BY <1>1, SetParts
<1>9. /\ One(p \in OpenIn(s)) \in Int /\ One(p \in HeldBy(s)) \in Int /\ One(p \in EmptyIn(s)) \in Int
      /\ One(p \in OpenIn(s)') \in Int /\ One(p \in HeldBy(s)') \in Int
      /\ One(p \in EmptyIn(s)') \in Int
  BY DEF One
<1> QED
  BY <1>2, <1>3, <1>5, <1>6, <1>7, <1>8, <1>9

-----------------------------------------------------------------------------
(* Who has a slot *)

(* The slot matters to p while others run. *)
Near(p, s) == empty[p] = s \/ file[p] = s \/ Holds(p, s) \/ Transfer(p, s)

LEMMA Alone ==
    ASSUME IInv, NEW p \in Procs, NEW q \in Procs \ {p}, NEW s \in Slots,
           inode[s].count <= Part(p, s)
    PROVE  file[q] # s /\ ~Holds(q, s) /\ empty[q] # s
<1>1. inode[s].count = Count(s) /\ Count(s) \in Nat /\ Count(s) >= Part(p, s) + Part(q, s)
  BY CountParts DEF IInv, CountsAreExact
<1>2. Part(p, s) \in Int /\ Part(q, s) \in Int
  BY DEF Part, One
<1>3. Part(q, s) <= 0
  BY <1>1, <1>2
<1> QED
  BY <1>3 DEF Part, One

LEMMA Counted ==
    ASSUME IInv, NEW p \in Procs, NEW s \in Slots
    PROVE  /\ inode[s].count \in Nat
           /\ inode[s].count >= Part(p, s)
           /\ file[p] = s \/ Holds(p, s) \/ empty[p] = s => inode[s].count > 0
<1>1. inode[s].count = Count(s) /\ Count(s) \in Nat /\ Count(s) >= Part(p, s)
  BY CountParts DEF IInv, CountsAreExact
<1> QED
  BY <1>1 DEF Part, One

LEMMA SlotUnused ==
    ASSUME IInv, broken = "no", NEW s \in Slots, inode[s].count = 0, NEW q \in Procs
    PROVE  ~Near(q, s)
<1>1. file[q] # s /\ ~Holds(q, s) /\ empty[q] # s
  BY Counted
<1>2. ~inode[s].lock /\ Kept(q, s)
  BY DEF IInv, UnusedClean, Sound, SlotsKept
<1> QED
  BY <1>1, <1>2 DEF Near, Kept

(* The slot that iget() keeps empty is nobody else's. *)
LEMMA OnlyEmpty ==
    ASSUME IInv, broken = "no", NEW p \in Procs, pc[p] \in {"scan", "iget"}
    PROVE  /\ empty[p] \in Slots /\ nr[p] \in Inums
           /\ inode[empty[p]] = [ZeroInode EXCEPT !.count = 1]
           /\ file[p] # empty[p] /\ \A s : ~Holds(p, s) /\ ~Transfer(p, s)
           /\ \A q \in Procs \ {p} : ~Near(q, empty[p])
<1>1. empty[p] \in Slots /\ nr[p] \in Inums
  BY DEF IInv, CallsTyped, CallTyped
<1>2. PICK e \in Slots : e = empty[p]
  BY <1>1
<1>3. inode[e] = [ZeroInode EXCEPT !.count = 1] /\ inode[e].count = 1 /\ ~inode[e].lock
  <2>1. Kept(p, e)
    BY DEF IInv, Sound, SlotsKept
  <2>2. inode[e] = [ZeroInode EXCEPT !.count = 1]
    BY <1>2, <2>1 DEF Kept
  <2> QED
    BY <2>2 DEF ZeroInode
<1>4. \A s : ~Holds(p, s) /\ ~Transfer(p, s)
  BY DEF Holds, Transfer
<1>5. file[p] # e
  <2>1. inode[e].count >= Part(p, e)
    BY Counted
  <2> QED
    BY <1>2, <1>3, <1>4, <2>1 DEF Part, One
<1>6. inode[e].count <= Part(p, e)
  BY <1>2, <1>3, <1>4, <1>5 DEF Part, One
<1>7. ASSUME NEW q \in Procs \ {p}
      PROVE  ~Near(q, e)
  <2>1. file[q] # e /\ ~Holds(q, e) /\ empty[q] # e
    BY <1>6, Alone
  <2>2. ~Transfer(q, e)
    BY <1>3 DEF IInv, Sound, SlotsKept, Kept
  <2> QED
    BY <2>1, <2>2 DEF Near
<1> QED
  BY <1>1, <1>2, <1>3, <1>4, <1>5, <1>7

(* A slot that is waited for while it is read has one user. *)
LEMMA ReadAlone ==
    ASSUME IInv, broken = "no", NEW s \in Slots, Reading(s)
    PROVE  /\ inode[s].lock /\ inode[s].count = 1
           /\ \A q \in Procs : file[q] # s
<1>1. PICK p \in Procs : pc[p] = "read" /\ cur[p] = s
  BY DEF Reading
<1>2. Holds(p, s) /\ Transfer(p, s)
  BY <1>1 DEF IInv, CallsTyped, CallTyped, Asked, Holds, Transfer
<1>3. inode[s].lock /\ inode[s].count = 1
  BY <1>1, <1>2 DEF IInv, Sound, SlotsKept, Kept
<1>4. file[p] # s
  BY <1>2, <1>3, Counted DEF Part, One
<1>5. inode[s].count <= Part(p, s)
  BY <1>2, <1>3, <1>4 DEF Part, One
<1> QED
  BY <1>3, <1>4, <1>5, Alone

(* The slot in which an inode is holds what was last made of it. *)
LEMMA Slot ==
    ASSUME IInv, broken = "no", NEW s \in Slots, inode[s].inum # NoInode
    PROVE  /\ inode[s].inum \in imap /\ Holding(inode[s].inum) = {s} /\ InMemory(s, inode[s].inum)
           /\ InodeSound(inode[s].inum)
<1>1. inode[s].inum \in imap /\ InodeSound(inode[s].inum)
  BY DEF IInv, Sound, SlotsNamed
<1>2. s \in Holding(inode[s].inum)
  BY DEF Holding
<1>3. PICK t \in Slots : Holding(inode[s].inum) = {t} /\ InMemory(t, inode[s].inum)
  BY <1>1, <1>2 DEF InodeSound, Stored
<1> QED
  BY <1>1, <1>2, <1>3

-----------------------------------------------------------------------------
(* What a step leaves as it was *)

LEMMA KeptStill ==
    ASSUME NEW q \in Procs, NEW s \in Slots, CallTyped(q), Kept(q, s), Still(q),
           Near(q, s) => inode'[s] = inode[s] /\ (s \in reused => s \in reused')
    PROVE  Kept(q, s)'
<1>1. /\ Holds(q, s)' <=> Holds(q, s) /\ (Transfer(q, s)' <=> Transfer(q, s))
  BY DEF Still, Holds, Transfer
<1>2. LastUser(q, s)' <=> LastUser(q, s)
  BY DEF Still, LastUser
<1>3. LastUser(q, s) => Holds(q, s)
  BY DEF LastUser, Holds
<1>4. cur[q] = s /\ pc[q] \in {"got", "last", "read", "truncate"} => Holds(q, s)
  BY DEF CallTyped, Asked, Holds
<1>5. /\ empty'[q] = empty[q] /\ file'[q] = file[q] /\ pc'[q] = pc[q] /\ cur'[q] = cur[q]
      /\ nr'[q] = nr[q]
  BY DEF Still
<1>6. CASE Near(q, s)
  <2>1. inode'[s] = inode[s] /\ (s \in reused => s \in reused')
    BY <1>6
  <2>2. empty'[q] = s => inode'[s] = [ZeroInode EXCEPT !.count = 1]
    BY <1>5, <2>1 DEF Kept
  <2>3. /\ file'[q] = s \/ Holds(q, s)' \/ Transfer(q, s)' => inode'[s].inum # NoInode
        /\ Holds(q, s)' /\ pc'[q] \in {"read", "got"} => inode'[s].inum = nr'[q]
        /\ Transfer(q, s)' => inode'[s].lock
    BY <1>1, <1>5, <2>1 DEF Kept, Holds, Transfer
  <2>4. /\ pc'[q] \in {"got", "last"} /\ cur'[q] = s => ~inode'[s].lock
        /\ pc'[q] = "read" /\ cur'[q] = s => inode'[s].count = 1
        /\ LastUser(q, s)' /\ inode'[s].count > 1 => s \in reused'
        /\ pc'[q] = "truncate" /\ cur'[q] = s => inode'[s].d.nlinks = 0
    BY <1>2, <1>5, <2>1 DEF Kept
  <2> QED
    BY <2>2, <2>3, <2>4 DEF Kept, ZeroInode
<1>7. CASE ~Near(q, s)
  <2>1. empty'[q] # s /\ file'[q] # s /\ ~Holds(q, s)' /\ ~Transfer(q, s)' /\ ~LastUser(q, s)'
    BY <1>1, <1>2, <1>3, <1>5, <1>7 DEF Near, Holds, Transfer, LastUser
  <2>2. ~(cur'[q] = s /\ pc'[q] \in {"got", "last", "read", "truncate"})
    BY <1>4, <1>5, <1>7 DEF Near
  <2> QED
    BY <2>1, <2>2 DEF Kept
<1> QED
  BY <1>6, <1>7

LEMMA InodeKept ==
    ASSUME NEW n, InodeSound(n), Holding(n)' = Holding(n),
           \A t \in Holding(n) : /\ inode'[t].d = inode[t].d /\ inode'[t].dirt = inode[t].dirt
                                 /\ Reading(t)' <=> Reading(t),
           disk'[n] = disk[n], latest'[n] = latest[n], n \in names' <=> n \in names
    PROVE  InodeSound(n)'
<1>1. ASSUME NEW s \in Slots, Holding(n) = {s}, InMemory(s, n)
      PROVE  InMemory(s, n)'
  <2>1. /\ inode'[s].d = inode[s].d /\ inode'[s].dirt = inode[s].dirt
        /\ Reading(s)' <=> Reading(s)
    BY <1>1
  <2> QED
    BY <1>1, <2>1 DEF InMemory
<1>2. Stored(n)'
  BY <1>1 DEF InodeSound, Stored
<1> QED
  BY <1>2 DEF InodeSound

LEMMA ReadingKept ==
    ASSUME NEW p \in Procs, OthersStill(p), NEW s,
           (pc'[p] = "read" /\ cur'[p] = s) <=> (pc[p] = "read" /\ cur[p] = s)
    PROVE  Reading(s)' <=> Reading(s)
BY DEF OthersStill, Still, Reading

(* Only the owner that moves can come into another's way. *)
LEMMA OwnersKept ==
    ASSUME NEW p \in Procs, OthersStill(p), OneOwner,
           \A q \in Procs \ {p}, s \in Slots :
              ~(Transfer(p, s)' /\ Transfer(q, s)) /\ ~(LastUser(p, s)' /\ LastUser(q, s))
    PROVE  OneOwner'
<1>1. \A q \in Procs \ {p}, s \in Slots : /\ Transfer(q, s)' <=> Transfer(q, s)
                                          /\ LastUser(q, s)' <=> LastUser(q, s)
  BY DEF OthersStill, Still, Transfer, LastUser
<1> QED
  BY <1>1 DEF OneOwner

(* The parts of IInv that only the slots and p's own part decide. *)
Frame(p) ==
    /\ broken = "no" /\ OthersStill(p)
    /\ Typed' /\ CallTyped(p)'
    /\ \A s \in Slots : inode'[s].count = inode[s].count + Part(p, s)' - Part(p, s)
    /\ UnusedClean' /\ SlotsApart'

LEMMA Assemble ==
    ASSUME IInv, NEW p \in Procs, Frame(p),
           broken' = "no" => Sound',
           broken' # "free_inode"
    PROVE  IInv'
<1>1. ASSUME NEW q \in Procs \ {p}
      PROVE  CallTyped(q)'
  BY DEF IInv, CallsTyped, CallTyped, Frame, OthersStill, Still
<1>2. CallsTyped'
  BY <1>1 DEF CallsTyped, Frame
<1>3. CountsAreExact'
  <2> SUFFICES ASSUME NEW s \in Slots
               PROVE  inode'[s].count = Count(s)'
    BY DEF CountsAreExact
  <2>1. Count(s)' = Count(s) + Part(p, s)' - Part(p, s)
    BY CountMoves DEF Frame
  <2>2. inode[s].count = Count(s)
    BY DEF IInv, CountsAreExact
  <2> QED
    BY <2>1, <2>2 DEF Frame
<1> QED
  BY <1>2, <1>3 DEF IInv, Frame

-----------------------------------------------------------------------------
(* Steps that leave the table as it is *)

LEMMA Quiet ==
    ASSUME IInv, broken = "no", NEW p \in Procs, OthersStill(p),
           UNCHANGED <<inode, disk, imap, names, latest, broken, reused>>,
           Typed', CallTyped(p)', \A s \in Slots : Part(p, s)' = Part(p, s),
           pc[p] # "read", pc'[p] # "read", \A s \in Slots : Kept(p, s)',
           \A q \in Procs \ {p}, s \in Slots :
              ~(Transfer(p, s)' /\ Transfer(q, s)) /\ ~(LastUser(p, s)' /\ LastUser(q, s))
    PROVE  IInv'
<1>1. Frame(p)
  <2>1. \A s \in Slots : inode[s].count \in Int /\ Part(p, s) \in Int
    BY DEF IInv, Typed, Inode, Part, One
  <2>2. \A s \in Slots : inode'[s].count = inode[s].count + Part(p, s)' - Part(p, s)
    BY <2>1
  <2>3. UnusedClean' /\ SlotsApart'
    BY DEF IInv, UnusedClean, SlotsApart
  <2> QED
    BY <2>2, <2>3 DEF Frame
<1>2. SlotsKept'
  <2>1. ASSUME NEW q \in Procs \ {p}, NEW s \in Slots
        PROVE  Kept(q, s)'
    <3>1. CallTyped(q) /\ Kept(q, s) /\ Still(q)
      BY DEF IInv, CallsTyped, Sound, SlotsKept, OthersStill
    <3> QED
      BY <3>1, KeptStill
  <2> QED
    BY <2>1 DEF SlotsKept
<1>3. OneOwner'
  BY OwnersKept DEF IInv, Sound
<1>4. SlotsNamed' /\ (names \subseteq imap)'
  BY DEF IInv, Sound, SlotsNamed
<1>5. ASSUME NEW n \in imap'
      PROVE  InodeSound(n)'
  <2>1. InodeSound(n) /\ Holding(n)' = Holding(n)
    BY DEF IInv, Sound, Holding
  <2>2. \A t \in Holding(n) : Reading(t)' <=> Reading(t)
    BY ReadingKept
  <2> QED
    BY <2>1, <2>2, InodeKept
<1> QED
  BY <1>1, <1>2, <1>3, <1>4, <1>5, Assemble DEF Sound

LEMMA ScanWaits ==
    ASSUME IInv, NEW p \in Procs, At(p, "scan"), NEW s \in Slots,
           Goto(p, "iget"), cur' = [cur EXCEPT ![p] = s],
           UNCHANGED <<inode, empty, broken, reused, disk, imap, names, latest, file, op, nr>>
    PROVE  IInv'
<1>1. broken = "no" /\ pc[p] = "scan" /\ pc' = [pc EXCEPT ![p] = "iget"]
  BY DEF At, Goto
<1>2. Typed' /\ OthersStill(p) /\ pc'[p] = "iget" /\ cur'[p] = s
  BY <1>1 DEF IInv, Typed, Places, OthersStill, Still
<1>3. CallTyped(p)'
  BY <1>1, <1>2 DEF IInv, CallsTyped, CallTyped
<1>4. \A t \in Slots : ~Holds(p, t) /\ ~Holds(p, t)' /\ ~Transfer(p, t)' /\ ~LastUser(p, t)'
  BY <1>1, <1>2 DEF Holds, Transfer, LastUser
<1>5. \A t \in Slots : Part(p, t)' = Part(p, t)
  BY <1>4 DEF Part, One
<1>6. ASSUME NEW t \in Slots
      PROVE  Kept(p, t)'
  <2>1. Kept(p, t)
    BY <1>1 DEF IInv, Sound, SlotsKept
  <2> QED
    BY <1>2, <1>4, <2>1 DEF Kept, ZeroInode
<1> QED
  BY <1>1, <1>2, <1>3, <1>4, <1>5, <1>6, Quiet

LEMMA IgetRestarts ==
    ASSUME IInv, NEW p \in Procs, At(p, "iget"), Goto(p, "scan"),
           UNCHANGED <<inode, empty, cur, broken, reused, disk, imap, names, latest, file, op, nr>>
    PROVE  IInv'
<1>1. broken = "no" /\ pc[p] = "iget" /\ pc' = [pc EXCEPT ![p] = "scan"]
  BY DEF At, Goto
<1>2. Typed' /\ OthersStill(p) /\ pc'[p] = "scan"
  BY <1>1 DEF IInv, Typed, Places, Running, OthersStill, Still
<1>3. CallTyped(p)'
  BY <1>1, <1>2 DEF IInv, CallsTyped, CallTyped
<1>4. \A t \in Slots : ~Holds(p, t) /\ ~Holds(p, t)' /\ ~Transfer(p, t)' /\ ~LastUser(p, t)'
  BY <1>1, <1>2 DEF Holds, Transfer, LastUser
<1>5. \A t \in Slots : Part(p, t)' = Part(p, t)
  BY <1>4 DEF Part, One
<1>6. ASSUME NEW t \in Slots
      PROVE  Kept(p, t)'
  <2>1. Kept(p, t)
    BY <1>1 DEF IInv, Sound, SlotsKept
  <2> QED
    BY <1>2, <1>4, <2>1 DEF Kept, ZeroInode
<1> QED
  BY <1>1, <1>2, <1>3, <1>4, <1>5, <1>6, Quiet

LEMMA OpenStep ==
    ASSUME IInv, NEW p \in Procs, Open(p)
    PROVE  IInv'
<1>1. broken = "no" /\ pc[p] = "got" /\ op[p] = "open"
  BY DEF Open, At
<1>2. PICK s \in Slots : s = cur[p]
  BY <1>1 DEF IInv, CallsTyped, CallTyped
<1>3. /\ pc' = [pc EXCEPT ![p] = "user"] /\ op' = [op EXCEPT ![p] = "none"]
      /\ cur' = [cur EXCEPT ![p] = NoSlot] /\ nr' = [nr EXCEPT ![p] = NoInode]
      /\ file' = [file EXCEPT ![p] = s]
      /\ UNCHANGED <<inode, disk, imap, names, latest, empty, broken, reused>>
  BY <1>2 DEF Open, Return, Goto
<1>4. Typed' /\ OthersStill(p) /\ pc'[p] = "user" /\ file'[p] = s /\ op'[p] = "none"
  BY <1>3 DEF IInv, Typed, Places, OthersStill, Still
<1>5. CallTyped(p) /\ CallTyped(p)'
  BY <1>1, <1>3, <1>4 DEF IInv, CallsTyped, CallTyped
<1>6. \A t \in Slots : /\ Holds(p, t) <=> t = s
                       /\ ~Holds(p, t)' /\ ~Transfer(p, t)' /\ ~LastUser(p, t)'
  BY <1>1, <1>2, <1>4 DEF Holds, Transfer, LastUser
<1>7. file[p] = NoSlot /\ empty[p] = NoSlot /\ empty'[p] = NoSlot /\ NoSlot \notin Slots
  BY <1>1, <1>3, <1>5, Numbering DEF CallTyped
<1>8. \A t \in Slots : Part(p, t)' = Part(p, t)
  BY <1>4, <1>6, <1>7 DEF Part, One
<1>9. ASSUME NEW t \in Slots
      PROVE  Kept(p, t)'
  <2>1. Kept(p, t)
    BY <1>1 DEF IInv, Sound, SlotsKept
  <2>2. inode'[t] = inode[t]
    BY <1>3
  <2>3. file'[p] = t => inode'[t].inum # NoInode
    BY <1>4, <1>6, <2>1, <2>2 DEF Kept
  <2> QED
    BY <1>4, <1>6, <1>7, <2>3 DEF Kept
<1> QED
  BY <1>1, <1>3, <1>4, <1>5, <1>6, <1>8, <1>9, Quiet

LEMMA CloseStep ==
    ASSUME IInv, NEW p \in Procs, Close(p)
    PROVE  IInv'
<1>1. broken = "no" /\ pc[p] = "user" /\ op[p] = "none" /\ empty[p] = NoSlot
  BY DEF Close, At, IInv, CallsTyped, CallTyped
<1>2. PICK s \in Slots : s = file[p]
  BY DEF Close, IInv, Typed
<1>3. /\ pc' = [pc EXCEPT ![p] = "put"] /\ op' = [op EXCEPT ![p] = "close"]
      /\ cur' = [cur EXCEPT ![p] = s] /\ file' = [file EXCEPT ![p] = NoSlot]
      /\ UNCHANGED <<inode, disk, imap, names, latest, nr, empty, broken, reused>>
  BY <1>2 DEF Close, Goto
<1>4. /\ Typed' /\ OthersStill(p) /\ pc'[p] = "put" /\ file'[p] = NoSlot /\ op'[p] = "close"
      /\ cur'[p] = s /\ empty'[p] = NoSlot
  BY <1>1, <1>3 DEF IInv, Typed, Places, Running, OthersStill, Still
<1>5. CallTyped(p)'
  BY <1>4 DEF CallTyped
<1>6. \A t \in Slots : /\ ~Holds(p, t) /\ (Holds(p, t)' <=> t = s)
                       /\ ~Transfer(p, t)' /\ ~LastUser(p, t)'
  BY <1>1, <1>4 DEF Holds, Transfer, LastUser
<1>7. \A t \in Slots : Part(p, t)' = Part(p, t)
  BY <1>1, <1>2, <1>4, <1>6, Numbering DEF Part, One
<1>8. ASSUME NEW t \in Slots
      PROVE  Kept(p, t)'
  <2>1. Kept(p, t)
    BY <1>1 DEF IInv, Sound, SlotsKept
  <2>2. inode'[t] = inode[t]
    BY <1>3
  <2>3. t = s => inode'[t].inum # NoInode
    BY <1>2, <2>1, <2>2 DEF Kept
  <2> QED
    BY <1>4, <1>6, <2>3, Numbering DEF Kept
<1> QED
  BY <1>1, <1>3, <1>4, <1>5, <1>6, <1>7, <1>8, Quiet

LEMMA IputWaits ==
    ASSUME IInv, NEW p \in Procs, At(p, "put"), Goto(p, "iput"),
           UNCHANGED <<inode, op, cur, nr, disk, imap, names, latest, file, empty, broken, reused>>
    PROVE  IInv'
<1>1. broken = "no" /\ pc[p] = "put" /\ pc' = [pc EXCEPT ![p] = "iput"]
  BY DEF At, Goto
<1>2. Typed' /\ OthersStill(p) /\ pc'[p] = "iput"
  BY <1>1 DEF IInv, Typed, Places, OthersStill, Still
<1>3. CallTyped(p) /\ CallTyped(p)'
  BY <1>1, <1>2 DEF IInv, CallsTyped, CallTyped
<1>4. \A t \in Slots : /\ Holds(p, t)' <=> cur[p] = t
                       /\ Holds(p, t) <=> cur[p] = t
                       /\ ~Transfer(p, t)' /\ ~LastUser(p, t)'
  BY <1>1, <1>2, <1>3 DEF Holds, Transfer, LastUser, CallTyped
<1>5. \A t \in Slots : Part(p, t)' = Part(p, t)
  BY <1>4 DEF Part, One
<1>6. ASSUME NEW t \in Slots
      PROVE  Kept(p, t)'
  <2>1. Kept(p, t)
    BY <1>1 DEF IInv, Sound, SlotsKept
  <2> QED
    BY <1>2, <1>4, <2>1 DEF Kept, ZeroInode
<1> QED
  BY <1>1, <1>2, <1>3, <1>4, <1>5, <1>6, Quiet

LEMMA IputFound ==
    ASSUME IInv, NEW p \in Procs, At(p, "put") \/ At(p, "iput"), Goto(p, "last"),
           ~inode[cur[p]].lock, ~(inode[cur[p]].count > 1),
           UNCHANGED <<inode, op, cur, nr, disk, imap, names, latest, file, empty, broken, reused>>
    PROVE  IInv'
<1>1. broken = "no" /\ pc[p] \in {"put", "iput"} /\ pc' = [pc EXCEPT ![p] = "last"]
  BY DEF At, Goto
<1>2. Typed' /\ OthersStill(p) /\ pc'[p] = "last"
  BY <1>1 DEF IInv, Typed, Places, Running, OthersStill, Still
<1>3. CallTyped(p) /\ CallTyped(p)'
  BY <1>1, <1>2 DEF IInv, CallsTyped, CallTyped
<1>4. PICK s \in Slots : s = cur[p]
  BY <1>1, <1>3 DEF CallTyped
<1>5. /\ \A t \in Slots : /\ Holds(p, t)' <=> t = s
                          /\ Holds(p, t) <=> t = s
                          /\ ~Transfer(p, t)' /\ (LastUser(p, t)' <=> t = s)
      /\ op'[p] # "sync" /\ cur'[p] = s
  BY <1>1, <1>2, <1>3, <1>4 DEF Holds, Transfer, LastUser, CallTyped
<1>6. \A t \in Slots : Part(p, t)' = Part(p, t)
  BY <1>5 DEF Part, One
<1>7. ASSUME NEW t \in Slots
      PROVE  Kept(p, t)'
  <2>1. Kept(p, t)
    BY <1>1 DEF IInv, Sound, SlotsKept
  <2> QED
    BY <1>2, <1>4, <1>5, <2>1 DEF Kept, ZeroInode
<1>8. ASSUME NEW q \in Procs \ {p}
      PROVE  ~LastUser(q, s)
  <2>1. inode[s].count \in Nat /\ inode[s].count <= 1
    BY <1>4, Counted
  <2>2. inode[s].count <= Part(p, s)
    BY <1>5, <2>1 DEF Part, One
  <2>3. ~Holds(q, s)
    BY <2>2, Alone
  <2> QED
    BY <2>3 DEF Holds, LastUser
<1> QED
  BY <1>1, <1>2, <1>3, <1>5, <1>6, <1>7, <1>8, Quiet

LEMMA IputTruncates ==
    ASSUME IInv, NEW p \in Procs, At(p, "last"), Goto(p, "truncate"),
           inode[cur[p]].d.nlinks = 0,
           UNCHANGED <<inode, op, cur, nr, disk, imap, names, latest, file, empty, broken, reused>>
    PROVE  IInv'
<1>1. broken = "no" /\ pc[p] = "last" /\ pc' = [pc EXCEPT ![p] = "truncate"]
  BY DEF At, Goto
<1>2. Typed' /\ OthersStill(p) /\ pc'[p] = "truncate"
  BY <1>1 DEF IInv, Typed, Places, OthersStill, Still
<1>3. CallTyped(p) /\ CallTyped(p)'
  BY <1>1, <1>2 DEF IInv, CallsTyped, CallTyped
<1>4. PICK s \in Slots : s = cur[p]
  BY <1>1, <1>3 DEF CallTyped
<1>5. /\ \A t \in Slots : /\ Holds(p, t)' <=> t = s
                          /\ Holds(p, t) <=> t = s
                          /\ LastUser(p, t)' <=> t = s
                          /\ LastUser(p, t) <=> t = s
                          /\ ~Transfer(p, t)'
      /\ op'[p] # "sync" /\ cur'[p] = s
  BY <1>1, <1>2, <1>3, <1>4 DEF Holds, Transfer, LastUser, CallTyped
<1>6. \A t \in Slots : Part(p, t)' = Part(p, t)
  BY <1>5 DEF Part, One
<1>7. ASSUME NEW t \in Slots
      PROVE  Kept(p, t)'
  <2>1. Kept(p, t)
    BY <1>1 DEF IInv, Sound, SlotsKept
  <2> QED
    BY <1>2, <1>4, <1>5, <2>1 DEF Kept, ZeroInode
<1>8. \A q \in Procs \ {p} : ~LastUser(q, s)
  BY <1>1, <1>5 DEF IInv, Sound, OneOwner
<1> QED
  BY <1>1, <1>2, <1>3, <1>5, <1>6, <1>7, <1>8, Quiet

-----------------------------------------------------------------------------
(* iget() *)

LEMMA Elsewhere ==
    ASSUME NEW p \in Procs, NEW l, At(p, l), NEW q \in Procs \ {p}
    PROVE  pc[q] \notin {"scan", "got", "put", "last"}
BY DEF At, Running

(* Nothing changes in the slots that others have. *)
LEMMA OthersKept ==
    ASSUME IInv, broken = "no", NEW p \in Procs, OthersStill(p),
           \A q \in Procs \ {p}, s \in Slots :
              Near(q, s) => inode'[s] = inode[s] /\ (s \in reused => s \in reused')
    PROVE  \A q \in Procs \ {p}, s \in Slots : Kept(q, s)'
<1> SUFFICES ASSUME NEW q \in Procs \ {p}, NEW s \in Slots
             PROVE  Kept(q, s)'
  OBVIOUS
<1>1. CallTyped(q) /\ Kept(q, s) /\ Still(q)
  BY DEF IInv, CallsTyped, Sound, SlotsKept, OthersStill
<1> QED
  BY <1>1, KeptStill

LEMMA SoundNext ==
    ASSUME NEW p \in Procs,
           \A q \in Procs \ {p}, s \in Slots : Kept(q, s)',
           \A s \in Slots : Kept(p, s)',
           OneOwner', SlotsNamed', (names \subseteq imap)', (\A n \in imap : InodeSound(n))'
    PROVE  Sound'
<1>1. SlotsKept'
  BY DEF SlotsKept
<1> QED
  BY <1>1 DEF Sound

LEMMA ReadInStep ==
    ASSUME IInv, NEW p \in Procs, At(p, "scan"), Holding(nr[p]) = {}, ReadIn(p, empty[p]),
           UNCHANGED <<disk, imap, names, latest, file, op, nr>>
    PROVE  IInv'
<1>1. broken = "no" /\ pc[p] = "scan" /\ CallTyped(p)
  BY DEF At, IInv, CallsTyped
<1>2. /\ empty[p] \in Slots /\ nr[p] \in Inums
      /\ inode[empty[p]] = [ZeroInode EXCEPT !.count = 1]
      /\ file[p] # empty[p] /\ \A s : ~Holds(p, s) /\ ~Transfer(p, s)
      /\ \A q \in Procs \ {p} : ~Near(q, empty[p])
  BY <1>1, OnlyEmpty
<1>3. PICK e \in Slots, n \in Inums : e = empty[p] /\ n = nr[p]
  BY <1>2
<1>4. inode[e] \in Inode /\ inode[e].inum = NoInode /\ inode[e].count = 1 /\ ~inode[e].dirt
  BY <1>2, <1>3 DEF IInv, Typed, ZeroInode
<1>5. /\ inode' = [inode EXCEPT ![e].inum = n, ![e].lock = TRUE]
      /\ empty' = [empty EXCEPT ![p] = NoSlot] /\ cur' = [cur EXCEPT ![p] = e]
      /\ pc' = [pc EXCEPT ![p] = "read"] /\ reused' = reused
      /\ broken' = IF n \in imap THEN "no" ELSE "freed inode read"
  BY <1>1, <1>3 DEF ReadIn, Goto
<1>6. /\ inode'[e].inum = n /\ inode'[e].lock /\ inode'[e].count = 1 /\ ~inode'[e].dirt
      /\ inode'[e].d = inode[e].d
      /\ \A t \in Slots \ {e} : inode'[t] = inode[t]
  BY <1>4, <1>5 DEF IInv, Typed, Inode
<1>7. Typed'
  <2>1. inode' \in [Slots -> Inode]
    <3>1. inode \in [Slots -> Inode] /\ [inode[e] EXCEPT !.inum = n, !.lock = TRUE] \in Inode
      BY <1>4 DEF IInv, Typed, Inode
    <3>2. inode' = [inode EXCEPT ![e] = [inode[e] EXCEPT !.inum = n, !.lock = TRUE]]
      BY <1>5, <3>1
    <3> QED
      BY <3>1, <3>2
  <2>2. broken' \in Faults
    BY <1>5 DEF Faults
  <2> QED
    BY <1>5, <2>1, <2>2 DEF IInv, Typed, Places
<1>8. /\ OthersStill(p) /\ pc'[p] = "read" /\ cur'[p] = e /\ empty'[p] = NoSlot /\ op'[p] = op[p]
      /\ nr'[p] = n /\ file'[p] = file[p]
  BY <1>3, <1>5 DEF IInv, Typed, OthersStill, Still
<1>9. CallTyped(p)'
  BY <1>1, <1>8 DEF CallTyped
<1>10. \A t \in Slots : /\ Holds(p, t)' <=> t = e
                        /\ Transfer(p, t)' <=> t = e
                        /\ ~LastUser(p, t)'
  BY <1>1, <1>8 DEF Holds, Transfer, LastUser, CallTyped, Asked
<1>11. \A t \in Slots : Part(p, t)' = Part(p, t)
  BY <1>2, <1>3, <1>8, <1>10, Numbering DEF Part, One
<1>12. \A t \in Slots : inode[t].inum # n
  BY <1>3 DEF Holding
<1>13. Frame(p)
  <2>1. \A t \in Slots : inode'[t].count = inode[t].count + Part(p, t)' - Part(p, t)
    <3>1. \A t \in Slots : inode'[t].count = inode[t].count /\ inode[t].count \in Int
      BY <1>4, <1>6 DEF IInv, Typed, Inode
    <3>2. \A t \in Slots : Part(p, t) \in Int
      BY DEF Part, One
    <3> QED
      BY <1>11, <3>1, <3>2
  <2>2. UnusedClean'
    BY <1>6 DEF IInv, UnusedClean
  <2>3. SlotsApart'
    BY <1>6, <1>12 DEF IInv, SlotsApart
  <2> QED
    BY <1>1, <1>7, <1>8, <1>9, <2>1, <2>2, <2>3 DEF Frame
<1>14. ASSUME n \in imap
       PROVE  Sound'
  <2>1. \A q \in Procs \ {p}, t \in Slots : Kept(q, t)'
    BY <1>1, <1>2, <1>3, <1>5, <1>6, <1>8, OthersKept, ZenonT(60)
  <2>2. ASSUME NEW t \in Slots
        PROVE  Kept(p, t)'
    <3>1. Kept(p, t)
      BY <1>1 DEF IInv, Sound, SlotsKept
    <3> QED
      BY <1>2, <1>3, <1>6, <1>8, <1>10, <3>1, Numbering DEF Kept
  <2>3. OneOwner'
    <3>1. \A q \in Procs \ {p} : ~Transfer(q, e)
      BY <1>2, <1>3 DEF Near
    <3> QED
      BY <1>1, <1>8, <1>10, <3>1, OwnersKept DEF IInv, Sound
  <2>4. SlotsNamed'
    <3>1. SlotsNamed
      BY <1>1 DEF IInv, Sound
    <3>2. ASSUME NEW t \in Slots, inode'[t].inum # NoInode
          PROVE  inode'[t].inum \in imap /\ (inode'[t].count = 0 => inode'[t].inum \in names)
      <4>1. CASE t = e
        BY <1>6, <1>14, <4>1
      <4>2. CASE t # e
        BY <1>6, <3>1, <3>2, <4>2 DEF SlotsNamed
      <4> QED
        BY <4>1, <4>2
    <3> QED
      BY <3>2 DEF SlotsNamed
  <2>5. ASSUME NEW k \in imap
        PROVE  InodeSound(k)'
    <3>1. InodeSound(k) /\ k \in Inums
      BY <1>1 DEF IInv, Typed, Sound
    <3>2. CASE k = n
      <4>1. Holding(k) = {} /\ Holding(k)' = {e}
        BY <1>3, <1>6, <3>2 DEF Holding
      <4>2. disk[k] = latest[k] /\ k \in names /\ (k \in names <=> latest[k].nlinks = 1)
        BY <3>1, <4>1 DEF InodeSound, Stored
      <4>3. Reading(e)'
        BY <1>8 DEF Reading
      <4> QED
        BY <4>1, <4>2, <4>3 DEF InodeSound, Stored, InMemory
    <3>3. CASE k # n
      <4>1. Holding(k)' = Holding(k) /\ e \notin Holding(k)
        BY <1>4, <1>6, <3>1, <3>3, Numbering DEF Holding
      <4>2. \A t \in Holding(k) : /\ t \in Slots \ {e}
                                  /\ Reading(t)' <=> Reading(t)
        BY <1>1, <1>8, <4>1, ReadingKept DEF Holding
      <4> QED
        BY <1>6, <3>1, <4>1, <4>2, InodeKept
    <3> QED
      BY <3>2, <3>3
  <2> QED
    BY <1>1, <2>1, <2>2, <2>3, <2>4, <2>5, SoundNext DEF IInv, Sound
<1> QED
  BY <1>5, <1>13, <1>14, Assemble

LEMMA UseStep ==
    ASSUME IInv, NEW p \in Procs, At(p, "scan") \/ At(p, "iget"), NEW s \in Slots,
           inode[s].inum = nr[p], ~inode[s].lock, Use(p, s),
           UNCHANGED <<disk, imap, names, latest, file, op, nr>>
    PROVE  IInv'
<1>1. broken = "no" /\ pc[p] \in {"scan", "iget"} /\ CallTyped(p)
  BY DEF At, IInv, CallsTyped
<1>2. /\ empty[p] \in Slots /\ nr[p] \in Inums
      /\ inode[empty[p]] = [ZeroInode EXCEPT !.count = 1]
      /\ file[p] # empty[p] /\ \A t : ~Holds(p, t) /\ ~Transfer(p, t)
      /\ \A q \in Procs \ {p} : ~Near(q, empty[p])
  BY <1>1, OnlyEmpty
<1>3. PICK e \in Slots, n \in Inums : e = empty[p] /\ n = nr[p]
  BY <1>2
<1>4. /\ inode[e].inum = NoInode /\ inode[e].count = 1 /\ ~inode[e].dirt /\ ~inode[e].lock
      /\ e # s
  BY <1>2, <1>3, Numbering DEF ZeroInode
<1>5. /\ inode' = [inode EXCEPT ![s].count = @ + 1, ![e].count = 0]
      /\ empty' = [empty EXCEPT ![p] = NoSlot] /\ cur' = [cur EXCEPT ![p] = s]
      /\ pc' = [pc EXCEPT ![p] = "got"] /\ broken' = "no"
      /\ reused' = IF Last(s) THEN reused \cup {s} ELSE reused
  BY <1>1, <1>3 DEF Use, Goto
<1>6. /\ \A t \in Slots : /\ inode'[t].inum = inode[t].inum /\ inode'[t].dirt = inode[t].dirt
                          /\ inode'[t].lock = inode[t].lock /\ inode'[t].d = inode[t].d
      /\ inode'[s].count = inode[s].count + 1 /\ inode'[e].count = 0
      /\ \A t \in Slots \ {e, s} : inode'[t] = inode[t]
      /\ inode' \in [Slots -> Inode]
  <2>1. inode \in [Slots -> Inode]
    BY DEF IInv, Typed
  <2>2. /\ inode'[s] = [inode[s] EXCEPT !.count = @ + 1] /\ inode'[e] = [inode[e] EXCEPT !.count = 0]
        /\ \A t \in Slots \ {e, s} : inode'[t] = inode[t]
        /\ inode' = [t \in Slots |-> inode'[t]]
    BY <1>4, <1>5, <2>1
  <2>3. inode[s] \in Inode /\ inode[e] \in Inode
    BY <2>1
  <2>4. inode'[s] \in Inode /\ inode'[e] \in Inode
    BY <2>2, <2>3 DEF Inode
  <2>5. \A t \in Slots : inode'[t] \in Inode
    BY <2>1, <2>2, <2>4
  <2>6. inode' \in [Slots -> Inode]
    BY <2>2, <2>5
  <2>7. /\ inode'[s].inum = inode[s].inum /\ inode'[s].dirt = inode[s].dirt
        /\ inode'[s].lock = inode[s].lock /\ inode'[s].d = inode[s].d
        /\ inode'[s].count = inode[s].count + 1
        /\ inode'[e].inum = inode[e].inum /\ inode'[e].dirt = inode[e].dirt
        /\ inode'[e].lock = inode[e].lock /\ inode'[e].d = inode[e].d
        /\ inode'[e].count = 0
    BY <2>2, <2>3 DEF Inode
  <2> QED
    BY <2>2, <2>6, <2>7
<1>7. Typed'
  <2>1. reused' \subseteq Slots
    BY <1>5 DEF IInv, Typed
  <2> QED
    BY <1>5, <1>6, <2>1 DEF IInv, Typed, Places, Running, Faults
<1>8. /\ OthersStill(p) /\ pc'[p] = "got" /\ cur'[p] = s /\ empty'[p] = NoSlot /\ op'[p] = op[p]
      /\ nr'[p] = n /\ file'[p] = file[p]
  BY <1>3, <1>5 DEF IInv, Typed, OthersStill, Still
<1>9. CallTyped(p)'
  BY <1>1, <1>3, <1>8 DEF CallTyped
<1>10. \A t \in Slots : (Holds(p, t)' <=> t = s) /\ ~Transfer(p, t)' /\ ~LastUser(p, t)'
  BY <1>1, <1>8 DEF Holds, Transfer, LastUser, CallTyped, Asked
<1>11. \A t \in Slots : Part(p, t)' = Part(p, t) + (IF t = s THEN 1 ELSE 0) - (IF t = e THEN 1 ELSE 0)
  BY <1>2, <1>3, <1>4, <1>8, <1>10, Numbering DEF Part, One
<1>12. inode[s].count \in Nat
  BY Counted
<1>13. Frame(p)
  <2>1. \A t \in Slots : inode'[t].count = inode[t].count + Part(p, t)' - Part(p, t)
    <3>1. \A t \in Slots : inode[t].count \in Int /\ Part(p, t) \in Int
      BY DEF IInv, Typed, Inode, Part, One
    <3> QED
      BY <1>4, <1>6, <1>11, <3>1
  <2>2. UnusedClean'
    <3>1. \A t \in Slots : t # e => (inode'[t].count = 0 => inode[t].count = 0)
      BY <1>6, <1>12
    <3> QED
      BY <1>4, <1>6, <3>1 DEF IInv, UnusedClean
  <2>3. SlotsApart'
    BY <1>6 DEF IInv, SlotsApart
  <2> QED
    BY <1>1, <1>7, <1>8, <1>9, <2>1, <2>2, <2>3 DEF Frame
<1>14. ASSUME NEW q \in Procs \ {p}, NEW t \in Slots
       PROVE  Kept(q, t)'
  <2>1. CallTyped(q) /\ Kept(q, t) /\ Still(q)
    BY <1>1, <1>8 DEF IInv, CallsTyped, Sound, SlotsKept, OthersStill
  <2>2. CASE ~(Near(q, t) /\ t = s)
    <3>1. Near(q, t) => inode'[t] = inode[t] /\ (t \in reused => t \in reused')
      BY <1>2, <1>3, <1>5, <1>6, <2>2
    <3> QED
      BY <2>1, <3>1, KeptStill
  <2>3. CASE t = s
    <3>1. empty[q] # s /\ ~Transfer(q, s) /\ ~(pc[q] = "read" /\ cur[q] = s)
      BY <1>2, <1>3, <2>1, <2>3, Numbering DEF Kept, ZeroInode, Transfer
    <3>2. /\ empty'[q] = empty[q] /\ file'[q] = file[q] /\ pc'[q] = pc[q] /\ cur'[q] = cur[q]
          /\ nr'[q] = nr[q] /\ op'[q] = op[q]
      BY <2>1 DEF Still
    <3>3. pc[q] \notin {"scan", "got", "put", "last"}
      BY Elsewhere
    <3>4. LastUser(q, s)' => s \in reused'
      BY <1>5, <3>2, <3>3 DEF LastUser, Last
    <3>5. /\ file'[q] = s \/ Holds(q, s)' \/ Transfer(q, s)' => inode'[s].inum # NoInode
          /\ Holds(q, s)' /\ pc'[q] \in {"read", "got"} => inode'[s].inum = nr'[q]
          /\ ~Transfer(q, s)'
      BY <1>6, <2>1, <2>3, <3>1, <3>2 DEF Kept, Holds, Transfer
    <3>6. /\ ~(pc'[q] \in {"got", "last"}) /\ empty'[q] # s /\ ~(pc'[q] = "read" /\ cur'[q] = s)
          /\ pc'[q] = "truncate" /\ cur'[q] = s => inode'[s].d.nlinks = 0
      BY <1>6, <2>1, <2>3, <3>1, <3>2, <3>3 DEF Kept
    <3> QED
      BY <2>3, <3>4, <3>5, <3>6 DEF Kept
  <2> QED
    BY <2>2, <2>3
<1>15. ASSUME NEW t \in Slots
       PROVE  Kept(p, t)'
  <2>1. Kept(p, t)
    BY <1>1 DEF IInv, Sound, SlotsKept
  <2>2. file'[p] = t => inode'[t].inum # NoInode
    BY <1>6, <1>8, <2>1 DEF Kept
  <2>3. t = s => inode'[t].inum = n /\ ~inode'[t].lock /\ inode'[t].inum # NoInode
    BY <1>3, <1>6, Numbering
  <2> QED
    BY <1>8, <1>10, <2>2, <2>3, Numbering DEF Kept
<1>16. OneOwner'
  BY <1>1, <1>8, <1>10, OwnersKept DEF IInv, Sound
<1>17. SlotsNamed'
  <2>1. \A t \in Slots : inode[t].inum # NoInode => (inode'[t].count = 0 => inode[t].count = 0)
    BY <1>4, <1>6, <1>12
  <2> QED
    BY <1>1, <1>6, <2>1 DEF IInv, Sound, SlotsNamed
<1>18. ASSUME NEW k \in imap
       PROVE  InodeSound(k)'
  <2>1. InodeSound(k) /\ Holding(k)' = Holding(k)
    BY <1>1, <1>6 DEF IInv, Sound, Holding
  <2>2. \A t \in Holding(k) : t \in Slots /\ (Reading(t)' <=> Reading(t))
    BY <1>1, <1>8, ReadingKept DEF Holding
  <2> QED
    BY <1>6, <2>1, <2>2, InodeKept
<1>19. Sound'
  BY <1>1, <1>14, <1>15, <1>16, <1>17, <1>18, SoundNext DEF IInv, Sound
<1> QED
  BY <1>5, <1>13, <1>19, Assemble

LEMMA ScanStep ==
    ASSUME IInv, NEW p \in Procs, Scan(p)
    PROVE  IInv'
<1>1. At(p, "scan") /\ UNCHANGED <<disk, imap, names, latest, file, op, nr>>
  BY DEF Scan
<1>2. CASE Holding(nr[p]) = {}
  BY <1>1, <1>2, ReadInStep DEF Scan
<1>3. CASE Holding(nr[p]) # {}
  <2>1. nr[p] \in Inums
    BY <1>1 DEF At, IInv, CallsTyped, CallTyped
  <2>2. PICK t \in Slots : t \in Holding(nr[p])
    BY <1>3 DEF Holding
  <2>3. Holding(nr[p]) = {t}
    BY <2>1, <2>2, Numbering DEF IInv, SlotsApart, Holding
  <2>4. (CHOOSE s \in Holding(nr[p]) : \A u \in Holding(nr[p]) : s <= u) = t
    BY <2>2, <2>3, Numbering
  <2>5. inode[t].inum = nr[p]
    BY <2>2 DEF Holding
  <2>6. IF ~inode[t].lock THEN Use(p, t)
        ELSE /\ Goto(p, "iget") /\ cur' = [cur EXCEPT ![p] = t]
             /\ UNCHANGED <<inode, empty, broken, reused>>
    BY <1>3, <2>4 DEF Scan
  <2>7. CASE ~inode[t].lock
    BY <1>1, <2>5, <2>6, <2>7, UseStep
  <2>8. CASE inode[t].lock
    BY <1>1, <2>6, <2>8, ScanWaits
  <2> QED
    BY <2>7, <2>8
<1> QED
  BY <1>2, <1>3

LEMMA IgetWakesStep ==
    ASSUME IInv, NEW p \in Procs, IgetWakes(p)
    PROVE  IInv'
<1>1. /\ At(p, "iget") /\ ~inode[cur[p]].lock
      /\ UNCHANGED <<disk, imap, names, latest, file, op, nr>>
  BY DEF IgetWakes
<1>2. PICK s \in Slots : s = cur[p]
  BY <1>1 DEF At, IInv, CallsTyped, CallTyped
<1>3. CASE SameInode(p)
  BY <1>1, <1>2, <1>3, UseStep DEF IgetWakes, SameInode
<1>4. CASE ~SameInode(p)
  BY <1>1, <1>4, IgetRestarts DEF IgetWakes
<1> QED
  BY <1>3, <1>4

(* The slot is loaded; it was p's alone. *)
LEMMA ReadInodeStep ==
    ASSUME IInv, NEW p \in Procs, ReadInode(p)
    PROVE  IInv'
<1>1. broken = "no" /\ pc[p] = "read" /\ CallTyped(p)
  BY DEF ReadInode, At, IInv, CallsTyped
<1>2. PICK s \in Slots : s = cur[p]
  BY <1>1 DEF CallTyped
<1>3. Holds(p, s) /\ Transfer(p, s) /\ nr[p] \in Inums /\ Kept(p, s) /\ empty[p] = NoSlot
  BY <1>1, <1>2 DEF CallTyped, Asked, Holds, Transfer, IInv, Sound, SlotsKept
<1>4. PICK n \in Inums : n = nr[p]
  BY <1>3
<1>5. inode[s].inum = n /\ inode[s].count = 1 /\ inode[s].lock
  BY <1>1, <1>2, <1>3, <1>4 DEF Kept
<1>6. /\ inode' = [inode EXCEPT ![s].d = disk[n], ![s].lock = FALSE]
      /\ pc' = [pc EXCEPT ![p] = "got"]
      /\ UNCHANGED <<disk, imap, names, latest, file, op, nr, cur, empty, broken, reused>>
  BY <1>2, <1>5 DEF ReadInode, Goto
<1>7. /\ inode' \in [Slots -> Inode]
      /\ inode'[s].inum = n /\ inode'[s].count = 1 /\ inode'[s].dirt = inode[s].dirt
      /\ inode'[s].d = disk[n] /\ ~inode'[s].lock
      /\ \A t \in Slots \ {s} : inode'[t] = inode[t]
  <2>1. inode \in [Slots -> Inode] /\ disk[n] \in Contents
    BY DEF IInv, Typed
  <2>2. inode' = [inode EXCEPT ![s] = [inode[s] EXCEPT !.d = disk[n], !.lock = FALSE]]
    BY <1>6, <2>1
  <2>3. [inode[s] EXCEPT !.d = disk[n], !.lock = FALSE] \in Inode
    BY <2>1 DEF Inode
  <2>4. inode'[s] = [inode[s] EXCEPT !.d = disk[n], !.lock = FALSE]
    BY <2>1, <2>2
  <2>5. /\ inode'[s].inum = inode[s].inum /\ inode'[s].count = inode[s].count
        /\ inode'[s].dirt = inode[s].dirt /\ inode'[s].d = disk[n] /\ inode'[s].lock = FALSE
    BY <2>1, <2>4 DEF Inode
  <2> QED
    BY <1>5, <2>1, <2>2, <2>3, <2>5
<1>8. /\ OthersStill(p) /\ pc'[p] = "got" /\ cur'[p] = s /\ empty'[p] = NoSlot /\ op'[p] = op[p]
      /\ nr'[p] = n /\ file'[p] = file[p]
  BY <1>2, <1>3, <1>4, <1>6 DEF IInv, Typed, OthersStill, Still
<1>9. Typed' /\ CallTyped(p)'
  BY <1>1, <1>6, <1>7, <1>8 DEF IInv, Typed, Places, Running, CallTyped
<1>10. \A t \in Slots : /\ Holds(p, t)' <=> t = s
                        /\ Holds(p, t) <=> t = s
                        /\ ~Transfer(p, t)' /\ ~LastUser(p, t)'
  BY <1>1, <1>2, <1>8 DEF Holds, Transfer, LastUser, CallTyped, Asked
<1>11. \A t \in Slots : Part(p, t)' = Part(p, t)
  BY <1>3, <1>8, <1>10 DEF Part, One
<1>12. Frame(p)
  <2>1. \A t \in Slots : inode[t].count \in Int /\ Part(p, t) \in Int /\ inode'[t].count = inode[t].count
    BY <1>5, <1>7 DEF IInv, Typed, Inode, Part, One
  <2>2. \A t \in Slots : inode'[t].count = inode[t].count + Part(p, t)' - Part(p, t)
    BY <1>11, <2>1
  <2>3. UnusedClean'
    BY <1>7, Numbering DEF IInv, UnusedClean
  <2>4. SlotsApart'
    BY <1>5, <1>7 DEF IInv, SlotsApart
  <2> QED
    BY <1>1, <1>8, <1>9, <2>2, <2>3, <2>4 DEF Frame
<1>13. \A q \in Procs \ {p} : ~Near(q, s)
  <2> SUFFICES ASSUME NEW q \in Procs \ {p}
               PROVE  ~Near(q, s)
    OBVIOUS
  <2>1. inode[s].count <= Part(p, s)
    BY <1>3, <1>5 DEF Part, One
  <2>2. ~Transfer(q, s)
    BY <1>1, <1>3 DEF IInv, Sound, OneOwner
  <2> QED
    BY <2>1, <2>2, Alone DEF Near
<1>14. \A q \in Procs \ {p}, t \in Slots : Kept(q, t)'
  BY <1>1, <1>6, <1>7, <1>8, <1>13, OthersKept
<1>15. ASSUME NEW t \in Slots
       PROVE  Kept(p, t)'
  <2>1. Kept(p, t)
    BY <1>1 DEF IInv, Sound, SlotsKept
  <2> QED
    BY <1>5, <1>7, <1>8, <1>10, <2>1, Numbering DEF Kept
<1>16. OneOwner' /\ SlotsNamed'
  <2>1. OneOwner'
    BY <1>1, <1>8, <1>10, OwnersKept DEF IInv, Sound
  <2>2. SlotsNamed'
    BY <1>1, <1>5, <1>6, <1>7 DEF IInv, Sound, SlotsNamed
  <2> QED
    BY <2>1, <2>2
<1>17. ASSUME NEW k \in imap
       PROVE  InodeSound(k)'
  <2>1. InodeSound(k) /\ k \in Inums
    BY <1>1 DEF IInv, Typed, Sound
  <2>2. Holding(k)' = Holding(k)
    BY <1>5, <1>7 DEF Holding
  <2>3. CASE k = n
    <3>1. Holding(k) = {s} /\ InMemory(s, k)
      BY <1>1, <1>5, <2>3, Slot, Numbering
    <3>2. disk[k] = latest[k]
      BY <1>1, <1>2, <3>1 DEF InMemory, Reading
    <3>3. ~Reading(s)'
      BY <1>8, <1>13 DEF Reading, Near, Transfer, OthersStill, Still
    <3> QED
      BY <1>6, <1>7, <2>1, <2>2, <2>3, <3>1, <3>2, <3>3 DEF InodeSound, Stored, InMemory
  <2>4. CASE k # n
    <3>1. s \notin Holding(k)
      BY <1>5, <2>4 DEF Holding
    <3>2. \A t \in Holding(k) : t \in Slots \ {s} /\ (Reading(t)' <=> Reading(t))
      BY <1>1, <1>2, <1>8, <3>1, ReadingKept DEF Holding
    <3> QED
      BY <1>6, <1>7, <2>1, <2>2, <3>2, InodeKept
  <2> QED
    BY <2>3, <2>4
<1> QED
  BY <1>1, <1>6, <1>12, <1>14, <1>15, <1>16, <1>17, SoundNext, Assemble DEF IInv, Sound

-----------------------------------------------------------------------------
(* What system calls do with an inode *)

(* Update() by a process that has slot s: nobody else can see half of it. *)
LEMMA Updated ==
    ASSUME IInv, broken = "no", NEW p \in Procs, NEW s \in Slots, NEW d \in Contents,
           file[p] = s \/ Holds(p, s), ~Reading(s), pc[p] # "read", pc'[p] # "read",
           d.nlinks = 0 \/ d.nlinks = inode[s].d.nlinks,
           Update(s, d), OthersStill(p), UNCHANGED <<disk, imap, broken, reused>>,
           names' = IF d.nlinks = 1 THEN names ELSE names \ {inode[s].inum},
           Typed', CallTyped(p)', \A t \in Slots : Part(p, t)' = Part(p, t),
           \A t \in Slots : empty'[p] # t /\ (file'[p] = t => file[p] = t)
                            /\ (Holds(p, t)' => Holds(p, t)) /\ ~Transfer(p, t)' /\ ~LastUser(p, t)',
           pc'[p] \in {"user", "put"}
    PROVE  IInv'
<1>1. Kept(p, s) /\ inode[s].inum # NoInode /\ inode[s].count > 0
  BY Counted DEF IInv, Sound, SlotsKept, Kept
<1>2. PICK n : n = inode[s].inum
  OBVIOUS
<1>3. n \in imap /\ n \in Inums /\ Holding(n) = {s} /\ InMemory(s, n) /\ InodeSound(n)
  BY <1>1, <1>2, Slot DEF IInv, Typed
<1>4. /\ latest'[n] = d /\ \A k \in Inums \ {n} : latest'[k] = latest[k]
      /\ inode'[s].inum = n /\ inode'[s].count = inode[s].count /\ inode'[s].lock = inode[s].lock
      /\ inode'[s].dirt /\ inode'[s].d = d
      /\ \A t \in Slots \ {s} : inode'[t] = inode[t]
  <2>1. inode \in [Slots -> Inode] /\ latest \in [Inums -> Contents]
    BY DEF IInv, Typed
  <2>2. inode'[s] = [inode[s] EXCEPT !.d = d, !.dirt = TRUE]
    BY <2>1 DEF Update
  <2> QED
    BY <1>2, <1>3, <2>1, <2>2 DEF Update, Inode
<1>5. Frame(p)
  <2>1. \A t \in Slots : inode[t].count \in Int /\ Part(p, t) \in Int /\ inode'[t].count = inode[t].count
    BY <1>4 DEF IInv, Typed, Inode, Part, One
  <2>2. \A t \in Slots : inode'[t].count = inode[t].count + Part(p, t)' - Part(p, t)
    BY <2>1
  <2>3. UnusedClean'
    BY <1>1, <1>2, <1>4 DEF IInv, UnusedClean
  <2>4. SlotsApart'
    BY <1>2, <1>4 DEF IInv, SlotsApart
  <2> QED
    BY <2>2, <2>3, <2>4 DEF Frame
<1>6. ASSUME NEW q \in Procs \ {p}, NEW t \in Slots
      PROVE  Kept(q, t)'
  <2>1. CallTyped(q) /\ Kept(q, t) /\ Still(q)
    BY DEF IInv, CallsTyped, Sound, SlotsKept, OthersStill
  <2>2. CASE ~(Near(q, t) /\ t = s)
    <3>1. Near(q, t) => inode'[t] = inode[t] /\ (t \in reused => t \in reused')
      BY <1>4, <2>2
    <3> QED
      BY <2>1, <3>1, KeptStill
  <2>3. CASE t = s
    <3>1. empty[q] # s
      BY <1>1, <2>1, <2>3 DEF Kept, ZeroInode
    <3>2. /\ empty'[q] = empty[q] /\ file'[q] = file[q] /\ pc'[q] = pc[q] /\ cur'[q] = cur[q]
          /\ nr'[q] = nr[q] /\ op'[q] = op[q]
      BY <2>1 DEF Still
    <3>3. /\ file'[q] = s \/ Holds(q, s)' \/ Transfer(q, s)' => inode'[s].inum # NoInode
          /\ Holds(q, s)' /\ pc'[q] \in {"read", "got"} => inode'[s].inum = nr'[q]
          /\ Transfer(q, s)' => inode'[s].lock
      BY <1>1, <1>2, <1>4, <2>1, <2>3, <3>2 DEF Kept, Holds, Transfer
    <3>4. /\ pc'[q] \in {"got", "last"} /\ cur'[q] = s => ~inode'[s].lock
          /\ pc'[q] = "read" /\ cur'[q] = s => inode'[s].count = 1
          /\ LastUser(q, s)' /\ inode'[s].count > 1 => s \in reused'
          /\ pc'[q] = "truncate" /\ cur'[q] = s => inode'[s].d.nlinks = 0
      BY <1>4, <2>1, <2>3, <3>2 DEF Kept, LastUser
    <3> QED
      BY <2>3, <3>1, <3>2, <3>3, <3>4 DEF Kept
  <2> QED
    BY <2>2, <2>3
<1>7. ASSUME NEW t \in Slots
      PROVE  Kept(p, t)'
  <2>1. Kept(p, t) /\ inode'[t].inum = inode[t].inum
    BY <1>2, <1>4 DEF IInv, Sound, SlotsKept
  <2> QED
    BY <2>1 DEF Kept
<1>8. OneOwner'
  BY OwnersKept DEF IInv, Sound
<1>9. n \in names' <=> latest'[n].nlinks = 1
  <2>1. n \in names <=> latest[n].nlinks = 1
    BY <1>3 DEF InodeSound
  <2>2. inode[s].d = latest[n]
    BY <1>3 DEF InMemory
  <2> QED
    BY <1>2, <1>4, <2>1, <2>2
<1>10. \A k \in Inums \ {n} : k \in names' <=> k \in names
  BY <1>2
<1>11. SlotsNamed' /\ (names \subseteq imap)'
  <2>1. ASSUME NEW t \in Slots, inode'[t].inum # NoInode
        PROVE  inode'[t].inum \in imap' /\ (inode'[t].count = 0 => inode'[t].inum \in names')
    <3>1. CASE t = s
      BY <1>1, <1>3, <1>4, <3>1
    <3>2. CASE t # s
      <4>1. inode'[t] = inode[t]
        BY <1>4, <3>2
      <4>2. /\ inode[t].inum \in imap /\ (inode[t].count = 0 => inode[t].inum \in names)
            /\ inode[t].inum \in Inums /\ inode[t].inum # n
        BY <1>1, <1>2, <2>1, <3>2, <4>1 DEF IInv, Typed, Sound, SlotsNamed, SlotsApart
      <4> QED
        BY <1>10, <4>1, <4>2
    <3> QED
      BY <3>1, <3>2
  <2> QED
    BY <2>1 DEF IInv, Sound, SlotsNamed
<1>12. ASSUME NEW k \in imap
       PROVE  InodeSound(k)'
  <2>1. InodeSound(k) /\ k \in Inums
    BY DEF IInv, Typed, Sound
  <2>2. Holding(k)' = Holding(k)
    BY <1>2, <1>4 DEF Holding
  <2>3. CASE k = n
    <3>1. ~Reading(s)'
      BY DEF Reading, OthersStill, Still
    <3>2. InMemory(s, n)'
      BY <1>4, <3>1 DEF InMemory
    <3> QED
      BY <1>3, <1>9, <2>2, <2>3, <3>2 DEF InodeSound, Stored
  <2>4. CASE k # n
    <3>1. s \notin Holding(k)
      BY <1>2, <2>4 DEF Holding
    <3>2. \A t \in Holding(k) : t \in Slots \ {s} /\ (Reading(t)' <=> Reading(t))
      BY <3>1, ReadingKept DEF Holding
    <3> QED
      BY <1>4, <1>10, <2>1, <2>2, <2>4, <3>2, InodeKept
  <2> QED
    BY <2>3, <2>4
<1>13. Sound'
  BY <1>6, <1>7, <1>8, <1>11, <1>12, SoundNext
<1> QED
  BY <1>5, <1>13, Assemble

LEMMA UnlinkStep ==
    ASSUME IInv, NEW p \in Procs, Unlink(p)
    PROVE  IInv'
<1>1. broken = "no" /\ pc[p] = "got" /\ op[p] = "unlink" /\ CallTyped(p)
  BY DEF Unlink, At, IInv, CallsTyped
<1>2. PICK s \in Slots : s = cur[p]
  BY <1>1 DEF CallTyped
<1>3. Holds(p, s) /\ Kept(p, s) /\ empty[p] = NoSlot
  BY <1>1, <1>2 DEF Holds, CallTyped, IInv, Sound, SlotsKept
<1>4. inode[s].inum = nr[p] /\ ~inode[s].lock /\ inode[s].inum # NoInode
  BY <1>1, <1>2, <1>3 DEF Kept
<1>5. PICK d : d = [inode[s].d EXCEPT !.nlinks = 0]
  OBVIOUS
<1>6. d \in Contents /\ d.nlinks = 0
  BY <1>5, SMTT(60) DEF IInv, Typed, Inode, Contents
<1>7. /\ Update(s, d) /\ names' = names \ {inode[s].inum} /\ pc' = [pc EXCEPT ![p] = "put"]
      /\ UNCHANGED <<disk, imap, file, op, nr, cur, empty, broken, reused>>
  BY <1>2, <1>4, <1>5 DEF Unlink, Goto
<1>8. /\ OthersStill(p) /\ pc'[p] = "put" /\ cur'[p] = s /\ empty'[p] = NoSlot
      /\ op'[p] = "unlink" /\ file'[p] = file[p]
  BY <1>1, <1>2, <1>3, <1>7 DEF IInv, Typed, OthersStill, Still
<1>9. Typed'
  <2>1. inode' \in [Slots -> Inode]
    <3>1. inode \in [Slots -> Inode] /\ [inode[s] EXCEPT !.d = d, !.dirt = TRUE] \in Inode
      BY <1>6, ZenonT(60) DEF IInv, Typed, Inode
    <3>2. inode' = [inode EXCEPT ![s] = [inode[s] EXCEPT !.d = d, !.dirt = TRUE]]
      BY <1>7, <3>1 DEF Update
    <3> QED
      BY <3>1, <3>2
  <2>2. latest' \in [Inums -> Contents]
    BY <1>6, <1>7 DEF Update, IInv, Typed
  <2> QED
    BY <1>7, <2>1, <2>2 DEF IInv, Typed, Places, Running
<1>10. CallTyped(p)'
  BY <1>2, <1>8 DEF CallTyped
<1>11. \A t \in Slots : /\ Holds(p, t)' <=> t = s
                        /\ Holds(p, t) <=> t = s
                        /\ ~Transfer(p, t)' /\ ~LastUser(p, t)'
  BY <1>1, <1>2, <1>8 DEF Holds, Transfer, LastUser
<1>12. \A t \in Slots : Part(p, t)' = Part(p, t)
  BY <1>3, <1>8, <1>11 DEF Part, One
<1>13. ~Reading(s)
  BY <1>1, <1>4, ReadAlone
<1> QED
  BY <1>1, <1>3, <1>6, <1>7, <1>8, <1>9, <1>10, <1>11, <1>12, <1>13, Updated, Numbering

LEMMA ChangeStep ==
    ASSUME IInv, NEW p \in Procs, Change(p)
    PROVE  IInv'
<1>1. broken = "no" /\ pc[p] = "user" /\ CallTyped(p) /\ empty[p] = NoSlot
  BY DEF Change, At, IInv, CallsTyped, CallTyped
<1>2. PICK s \in Slots : s = file[p]
  BY DEF Change, IInv, Typed
<1>3. inode[s].inum # NoInode /\ inode[s].d \in Contents /\ inode[s].inum \in Inums
  BY <1>1, <1>2 DEF IInv, Typed, Inode, Sound, SlotsKept, Kept
<1>4. PICK d : d = [inode[s].d EXCEPT !.ver = 1 - @]
  OBVIOUS
<1>5. d \in Contents /\ d.nlinks = inode[s].d.nlinks
  BY <1>3, <1>4 DEF Contents
<1>6. Update(s, d) /\ UNCHANGED <<disk, imap, names, file, op, pc, nr, cur, empty, broken, reused>>
  BY <1>2, <1>4 DEF Change, calls
<1>7. names' = IF d.nlinks = 1 THEN names ELSE names \ {inode[s].inum}
  <2>1. ~Reading(s)
    BY <1>1, <1>2, ReadAlone
  <2>2. inode[s].inum \in names <=> inode[s].d.nlinks = 1
    BY <1>1, <1>3, <2>1, Slot DEF InodeSound, InMemory
  <2> QED
    BY <1>5, <1>6, <2>2
<1>8. OthersStill(p) /\ pc'[p] = "user" /\ empty'[p] = NoSlot /\ file'[p] = file[p]
  BY <1>1, <1>6 DEF OthersStill, Still
<1>9. Typed'
  <2>1. inode' \in [Slots -> Inode]
    <3>1. inode \in [Slots -> Inode] /\ [inode[s] EXCEPT !.d = d, !.dirt = TRUE] \in Inode
      BY <1>5, ZenonT(60) DEF IInv, Typed, Inode
    <3>2. inode' = [inode EXCEPT ![s] = [inode[s] EXCEPT !.d = d, !.dirt = TRUE]]
      BY <1>6, <3>1 DEF Update
    <3> QED
      BY <3>1, <3>2
  <2>2. latest' \in [Inums -> Contents]
    BY <1>5, <1>6 DEF Update, IInv, Typed
  <2> QED
    BY <1>6, <2>1, <2>2 DEF IInv, Typed
<1>10. CallTyped(p)'
  BY <1>1, <1>6 DEF CallTyped
<1>11. \A t \in Slots : /\ ~Holds(p, t)' /\ ~Holds(p, t)
                        /\ ~Transfer(p, t)' /\ ~LastUser(p, t)'
  BY <1>1, <1>8 DEF Holds, Transfer, LastUser
<1>12. \A t \in Slots : Part(p, t)' = Part(p, t)
  BY <1>1, <1>8, <1>11 DEF Part, One
<1>13. ~Reading(s)
  BY <1>1, <1>2, ReadAlone
<1> QED
  BY <1>1, <1>2, <1>5, <1>6, <1>7, <1>8, <1>9, <1>10, <1>11, <1>12, <1>13, Updated, Numbering

(* An unused slot is taken: what it held is on the disk, or has no name.   *)
LEMMA Taken ==
    ASSUME IInv, broken = "no", NEW p \in Procs, NEW s \in Unused, NEW new \in Inode,
           inode' = [inode EXCEPT ![s] = new], OthersStill(p), pc[p] # "read", pc'[p] # "read",
           disk' = disk, reused' = reused,
           new.inum \notin imap, \A k \in imap : latest'[k] = latest[k] /\ (k \in names' <=> k \in names)
    PROVE  /\ \A q \in Procs \ {p}, t \in Slots : Kept(q, t)'
           /\ \A k \in imap : InodeSound(k)'
<1>1. /\ s \in Slots /\ inode[s].count = 0 /\ ~inode[s].dirt
      /\ inode'[s] = new /\ \A t \in Slots \ {s} : inode'[t] = inode[t]
  BY DEF Unused, IInv, Typed
<1>2. \A q \in Procs : ~Near(q, s)
  BY <1>1, SlotUnused
<1>3. \A q \in Procs \ {p}, t \in Slots : Kept(q, t)'
  BY <1>1, <1>2, OthersKept
<1>4. ASSUME NEW k \in imap
      PROVE  InodeSound(k)'
  <2>1. InodeSound(k) /\ k \in Inums
    BY DEF IInv, Typed, Sound
  <2>2. CASE inode[s].inum = k
    <3>1. Holding(k) = {s} /\ InMemory(s, k)
      BY <1>1, <2>1, <2>2, Slot, Numbering
    <3>2. Holding(k)' = {}
      BY <1>1, <3>1 DEF Holding
    <3>3. ~Reading(s)
      BY <1>2 DEF Reading, Near, Transfer
    <3>4. disk[k] = latest[k]
      BY <1>1, <3>1, <3>3 DEF InMemory
    <3>5. k \in names
      BY <1>1, <2>1, <2>2, Numbering DEF IInv, Sound, SlotsNamed
    <3> QED
      BY <2>1, <3>2, <3>4, <3>5 DEF InodeSound, Stored
  <2>3. CASE inode[s].inum # k
    <3>1. Holding(k)' = Holding(k) /\ s \notin Holding(k)
      BY <1>1, <2>3 DEF Holding
    <3>2. \A t \in Holding(k) : t \in Slots \ {s} /\ (Reading(t)' <=> Reading(t))
      BY <3>1, ReadingKept DEF Holding
    <3> QED
      BY <1>1, <2>1, <3>1, <3>2, InodeKept
  <2> QED
    BY <2>2, <2>3
<1> QED
  BY <1>3, <1>4

LEMMA PartNumber ==
    ASSUME NEW p, NEW s
    PROVE  Part(p, s) \in Int
BY DEF Part, One

LEMMA Same ==
    ASSUME NEW m \in Int, NEW n \in Int
    PROVE  m = m + n - n
OBVIOUS

LEMMA FullStep ==
    ASSUME IInv, NEW p \in Procs, broken = "no", broken' = "table full",
           UNCHANGED <<inode, disk, imap, names, latest, file, op, pc, nr, cur, empty, reused>>
    PROVE  IInv'
<1>1. OthersStill(p) /\ \A s \in Slots : Part(p, s)' = Part(p, s)
  BY DEF OthersStill, Still, Part, Holds, One
<1>2. ASSUME NEW s \in Slots
      PROVE  inode'[s].count = inode[s].count + Part(p, s)' - Part(p, s)
  <2>1. inode[s].count \in Int
    BY DEF IInv, Typed, Inode
  <2>2. inode'[s].count = inode[s].count /\ Part(p, s)' = Part(p, s) /\ Part(p, s) \in Int
    BY <1>1, PartNumber
  <2>3. PICK n \in Int, m \in Int : n = Part(p, s) /\ m = inode[s].count
    BY <2>1, <2>2
  <2>4. m = m + n - n
    BY Same
  <2> QED
    BY <2>2, <2>3, <2>4
<1>3. Typed' /\ CallTyped(p)'
  BY DEF IInv, Typed, Faults, CallsTyped, CallTyped
<1>4. UnusedClean' /\ SlotsApart'
  BY DEF IInv, UnusedClean, SlotsApart
<1>5. Frame(p)
  BY <1>1, <1>2, <1>3, <1>4 DEF Frame
<1> QED
  BY <1>5, Assemble

LEMMA LookupStep ==
    ASSUME IInv, NEW p \in Procs, NEW n \in Inums, NEW call \in Asked, Lookup(p, n, call)
    PROVE  IInv'
<1>1. /\ broken = "no" /\ pc[p] = "user" /\ n \in names /\ CallTyped(p)
      /\ call = "open" => file[p] = NoSlot
      /\ UNCHANGED <<disk, imap, names, latest, file, cur, reused>>
  BY DEF Lookup, At, IInv, CallsTyped
<1>2. CASE TableFull /\ UNCHANGED <<inode, empty, nr, op, pc>>
  BY <1>1, <1>2, FullStep DEF TableFull
<1>3. CASE \E s \in Unused : /\ inode' = [inode EXCEPT ![s] = [ZeroInode EXCEPT !.count = 1]]
                             /\ empty' = [empty EXCEPT ![p] = s]
                             /\ nr' = [nr EXCEPT ![p] = n] /\ op' = [op EXCEPT ![p] = call]
                             /\ Goto(p, "scan") /\ UNCHANGED broken
  <2>1. PICK s \in Unused : /\ inode' = [inode EXCEPT ![s] = [ZeroInode EXCEPT !.count = 1]]
                            /\ empty' = [empty EXCEPT ![p] = s]
                            /\ nr' = [nr EXCEPT ![p] = n] /\ op' = [op EXCEPT ![p] = call]
                            /\ Goto(p, "scan") /\ UNCHANGED broken
    BY <1>3
  <2>2. PICK new : new = [ZeroInode EXCEPT !.count = 1]
    OBVIOUS
  <2>3. /\ new \in Inode /\ new.inum = NoInode /\ new.count = 1 /\ new.lock = FALSE
        /\ new.dirt = FALSE
    <3>1. new = [inum |-> NoInode, count |-> 1, dirt |-> FALSE, lock |-> FALSE,
                 d |-> [nlinks |-> 0, ver |-> 0]]
      BY <2>2 DEF ZeroInode
    <3>2. [nlinks |-> 0, ver |-> 0] \in Contents
      BY DEF Contents
    <3> QED
      BY <3>1, <3>2 DEF Inode
  <2>4. /\ s \in Slots /\ inode[s].count = 0 /\ inode'[s] = new
        /\ \A t \in Slots \ {s} : inode'[t] = inode[t]
        /\ inode' \in [Slots -> Inode]
    BY <2>1, <2>2, <2>3 DEF Unused, IInv, Typed
  <2>5. /\ OthersStill(p) /\ pc'[p] = "scan" /\ empty'[p] = s /\ op'[p] = call /\ nr'[p] = n
        /\ file'[p] = file[p]
    BY <1>1, <2>1 DEF IInv, Typed, OthersStill, Still, Goto
  <2>6. Typed'
    BY <1>1, <2>1, <2>4 DEF IInv, Typed, Places, Running, Goto, Asked
  <2>7. CallTyped(p)'
    BY <1>1, <2>4, <2>5 DEF CallTyped
  <2>8. /\ empty[p] = NoSlot
        /\ \A t \in Slots : ~Holds(p, t) /\ ~Holds(p, t)' /\ ~Transfer(p, t)' /\ ~LastUser(p, t)'
    BY <1>1, <2>5 DEF CallTyped, Holds, Transfer, LastUser
  <2>9. \A t \in Slots : Part(p, t)' = Part(p, t) + (IF t = s THEN 1 ELSE 0)
    BY <2>4, <2>5, <2>8, Numbering DEF Part, One
  <2>10. Frame(p)
    <3>1. \A t \in Slots : inode[t].count \in Int /\ Part(p, t) \in Int
      BY DEF IInv, Typed, Inode, Part, One
    <3>2. \A t \in Slots : inode'[t].count = inode[t].count + Part(p, t)' - Part(p, t)
      BY <2>3, <2>4, <2>9, <3>1
    <3>3. UnusedClean'
      BY <2>3, <2>4 DEF IInv, UnusedClean
    <3>4. SlotsApart'
      BY <2>3, <2>4 DEF IInv, SlotsApart
    <3> QED
      BY <1>1, <2>5, <2>6, <2>7, <3>2, <3>3, <3>4 DEF Frame
  <2>11. /\ \A q \in Procs \ {p}, t \in Slots : Kept(q, t)'
         /\ \A k \in imap : InodeSound(k)'
    <3>1. new.inum \notin imap
      BY <2>3, Numbering DEF IInv, Typed
    <3> QED
      BY <1>1, <2>1, <2>2, <2>3, <2>5, <3>1, Taken
  <2>12. ASSUME NEW t \in Slots
         PROVE  Kept(p, t)'
    <3>1. file[p] # s
      BY <1>1, <2>4, SlotUnused DEF Near
    <3>2. Kept(p, t)
      BY <1>1 DEF IInv, Sound, SlotsKept
    <3>3. file'[p] = t => inode'[t].inum # NoInode
      BY <2>4, <2>5, <3>1, <3>2 DEF Kept
    <3>4. empty'[p] = t => inode'[t] = [ZeroInode EXCEPT !.count = 1]
      BY <2>2, <2>4, <2>5
    <3> QED
      BY <2>5, <2>8, <3>3, <3>4 DEF Kept
  <2>13. OneOwner'
    BY <1>1, <2>5, <2>8, OwnersKept DEF IInv, Sound
  <2>14. SlotsNamed'
    BY <1>1, <2>3, <2>4 DEF IInv, Sound, SlotsNamed
  <2>15. Sound'
    BY <1>1, <2>11, <2>12, <2>13, <2>14, SoundNext DEF IInv, Sound
  <2> QED
    BY <1>1, <2>1, <2>10, <2>15, Assemble
<1> QED
  BY <1>2, <1>3 DEF Lookup

LEMMA CreateStep ==
    ASSUME IInv, NEW p \in Procs, Create(p)
    PROVE  IInv'
<1>1. /\ broken = "no" /\ pc[p] = "user" /\ CallTyped(p) /\ file[p] = NoSlot
      /\ UNCHANGED <<disk, op, pc, nr, cur, empty, reused>>
  BY DEF Create, At, IInv, CallsTyped
<1>2. CASE TableFull /\ UNCHANGED <<inode, imap, names, latest, file>>
  BY <1>1, <1>2, FullStep DEF TableFull
<1>3. CASE ~(TableFull /\ UNCHANGED <<inode, imap, names, latest, file>>)
  <2>1. PICK s \in Unused, n \in Inums \ imap :
          /\ imap' = imap \cup {n} /\ names' = names \cup {n}
          /\ inode' = [inode EXCEPT ![s] = [inum |-> n, count |-> 1, dirt |-> TRUE,
                                            lock |-> FALSE, d |-> [nlinks |-> 1, ver |-> 0]]]
          /\ latest' = [latest EXCEPT ![n] = [nlinks |-> 1, ver |-> 0]]
          /\ file' = [file EXCEPT ![p] = s] /\ UNCHANGED broken
    BY <1>3 DEF Create
  <2>2. PICK new : new = [inum |-> n, count |-> 1, dirt |-> TRUE,
                          lock |-> FALSE, d |-> [nlinks |-> 1, ver |-> 0]]
    OBVIOUS
  <2>3. /\ new \in Inode /\ new.inum = n /\ new.count = 1 /\ new.lock = FALSE
        /\ new.dirt = TRUE /\ new.d = [nlinks |-> 1, ver |-> 0]
        /\ [nlinks |-> 1, ver |-> 0] \in Contents
    BY <2>2 DEF Inode, Contents
  <2>4. /\ s \in Slots /\ inode[s].count = 0 /\ inode'[s] = new
        /\ \A t \in Slots \ {s} : inode'[t] = inode[t]
        /\ inode' \in [Slots -> Inode]
    BY <2>1, <2>2, <2>3 DEF Unused, IInv, Typed
  <2>5. /\ OthersStill(p) /\ pc'[p] = "user" /\ file'[p] = s /\ empty'[p] = NoSlot
        /\ empty[p] = NoSlot
    BY <1>1, <2>1 DEF IInv, Typed, OthersStill, Still, CallTyped
  <2>6. /\ latest'[n].nlinks = 1 /\ latest'[n] = new.d
        /\ \A k \in Inums \ {n} : latest'[k] = latest[k]
        /\ latest' \in [Inums -> Contents]
    BY <2>1, <2>3 DEF IInv, Typed
  <2>7. Typed'
    BY <1>1, <2>1, <2>4, <2>6 DEF IInv, Typed
  <2>8. CallTyped(p)'
    BY <1>1, <2>5 DEF CallTyped
  <2>9. \A t \in Slots : ~Holds(p, t) /\ ~Holds(p, t)' /\ ~Transfer(p, t)' /\ ~LastUser(p, t)'
    BY <1>1, <2>5 DEF Holds, Transfer, LastUser
  <2>10. \A t \in Slots : Part(p, t)' = Part(p, t) + (IF t = s THEN 1 ELSE 0)
    BY <1>1, <2>4, <2>5, <2>9, Numbering DEF Part, One
  <2>11. \A t \in Slots : inode[t].inum # n
    BY <1>1, <2>1, Numbering DEF IInv, Sound, SlotsNamed
  <2>12. Frame(p)
    <3>1. \A t \in Slots : inode[t].count \in Int /\ Part(p, t) \in Int
      BY DEF IInv, Typed, Inode, Part, One
    <3>2. \A t \in Slots : inode'[t].count = inode[t].count + Part(p, t)' - Part(p, t)
      BY <2>3, <2>4, <2>10, <3>1
    <3>3. UnusedClean'
      BY <2>3, <2>4, Numbering DEF IInv, UnusedClean
    <3>4. SlotsApart'
      BY <2>3, <2>4, <2>11 DEF IInv, SlotsApart
    <3> QED
      BY <1>1, <2>5, <2>7, <2>8, <3>2, <3>3, <3>4 DEF Frame
  <2>13. /\ \A q \in Procs \ {p}, t \in Slots : Kept(q, t)'
         /\ \A k \in imap : InodeSound(k)'
    <3>1. \A k \in imap : latest'[k] = latest[k] /\ (k \in names' <=> k \in names)
      BY <2>1, <2>6 DEF IInv, Typed
    <3> QED
      BY <1>1, <2>1, <2>2, <2>3, <2>5, <3>1, Taken
  <2>14. ASSUME NEW t \in Slots
         PROVE  Kept(p, t)'
    <3>1. file'[p] = t => inode'[t].inum # NoInode
      BY <2>3, <2>4, <2>5, Numbering
    <3> QED
      BY <2>5, <2>9, <3>1, Numbering DEF Kept
  <2>15. OneOwner'
    BY <1>1, <2>5, <2>9, OwnersKept DEF IInv, Sound
  <2>16. SlotsNamed' /\ (names \subseteq imap)'
    <3>1. SlotsNamed'
      BY <1>1, <2>1, <2>3, <2>4 DEF IInv, Sound, SlotsNamed
    <3> QED
      BY <1>1, <2>1, <3>1 DEF IInv, Sound
  <2>17. InodeSound(n)'
    <3>1. Holding(n)' = {s}
      BY <2>3, <2>4, <2>11 DEF Holding
    <3>2. ~Reading(s)'
      <4>1. \A q \in Procs : ~Near(q, s)
        BY <1>1, <2>4, SlotUnused
      <4> QED
        BY <2>5, <4>1 DEF Reading, Near, Transfer, OthersStill, Still
    <3>3. InMemory(s, n)'
      BY <2>3, <2>4, <2>6, <3>2 DEF InMemory
    <3> QED
      BY <2>1, <2>4, <2>6, <3>1, <3>3 DEF InodeSound, Stored
  <2>18. Sound'
    BY <2>1, <2>13, <2>14, <2>15, <2>16, <2>17, SoundNext
  <2> QED
    BY <1>1, <2>1, <2>12, <2>18, Assemble
<1> QED
  BY <1>2, <1>3

-----------------------------------------------------------------------------
(* iput() and sync_inodes() *)

(* A process that has slot s gives its share up, with others left or the   *)
(* inode on the disk.                                                      *)
LEMMA GivenUp ==
    ASSUME IInv, NEW p \in Procs, NEW l, At(p, l), pc[p] \in {"put", "iput", "last"},
           NEW s \in Slots, s = cur[p], ~inode[s].lock,
           inode' = [inode EXCEPT ![s].count = @ - 1], Return(p),
           inode[s].count > 1 \/ (~inode[s].dirt /\ inode[s].d.nlinks # 0),
           \/ reused' = reused
           \/ reused' = reused \ {s} /\ \A q \in Procs \ {p} : ~LastUser(q, s),
           UNCHANGED <<disk, imap, names, latest, file, empty, broken>>
    PROVE  IInv'
<1>1. broken = "no" /\ CallTyped(p) /\ inode[s].count \in Nat
  BY Counted DEF At, IInv, CallsTyped
<1>2. Holds(p, s) /\ empty[p] = NoSlot /\ op[p] # "sync" /\ \A t \in Slots : Holds(p, t) <=> t = s
  BY <1>1 DEF CallTyped, Holds
<1>3. inode[s].count > 0 /\ inode[s].inum # NoInode
  BY <1>1, <1>2, Counted DEF IInv, Sound, SlotsKept, Kept
<1>4. PICK n \in imap : n = inode[s].inum
  BY <1>1, <1>3, Slot
<1>5. /\ \A t \in Slots : /\ inode'[t].inum = inode[t].inum /\ inode'[t].dirt = inode[t].dirt
                          /\ inode'[t].lock = inode[t].lock /\ inode'[t].d = inode[t].d
      /\ inode'[s].count = inode[s].count - 1
      /\ \A t \in Slots \ {s} : inode'[t] = inode[t]
      /\ inode' \in [Slots -> Inode]
  <2>1. inode \in [Slots -> Inode]
    BY DEF IInv, Typed
  <2>2. inode'[s] = [inode[s] EXCEPT !.count = @ - 1] /\ inode' = [inode EXCEPT ![s] = inode'[s]]
    BY <2>1
  <2>3. inode'[s] \in Inode
    BY <2>1, <2>2 DEF Inode
  <2>4. /\ inode'[s].inum = inode[s].inum /\ inode'[s].dirt = inode[s].dirt
        /\ inode'[s].lock = inode[s].lock /\ inode'[s].d = inode[s].d
        /\ inode'[s].count = inode[s].count - 1
    BY <2>1, <2>2 DEF Inode
  <2>5. \A t \in Slots \ {s} : inode'[t] = inode[t]
    BY <2>1
  <2> QED
    BY <2>1, <2>2, <2>3, <2>4, <2>5
<1>6. /\ pc' = [pc EXCEPT ![p] = "user"] /\ op' = [op EXCEPT ![p] = "none"]
      /\ cur' = [cur EXCEPT ![p] = NoSlot] /\ nr' = [nr EXCEPT ![p] = NoInode]
  BY DEF Return, Goto
<1>7. /\ OthersStill(p) /\ pc'[p] = "user" /\ op'[p] = "none" /\ empty'[p] = NoSlot
      /\ file'[p] = file[p]
  BY <1>2, <1>6 DEF IInv, Typed, OthersStill, Still
<1>8. Typed' /\ CallTyped(p)'
  BY <1>5, <1>6, <1>7 DEF IInv, Typed, Places, CallTyped
<1>9. \A t \in Slots : ~Holds(p, t)' /\ ~Transfer(p, t)' /\ ~LastUser(p, t)'
  BY <1>7 DEF Holds, Transfer, LastUser
<1>10. \A t \in Slots : Part(p, t)' = Part(p, t) - (IF t = s THEN 1 ELSE 0)
  BY <1>2, <1>7, <1>9 DEF Part, One
<1>11. Frame(p)
  <2>1. \A t \in Slots : inode[t].count \in Int /\ Part(p, t) \in Int
    BY DEF IInv, Typed, Inode, Part, One
  <2>2. \A t \in Slots : inode'[t].count = inode[t].count + Part(p, t)' - Part(p, t)
    BY <1>5, <1>10, <2>1
  <2>3. UnusedClean'
    BY <1>1, <1>3, <1>5 DEF IInv, UnusedClean
  <2>4. SlotsApart'
    BY <1>5 DEF IInv, SlotsApart
  <2> QED
    BY <1>1, <1>7, <1>8, <2>2, <2>3, <2>4 DEF Frame
<1>12. ASSUME NEW q \in Procs \ {p}, NEW t \in Slots
       PROVE  Kept(q, t)'
  <2>1. CallTyped(q) /\ Kept(q, t) /\ Still(q)
    BY <1>1, <1>7 DEF IInv, CallsTyped, Sound, SlotsKept, OthersStill
  <2>2. CASE t # s
    <3>1. inode'[t] = inode[t] /\ (t \in reused => t \in reused')
      BY <1>5, <2>2
    <3> QED
      BY <2>1, <3>1, KeptStill
  <2>3. CASE t = s
    <3>1. empty[q] # s
      BY <1>3, <2>1, <2>3 DEF Kept, ZeroInode
    <3>2. ~Transfer(q, s)
      BY <2>1, <2>3 DEF Kept
    <3>3. /\ empty'[q] = empty[q] /\ file'[q] = file[q] /\ pc'[q] = pc[q] /\ cur'[q] = cur[q]
          /\ nr'[q] = nr[q] /\ op'[q] = op[q]
      BY <2>1 DEF Still
    <3>4. /\ file'[q] = s \/ Holds(q, s)' \/ Transfer(q, s)' => inode'[s].inum # NoInode
          /\ Holds(q, s)' /\ pc'[q] \in {"read", "got"} => inode'[s].inum = nr'[q]
          /\ ~Transfer(q, s)' /\ ~(pc'[q] = "read" /\ cur'[q] = s)
      BY <1>3, <1>5, <2>1, <2>3, <3>2, <3>3 DEF Kept, Holds, Transfer
    <3>5. /\ pc'[q] \in {"got", "last"} /\ cur'[q] = s => ~inode'[s].lock
          /\ pc'[q] = "truncate" /\ cur'[q] = s => inode'[s].d.nlinks = 0
      BY <1>5, <2>1, <2>3, <3>3 DEF Kept
    <3>6. LastUser(q, s)' /\ inode'[s].count > 1 => s \in reused'
      <4>1. LastUser(q, s)' => LastUser(q, s)
        BY <3>3 DEF LastUser
      <4>2. LastUser(q, s) /\ inode[s].count > 1 => s \in reused
        BY <2>1, <2>3 DEF Kept
      <4>3. inode'[s].count > 1 => inode[s].count > 1
        BY <1>1, <1>5
      <4> QED
        BY <4>1, <4>2, <4>3
    <3> QED
      BY <2>3, <3>1, <3>3, <3>4, <3>5, <3>6 DEF Kept
  <2> QED
    BY <2>2, <2>3
<1>13. ASSUME NEW t \in Slots
       PROVE  Kept(p, t)'
  <2>1. Kept(p, t)
    BY <1>1 DEF IInv, Sound, SlotsKept
  <2>2. file'[p] = t => inode'[t].inum # NoInode
    BY <1>5, <1>7, <2>1 DEF Kept
  <2> QED
    BY <1>7, <1>9, <2>2, Numbering DEF Kept
<1>14. OneOwner'
  BY <1>1, <1>7, <1>9, OwnersKept DEF IInv, Sound
<1>15. inode'[s].count = 0 => n \in names
  <2> SUFFICES ASSUME inode'[s].count = 0
               PROVE  n \in names
    OBVIOUS
  <2>1. inode[s].d.nlinks # 0
    BY <1>1, <1>5
  <2>2. ~Reading(s)
    BY <1>1, ReadAlone
  <2>3. inode[s].d = latest[n] /\ (n \in names <=> latest[n].nlinks = 1)
    BY <1>1, <1>3, <1>4, <2>2, Slot DEF InMemory, InodeSound
  <2>4. latest[n].nlinks \in 0..1
    BY DEF IInv, Typed, Contents
  <2> QED
    BY <2>1, <2>3, <2>4
<1>16. SlotsNamed'
  <2>1. SlotsNamed
    BY <1>1 DEF IInv, Sound
  <2>2. ASSUME NEW t \in Slots, inode'[t].inum # NoInode
        PROVE  inode'[t].inum \in imap /\ (inode'[t].count = 0 => inode'[t].inum \in names)
    <3>1. CASE t = s
      BY <1>4, <1>5, <1>15, <3>1
    <3>2. CASE t # s
      BY <1>5, <2>1, <2>2, <3>2 DEF SlotsNamed
    <3> QED
      BY <3>1, <3>2
  <2> QED
    BY <2>2 DEF SlotsNamed
<1>17. ASSUME NEW k \in imap
       PROVE  InodeSound(k)'
  <2>1. InodeSound(k) /\ Holding(k)' = Holding(k)
    BY <1>1, <1>5 DEF IInv, Sound, Holding
  <2>2. \A t \in Holding(k) : t \in Slots /\ (Reading(t)' <=> Reading(t))
    BY <1>7, ReadingKept DEF Holding
  <2> QED
    BY <1>5, <2>1, <2>2, InodeKept
<1>18. Sound'
  BY <1>1, <1>12, <1>13, <1>14, <1>16, <1>17, SoundNext DEF IInv, Sound
<1> QED
  BY <1>1, <1>11, <1>18, Assemble

LEMMA IputStep ==
    ASSUME IInv, NEW p \in Procs, Iput(p)
    PROVE  IInv'
<1>1. /\ At(p, "put") \/ At(p, "iput")
      /\ UNCHANGED <<disk, imap, names, latest, file, empty, broken, reused>>
  BY DEF Iput
<1>2. PICK s \in Slots : s = cur[p]
  BY <1>1 DEF At, IInv, CallsTyped, CallTyped
<1>3. CASE InodeLocked(s)
  BY <1>1, <1>2, <1>3, IputWaits DEF Iput
<1>4. CASE ~InodeLocked(s) /\ MoreUsers(s)
  <2>1. inode' = [inode EXCEPT ![s].count = @ - 1] /\ Return(p)
    BY <1>2, <1>4 DEF Iput
  <2>2. /\ ~inode[s].lock
        /\ inode[s].count > 1 \/ (~inode[s].dirt /\ inode[s].d.nlinks # 0)
        /\ \/ reused' = reused
           \/ reused' = reused \ {s} /\ \A q \in Procs \ {p} : ~LastUser(q, s)
    <3>1. ~inode[s].lock /\ inode[s].count > 1
      BY <1>4 DEF InodeLocked, MoreUsers
    <3>2. reused' = reused
      BY <1>1
    <3> QED
      BY <3>1, <3>2
  <2>3. pc[p] \in {"put", "iput", "last"}
    BY <1>1 DEF At
  <2> QED
    <3>1. CASE At(p, "put")
      BY <1>1, <1>2, <2>1, <2>2, <2>3, <3>1, GivenUp
    <3>2. CASE At(p, "iput")
      BY <1>1, <1>2, <2>1, <2>2, <2>3, <3>2, GivenUp
    <3> QED
      BY <1>1, <3>1, <3>2
<1>5. CASE ~InodeLocked(s) /\ ~MoreUsers(s)
  <2>1. Goto(p, "last") /\ UNCHANGED <<inode, op, cur, nr>>
    BY <1>2, <1>5 DEF Iput
  <2>2. ~inode[cur[p]].lock /\ ~(inode[cur[p]].count > 1)
    BY <1>2, <1>5 DEF InodeLocked, MoreUsers
  <2> QED
    BY <1>1, <2>1, <2>2, IputFound
<1> QED
  BY <1>3, <1>4, <1>5

(* write_inode() locks the slot, for sync() or the last iput(). *)
LEMMA LocksStep ==
    ASSUME IInv, NEW p \in Procs, NEW l, At(p, l), l \in {"user", "last"},
           NEW s \in Slots, ~inode[s].lock, inode[s].dirt, StartWrite(p, s),
           UNCHANGED <<disk, imap, names, latest, file, nr, empty, broken, reused>>,
           \/ l = "user" /\ op' = [op EXCEPT ![p] = "sync"] /\ cur' = [cur EXCEPT ![p] = s]
           \/ l = "last" /\ s = cur[p] /\ op' = op /\ cur' = cur
    PROVE  IInv'
<1>1. broken = "no" /\ CallTyped(p) /\ pc[p] = l /\ empty[p] = NoSlot
  BY DEF At, IInv, CallsTyped, CallTyped
<1>2. inode[s].inum # NoInode /\ inode[s].count # 0
  BY DEF IInv, UnusedClean
<1>3. /\ \A t \in Slots : /\ inode'[t].inum = inode[t].inum /\ inode'[t].dirt = inode[t].dirt
                          /\ inode'[t].count = inode[t].count /\ inode'[t].d = inode[t].d
      /\ inode'[s].lock /\ \A t \in Slots \ {s} : inode'[t] = inode[t]
      /\ inode' \in [Slots -> Inode]
  <2>1. inode \in [Slots -> Inode]
    BY DEF IInv, Typed
  <2>2. inode'[s] = [inode[s] EXCEPT !.lock = TRUE] /\ inode' = [inode EXCEPT ![s] = inode'[s]]
    BY <2>1 DEF StartWrite
  <2>3. inode'[s] \in Inode
    BY <2>1, <2>2, ZenonT(60) DEF Inode
  <2>4. /\ inode'[s].inum = inode[s].inum /\ inode'[s].dirt = inode[s].dirt
        /\ inode'[s].count = inode[s].count /\ inode'[s].d = inode[s].d
        /\ inode'[s].lock = TRUE
    <3>1. inode[s] \in Inode
      BY <2>1
    <3> QED
      BY <2>2, <3>1 DEF Inode
  <2>5. \A t \in Slots \ {s} : inode'[t] = inode[t]
    BY <2>1 DEF StartWrite
  <2> QED
    BY <2>1, <2>2, <2>3, <2>4, <2>5
<1>4. pc' = [pc EXCEPT ![p] = "write"]
  BY DEF StartWrite, Goto
<1>5. /\ OthersStill(p) /\ pc'[p] = "write" /\ cur'[p] = s /\ empty'[p] = NoSlot
      /\ file'[p] = file[p] /\ (l = "user" => op'[p] = "sync") /\ (l = "last" => op'[p] = op[p])
  BY <1>1, <1>4 DEF IInv, Typed, OthersStill, Still
<1>6. Typed' /\ CallTyped(p)'
  BY <1>1, <1>3, <1>4, <1>5 DEF IInv, Typed, Places, CallTyped
<1>7. \A t \in Slots : /\ Transfer(p, t)' <=> t = s
                       /\ Holds(p, t)' <=> t = s /\ l = "last"
                       /\ Holds(p, t) <=> t = s /\ l = "last"
                       /\ LastUser(p, t)' <=> t = s /\ l = "last"
                       /\ LastUser(p, t) <=> t = s /\ l = "last"
  BY <1>1, <1>5 DEF Holds, Transfer, LastUser, CallTyped
<1>8. \A t \in Slots : Part(p, t)' = Part(p, t)
  BY <1>1, <1>5, <1>7 DEF Part, One
<1>9. Frame(p)
  <2>1. ASSUME NEW t \in Slots
        PROVE  inode'[t].count = inode[t].count + Part(p, t)' - Part(p, t)
    <3>1. inode[t].count \in Int /\ Part(p, t) \in Int
      BY PartNumber DEF IInv, Typed, Inode
    <3> QED
      BY <1>3, <1>8, <3>1
  <2>2. UnusedClean'
    BY <1>2, <1>3 DEF IInv, UnusedClean
  <2>3. SlotsApart'
    BY <1>3 DEF IInv, SlotsApart
  <2> QED
    BY <1>1, <1>5, <1>6, <2>1, <2>2, <2>3 DEF Frame
<1>10. ASSUME NEW q \in Procs \ {p}, NEW t \in Slots
       PROVE  Kept(q, t)'
  <2>1. CallTyped(q) /\ Kept(q, t) /\ Still(q)
    BY <1>1, <1>5 DEF IInv, CallsTyped, Sound, SlotsKept, OthersStill
  <2>2. CASE t # s
    <3>1. inode'[t] = inode[t] /\ (t \in reused => t \in reused')
      BY <1>3, <2>2
    <3> QED
      BY <2>1, <3>1, KeptStill
  <2>3. CASE t = s
    <3>1. empty[q] # s
      BY <1>2, <2>1, <2>3 DEF Kept, ZeroInode
    <3>2. /\ empty'[q] = empty[q] /\ file'[q] = file[q] /\ pc'[q] = pc[q] /\ cur'[q] = cur[q]
          /\ nr'[q] = nr[q] /\ op'[q] = op[q]
      BY <2>1 DEF Still
    <3>3. pc[q] \notin {"scan", "got", "put", "last"}
      BY Elsewhere
    <3>4. /\ file'[q] = s \/ Holds(q, s)' \/ Transfer(q, s)' => inode'[s].inum # NoInode
          /\ Holds(q, s)' /\ pc'[q] \in {"read", "got"} => inode'[s].inum = nr'[q]
      BY <1>3, <2>1, <2>3, <3>2 DEF Kept, Holds, Transfer
    <3>5. /\ ~(pc'[q] \in {"got", "last"})
          /\ pc'[q] = "read" /\ cur'[q] = s => inode'[s].count = 1
          /\ pc'[q] = "truncate" /\ cur'[q] = s => inode'[s].d.nlinks = 0
      BY <1>3, <2>1, <2>3, <3>2, <3>3 DEF Kept
    <3>6. LastUser(q, s)' /\ inode'[s].count > 1 => s \in reused'
      <4>1. LastUser(q, s)' => LastUser(q, s)
        BY <3>2 DEF LastUser
      <4> QED
        BY <1>3, <2>1, <2>3, <4>1 DEF Kept
    <3> QED
      BY <1>3, <2>3, <3>1, <3>2, <3>4, <3>5, <3>6 DEF Kept
  <2> QED
    BY <2>2, <2>3
<1>11. ASSUME NEW t \in Slots
       PROVE  Kept(p, t)'
  <2>1. Kept(p, t)
    BY <1>1 DEF IInv, Sound, SlotsKept
  <2>2. file'[p] = t => inode'[t].inum # NoInode
    BY <1>3, <1>5, <2>1 DEF Kept
  <2>3. LastUser(p, t)' /\ inode'[t].count > 1 => t \in reused'
    <3>1. LastUser(p, t)' => LastUser(p, t)
      BY <1>7
    <3> QED
      BY <1>3, <2>1, <3>1 DEF Kept
  <2>4. Holds(p, t)' \/ Transfer(p, t)' => t = s
    BY <1>7
  <2> QED
    BY <1>2, <1>3, <1>5, <2>2, <2>3, <2>4, Numbering DEF Kept
<1>12. OneOwner'
  <2>1. ASSUME NEW q \in Procs \ {p}
        PROVE  ~Transfer(q, s)
    BY <1>1 DEF IInv, Sound, SlotsKept, Kept
  <2>2. \A q \in Procs \ {p}, t \in Slots : ~(LastUser(p, t)' /\ LastUser(q, t))
    BY <1>1, <1>7 DEF IInv, Sound, OneOwner
  <2>3. \A q \in Procs \ {p}, t \in Slots : ~(Transfer(p, t)' /\ Transfer(q, t))
    BY <1>7, <2>1
  <2> QED
    BY <1>1, <1>5, <2>2, <2>3, OwnersKept DEF IInv, Sound
<1>13. SlotsNamed'
  BY <1>1, <1>3 DEF IInv, Sound, SlotsNamed
<1>14. ASSUME NEW k \in imap
       PROVE  InodeSound(k)'
  <2>1. InodeSound(k) /\ Holding(k)' = Holding(k)
    BY <1>1, <1>3 DEF IInv, Sound, Holding
  <2>2. \A t \in Holding(k) : t \in Slots /\ (Reading(t)' <=> Reading(t))
    BY <1>1, <1>5, ReadingKept DEF Holding
  <2> QED
    BY <1>3, <2>1, <2>2, InodeKept
<1>15. Sound'
  BY <1>1, <1>10, <1>11, <1>12, <1>13, <1>14, SoundNext DEF IInv, Sound
<1> QED
  BY <1>1, <1>9, <1>15, Assemble

LEMMA IputLastStep ==
    ASSUME IInv, NEW p \in Procs, IputLast(p)
    PROVE  IInv'
<1>1. At(p, "last") /\ UNCHANGED <<disk, imap, names, latest, file, empty, broken>>
  BY DEF IputLast
<1>2. PICK s \in Slots : s = cur[p]
  BY <1>1 DEF At, IInv, CallsTyped, CallTyped
<1>3. ~inode[s].lock
  BY <1>1, <1>2 DEF At, IInv, Sound, SlotsKept, Kept
<1>4. CASE /\ inode[s].d.nlinks = 0 /\ Goto(p, "truncate")
           /\ UNCHANGED <<inode, op, cur, nr, reused>>
  BY <1>1, <1>2, <1>4, IputTruncates
<1>5. CASE Dirty(s) /\ StartWrite(p, s) /\ UNCHANGED <<op, cur, nr, reused>>
  BY <1>1, <1>2, <1>3, <1>5, LocksStep DEF Dirty
<1>6. CASE /\ inode[s].d.nlinks # 0 /\ ~Dirty(s)
           /\ inode' = [inode EXCEPT ![s].count = @ - 1]
           /\ reused' = reused \ {s} /\ Return(p)
  <2>1. \A q \in Procs \ {p} : ~LastUser(q, s)
    <3>1. LastUser(p, s) /\ OneOwner
      BY <1>1, <1>2 DEF At, LastUser, IInv, Sound, CallsTyped, CallTyped
    <3> QED
      BY <3>1 DEF OneOwner
  <2>2. pc[p] \in {"put", "iput", "last"} /\ ~inode[s].dirt
    BY <1>1, <1>6 DEF At, Dirty
  <2> QED
    BY <1>1, <1>2, <1>3, <1>6, <2>1, <2>2, GivenUp
<1> QED
  BY <1>2, <1>4, <1>5, <1>6 DEF IputLast

LEMMA SyncStep ==
    ASSUME IInv, NEW p \in Procs, NEW s \in Slots, SyncInode(p, s)
    PROVE  IInv'
BY LocksStep DEF SyncInode

(* The slot is written to the disk and unlocked. *)
LEMMA WriteInodeStep ==
    ASSUME IInv, NEW p \in Procs, WriteInode(p)
    PROVE  IInv'
<1>1. broken = "no" /\ pc[p] = "write" /\ CallTyped(p) /\ empty[p] = NoSlot
  BY DEF WriteInode, At, IInv, CallsTyped, CallTyped
<1>2. PICK s \in Slots : s = cur[p]
  BY <1>1 DEF CallTyped
<1>3. Transfer(p, s) /\ inode[s].inum # NoInode /\ inode[s].lock
  BY <1>1, <1>2 DEF Transfer, IInv, Sound, SlotsKept, Kept
<1>4. PICK n \in imap : n = inode[s].inum
  BY <1>1, <1>3, Slot
<1>5. /\ n \in Inums /\ Holding(n) = {s} /\ InMemory(s, n) /\ InodeSound(n)
      /\ \A q \in Procs \ {p} : ~Transfer(q, s)
  BY <1>1, <1>3, <1>4, Slot DEF IInv, Typed, Sound, OneOwner
<1>6. /\ disk' = [disk EXCEPT ![n] = inode[s].d]
      /\ inode' = [inode EXCEPT ![s].dirt = FALSE, ![s].lock = FALSE]
      /\ IF op[p] = "sync" THEN Return(p) ELSE Goto(p, "last") /\ UNCHANGED <<op, cur, nr>>
      /\ UNCHANGED <<imap, names, latest, file, empty, broken, reused>>
  BY <1>2, <1>4 DEF WriteInode, Copied
<1>7. /\ \A t \in Slots : /\ inode'[t].inum = inode[t].inum /\ inode'[t].count = inode[t].count
                          /\ inode'[t].d = inode[t].d
      /\ ~inode'[s].lock /\ ~inode'[s].dirt /\ \A t \in Slots \ {s} : inode'[t] = inode[t]
      /\ inode' \in [Slots -> Inode]
  <2>1. inode \in [Slots -> Inode]
    BY DEF IInv, Typed
  <2>2. /\ inode'[s] = [inode[s] EXCEPT !.dirt = FALSE, !.lock = FALSE]
        /\ inode' = [inode EXCEPT ![s] = inode'[s]]
    BY <1>6, <2>1
  <2>3. inode[s] \in Inode
    BY <2>1
  <2>4. inode'[s] \in Inode
    BY <2>2, <2>3 DEF Inode
  <2>5. /\ inode'[s].inum = inode[s].inum /\ inode'[s].dirt = FALSE
        /\ inode'[s].count = inode[s].count /\ inode'[s].d = inode[s].d
        /\ inode'[s].lock = FALSE
    BY <2>2, <2>3 DEF Inode
  <2>6. \A t \in Slots \ {s} : inode'[t] = inode[t]
    BY <1>6, <2>1
  <2> QED
    BY <2>1, <2>2, <2>4, <2>5, <2>6
<1>8. /\ disk'[n] = inode[s].d /\ \A k \in Inums \ {n} : disk'[k] = disk[k]
      /\ disk' \in [Inums -> Contents]
  BY <1>5, <1>6 DEF IInv, Typed, Inode
<1>9. \/ /\ op[p] = "sync" /\ pc' = [pc EXCEPT ![p] = "user"] /\ op' = [op EXCEPT ![p] = "none"]
         /\ cur' = [cur EXCEPT ![p] = NoSlot] /\ nr' = [nr EXCEPT ![p] = NoInode]
      \/ /\ op[p] # "sync" /\ pc' = [pc EXCEPT ![p] = "last"]
         /\ op' = op /\ cur' = cur /\ nr' = nr
  BY <1>6 DEF Return, Goto
<1>10. /\ OthersStill(p) /\ empty'[p] = NoSlot /\ file'[p] = file[p]
       /\ \/ op[p] = "sync" /\ pc'[p] = "user" /\ op'[p] = "none"
          \/ op[p] # "sync" /\ pc'[p] = "last" /\ op'[p] = op[p] /\ cur'[p] = s
  BY <1>1, <1>2, <1>6, <1>9 DEF IInv, Typed, OthersStill, Still
<1>11. Typed' /\ CallTyped(p)'
  <2>1. Typed'
    BY <1>6, <1>7, <1>8, <1>9 DEF IInv, Typed, Places, Running
  <2>2. CallTyped(p)'
    BY <1>1, <1>10 DEF CallTyped
  <2> QED
    BY <2>1, <2>2
<1>12. \A t \in Slots : /\ ~Transfer(p, t)'
                        /\ Holds(p, t)' <=> t = s /\ op[p] # "sync"
                        /\ Holds(p, t) <=> t = s /\ op[p] # "sync"
                        /\ LastUser(p, t)' <=> t = s /\ op[p] # "sync"
                        /\ LastUser(p, t) <=> t = s /\ op[p] # "sync"
  BY <1>1, <1>2, <1>10 DEF Holds, Transfer, LastUser
<1>13. \A t \in Slots : Part(p, t)' = Part(p, t)
  BY <1>1, <1>10, <1>12 DEF Part, One
<1>14. Frame(p)
  <2>1. ASSUME NEW t \in Slots
        PROVE  inode'[t].count = inode[t].count + Part(p, t)' - Part(p, t)
    <3>1. inode[t].count \in Int /\ Part(p, t) \in Int
      BY PartNumber DEF IInv, Typed, Inode
    <3> QED
      BY <1>7, <1>13, <3>1
  <2>2. UnusedClean'
    BY <1>7 DEF IInv, UnusedClean
  <2>3. SlotsApart'
    BY <1>7 DEF IInv, SlotsApart
  <2> QED
    BY <1>1, <1>10, <1>11, <2>1, <2>2, <2>3 DEF Frame
<1>15. ASSUME NEW q \in Procs \ {p}, NEW t \in Slots
       PROVE  Kept(q, t)'
  <2>1. CallTyped(q) /\ Kept(q, t) /\ Still(q)
    BY <1>1, <1>10 DEF IInv, CallsTyped, Sound, SlotsKept, OthersStill
  <2>2. CASE t # s
    <3>1. inode'[t] = inode[t] /\ (t \in reused => t \in reused')
      BY <1>6, <1>7, <2>2
    <3> QED
      BY <2>1, <3>1, KeptStill
  <2>3. CASE t = s
    <3>1. empty[q] # s
      BY <1>3, <2>1, <2>3 DEF Kept, ZeroInode
    <3>2. /\ empty'[q] = empty[q] /\ file'[q] = file[q] /\ pc'[q] = pc[q] /\ cur'[q] = cur[q]
          /\ nr'[q] = nr[q] /\ op'[q] = op[q]
      BY <2>1 DEF Still
    <3>3. /\ file'[q] = s \/ Holds(q, s)' \/ Transfer(q, s)' => inode'[s].inum # NoInode
          /\ Holds(q, s)' /\ pc'[q] \in {"read", "got"} => inode'[s].inum = nr'[q]
          /\ ~Transfer(q, s)'
      BY <1>5, <1>7, <2>1, <2>3, <3>2 DEF Kept, Holds, Transfer
    <3>4. /\ pc'[q] = "read" /\ cur'[q] = s => inode'[s].count = 1
          /\ pc'[q] = "truncate" /\ cur'[q] = s => inode'[s].d.nlinks = 0
      BY <1>7, <2>1, <2>3, <3>2 DEF Kept
    <3>5. LastUser(q, s)' /\ inode'[s].count > 1 => s \in reused'
      <4>1. LastUser(q, s)' => LastUser(q, s)
        BY <3>2 DEF LastUser
      <4>2. LastUser(q, s) /\ inode[s].count > 1 => s \in reused
        BY <2>1, <2>3 DEF Kept
      <4> QED
        BY <1>6, <1>7, <4>1, <4>2
    <3> QED
      BY <1>7, <2>3, <3>1, <3>2, <3>3, <3>4, <3>5 DEF Kept
  <2> QED
    BY <2>2, <2>3
<1>16. ASSUME NEW t \in Slots
       PROVE  Kept(p, t)'
  <2>1. Kept(p, t)
    BY <1>1 DEF IInv, Sound, SlotsKept
  <2>2. file'[p] = t => inode'[t].inum # NoInode
    BY <1>7, <1>10, <2>1 DEF Kept
  <2>3. LastUser(p, t)' /\ inode'[t].count > 1 => t \in reused'
    <3>1. LastUser(p, t)' => LastUser(p, t)
      BY <1>12
    <3>2. LastUser(p, t) /\ inode[t].count > 1 => t \in reused
      BY <2>1 DEF Kept
    <3> QED
      BY <1>6, <1>7, <3>1, <3>2
  <2>4. Holds(p, t)' => inode'[t].inum # NoInode
    BY <1>3, <1>7, <1>12
  <2>5. pc'[p] = "last" /\ cur'[p] = t => ~inode'[t].lock
    BY <1>7, <1>10
  <2> QED
    BY <1>10, <1>12, <2>2, <2>3, <2>4, <2>5, Numbering DEF Kept
<1>17. OneOwner'
  <2>1. \A q \in Procs \ {p}, t \in Slots : ~(LastUser(p, t)' /\ LastUser(q, t))
    BY <1>1, <1>12 DEF IInv, Sound, OneOwner
  <2> QED
    BY <1>1, <1>10, <1>12, <2>1, OwnersKept DEF IInv, Sound
<1>18. SlotsNamed'
  BY <1>1, <1>6, <1>7 DEF IInv, Sound, SlotsNamed
<1>19. ASSUME NEW k \in imap
       PROVE  InodeSound(k)'
  <2>1. InodeSound(k) /\ Holding(k)' = Holding(k) /\ k \in Inums
    BY <1>1, <1>7 DEF IInv, Typed, Sound, Holding
  <2>2. \A t \in Slots : Reading(t)' <=> Reading(t)
    BY <1>1, <1>10, ReadingKept
  <2>3. CASE k = n
    <3>1. ~Reading(s)
      BY <1>1, <1>5 DEF Reading, Transfer
    <3>2. inode[s].d = latest[n]
      BY <1>5, <3>1 DEF InMemory
    <3>3. InMemory(s, n)'
      BY <1>6, <1>7, <1>8, <2>2, <3>1, <3>2 DEF InMemory
    <3>4. Stored(n)'
      BY <1>5, <2>1, <2>3, <3>3 DEF Stored
    <3> QED
      BY <1>5, <1>6, <2>1, <2>3, <3>4 DEF InodeSound
  <2>4. CASE k # n
    <3>1. s \notin Holding(k)
      BY <1>4, <2>4 DEF Holding
    <3>2. \A t \in Holding(k) : t \in Slots \ {s} /\ (Reading(t)' <=> Reading(t))
      BY <2>2, <3>1 DEF Holding
    <3> QED
      BY <1>6, <1>7, <1>8, <2>1, <2>4, <3>2, InodeKept
  <2> QED
    BY <2>3, <2>4
<1>20. Sound'
  BY <1>1, <1>6, <1>15, <1>16, <1>17, <1>18, <1>19, SoundNext DEF IInv, Sound
<1> QED
  BY <1>1, <1>6, <1>14, <1>20, Assemble

(* An inode without a name goes, and its slot with it. *)
LEMMA FreeInodeStep ==
    ASSUME IInv, NEW p \in Procs, FreeInode(p)
    PROVE  IInv'
<1>1. broken = "no" /\ pc[p] = "truncate" /\ CallTyped(p) /\ empty[p] = NoSlot
  BY DEF FreeInode, At, IInv, CallsTyped, CallTyped
<1>2. PICK s \in Slots : s = cur[p]
  BY <1>1 DEF CallTyped
<1>3. /\ op[p] # "sync" /\ Holds(p, s) /\ LastUser(p, s)
      /\ \A t \in Slots : Holds(p, t) <=> t = s
  BY <1>1, <1>2 DEF CallTyped, Holds, LastUser
<1>4. Kept(p, s) /\ inode[s].inum # NoInode /\ inode[s].d.nlinks = 0
  BY <1>1, <1>2, <1>3 DEF IInv, Sound, SlotsKept, Kept
<1>5. PICK n \in imap : n = inode[s].inum
  BY <1>1, <1>4, Slot
<1>6. n \in Inums /\ Holding(n) = {s} /\ InMemory(s, n) /\ InodeSound(n)
  BY <1>1, <1>4, <1>5, Slot DEF IInv, Typed
<1>7. UNCHANGED <<disk, names, latest, file, empty>>
  BY DEF FreeInode
<1>8. CASE inode[s].count > 1
  <2>1. broken' = "free_inode" /\ UNCHANGED <<inode, imap, reused, op, pc, nr, cur>>
    BY <1>2, <1>8 DEF FreeInode
  <2>2. Typed' /\ CallsTyped' /\ UnusedClean' /\ SlotsApart'
    BY <1>7, <2>1 DEF IInv, Typed, Faults, CallsTyped, CallTyped, UnusedClean, SlotsApart
  <2>3. CountsAreExact'
    BY <1>7, <2>1 DEF IInv, CountsAreExact, Count, Holds
  <2>4. s \in reused
    BY <1>3, <1>4, <1>8 DEF Kept
  <2>5. pc'[p] = "truncate" /\ cur'[p] \in reused' /\ inode'[cur'[p]].inum \in imap'
    BY <1>1, <1>2, <1>5, <2>1, <2>4
  <2> QED
    BY <2>1, <2>2, <2>3, <2>5 DEF IInv
<1>9. CASE ~(inode[s].count > 1)
  <2>1. /\ imap' = imap \ {n} /\ inode' = [inode EXCEPT ![s] = ZeroInode]
        /\ reused' = reused \ {s}
        /\ broken' = IF inode[s].lock THEN "locked slot cleared" ELSE "no"
        /\ Return(p)
    BY <1>1, <1>2, <1>5, <1>9 DEF FreeInode, BitCleared
  <2>2. /\ ZeroInode \in Inode /\ ZeroInode.inum = NoInode /\ ZeroInode.count = 0
        /\ ZeroInode.dirt = FALSE /\ ZeroInode.lock = FALSE
    BY DEF ZeroInode, Inode, Contents
  <2>3. /\ inode'[s] = ZeroInode /\ \A t \in Slots \ {s} : inode'[t] = inode[t]
        /\ inode' \in [Slots -> Inode]
    BY <2>1, <2>2 DEF IInv, Typed
  <2>4. inode[s].count = 1 /\ inode[s].count <= Part(p, s)
    <3>1. inode[s].count \in Nat /\ inode[s].count > 0
      BY <1>3, Counted
    <3>2. inode[s].count = 1
      BY <1>9, <3>1
    <3>3. Part(p, s) >= 1
      BY <1>3 DEF Part, One
    <3> QED
      BY <3>2, <3>3
  <2>5. file[p] # s
    <3>1. inode[s].count >= Part(p, s)
      BY Counted
    <3> QED
      BY <1>3, <2>4, <3>1 DEF Part, One
  <2>6. \A q \in Procs \ {p} : file[q] # s /\ ~Holds(q, s) /\ empty[q] # s
    BY <2>4, Alone
  <2>7. /\ pc' = [pc EXCEPT ![p] = "user"] /\ op' = [op EXCEPT ![p] = "none"]
        /\ cur' = [cur EXCEPT ![p] = NoSlot] /\ nr' = [nr EXCEPT ![p] = NoInode]
    BY <2>1 DEF Return, Goto
  <2>8. /\ OthersStill(p) /\ pc'[p] = "user" /\ op'[p] = "none" /\ empty'[p] = NoSlot
        /\ file'[p] = file[p]
    BY <1>1, <1>7, <2>7 DEF IInv, Typed, OthersStill, Still
  <2>9. Typed' /\ CallTyped(p)'
    <3>1. broken' \in Faults /\ imap' \subseteq Inums /\ reused' \subseteq Slots
      BY <2>1 DEF Faults, IInv, Typed
    <3> QED
      BY <1>7, <2>3, <2>7, <2>8, <3>1 DEF IInv, Typed, Places, CallTyped
  <2>10. \A t \in Slots : ~Holds(p, t)' /\ ~Transfer(p, t)' /\ ~LastUser(p, t)'
    BY <2>8 DEF Holds, Transfer, LastUser
  <2>11. \A t \in Slots : Part(p, t)' = Part(p, t) - (IF t = s THEN 1 ELSE 0)
    BY <1>1, <1>3, <2>8, <2>10 DEF Part, One
  <2>12. Frame(p)
    <3>1. ASSUME NEW t \in Slots
          PROVE  inode'[t].count = inode[t].count + Part(p, t)' - Part(p, t)
      <4>1. inode[t].count \in Int /\ Part(p, t) \in Int
        BY PartNumber DEF IInv, Typed, Inode
      <4> QED
        BY <2>2, <2>3, <2>4, <2>11, <4>1
    <3>2. UnusedClean'
      BY <2>2, <2>3 DEF IInv, UnusedClean
    <3>3. SlotsApart'
      BY <2>2, <2>3 DEF IInv, SlotsApart
    <3> QED
      BY <1>1, <2>8, <2>9, <3>1, <3>2, <3>3 DEF Frame
  <2>13. ~Reading(s)
    <3>1. \A q \in Procs : pc[q] = "read" /\ cur[q] = s => Holds(q, s)
      BY DEF IInv, CallsTyped, CallTyped, Asked, Holds
    <3> QED
      BY <1>1, <2>6, <3>1 DEF Reading
  <2>14. n \notin names
    BY <1>4, <1>6, <2>13 DEF InMemory, InodeSound
  <2>15. ASSUME ~inode[s].lock
         PROVE  Sound'
    <3>1. \A q \in Procs \ {p} : ~Near(q, s)
      BY <1>1, <2>6, <2>15 DEF Near, IInv, Sound, SlotsKept, Kept
    <3>2. \A q \in Procs \ {p}, t \in Slots : Kept(q, t)'
      BY <1>1, <2>1, <2>3, <2>8, <3>1, OthersKept
    <3>3. ASSUME NEW t \in Slots
          PROVE  Kept(p, t)'
      <4>1. Kept(p, t)
        BY <1>1 DEF IInv, Sound, SlotsKept
      <4>2. file'[p] = t => inode'[t].inum # NoInode
        BY <2>3, <2>5, <2>8, <4>1 DEF Kept
      <4> QED
        BY <2>8, <2>10, <4>2, Numbering DEF Kept
    <3>4. OneOwner'
      BY <1>1, <2>8, <2>10, OwnersKept DEF IInv, Sound
    <3>5. SlotsNamed'
      <4>1. ASSUME NEW t \in Slots, inode'[t].inum # NoInode
            PROVE  /\ inode'[t].inum \in imap'
                   /\ inode'[t].count = 0 => inode'[t].inum \in names'
        <5>1. t # s /\ inode'[t] = inode[t]
          BY <2>2, <2>3, <4>1
        <5>2. inode[t].inum # n
          BY <1>4, <1>5, <5>1 DEF IInv, SlotsApart
        <5> QED
          <6>1. inode[t].inum \in imap /\ (inode[t].count = 0 => inode[t].inum \in names)
            BY <1>1, <4>1, <5>1 DEF IInv, Sound, SlotsNamed
          <6>2. names' = names /\ imap' = imap \ {n}
            BY <1>7, <2>1
          <6>3. inode[t].inum \in imap \ {n}
            BY <5>2, <6>1
          <6> QED
            BY <5>1, <6>1, <6>2, <6>3
      <4> QED
        BY <4>1 DEF SlotsNamed
    <3>6. (names \subseteq imap)'
      BY <1>1, <1>7, <2>1, <2>14 DEF IInv, Sound
    <3>7. ASSUME NEW k \in imap'
          PROVE  InodeSound(k)'
      <4>1. InodeSound(k) /\ k # n /\ k \in Inums
        BY <1>1, <2>1 DEF IInv, Typed, Sound
      <4>2. Holding(k)' = Holding(k) /\ s \notin Holding(k)
        BY <1>5, <2>2, <2>3, <4>1, Numbering DEF Holding
      <4>3. \A t \in Holding(k) : t \in Slots \ {s} /\ (Reading(t)' <=> Reading(t))
        BY <1>1, <2>8, <4>2, ReadingKept DEF Holding
      <4> QED
        BY <1>7, <2>3, <4>1, <4>2, <4>3, InodeKept
    <3> QED
      BY <3>2, <3>3, <3>4, <3>5, <3>6, <3>7, SoundNext
  <2> QED
    BY <2>1, <2>12, <2>15, Assemble
<1> QED
  BY <1>8, <1>9

-----------------------------------------------------------------------------
(* The theorems *)

LEMMA InitIInv == Init => IInv
<1> SUFFICES ASSUME Init
             PROVE  IInv
  OBVIOUS
<1>1. /\ \A s \in Slots : inode[s] = ZeroInode
      /\ \A p \in Procs : /\ file[p] = NoSlot /\ op[p] = "none" /\ pc[p] = "user"
                          /\ nr[p] = NoInode /\ cur[p] = NoSlot /\ empty[p] = NoSlot
      /\ latest = disk /\ imap = {1} /\ names = {1} /\ broken = "no" /\ reused = {}
      /\ \A n \in Inums : disk[n] = [nlinks |-> IF n = 1 THEN 1 ELSE 0, ver |-> 0]
  BY DEF Init
<1>2. 1 \in Inums
  BY InodeAssumption DEF Inums
<1>3. /\ ZeroInode \in Inode /\ ZeroInode.inum = NoInode /\ ZeroInode.count = 0
      /\ ZeroInode.dirt = FALSE /\ ZeroInode.lock = FALSE
  BY DEF ZeroInode, Inode, Contents
<1>4. Typed
  <2>1. ASSUME NEW n \in Inums
        PROVE  disk[n] \in Contents
    <3>1. disk[n] = [nlinks |-> 1, ver |-> 0] \/ disk[n] = [nlinks |-> 0, ver |-> 0]
      BY <1>1
    <3> QED
      BY <3>1 DEF Contents
  <2>2. inode \in [Slots -> Inode] /\ disk \in [Inums -> Contents]
    BY <1>3, <2>1 DEF Init
  <2> QED
    BY <1>1, <1>2, <2>2 DEF Init, Typed, Places, Faults
<1>5. CallsTyped
  BY <1>1 DEF CallsTyped, CallTyped
<1>6. \A p \in Procs, s \in Slots : ~Holds(p, s) /\ ~Transfer(p, s) /\ ~LastUser(p, s)
  BY <1>1 DEF Holds, Transfer, LastUser
<1>7. CountsAreExact
  <2>1. ASSUME NEW s \in Slots
        PROVE  Count(s) = 0
    <3>1. /\ {p \in Procs : file[p] = s} = {} /\ {p \in Procs : Holds(p, s)} = {}
          /\ {p \in Procs : empty[p] = s} = {}
      BY <1>1, <1>6, Numbering
    <3> QED
      BY <3>1, FS_EmptySet DEF Count
  <2> QED
    BY <1>1, <1>3, <2>1 DEF CountsAreExact
<1>8. UnusedClean /\ SlotsApart
  BY <1>1, <1>3 DEF UnusedClean, SlotsApart
<1>9. SlotsKept
  <2>1. \A p \in Procs, s \in Slots : empty[p] # s /\ file[p] # s
    BY <1>1, Numbering
  <2> QED
    BY <1>1, <1>6, <2>1 DEF SlotsKept, Kept
<1>10. OneOwner /\ SlotsNamed
  BY <1>1, <1>3, <1>6 DEF OneOwner, SlotsNamed
<1>11. InodeSound(1)
  <2>1. Holding(1) = {}
    BY <1>1, <1>3 DEF Holding, NoInode
  <2>2. latest[1].nlinks = 1
    <3>1. disk[1] = [nlinks |-> 1, ver |-> 0]
      BY <1>1, <1>2
    <3> QED
      BY <1>1, <3>1
  <2> QED
    BY <1>1, <2>1, <2>2 DEF InodeSound, Stored
<1>12. Sound
  BY <1>1, <1>9, <1>10, <1>11 DEF Sound
<1> QED
  BY <1>1, <1>4, <1>5, <1>7, <1>8, <1>12 DEF IInv

LEMMA NextIInv == IInv /\ [Next]_vars => IInv'
<1> SUFFICES ASSUME IInv, [Next]_vars
             PROVE  IInv'
  OBVIOUS
<1>1. ASSUME NEW p \in Procs, NEW n \in Inums, Lookup(p, n, "open") \/ Lookup(p, n, "unlink")
      PROVE  IInv'
  <2>1. "open" \in Asked /\ "unlink" \in Asked
    BY DEF Asked
  <2> QED
    BY <1>1, <2>1, LookupStep
<1>2. ASSUME NEW p \in Procs, Scan(p) \/ IgetWakes(p) \/ ReadInode(p)
      PROVE  IInv'
  BY <1>2, ScanStep, IgetWakesStep, ReadInodeStep
<1>3. ASSUME NEW p \in Procs, Open(p) \/ Unlink(p) \/ Change(p) \/ Close(p) \/ Create(p)
      PROVE  IInv'
  BY <1>3, OpenStep, UnlinkStep, ChangeStep, CloseStep, CreateStep
<1>4. ASSUME NEW p \in Procs, Iput(p) \/ IputLast(p) \/ WriteInode(p) \/ FreeInode(p)
      PROVE  IInv'
  BY <1>4, IputStep, IputLastStep, WriteInodeStep, FreeInodeStep
<1>5. ASSUME NEW p \in Procs, NEW s \in Slots, SyncInode(p, s)
      PROVE  IInv'
  BY <1>5, SyncStep
<1>6. CASE UNCHANGED vars
  <2>1. /\ Typed' /\ CallsTyped' /\ UnusedClean' /\ SlotsApart'
    BY <1>6 DEF vars, calls, IInv, Typed, CallsTyped, CallTyped, UnusedClean, SlotsApart
  <2>2. CountsAreExact'
    BY <1>6 DEF vars, calls, IInv, CountsAreExact, Count, Holds
  <2>3. Sound => Sound'
    <3>1. SlotsKept => SlotsKept'
      BY <1>6 DEF vars, calls, SlotsKept, Kept, Holds, Transfer, LastUser
    <3>2. OneOwner => OneOwner'
      BY <1>6 DEF vars, calls, OneOwner, Transfer, LastUser
    <3>3. \A n : InodeSound(n) => InodeSound(n)'
      BY <1>6 DEF vars, calls, InodeSound, Stored, InMemory, Reading, Holding
    <3>4. SlotsNamed => SlotsNamed'
      BY <1>6 DEF vars, SlotsNamed
    <3> QED
      BY <1>6, <3>1, <3>2, <3>3, <3>4 DEF vars, Sound
  <2> QED
    BY <1>6, <2>1, <2>2, <2>3 DEF vars, calls, IInv
<1> QED
  BY <1>1, <1>2, <1>3, <1>4, <1>5, <1>6 DEF Next

(* Whatever processes look up, open, change, unlink, close and sync, what  *)
(* an iget() or an iput() had found before it slept is so when it goes on. *)
THEOREM Inductive == Spec => []IInv
BY InitIInv, NextIInv, PTL DEF Spec

(* i_count of every slot is the number of those who hold it, and get_empty *)
(* _inode() finds unused slots clean and unlocked, so that iget() looks    *)
(* the table up as it was when it was called.                              *)
THEOREM CountsExact == Spec => []TableSound
<1>1. ASSUME IInv, NEW s \in Slots
      PROVE  inode[s].count \in 0..2 * Cardinality(Procs)
  <2>1. /\ OpenIn(s) \in SUBSET Procs /\ HeldBy(s) \in SUBSET Procs /\ EmptyIn(s) \in SUBSET Procs
        /\ inode[s].count = Cardinality(OpenIn(s)) + Cardinality(HeldBy(s)) + Cardinality(EmptyIn(s))
    BY <1>1 DEF OpenIn, HeldBy, EmptyIn, Count, IInv, CountsAreExact
  <2>2. HeldBy(s) \cap EmptyIn(s) = {}
    BY <1>1, Numbering DEF HeldBy, EmptyIn, Holds, IInv, CallsTyped, CallTyped
  <2> HIDE DEF OpenIn, HeldBy, EmptyIn
  <2>3. /\ IsFiniteSet(OpenIn(s)) /\ IsFiniteSet(HeldBy(s)) /\ IsFiniteSet(EmptyIn(s))
        /\ Cardinality(OpenIn(s)) \in Nat /\ Cardinality(HeldBy(s)) \in Nat
        /\ Cardinality(EmptyIn(s)) \in Nat /\ Cardinality(Procs) \in Nat
    BY <2>1, SetParts, Numbering, FS_CardinalityType
  <2>4. Cardinality(HeldBy(s) \cup EmptyIn(s))
          = Cardinality(HeldBy(s)) + Cardinality(EmptyIn(s)) - Cardinality({})
    BY <2>2, <2>3, FS_Union
  <2>5. HeldBy(s) \cup EmptyIn(s) \subseteq Procs /\ OpenIn(s) \subseteq Procs
    BY <2>1
  <2>6. /\ Cardinality(HeldBy(s) \cup EmptyIn(s)) <= Cardinality(Procs)
        /\ Cardinality(OpenIn(s)) <= Cardinality(Procs)
    BY <2>5, Numbering, FS_Subset
  <2>7. Cardinality({}) = 0
    BY FS_EmptySet
  <2> QED
    BY <2>1, <2>3, <2>4, <2>6, <2>7
<1>2. ASSUME IInv
      PROVE  TypeOK
  <2> DEFINE Count2 == 0..2 * Cardinality(Procs)
  <2>1. inode \in [Slots -> [inum : Inums \cup {NoInode}, count : Count2,
                             dirt : BOOLEAN, lock : BOOLEAN, d : Contents]]
    <3>1. \A s \in Slots : inode[s] \in Inode /\ inode[s].count \in Count2
      BY <1>1, <1>2 DEF IInv, Typed
    <3> HIDE DEF Count2
    <3>2. \A s \in Slots : inode[s] \in [inum : Inums \cup {NoInode}, count : Count2,
                                         dirt : BOOLEAN, lock : BOOLEAN, d : Contents]
      BY <3>1 DEF Inode
    <3> QED
      BY <1>2, <3>2 DEF IInv, Typed
  <2> QED
    BY <1>2, <2>1 DEF IInv, Typed, TypeOK, Places, Faults
<1>3. IInv => TableSound
  BY <1>2 DEF IInv, TableSound, UnusedClean
<1> QED
  BY <1>3, Inductive, PTL

(* No inode is in two slots, and what system calls last made of it is in   *)
(* its slot, or on the disk when it has none, whoever slept in the middle  *)
(* of reading, writing or giving it up.                                    *)
THEOREM LatestIsKept == Spec => []LatestInode
<1>1. IInv => LatestInode
  BY DEF IInv, Sound, InodeSound, Stored, LatestInode
<1> QED
  BY <1>1, Inductive, PTL

(* What is open or has a name is allocated, and what is allocated has a    *)
(* name or a slot; free_inode() never finds the bit of an inode clear.     *)
THEOREM AllocationIsSound == Spec => []AllocatedIsUsed
<1>1. ASSUME IInv, broken = "no", NEW p \in Procs, file[p] # NoSlot
      PROVE  inode[file[p]].inum \in imap
  <2>1. PICK s \in Slots : s = file[p]
    BY <1>1 DEF IInv, Typed
  <2>2. inode[s].inum # NoInode
    BY <1>1, <2>1 DEF IInv, Sound, SlotsKept, Kept
  <2> QED
    BY <1>1, <2>1, <2>2, Slot
<1>2. ASSUME IInv, broken = "no"
      PROVE  names \subseteq imap /\ \A n \in imap : n \in names \/ Holding(n) # {}
  BY <1>2 DEF IInv, Sound, InodeSound
<1>3. IInv => AllocatedIsUsed
  BY <1>1, <1>2 DEF IInv, AllocatedIsUsed
<1> QED
  BY <1>3, Inductive, PTL
==============================================================================
