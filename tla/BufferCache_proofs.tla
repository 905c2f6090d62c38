------------------------ MODULE BufferCache_proofs ------------------------
(***************************************************************************)
(* The bookkeeping of the block cache is right for every number of         *)
(* processes, buffers and blocks.  IInv, the inductive invariant, joins    *)
(* the properties with what they need of each other: where a process is    *)
(* says what it knows of its buffer.  One lemma per action shows that it   *)
(* keeps IInv; each first says what the action changes, then takes the     *)
(* parts of IInv one by one.                                               *)
(***************************************************************************)
EXTENDS BufferCache, FiniteSetTheorems, WellFoundedInduction, TLAPS

(* TypeOK but for the range of b_count. *)
Heads == [blk : Blocks \cup {NoBlock}, count : Int, dirt : BOOLEAN, uptodate : BOOLEAN,
          lock : BOOLEAN, data : Copies]
Typed ==
    /\ buf \in [Buffers -> Heads]
    /\ hashed \subseteq Buffers
    /\ next_free \in [Buffers -> Buffers] /\ prev_free \in [Buffers -> Buffers]
    /\ free_list \in Buffers
    /\ io \in [Buffers -> {"none", "read", "write", "sent", "sentold"}]
    /\ dest \in [Buffers -> Blocks \cup {NoBlock}]
    /\ disk \in [Blocks -> Copies] /\ refetched \cup late \cup lost \subseteq Blocks
    /\ pc \in [Procs -> Running \cup Sleeping \cup {"idle", "hold"}]
    /\ want \in [Procs -> Blocks \cup {NoBlock}]
    /\ bh \in [Procs -> Buffers \cup {NoBuffer}]
    /\ kept \in [Procs -> [Buffers -> Blocks \cup {NoBlock}]]
    /\ idx \in [Procs -> 0..NR_BUFFERS + 1]

(* One process runs, the others sleep. *)
OneRuns == \A p, q \in Procs : pc[p] \in Running /\ pc[q] \in Running => p = q

(* What a process is after, and the buffer it has. *)
Coherent ==
    \A p \in Procs :
       /\ pc[p] = "idle" => want[p] = NoBlock /\ bh[p] = NoBuffer
       /\ pc[p] \in {"sync", "syncwait", "syncio"} =>
             (want[p] = NoBlock <=> bh[p] = NoBuffer)
       /\ pc[p] \notin {"idle", "sync", "syncwait", "syncio"} => want[p] \in Blocks
       /\ pc[p] \notin {"idle", "find", "bufwait", "woken", "sync", "syncwait", "syncio"} =>
             bh[p] \in Buffers
       /\ pc[p] \in {"syncwait", "syncio"} => idx[p] \in Buffers

(* A locked buffer is being transferred.  When its block is not that of    *)
(* the transfer, it has been taken while it was locked, and both are lost. *)
LocksSound ==
    \A b \in Buffers :
       /\ buf[b].lock <=> io[b] # "none"
       /\ io[b] # "none" => dest[b] \in Blocks
       /\ io[b] # "none" /\ dest[b] # buf[b].blk =>
             dest[b] \in lost /\ buf[b].blk \in lost \cup {NoBlock}
       /\ buf[b].dirt => buf[b].blk \in Blocks

(* The bitmaps stay; what the hash table holds has a block. *)
HashSound ==
    /\ DOMAIN pinned \subseteq hashed
    /\ \A b \in hashed : buf[b].blk \in Blocks

(* A buffer that is to be evicted has no user; one that has been taken out *)
(* has one, and nobody finds it.  When sync_dev() is past it, it is clean, *)
(* or its write was given up.                                              *)
EvictsUnused ==
    \A p \in Procs : pc[p] = "evict" => buf[bh[p]].count = 0 /\ ~buf[bh[p]].lock
TakenIsHidden ==
    \A p \in Procs : Takes(p) =>
       /\ bh[p] \notin hashed
       /\ \A q \in Procs : pc[q] \in Using /\ bh[q] = bh[p] => p = q
Spoilt(b) == buf[b].blk \in lost
TakenIsClean ==
    \A p \in Procs : Takes(p) =>
       /\ pc[p] = "take" \/ idx[p] > bh[p] =>
             Spoilt(bh[p]) \/ (~buf[bh[p]].lock /\ ~buf[bh[p]].dirt)
       /\ pc[p] = "syncio" /\ idx[p] = bh[p] /\ buf[bh[p]].dirt =>
             Spoilt(bh[p]) \/ io[bh[p]] \in {"write", "sent", "sentold"}
       /\ buf[bh[p]].blk = NoBlock => ~buf[bh[p]].lock

(* What a process holds while it asks for another block.                   *)
KeptSound ==
    \A p \in Procs :
       /\ Cardinality(Keeps(p)) <= MaxKept
       /\ want[p] = NoBlock => Keeps(p) = {}
       /\ want[p] # NoBlock => \A b \in Buffers : kept[p][b] # want[p]

(* One process at least is good for the others: it goes on to brelse(), or *)
(* waits for a buffer of the free list that nobody has found meanwhile.    *)
Good(q) == Active(q) /\ (pc[q] = "scanwait" => Unused(bh[q]))
SomeoneGood == (\E p \in Procs : want[p] # NoBlock) => \E q \in Procs : Good(q)

(* The search of getblk(): somebody else is good, or all buffers from the  *)
(* head of the list to this one are in use.                                *)
Searched(p, s) == /\ bh[p] \in s /\ free_list \in s
                  /\ \A b \in s \ {bh[p]} : buf[b].count # 0 /\ next_free[b] \in s
SearchSound ==
    /\ \A p \in Procs : pc[p] = "scan" =>
          \/ \E q \in Procs \ {p} : Good(q)
          \/ \E s \in SUBSET Buffers : Searched(p, s)
    /\ \A p \in Procs : pc[p] \in {"scanwait", "evict"} => bh[p] \notin DOMAIN pinned

(* Processes that wait for a buffer of the free list do not wait for one   *)
(* another in a ring: nobody had the buffer when the last one began.       *)
NoRing ==
    \A g \in SUBSET Procs :
        g # {} /\ (\A p \in g : pc[p] = "scanwait") =>
            \E p \in g : \A q \in g : kept[q][bh[p]] = NoBlock

IInv ==
    /\ Typed
    /\ pinned \in Bitmaps
    /\ OneRuns
    /\ Coherent
    /\ LocksSound
    /\ HashSound
    /\ EvictsUnused
    /\ TakenIsHidden
    /\ TakenIsClean
    /\ KeptSound
    /\ SearchSound
    /\ NoRing
    /\ SomeoneGood
    /\ CountsUsers
    /\ HolderKeepsBlock
    /\ OneBufferPerBlock
    /\ FreeListSound
-----------------------------------------------------------------------------
(* The free list as a ring; n and q are its links, f is its head. *)

Ring(l, n, q, f) ==
    /\ f \in l
    /\ \A b \in l : n[b] \in l /\ q[n[b]] = b /\ q[b] \in l /\ n[q[b]] = b
    /\ \A s \in SUBSET l : s # {} /\ (\A b \in s : n[b] \in s) => s = l

LEMMA FreeListIsRing == FreeListSound <=> Ring(OnFreeList, next_free, prev_free, free_list)
BY DEF FreeListSound, Ring, Closed

(* remove_from_queues() keeps a ring a ring, if another buffer is left. *)
LEMMA RingRemove ==
    ASSUME NEW n \in [Buffers -> Buffers], NEW q \in [Buffers -> Buffers],
           NEW l \in SUBSET Buffers, NEW f \in l, NEW b \in l, NEW c \in l \ {b},
           Ring(l, n, q, f)
    PROVE  Ring(l \ {b}, [n EXCEPT ![q[b]] = n[b]], [q EXCEPT ![n[b]] = q[b]],
                IF f = b THEN n[b] ELSE f)
<1> DEFINE m == [n EXCEPT ![q[b]] = n[b]]
           r == [q EXCEPT ![n[b]] = q[b]]
<1>1. n[b] # b /\ q[b] # b
  <2>1. SUFFICES ASSUME n[b] = b PROVE FALSE
    BY DEF Ring
  <2>2. {b} \in SUBSET l /\ {b} # {} /\ \A d \in {b} : n[d] \in {b}
    BY <2>1
  <2>3. {b} = l
    BY <2>2 DEF Ring
  <2> QED
    BY <2>3
<1>2. ASSUME NEW d \in l \ {b}
      PROVE  m[d] \in l \ {b} /\ r[m[d]] = d /\ r[d] \in l \ {b} /\ m[r[d]] = d
  BY <1>1 DEF Ring
<1>3. ASSUME NEW s \in SUBSET (l \ {b}), s # {}, \A d \in s : m[d] \in s
      PROVE  s = l \ {b}
  <2>1. CASE q[b] \in s
    <3>1. \A d \in s \cup {b} : n[d] \in s \cup {b}
      BY <2>1, <1>3 DEF Ring
    <3>2. s \cup {b} \in SUBSET l /\ s \cup {b} # {}
      OBVIOUS
    <3>3. s \cup {b} = l
      BY <3>1, <3>2 DEF Ring
    <3> QED
      BY <3>3
  <2>2. CASE q[b] \notin s
    <3>1. \A d \in s : n[d] \in s
      BY <2>2, <1>3
    <3>2. s = l
      BY <3>1, <1>3 DEF Ring
    <3> QED
      BY <3>2
  <2> QED
    BY <2>1, <2>2
<1>4. (IF f = b THEN n[b] ELSE f) \in l \ {b}
  BY <1>1 DEF Ring
<1> QED
  BY <1>2, <1>3, <1>4 DEF Ring

(* insert_into_queues() keeps a ring a ring. *)
LEMMA RingInsert ==
    ASSUME NEW n \in [Buffers -> Buffers], NEW q \in [Buffers -> Buffers],
           NEW l \in SUBSET Buffers, NEW f \in l, NEW b \in Buffers \ l,
           Ring(l, n, q, f)
    PROVE  Ring(l \cup {b}, [n EXCEPT ![b] = f, ![q[f]] = b],
                [q EXCEPT ![b] = q[f], ![f] = b], f)
<1> DEFINE m == [n EXCEPT ![b] = f, ![q[f]] = b]
           r == [q EXCEPT ![b] = q[f], ![f] = b]
<1>1. q[f] \in l /\ q[f] # b /\ f # b /\ n[q[f]] = f
  BY DEF Ring
<1>2. ASSUME NEW d \in l \cup {b}
      PROVE  m[d] \in l \cup {b} /\ r[m[d]] = d /\ r[d] \in l \cup {b} /\ m[r[d]] = d
  BY <1>1 DEF Ring
<1>3. ASSUME NEW s \in SUBSET (l \cup {b}), s # {}, \A d \in s : m[d] \in s
      PROVE  s = l \cup {b}
  <2>1. CASE b \in s
    <3>1. f \in s
      BY <2>1, <1>3, <1>1
    <3>2. \A d \in s \ {b} : n[d] \in s \ {b}
      BY <3>1, <1>1, <1>3 DEF Ring
    <3>3. s \ {b} = l
      BY <3>1, <3>2, <1>1 DEF Ring
    <3> QED
      BY <2>1, <3>3
  <2>2. CASE b \notin s
    <3>1. q[f] \notin s
      BY <2>2, <1>3, <1>1
    <3>2. \A d \in s : n[d] \in s
      BY <2>2, <3>1, <1>3
    <3>3. s = l
      BY <2>2, <3>2, <1>3 DEF Ring
    <3> QED
      BY <3>1, <3>3, <1>1
  <2> QED
    BY <2>1, <2>2
<1> QED
  BY <1>2, <1>3 DEF Ring

-----------------------------------------------------------------------------
LEMMA Constants ==
    /\ NR_BUFFERS \in Nat /\ NoBlock \notin Blocks
    /\ NoBuffer \notin Buffers /\ NoBuffer \in Int /\ Buffers \subseteq Int
    /\ \A b \in Buffers : b \in 0..NR_BUFFERS + 1 /\ b + 1 \in 0..NR_BUFFERS + 1
    /\ \A i \in 0..NR_BUFFERS + 1 : i \in Int
BY BufferAssumption DEF NoBuffer, Buffers

LEMMA FreeListKept ==
    ASSUME IInv, TakenOut' = TakenOut, UNCHANGED <<next_free, prev_free, free_list>>
    PROVE  FreeListSound'
BY DEF IInv, FreeListSound, OnFreeList, Closed

(* A process that becomes, or ceases to be, a user of buffer b. *)
LEMMA UsersAreFinite ==
    ASSUME NEW b PROVE IsFiniteSet(Users(b)) /\ Cardinality(Users(b)) \in Nat
BY BufferAssumption, FS_Subset, FS_CardinalityType DEF Users

LEMMA UserAdded ==
    ASSUME IInv, NEW p \in Procs, NEW b \in Buffers, p \notin Users(b),
           Users(b)' = Users(b) \cup {p}, buf'[b].count = buf[b].count + 1,
           \A c \in Buffers \ {b} : Users(c)' = Users(c) /\ buf'[c].count = buf[c].count,
           pinned' = pinned
    PROVE  CountsUsers'
<1>1. Cardinality(Users(b) \cup {p}) = Cardinality(Users(b)) + 1
  BY UsersAreFinite, FS_AddElement
<1>2. Cardinality(Users(b))' = Cardinality(Users(b)) + 1
  BY <1>1
<1>3. Cardinality(Users(b)) \in Nat /\ buf[b].count \in Int
  BY UsersAreFinite DEF IInv, Typed, Heads
<1>4. buf'[b].count = Cardinality(Users(b))' + (IF b \in DOMAIN pinned' THEN 1 ELSE 0)
  BY <1>2, <1>3 DEF IInv, CountsUsers
<1> QED
  BY <1>4 DEF IInv, CountsUsers

LEMMA UserRemoved ==
    ASSUME IInv, NEW p \in Procs, NEW b \in Buffers, p \in Users(b),
           Users(b)' = Users(b) \ {p}, buf'[b].count = buf[b].count - 1,
           \A c \in Buffers \ {b} : Users(c)' = Users(c) /\ buf'[c].count = buf[c].count,
           pinned' = pinned
    PROVE  CountsUsers'
<1>1. Cardinality(Users(b) \ {p}) = Cardinality(Users(b)) - 1
  BY UsersAreFinite, FS_RemoveElement
<1>2. Cardinality(Users(b))' = Cardinality(Users(b)) - 1
  BY <1>1
<1>3. Cardinality(Users(b)) \in Nat /\ buf[b].count \in Int
  BY UsersAreFinite DEF IInv, Typed, Heads
<1>4. buf'[b].count = Cardinality(Users(b))' + (IF b \in DOMAIN pinned' THEN 1 ELSE 0)
  BY <1>2, <1>3 DEF IInv, CountsUsers
<1> QED
  BY <1>4 DEF IInv, CountsUsers

LEMMA KeptStays ==
    ASSUME IInv, UNCHANGED <<want, kept>>
    PROVE  KeptSound'
BY DEF IInv, KeptSound, Keeps

LEMMA RingStays ==
    ASSUME IInv, \A q \in Procs : pc'[q] = "scanwait" =>
                    pc[q] = "scanwait" /\ bh'[q] = bh[q] /\ kept'[q] = kept[q]
    PROVE  NoRing'
<1>1. SUFFICES ASSUME NEW g \in SUBSET Procs, g # {}, \A p \in g : pc'[p] = "scanwait"
               PROVE  \E p \in g : \A q \in g : kept'[q][bh'[p]] = NoBlock
  BY DEF NoRing
<1>2. PICK p \in g : \A q \in g : kept[q][bh[p]] = NoBlock
  BY <1>1 DEF IInv, NoRing
<1> QED
  BY <1>1, <1>2

LEMMA GoodStays ==
    ASSUME IInv, UNCHANGED want, \A q \in Procs : Good(q) => Good(q)'
    PROVE  SomeoneGood'
BY DEF IInv, SomeoneGood

LEMMA GoodRemains ==
    ASSUME IInv, UNCHANGED <<want, bh>>,
           \A c \in Buffers : buf'[c].count = buf[c].count,
           \A q \in Procs : pc'[q] \in {"bufwait", "scanwait"} => pc'[q] = pc[q]
    PROVE  SomeoneGood'
<1>1. ASSUME NEW q \in Procs, Good(q) PROVE Good(q)'
  <2>1. pc'[q] = "scanwait" => bh[q] \in Buffers
    BY DEF IInv, Coherent
  <2> QED
    BY <1>1, <2>1 DEF Good, Active, Unused
<1> QED
  BY <1>1, GoodStays

LEMMA HolderStays ==
    ASSUME IInv, UNCHANGED <<hashed, want, bh, kept>>,
           \A c \in Buffers : buf'[c].blk = buf[c].blk,
           \A q \in Procs :
              pc'[q] \in {"hashwait", "got", "lockwait", "readwait", "failed", "hold"} =>
              pc[q] \in {"hashwait", "got", "lockwait", "readwait", "failed", "hold"}
    PROVE  HolderKeepsBlock'
<1>1. ASSUME NEW q \in Procs
      PROVE  \A b \in Keeps(q)' : buf'[b].blk = kept'[q][b] /\ b \in hashed'
  BY DEF IInv, HolderKeepsBlock, Keeps
<1>2. ASSUME NEW q \in Procs,
             pc'[q] \in {"hashwait", "got", "lockwait", "readwait", "failed", "hold"}
      PROVE  buf'[bh'[q]].blk = want'[q] /\ bh'[q] \in hashed'
  <2>1. buf[bh[q]].blk = want[q] /\ bh[q] \in hashed /\ bh[q] \in Buffers
    BY <1>2 DEF IInv, HolderKeepsBlock, Typed
  <2> QED
    BY <2>1
<1> QED
  BY <1>1, <1>2 DEF HolderKeepsBlock

LEMMA CountsStay ==
    ASSUME IInv, UNCHANGED <<pinned, kept>>,
           \A c \in Buffers : buf'[c].count = buf[c].count,
           \A q \in Procs : /\ pc'[q] \in Using <=> pc[q] \in Using
                            /\ pc[q] \in Using => bh'[q] = bh[q]
    PROVE  CountsUsers'
<1>1. \A c \in Buffers : Users(c)' = Users(c)
  BY DEF Users
<1> QED
  BY <1>1 DEF IInv, CountsUsers

LEMMA GoodNow ==
    ASSUME NEW p \in Procs, want'[p] # NoBlock, pc'[p] \notin {"bufwait", "scanwait"}
    PROVE  SomeoneGood'
BY DEF SomeoneGood, Good, Active

(* Nothing a step does to the heads and the transfers alone disturbs these. *)
LEMMA NobodyMoves ==
    ASSUME IInv, UNCHANGED <<hashed, next_free, prev_free, free_list, pinned, pc, want,
                             bh, kept, idx>>,
           \A c \in Buffers : buf'[c].count = buf[c].count
    PROVE  CountsUsers' /\ SearchSound' /\ SomeoneGood'
<1>1. \A b \in Buffers : Users(b)' = Users(b)
  BY DEF Users
<1>2. CountsUsers'
  BY <1>1 DEF IInv, CountsUsers
<1>3. \A q \in Procs : Good(q)' = Good(q)
  BY DEF IInv, Coherent, Good, Active, Unused
<1>4. \A p \in Procs : \A t \in SUBSET Buffers : Searched(p, t) => Searched(p, t)'
  BY DEF Searched
<1>5. SearchSound'
  BY <1>3, <1>4 DEF IInv, SearchSound
<1>6. SomeoneGood'
  BY <1>3 DEF IInv, SomeoneGood
<1> QED
  BY <1>2, <1>5, <1>6

LEMMA BuffersFinite == \A s \in SUBSET Buffers : IsFiniteSet(s)
<1>1. NR_BUFFERS \in Int /\ 1 \in Int
  BY Constants
<1>2. IsFiniteSet(1..NR_BUFFERS)
  BY <1>1, FS_Interval
<1> QED
  BY <1>2, FS_Subset DEF Buffers

(* Not all buffers can be held at a time by processes that ask for more.   *)
LEMMA OneIsNotKept ==
    ASSUME IInv
    PROVE  \E b \in Buffers \ DOMAIN pinned : \A q \in Procs : kept[q][b] = NoBlock
<1> DEFINE free == Buffers \ DOMAIN pinned
           T == Procs \X (1..MaxKept)
           owner(b) == CHOOSE q \in Procs : kept[q][b] # NoBlock
           H == [q \in Procs |-> CHOOSE h :
                    h \in Bijection(1..Cardinality(Keeps(q)), Keeps(q))]
           number(b) == CHOOSE i \in 1..MaxKept :
                    i \in 1..Cardinality(Keeps(owner(b))) /\ H[owner(b)][i] = b
           f == [b \in free |-> <<owner(b), number(b)>>]
<1>1. SUFFICES ASSUME \A b \in free : \E q \in Procs : kept[q][b] # NoBlock
               PROVE  FALSE
  OBVIOUS
<1>2. IsFiniteSet(Buffers) /\ IsFiniteSet(free)
  BY BuffersFinite
<1>3. IsFiniteSet(T) /\ Cardinality(T) = Cardinality(Procs) * MaxKept
  <2>1. IsFiniteSet(1..MaxKept) /\ Cardinality(1..MaxKept) = MaxKept
    BY BufferAssumption, FS_Interval
  <2> QED
    BY <2>1, BufferAssumption, FS_Product
<1>4. Cardinality(free) > Cardinality(T)
  <2>1. Cardinality(free) > MaxKept * Cardinality(Procs)
    BY BufferAssumption DEF IInv
  <2>2. Cardinality(Procs) \in Nat /\ MaxKept \in Nat
    BY BufferAssumption, FS_CardinalityType
  <2>3. MaxKept * Cardinality(Procs) = Cardinality(Procs) * MaxKept
    BY <2>2
  <2> QED
    BY <1>3, <2>1, <2>3
<1>5. ASSUME NEW q \in Procs, NEW b \in Keeps(q)
      PROVE  \E i \in 1..MaxKept : i \in 1..Cardinality(Keeps(q)) /\ H[q][i] = b
  <2>1. IsFiniteSet(Keeps(q))
    BY <1>2, FS_Subset DEF Keeps
  <2>2. /\ Cardinality(Keeps(q)) \in Nat
        /\ ExistsBijection(1..Cardinality(Keeps(q)), Keeps(q))
    BY <2>1, FS_CardinalityType
  <2>3. H[q] \in Bijection(1..Cardinality(Keeps(q)), Keeps(q))
    <3>1. \E h : h \in Bijection(1..Cardinality(Keeps(q)), Keeps(q))
      BY <2>2 DEF ExistsBijection
    <3> QED
      BY <3>1
  <2>4. PICK i \in 1..Cardinality(Keeps(q)) : H[q][i] = b
    <3>1. H[q] \in Surjection(1..Cardinality(Keeps(q)), Keeps(q))
      BY <2>3 DEF Bijection
    <3> HIDE DEF H
    <3> QED
      BY <3>1 DEF Surjection
  <2>5. Cardinality(Keeps(q)) <= MaxKept
    BY DEF IInv, KeptSound
  <2> HIDE DEF H
  <2> QED
    BY <2>2, <2>4, <2>5, BufferAssumption
<1>6. ASSUME NEW b \in free
      PROVE  owner(b) \in Procs /\ number(b) \in 1..MaxKept /\ H[owner(b)][number(b)] = b
  <2>1. owner(b) \in Procs /\ kept[owner(b)][b] # NoBlock
    BY <1>1
  <2>2. b \in Keeps(owner(b))
    BY <2>1 DEF Keeps
  <2> HIDE DEF owner, H
  <2> QED
    BY <1>5, <2>1, <2>2
<1> HIDE DEF owner, number, H
<1>7. f \in [free -> T]
  BY <1>6
<1>8. PICK b \in free, c \in free : b # c /\ f[b] = f[c]
  <2>1. Cardinality(T) < Cardinality(free)
    BY <1>4, <1>2, <1>3, FS_CardinalityType
  <2> HIDE DEF f, T, free
  <2> QED
    BY <1>2, <1>3, <1>7, <2>1, FS_PigeonHole
<1>9. owner(b) = owner(c) /\ number(b) = number(c)
  BY <1>8
<1> QED
  BY <1>6, <1>8, <1>9

(* A buffer without users is not pinned; one that is pinned has a count. *)
LEMMA NoUsers ==
    ASSUME IInv, NEW b \in Buffers
    PROVE  /\ buf[b].count = 0 => Users(b) = {} /\ b \notin DOMAIN pinned
           /\ Users(b) = {} /\ b \notin DOMAIN pinned => buf[b].count = 0
<1>1. buf[b].count = Cardinality(Users(b)) + (IF b \in DOMAIN pinned THEN 1 ELSE 0)
  BY DEF IInv, CountsUsers
<1>2. Cardinality(Users(b)) \in Nat /\ (Cardinality(Users(b)) = 0 <=> Users(b) = {})
  BY UsersAreFinite, FS_EmptySet
<1> QED
  BY <1>1, <1>2

(* What the steps do to the buffer heads. *)
LEMMA CountChanged ==
    ASSUME IInv, NEW b \in Buffers, NEW k \in Int, buf' = [buf EXCEPT ![b].count = k]
    PROVE  buf' \in [Buffers -> Heads]
<1> DEFINE h == [buf[b] EXCEPT !.count = k]
<1>1. buf \in [Buffers -> Heads] /\ buf[b] \in Heads
  BY DEF IInv, Typed
<1>2. h \in Heads
  BY <1>1 DEF Heads
<1> QED
  BY <1>1, <1>2

LEMMA Written ==
    ASSUME IInv, NEW b \in Buffers, WriteEnds(b)
    PROVE  /\ dest[b] \in Blocks
           /\ buf' \in [Buffers -> Heads]
           /\ \A c \in Buffers : buf'[c].blk = buf[c].blk /\ buf'[c].count = buf[c].count
           /\ \A c \in Buffers \ {b} : buf'[c] = buf[c]
           /\ ~buf'[b].lock /\ ~buf'[b].dirt
<1> DEFINE h == [buf[b] EXCEPT !.lock = FALSE, !.uptodate = TRUE, !.dirt = FALSE]
<1>1. io[b] # "none" /\ buf \in [Buffers -> Heads] /\ buf[b] \in Heads
  BY DEF IInv, Typed, WriteEnds
<1>2. dest[b] \in Blocks
  BY <1>1 DEF IInv, LocksSound
<1>3. /\ h \in Heads /\ h.blk = buf[b].blk /\ h.count = buf[b].count
      /\ ~h.lock /\ ~h.dirt
  BY <1>1 DEF Heads
<1>4. buf' = [buf EXCEPT ![b] = h]
  BY DEF WriteEnds
<1> QED
  BY <1>1, <1>2, <1>3, <1>4

(* A write is given up. *)
LEMMA GivenUp ==
    ASSUME IInv, NEW b \in Buffers, io[b] # "none",
           buf' = [buf EXCEPT ![b] = [@ EXCEPT !.lock = FALSE, !.uptodate = FALSE]]
    PROVE  /\ buf' \in [Buffers -> Heads]
           /\ \A c \in Buffers : buf'[c].blk = buf[c].blk /\ buf'[c].count = buf[c].count
           /\ \A c \in Buffers \ {b} : buf'[c] = buf[c]
           /\ ~buf'[b].lock /\ buf'[b].dirt = buf[b].dirt /\ buf'[b].data = buf[b].data
<1> DEFINE g == [buf[b] EXCEPT !.lock = FALSE, !.uptodate = FALSE]
<1>1. buf \in [Buffers -> Heads] /\ buf[b] \in Heads
  BY DEF IInv, Typed
<1>2. /\ g \in Heads /\ g.blk = buf[b].blk /\ g.count = buf[b].count
      /\ ~g.lock /\ g.dirt = buf[b].dirt /\ g.data = buf[b].data
  BY <1>1 DEF Heads
<1>3. buf' = [buf EXCEPT ![b] = g]
  OBVIOUS
<1> QED
  BY <1>1, <1>2, <1>3

LEMMA ReadIn ==
    ASSUME IInv, NEW b \in Buffers, ReadEnds(b)
    PROVE  /\ dest[b] \in Blocks
           /\ buf' \in [Buffers -> Heads]
           /\ \A c \in Buffers : buf'[c].blk = buf[c].blk /\ buf'[c].count = buf[c].count
           /\ \A c \in Buffers \ {b} : buf'[c] = buf[c]
           /\ ~buf'[b].lock /\ (buf'[b].dirt => buf[b].dirt)
<1> DEFINE h == [buf[b] EXCEPT !.lock = FALSE, !.uptodate = TRUE, !.dirt = FALSE,
                               !.data = disk[dest[b]]]
           g == [buf[b] EXCEPT !.lock = FALSE, !.uptodate = FALSE]
<1>1. io[b] # "none" /\ buf \in [Buffers -> Heads] /\ buf[b] \in Heads
  BY DEF IInv, Typed, ReadEnds
<1>2. dest[b] \in Blocks
  BY <1>1 DEF IInv, LocksSound
<1>3. disk[dest[b]] \in Copies
  BY <1>2 DEF IInv, Typed
<1>4. /\ h \in Heads /\ h.blk = buf[b].blk /\ h.count = buf[b].count
      /\ ~h.lock /\ ~h.dirt
  BY <1>1, <1>3 DEF Heads
<1>5. /\ g \in Heads /\ g.blk = buf[b].blk /\ g.count = buf[b].count
      /\ ~g.lock /\ g.dirt = buf[b].dirt
  BY <1>1 DEF Heads
<1>6. buf' = [buf EXCEPT ![b] = h] \/ buf' = [buf EXCEPT ![b] = g]
  BY DEF ReadEnds
<1>7. buf'[b] = h \/ buf'[b] = g
  BY <1>1, <1>6
<1>8. /\ \A c \in Buffers \ {b} : buf'[c] = buf[c]
      /\ buf' \in [Buffers -> Heads]
  BY <1>1, <1>4, <1>5, <1>6
<1> QED
  BY <1>2, <1>4, <1>5, <1>7, <1>8

LEMMA Modified ==
    ASSUME IInv, NEW p \in Procs, NEW b \in Buffers, Modify(p, b)
    PROVE  /\ b \in hashed /\ buf[b].blk \in Blocks
           /\ buf' \in [Buffers -> Heads]
           /\ \A c \in Buffers : buf'[c].blk = buf[c].blk /\ buf'[c].count = buf[c].count
           /\ \A c \in Buffers : buf'[c].lock = buf[c].lock
           /\ \A c \in Buffers \ {b} : buf'[c].dirt = buf[c].dirt
           /\ io' \in [Buffers -> {"none", "read", "write", "sent", "sentold"}]
           /\ \A c \in Buffers : io'[c] = io[c] \/ (io[c] = "sent" /\ io'[c] = "sentold")
<1>1. b \in hashed
  BY DEF IInv, HolderKeepsBlock, Keeps, HashSound, Modify, At
<1>2. buf[b].blk \in Blocks
  BY <1>1 DEF IInv, HashSound
<1>3. ASSUME NEW h \in Heads
      PROVE  LET g == [h EXCEPT !.data = "new", !.dirt = TRUE]
                 k == [h EXCEPT !.data = "old"]
             IN /\ g \in Heads /\ g.blk = h.blk /\ g.count = h.count /\ g.lock = h.lock
                /\ k \in Heads /\ k.blk = h.blk /\ k.count = h.count /\ k.lock = h.lock
                /\ k.dirt = h.dirt
  BY DEF Heads, Copies
<1>4. ASSUME NEW c \in Buffers
      PROVE  /\ buf'[c] \in Heads
             /\ buf'[c].blk = buf[c].blk /\ buf'[c].count = buf[c].count
             /\ buf'[c].lock = buf[c].lock
             /\ c # b => buf'[c].dirt = buf[c].dirt
  <2>1. buf[c] \in Heads /\ buf[b] \in Heads
    BY DEF IInv, Typed
  <2>2. buf'[c] = IF c = b THEN [buf[c] EXCEPT !.data = "new", !.dirt = TRUE]
                  ELSE IF buf[c].blk = buf[b].blk THEN [buf[c] EXCEPT !.data = "old"]
                  ELSE buf[c]
    BY DEF Modify
  <2> QED
    BY <1>3, <2>1, <2>2
<1>5. buf' \in [Buffers -> Heads]
  <2>1. buf' = [c \in Buffers |-> buf'[c]]
    BY DEF Modify
  <2> QED
    BY <1>4, <2>1
<1>6. ASSUME NEW c \in Buffers
      PROVE  io'[c] = io[c] \/ (io[c] = "sent" /\ io'[c] = "sentold")
  <2>1. io'[c] = IF dest[c] = buf[b].blk /\ io[c] = "sent" THEN "sentold" ELSE io[c]
    BY DEF Modify
  <2> QED
    BY <2>1
<1>7. io' \in [Buffers -> {"none", "read", "write", "sent", "sentold"}]
  <2>1. io' = [c \in Buffers |-> io'[c]]
    BY DEF Modify
  <2> QED
    BY <1>6, <2>1 DEF IInv, Typed
<1> QED
  BY <1>1, <1>2, <1>4, <1>5, <1>6, <1>7

LEMMA Started ==
    ASSUME IInv, NEW b \in Buffers, NEW rw \in {"read", "write"}, Start(b, rw)
    PROVE  /\ buf' \in [Buffers -> Heads]
           /\ \A c \in Buffers : buf'[c].blk = buf[c].blk /\ buf'[c].count = buf[c].count
           /\ \A c \in Buffers : buf'[c].dirt = buf[c].dirt
           /\ \A c \in Buffers \ {b} : buf'[c].lock = buf[c].lock
           /\ buf'[b].lock
           /\ io' = [io EXCEPT ![b] = rw] /\ dest' = [dest EXCEPT ![b] = buf[b].blk]
<1> DEFINE h == [buf[b] EXCEPT !.lock = TRUE]
<1>1. buf \in [Buffers -> Heads] /\ buf' = [buf EXCEPT ![b] = h] /\ buf[b] \in Heads
  BY DEF IInv, Typed, Start
<1>2. /\ h \in Heads /\ h.blk = buf[b].blk /\ h.count = buf[b].count
      /\ h.dirt = buf[b].dirt /\ h.lock
  BY <1>1 DEF Heads
<1> QED
  BY <1>1, <1>2 DEF Start

(* Where nobody else is good, no buffer is taken out, and only what is     *)
(* held, or holds a bitmap, has a count.                                   *)
LEMMA NobodyElse ==
    ASSUME IInv, NEW p \in Procs, pc[p] = "scan",
           \A q \in Procs \ {p} : ~Good(q)
    PROVE  /\ TakenOut = {}
           /\ \A b \in Buffers : buf[b].count # 0 =>
                 b \in DOMAIN pinned \/ \E q \in Procs : kept[q][b] # NoBlock
<1>1. ASSUME NEW q \in Procs, pc[q] \in Using, bh[q] # NoBuffer
      PROVE  FALSE
  <2>1. want[q] # NoBlock
    BY <1>1, Constants DEF IInv, Coherent, Using
  <2> QED
    BY <1>1, <2>1 DEF Good, Active, Using
<1>2. TakenOut = {}
  BY <1>1 DEF TakenOut, Takes, Using
<1>3. ASSUME NEW b \in Buffers, \A q \in Procs : kept[q][b] = NoBlock
      PROVE  Users(b) = {}
  BY <1>1, <1>3, Constants DEF Users
<1> QED
  BY <1>2, <1>3, NoUsers

(* The buffer a process takes out was on the free list, with others.       *)
LEMMA OthersOnFreeList ==
    ASSUME IInv
    PROVE  /\ DOMAIN pinned # {} /\ DOMAIN pinned \subseteq OnFreeList
           /\ \A b \in Buffers : Users(b) = {} => b \in OnFreeList
<1>1. DOMAIN pinned # {} /\ DOMAIN pinned \subseteq Buffers
  BY BufferAssumption DEF IInv
<1>2. \A p \in Procs : Takes(p) => p \in Users(bh[p]) /\ bh[p] \notin DOMAIN pinned
  BY DEF IInv, TakenIsHidden, HashSound, Takes, Users, Using
<1> QED
  BY <1>1, <1>2 DEF OnFreeList, TakenOut

(* Nobody holds for later the buffer of the block that he asks for. *)
LEMMA KeptIsOther ==
    ASSUME IInv, NEW p \in Procs, NEW b \in Buffers, want[p] # NoBlock, buf[b].blk = want[p]
    PROVE  kept[p][b] = NoBlock
<1>1. kept[p][b] # want[p]
  BY DEF IInv, KeptSound
<1>2. b \in Keeps(p) => buf[b].blk = kept[p][b]
  BY DEF IInv, HolderKeepsBlock
<1> QED
  BY <1>1, <1>2 DEF Keeps

(* A process at work has not set aside the buffer it works with. *)
LEMMA NotKept ==
    ASSUME IInv, NEW p \in Procs, bh[p] \in Buffers,
           Takes(p) \/ pc[p] \in {"hashwait", "got", "lockwait", "readwait", "failed", "hold"}
    PROVE  /\ kept[p][bh[p]] = NoBlock
           /\ Takes(p) => \A q \in Procs : kept[q][bh[p]] = NoBlock
<1>1. CASE Takes(p)
  BY <1>1 DEF IInv, TakenIsHidden, HolderKeepsBlock, Keeps
<1>2. CASE ~Takes(p)
  <2>1. buf[bh[p]].blk = want[p] /\ want[p] \in Blocks
    BY <1>2 DEF IInv, HolderKeepsBlock, Coherent
  <2>2. want[p] # NoBlock
    BY <2>1, Constants
  <2> QED
    BY <1>2, <2>1, <2>2, KeptIsOther
<1> QED
  BY <1>1, <1>2

(* The buffer that Take() puts back: nobody else has it. *)
LEMMA PutBack ==
    ASSUME IInv, NEW p \in Procs, NEW x, pc[p] = "take", Take(p),
           x = IF Unbeaten(want[p]) THEN want[p] ELSE NoBlock
    PROVE  \E b \in Buffers :
              /\ b = bh[p] /\ b \notin hashed /\ Users(b) = {p} /\ buf[b].count = 1
              /\ x \in Blocks \cup {NoBlock}
              /\ buf' = [buf EXCEPT ![b] = buf'[b]]
              /\ buf'[b] \in Heads /\ buf'[b].blk = x /\ ~buf'[b].dirt
              /\ buf'[b].lock = buf[b].lock
              /\ buf'[b].count = IF x = NoBlock THEN 0 ELSE 1
              /\ buf[b].lock => dest[b] \in lost /\ Spoilt(b)
              /\ lost \subseteq lost'
              /\ buf[b].lock => x \in lost' \cup {NoBlock}
<1>1. PICK b \in Buffers : b = bh[p]
  BY DEF IInv, Coherent
<1>2. Takes(p) /\ x \in Blocks \cup {NoBlock}
  BY <1>1, Constants DEF IInv, Typed, Takes
<1>3. b \notin hashed /\ Users(b) = {p}
  BY <1>1, <1>2, NotKept DEF IInv, TakenIsHidden, Users, Using
<1>4. buf[b].count = 1
  <2>1. b \notin DOMAIN pinned
    BY <1>3 DEF IInv, HashSound
  <2>2. Cardinality(Users(b)) = 1
    BY <1>3, FS_Singleton
  <2> QED
    BY <2>1, <2>2 DEF IInv, CountsUsers
<1>5. buf[b].lock => dest[b] \in lost /\ Spoilt(b)
  <2>1. buf[b].lock => Spoilt(b)
    BY <1>1, <1>2 DEF IInv, TakenIsClean
  <2> QED
    BY <2>1 DEF IInv, LocksSound, Spoilt
<1> DEFINE h == [blk |-> x, count |-> IF x = NoBlock THEN 0 ELSE buf[b].count,
                 dirt |-> FALSE, uptodate |-> FALSE, lock |-> buf[b].lock, data |-> "old"]
<1>6. buf' = [buf EXCEPT ![b] = h] /\ buf \in [Buffers -> Heads]
  BY <1>1 DEF Take, IInv, Typed
<1>7. /\ h \in Heads /\ h.blk = x /\ h.lock = buf[b].lock /\ ~h.dirt
      /\ h.count = IF x = NoBlock THEN 0 ELSE 1
  <2>1. buf[b] \in Heads /\ x \in Blocks \cup {NoBlock}
    BY <1>2, <1>6
  <2>2. buf[b].lock \in BOOLEAN
    BY <2>1 DEF Heads
  <2> QED
    BY <1>3, <1>4, <2>1, <2>2 DEF Heads, Copies
<1>8. buf'[b] = h
  BY <1>6
<1>9. lost \subseteq lost' /\ (buf[b].lock => x \in lost' \cup {NoBlock})
  <2>1. lost' = IF buf[b].lock THEN lost \cup ({x} \cap Blocks) ELSE lost
    BY <1>1 DEF Take
  <2> QED
    BY <1>2, <2>1
<1> QED
  BY <1>1, <1>2, <1>3, <1>4, <1>5, <1>6, <1>7, <1>8, <1>9

(* A transfer begins. *)
LEMMA LocksAtStart ==
    ASSUME IInv, NEW b \in Buffers, NEW rw \in {"read", "write"}, Start(b, rw),
           buf[b].blk \in Blocks, UNCHANGED lost
    PROVE  LocksSound'
<1>1. ASSUME NEW c \in Buffers, c # b
      PROVE  /\ buf'[c].lock = buf[c].lock /\ buf'[c].blk = buf[c].blk
             /\ buf'[c].dirt = buf[c].dirt /\ io'[c] = io[c] /\ dest'[c] = dest[c]
  BY <1>1, Started DEF IInv, Typed
<1>2. /\ buf'[b].lock /\ buf'[b].blk = buf[b].blk /\ io'[b] = rw /\ dest'[b] = buf[b].blk
  BY Started DEF IInv, Typed
<1> QED
  BY <1>1, <1>2 DEF IInv, LocksSound

(* sync_dev() is past the buffer that has been taken out. *)
LEMMA PastIsClean ==
    ASSUME IInv, NEW p \in Procs, Takes(p), pc[p] = "sync",
           idx[p] > bh[p] \/ bh[p] \notin Attention(p)
    PROVE  Spoilt(bh[p]) \/ (~buf[bh[p]].lock /\ ~buf[bh[p]].dirt)
<1>1. bh[p] \in Buffers /\ bh[p] # NoBuffer
  BY DEF IInv, Typed, Takes
<1>2. CASE idx[p] > bh[p]
  BY <1>2 DEF IInv, TakenIsClean
<1>3. CASE bh[p] >= idx[p] /\ bh[p] \notin Attention(p)
  <2>1. buf[bh[p]].blk = NoBlock \/ (~buf[bh[p]].lock /\ ~buf[bh[p]].dirt)
    BY <1>1, <1>3 DEF Attention
  <2>2. buf[bh[p]].blk = NoBlock => ~buf[bh[p]].lock /\ ~buf[bh[p]].dirt
    BY <1>1, Constants DEF IInv, TakenIsClean, LocksSound
  <2> QED
    BY <2>1, <2>2
<1>4. idx[p] > bh[p] \/ bh[p] >= idx[p]
  <2>1. idx[p] \in Int /\ bh[p] \in Int
    BY <1>1, Constants DEF IInv, Typed
  <2> QED
    BY <2>1
<1> QED
  BY <1>2, <1>3, <1>4

LEMMA BelowIsPast ==
    ASSUME IInv, NEW p \in Procs, NEW b \in Buffers, \A c \in Attention(p) : b <= c,
           Takes(p), b > bh[p]
    PROVE  bh[p] \notin Attention(p)
<1>1. bh[p] \in Int /\ b \in Int
  BY Constants DEF IInv, Typed, Takes
<1> QED
  BY <1>1

LEMMA CleanAtStart ==
    ASSUME IInv, NEW p \in Procs, NEW b \in Buffers, buf[b].dirt, Start(b, "write"),
           pc[p] \in {"sync", "syncwait"}, pc' = [pc EXCEPT ![p] = "syncio"],
           idx' = [idx EXCEPT ![p] = b], UNCHANGED <<bh, lost>>,
           Takes(p) /\ b > bh[p] =>
              Spoilt(bh[p]) \/ (~buf[bh[p]].lock /\ ~buf[bh[p]].dirt)
    PROVE  TakenIsClean'
<1>1. ASSUME NEW q \in Procs, Takes(q)'
      PROVE  /\ Takes(q) /\ bh'[q] = bh[q] /\ bh[q] \in Buffers
             /\ q # p => pc'[q] = pc[q] /\ idx'[q] = idx[q]
             /\ q = p => pc'[q] = "syncio" /\ idx'[q] = b
  BY <1>1 DEF IInv, Typed, Takes
<1>2. ASSUME NEW c \in Buffers
      PROVE  /\ buf'[c].dirt = buf[c].dirt /\ buf'[c].blk = buf[c].blk
             /\ c # b => buf'[c].lock = buf[c].lock /\ io'[c] = io[c]
             /\ c = b => io'[c] = "write"
  BY Started DEF IInv, Typed
<1>3. ASSUME NEW q \in Procs, Takes(q)', pc'[q] = "take" \/ idx'[q] > bh'[q]
      PROVE  Spoilt(bh[q]) \/ (~buf[bh[q]].lock /\ ~buf[bh[q]].dirt)
  BY <1>1, <1>3 DEF IInv, TakenIsClean
<1>4. ASSUME NEW q \in Procs, Takes(q)', pc'[q] = "take" \/ idx'[q] > bh'[q]
      PROVE  Spoilt(bh[q])' \/ (~buf'[bh'[q]].lock /\ ~buf'[bh'[q]].dirt)
  BY <1>1, <1>2, <1>3, <1>4 DEF Spoilt
<1>5. ASSUME NEW q \in Procs, Takes(q)', pc'[q] = "syncio", idx'[q] = bh'[q], buf'[bh'[q]].dirt
      PROVE  Spoilt(bh[q])' \/ io'[bh'[q]] \in {"write", "sent", "sentold"}
  BY <1>1, <1>2, <1>5 DEF IInv, TakenIsClean, Spoilt
<1>6. ASSUME NEW q \in Procs, Takes(q)', buf'[bh'[q]].blk = NoBlock
      PROVE  ~buf'[bh'[q]].lock
  <2>1. buf[b].blk # NoBlock
    BY Constants DEF IInv, LocksSound
  <2> QED
    BY <1>1, <1>2, <1>6, <2>1 DEF IInv, TakenIsClean
<1> QED
  BY <1>4, <1>5, <1>6 DEF TakenIsClean

(* The transfers and the programs that change a block leave the rest. *)
LEMMA RestStays ==
    ASSUME IInv, UNCHANGED <<hashed, next_free, prev_free, free_list, pinned, pc, want,
                             bh, kept, idx>>,
           \A c \in Buffers : /\ buf'[c].blk = buf[c].blk /\ buf'[c].count = buf[c].count
                              /\ buf'[c].lock => buf[c].lock,
           Typed', LocksSound', TakenIsClean'
    PROVE  IInv'
<1>1. OneRuns' /\ Coherent'
  BY DEF IInv, OneRuns, Coherent
<1>2. HashSound' /\ OneBufferPerBlock'
  BY DEF IInv, Typed, HashSound, OneBufferPerBlock
<1>3. EvictsUnused'
  BY DEF IInv, Coherent, EvictsUnused
<1>4. TakenIsHidden' /\ TakenOut' = TakenOut
  BY DEF IInv, TakenIsHidden, Takes, TakenOut
<1>5. SearchSound' /\ CountsUsers' /\ SomeoneGood'
  BY NobodyMoves
<1>6. HolderKeepsBlock'
  BY HolderStays
<1>7. FreeListSound'
  BY <1>4, FreeListKept
<1>8. KeptSound' /\ NoRing'
  BY KeptStays, RingStays
<1> QED
  BY <1>1, <1>2, <1>3, <1>4, <1>5, <1>6, <1>7, <1>8 DEF IInv

LEMMA AskIInv ==
    ASSUME IInv, NEW p \in Procs, NEW x \in Blocks, Ask(p, x)
    PROVE  IInv'
<1>1. /\ pc[p] \in {"idle", "hold"} /\ MayRun(p) /\ pc' = [pc EXCEPT ![p] = "find"]
      /\ want' = [want EXCEPT ![p] = x] /\ x # NoBlock
      /\ kept' = [kept EXCEPT ![p] = kept'[p]]
      /\ UNCHANGED <<buf, hashed, next_free, prev_free, free_list, io, dest, disk,
                     refetched, late, lost, pinned, bh, idx>>
  BY Constants DEF IInv, Typed, Ask, At, Goto, cache, device, races
<1>19. \/ pc[p] = "idle" /\ kept' = kept /\ Keeps(p) = {}
       \/ /\ pc[p] = "hold" /\ bh[p] \in Buffers /\ want[p] \in Blocks
          /\ Cardinality(Keeps(p)) < MaxKept /\ x # want[p]
          /\ \A b \in Buffers : kept[p][b] # x
          /\ kept'[p] = [kept[p] EXCEPT ![bh[p]] = want[p]]
          /\ buf[bh[p]].blk = want[p] /\ bh[p] \in hashed
  <2>1. CASE At(p, "idle") /\ UNCHANGED kept
    BY <2>1 DEF At, IInv, Coherent, KeptSound
  <2>2. CASE At(p, "hold")
    <3>1. kept' = [kept EXCEPT ![p] = [kept[p] EXCEPT ![bh[p]] = want[p]]]
      BY <2>2 DEF Ask, At
    <3>2. bh[p] \in Buffers /\ want[p] \in Blocks
      BY <2>2 DEF At, IInv, Coherent
    <3>3. buf[bh[p]].blk = want[p] /\ bh[p] \in hashed
      BY <2>2 DEF At, IInv, HolderKeepsBlock
    <3>4. kept'[p] = [kept[p] EXCEPT ![bh[p]] = want[p]]
      BY <3>1 DEF IInv, Typed
    <3> QED
      BY <2>2, <3>2, <3>3, <3>4 DEF Ask, At
  <2> QED
    BY <2>1, <2>2 DEF Ask
<1>20. kept'[p] \in [Buffers -> Blocks \cup {NoBlock}] /\ kept[p] \in [Buffers -> Blocks \cup {NoBlock}]
  <2>1. kept[p] \in [Buffers -> Blocks \cup {NoBlock}]
    BY DEF IInv, Typed
  <2> QED
    BY <1>19, <2>1
<1>21. \A b \in Buffers : kept'[p][b] = IF pc[p] = "hold" /\ b = bh[p] THEN want[p]
                                       ELSE kept[p][b]
  BY <1>19, <1>20
<1>22. \A q \in Procs \ {p} : kept'[q] = kept[q]
  BY <1>1 DEF IInv, Typed
<1>2. Typed'
  <2>1. kept' \in [Procs -> [Buffers -> Blocks \cup {NoBlock}]]
    BY <1>1, <1>20 DEF IInv, Typed
  <2> QED
    BY <1>1, <2>1, Constants DEF IInv, Typed, Running
<1>3. OneRuns'
  BY <1>1, Constants DEF IInv, Typed, OneRuns, MayRun, Running
<1>4. Coherent'
  BY <1>1, Constants DEF IInv, Typed, Coherent
<1>5. LocksSound'
  BY <1>1, Constants DEF IInv, Typed, LocksSound
<1>6. HashSound'
  BY <1>1, Constants DEF IInv, Typed, HashSound
<1>7. EvictsUnused'
  BY <1>1, Constants DEF IInv, Typed, EvictsUnused, Coherent, MayRun, Running
<1>8. TakenIsHidden'
  BY <1>1, Constants DEF IInv, Typed, TakenIsHidden, Takes, Using
<1>9. TakenIsClean'
  BY <1>1, Constants DEF IInv, Typed, TakenIsClean, Spoilt, Takes
<1>10. SearchSound'
  BY <1>1, Constants DEF IInv, Typed, SearchSound, MayRun, Running
<1>11. CountsUsers'
  <2>1. ASSUME NEW b \in Buffers PROVE Users(b)' = Users(b)
    <3>1. ASSUME NEW q \in Procs \ {p} PROVE q \in Users(b)' <=> q \in Users(b)
      BY <1>1, <1>22 DEF IInv, Typed, Users
    <3>2. p \in Users(b)' <=> p \in Users(b)
      BY <1>1, <1>19, <1>21, Constants DEF IInv, Typed, Users, Using
    <3> QED
      BY <3>1, <3>2 DEF Users
  <2> QED
    BY <1>1, <2>1 DEF IInv, CountsUsers
<1>12. HolderKeepsBlock'
  <2>1. ASSUME NEW b \in Keeps(p)' PROVE buf[b].blk = kept'[p][b] /\ b \in hashed
    BY <1>19, <1>21, <2>1 DEF IInv, HolderKeepsBlock, Keeps
  <2>2. ASSUME NEW q \in Procs \ {p}
        PROVE  /\ pc'[q] = pc[q] /\ want'[q] = want[q] /\ Keeps(q)' = Keeps(q)
               /\ kept'[q] = kept[q]
    BY <1>1, <1>22 DEF IInv, Typed, Keeps
  <2>3. pc'[p] = "find"
    BY <1>1 DEF IInv, Typed
  <2> QED
    BY <1>1, <2>1, <2>2, <2>3 DEF IInv, HolderKeepsBlock
<1>13. OneBufferPerBlock'
  BY <1>1, Constants DEF IInv, Typed, OneBufferPerBlock
<1>14. TakenOut' = TakenOut
  BY <1>1, Constants DEF IInv, Typed, TakenOut, Takes
<1>15. SomeoneGood'
  BY <1>1, GoodNow DEF IInv, Typed
<1>16. FreeListSound'
  BY <1>1, <1>14, FreeListKept
<1>17. KeptSound'
  <2>1. ASSUME NEW q \in Procs \ {p}
        PROVE  Keeps(q)' = Keeps(q) /\ want'[q] = want[q] /\ kept'[q] = kept[q]
    BY <1>1, <1>22 DEF IInv, Typed, Keeps
  <2>2. want'[p] = x
    BY <1>1 DEF IInv, Typed
  <2>3. \A b \in Buffers : kept'[p][b] # x
    <3>1. pc[p] = "idle" => \A b \in Buffers : kept[p][b] # x
      BY <1>1, <1>19 DEF Keeps
    <3> QED
      BY <1>19, <1>21, <3>1
  <2>4. Cardinality(Keeps(p))' <= MaxKept
    <3>1. CASE pc[p] = "idle"
      BY <3>1, <1>19 DEF IInv, KeptSound, Keeps
    <3>2. CASE pc[p] = "hold"
      <4>1. Keeps(p)' = Keeps(p) \cup {bh[p]}
        BY <3>2, <1>19, <1>21, Constants DEF Keeps
      <4>2. IsFiniteSet(Keeps(p))
        BY BuffersFinite DEF Keeps
      <4>3. Cardinality(Keeps(p) \cup {bh[p]}) <= Cardinality(Keeps(p)) + 1
        <5>1. Cardinality(Keeps(p)) \in Nat
          BY <4>2, FS_CardinalityType
        <5> QED
          BY <4>2, <5>1, FS_AddElement, SMTT(60)
      <4>4. Cardinality(Keeps(p)) \in Nat /\ Cardinality(Keeps(p)) < MaxKept
        BY <3>2, <1>19, <4>2, FS_CardinalityType
      <4>5. Cardinality(Keeps(p))' <= Cardinality(Keeps(p)) + 1
        BY <4>1, <4>3
      <4>6. Cardinality(Keeps(p))' \in Nat
        <5>1. IsFiniteSet(Keeps(p) \cup {bh[p]})
          BY <4>2, FS_AddElement
        <5>2. Cardinality(Keeps(p) \cup {bh[p]}) \in Nat
          BY <5>1, FS_CardinalityType
        <5> QED
          BY <4>1, <5>2
      <4> QED
        BY <4>4, <4>5, <4>6, BufferAssumption
    <3> QED
      BY <1>1, <3>1, <3>2
  <2> QED
    BY <1>1, <2>1, <2>2, <2>3, <2>4 DEF IInv, KeptSound
<1>18. NoRing'
  BY <1>1, RingStays DEF IInv, Typed
<1> QED
  BY <1>2, <1>3, <1>4, <1>5, <1>6, <1>7, <1>8, <1>9, <1>10, <1>11, <1>12,
     <1>13, <1>16, <1>15, <1>1, <1>17, <1>18 DEF IInv

LEMMA ReadDoneIInv ==
    ASSUME IInv, NEW p \in Procs, ReadDone(p)
    PROVE  IInv'
<1>1. /\ pc[p] = "readwait" /\ MayRun(p) /\ bh[p] \in Buffers
      /\ pc' = [pc EXCEPT ![p] = pc'[p]] /\ pc'[p] \in {"hold", "failed"}
      /\ UNCHANGED <<buf, hashed, next_free, prev_free, free_list, io, dest, disk,
                     refetched, late, lost, pinned, want, bh, kept, idx>>
  BY DEF IInv, Typed, Coherent, ReadDone, At, Goto, cache, device, races
<1>2. Typed'
  BY <1>1, Constants DEF IInv, Typed, Heads, Copies, Running, Sleeping
<1>3. OneRuns'
  BY <1>1, Constants DEF IInv, Typed, OneRuns, MayRun, Running
<1>4. Coherent'
  BY <1>1, Constants DEF IInv, Typed, Coherent
<1>5. LocksSound'
  BY <1>1, Constants DEF IInv, Typed, LocksSound
<1>6. HashSound'
  BY <1>1, Constants DEF IInv, Typed, HashSound
<1>7. EvictsUnused'
  BY <1>1, Constants DEF IInv, Typed, EvictsUnused, Coherent, MayRun, Running
<1>8. TakenIsHidden'
  BY <1>1, Constants DEF IInv, Typed, TakenIsHidden, Takes, Using
<1>9. TakenIsClean'
  BY <1>1, Constants DEF IInv, Typed, TakenIsClean, Spoilt, Takes
<1>10. SearchSound'
  BY <1>1, Constants DEF IInv, Typed, SearchSound, MayRun, Running
<1>11. CountsUsers'
  BY <1>1, CountsStay DEF IInv, Typed, Using
<1>12. HolderKeepsBlock'
  BY <1>1, Constants DEF IInv, Typed, HolderKeepsBlock, Keeps
<1>13. OneBufferPerBlock'
  BY <1>1, Constants DEF IInv, Typed, OneBufferPerBlock
<1>14. TakenOut' = TakenOut
  BY <1>1, Constants DEF IInv, Typed, TakenOut, Takes
<1>15. SomeoneGood'
  BY <1>1, GoodStays DEF IInv, Typed, Good, Active, Unused
<1>16. FreeListSound'
  BY <1>1, <1>14, FreeListKept
<1>17. KeptSound'
  BY <1>1, KeptStays
<1>18. NoRing'
  BY <1>1, RingStays DEF IInv, Typed
<1> QED
  BY <1>2, <1>3, <1>4, <1>5, <1>6, <1>7, <1>8, <1>9, <1>10, <1>11, <1>12,
     <1>13, <1>16, <1>15, <1>1, <1>17, <1>18 DEF IInv

LEMMA SysSyncIInv ==
    ASSUME IInv, NEW p \in Procs, SysSync(p)
    PROVE  IInv'
<1>1. /\ pc[p] = "idle" /\ MayRun(p) /\ pc' = [pc EXCEPT ![p] = "sync"]
      /\ idx' = [idx EXCEPT ![p] = 1]
      /\ want[p] = NoBlock /\ bh[p] = NoBuffer
      /\ UNCHANGED <<buf, hashed, next_free, prev_free, free_list, io, dest, disk,
                     refetched, late, lost, pinned, want, bh, kept>>
  BY DEF IInv, Typed, Coherent, SysSync, At, Goto, cache, device, races
<1>2. Typed'
  BY <1>1, Constants DEF IInv, Typed, Heads, Copies, Running, Sleeping
<1>3. OneRuns'
  BY <1>1, Constants DEF IInv, Typed, OneRuns, MayRun, Running
<1>4. Coherent'
  BY <1>1, Constants DEF IInv, Typed, Coherent
<1>5. LocksSound'
  BY <1>1, Constants DEF IInv, Typed, LocksSound
<1>6. HashSound'
  BY <1>1, Constants DEF IInv, Typed, HashSound
<1>7. EvictsUnused'
  BY <1>1, Constants DEF IInv, Typed, EvictsUnused, Coherent, MayRun, Running
<1>8. TakenIsHidden'
  BY <1>1, Constants DEF IInv, Typed, TakenIsHidden, Takes, Using
<1>9. TakenIsClean'
  BY <1>1, Constants DEF IInv, Typed, TakenIsClean, Spoilt, Takes
<1>10. SearchSound'
  BY <1>1, Constants DEF IInv, Typed, SearchSound, MayRun, Running
<1>11. CountsUsers'
  BY <1>1, Constants DEF IInv, Typed, CountsUsers, Users, Using
<1>12. HolderKeepsBlock'
  BY <1>1, Constants DEF IInv, Typed, HolderKeepsBlock, Keeps
<1>13. OneBufferPerBlock'
  BY <1>1, Constants DEF IInv, Typed, OneBufferPerBlock
<1>14. TakenOut' = TakenOut
  BY <1>1, Constants DEF IInv, Typed, TakenOut, Takes
<1>15. SomeoneGood'
  BY <1>1, GoodStays DEF IInv, Typed, Good, Active, Unused
<1>16. FreeListSound'
  BY <1>1, <1>14, FreeListKept
<1>17. KeptSound'
  BY <1>1, KeptStays
<1>18. NoRing'
  BY <1>1, RingStays DEF IInv, Typed
<1> QED
  BY <1>2, <1>3, <1>4, <1>5, <1>6, <1>7, <1>8, <1>9, <1>10, <1>11, <1>12,
     <1>13, <1>16, <1>15, <1>1, <1>17, <1>18 DEF IInv

LEMMA SyncIoDoneIInv ==
    ASSUME IInv, NEW p \in Procs, SyncIoDone(p)
    PROVE  IInv'
<1>1. /\ pc[p] = "syncio" /\ MayRun(p) /\ pc' = [pc EXCEPT ![p] = "sync"]
      /\ idx[p] \in Buffers /\ ~buf[idx[p]].lock
      /\ idx' = [idx EXCEPT ![p] = idx[p] + 1] /\ idx[p] + 1 \in 0..NR_BUFFERS + 1
      /\ UNCHANGED <<buf, hashed, next_free, prev_free, free_list, io, dest, disk,
                     refetched, late, lost, pinned, want, bh, kept>>
  BY Constants DEF IInv, Typed, Coherent, SyncIoDone, At, Awake, Goto, cache,
     device, races, Buffers
<1>2. Typed'
  BY <1>1, Constants DEF IInv, Typed, Heads, Copies, Running, Sleeping
<1>3. OneRuns'
  BY <1>1, Constants DEF IInv, Typed, OneRuns, MayRun, Running
<1>4. Coherent'
  BY <1>1, Constants DEF IInv, Typed, Coherent
<1>5. LocksSound'
  BY <1>1, Constants DEF IInv, Typed, LocksSound
<1>6. HashSound'
  BY <1>1, Constants DEF IInv, Typed, HashSound
<1>7. EvictsUnused'
  BY <1>1, Constants DEF IInv, Typed, EvictsUnused, Coherent, MayRun, Running
<1>8. TakenIsHidden'
  BY <1>1, Constants DEF IInv, Typed, TakenIsHidden, Takes, Using
<1>9. TakenIsClean'
  <2>0. io[idx[p]] = "none"
    BY <1>1 DEF IInv, LocksSound
  <2>1. idx[p] + 1 > bh[p] => idx[p] > bh[p] \/ idx[p] = bh[p]
    <3>1. idx[p] \in Int /\ bh[p] \in Int
      BY <1>1, Constants DEF IInv, Typed
    <3> QED
      BY <3>1
  <2>2. Takes(p) /\ idx[p] + 1 > bh[p] =>
           Spoilt(bh[p]) \/ (~buf[bh[p]].lock /\ ~buf[bh[p]].dirt)
    BY <1>1, <2>0, <2>1, Constants DEF IInv, Typed, Takes, TakenIsClean
  <2> QED
    BY <1>1, <2>2 DEF IInv, Typed, Takes, TakenIsClean, Spoilt
<1>10. SearchSound'
  BY <1>1, Constants DEF IInv, Typed, SearchSound, MayRun, Running
<1>11. CountsUsers'
  BY <1>1, CountsStay DEF IInv, Typed, Using
<1>12. HolderKeepsBlock'
  BY <1>1, Constants DEF IInv, Typed, HolderKeepsBlock, Keeps
<1>13. OneBufferPerBlock'
  BY <1>1, Constants DEF IInv, Typed, OneBufferPerBlock
<1>14. TakenOut' = TakenOut
  BY <1>1, Constants DEF IInv, Typed, TakenOut, Takes
<1>15. SomeoneGood'
  BY <1>1, GoodStays DEF IInv, Typed, Good, Active, Unused
<1>16. FreeListSound'
  BY <1>1, <1>14, FreeListKept
<1>17. KeptSound'
  BY <1>1, KeptStays
<1>18. NoRing'
  BY <1>1, RingStays DEF IInv, Typed
<1> QED
  BY <1>2, <1>3, <1>4, <1>5, <1>6, <1>7, <1>8, <1>9, <1>10, <1>11, <1>12,
     <1>13, <1>16, <1>15, <1>1, <1>17, <1>18 DEF IInv

LEMMA SendIInv ==
    ASSUME IInv, NEW b \in Buffers, Send(b)
    PROVE  IInv'
<1>1. /\ io[b] = "write"
      /\ io' = [io EXCEPT ![b] = io'[b]] /\ io'[b] \in {"sent", "sentold"}
      /\ UNCHANGED <<buf, hashed, next_free, prev_free, free_list, dest, disk, refetched,
                     late, lost, pinned, pc, want, bh, kept, idx>>
  BY DEF IInv, Typed, Send, Sent, cache, races
<1>2. Typed'
  BY <1>1 DEF IInv, Typed
<1>3. \A c \in Buffers : io'[c] = io[c] \/ (c = b /\ io'[c] \in {"sent", "sentold"})
  BY <1>1 DEF IInv, Typed
<1>4. LocksSound'
  BY <1>1, <1>3 DEF IInv, LocksSound
<1>5. TakenIsClean'
  BY <1>1, <1>3 DEF IInv, Typed, TakenIsClean, Spoilt, Takes
<1> QED
  BY <1>1, <1>2, <1>4, <1>5, RestStays

LEMMA FindIInv ==
    ASSUME IInv, NEW p \in Procs, Find(p)
    PROVE  IInv'
<1>1. CASE Cached(want[p]) # {}
  <2>1. PICK b \in Cached(want[p]) : Found(p, b) /\ bh' = [bh EXCEPT ![p] = b] /\ Goto(p, IF buf[b].lock THEN "hashwait" ELSE "got")
    BY <1>1 DEF Find
  <2>2. /\ pc[p] \in {"find", "woken"} /\ MayRun(p)
        /\ b \in Buffers /\ b \in hashed /\ buf[b].blk = want[p]
        /\ buf' = [buf EXCEPT ![b].count = @ + 1] /\ bh' = [bh EXCEPT ![p] = b]
        /\ pc' = [pc EXCEPT ![p] = pc'[p]] /\ pc'[p] \in {"hashwait", "got"}
        /\ UNCHANGED <<hashed, next_free, prev_free, free_list, io, dest, disk, refetched,
                       late, lost, pinned, want, kept, idx>>
    BY <2>1 DEF IInv, Typed, Cached, Find, Found, At, Goto, device, races
  <2>3. Typed'
    <3>1. buf[b].count + 1 \in Int
      BY <2>2, Constants DEF IInv, Typed, Heads
    <3>2. buf' \in [Buffers -> Heads]
      BY <2>2, <3>1, CountChanged
    <3>3. pc' \in [Procs -> Running \cup Sleeping \cup {"idle", "hold"}]
      BY <2>2, Constants DEF IInv, Typed, Running, Sleeping
    <3> QED
      BY <3>1, <3>2, <3>3, <2>2 DEF IInv, Typed
  <2>4. OneRuns'
    BY <2>2, Constants DEF IInv, Typed, OneRuns, MayRun, Running
  <2>5. Coherent'
    BY <2>2, Constants DEF IInv, Typed, Coherent
  <2>6. LocksSound'
    BY <2>2, Constants DEF IInv, Typed, LocksSound
  <2>7. HashSound'
    BY <2>2, Constants DEF IInv, Typed, HashSound
  <2>8. EvictsUnused'
    BY <2>2, Constants DEF IInv, Typed, EvictsUnused, Coherent, MayRun,
       Running
  <2>9. TakenIsHidden'
    BY <2>2, Constants DEF IInv, Typed, TakenIsHidden, Takes, Using
  <2>10. TakenIsClean'
    BY <2>2, Constants DEF IInv, Typed, TakenIsClean, Spoilt, Takes
  <2>11. SearchSound'
    BY <2>2, Constants DEF IInv, Typed, SearchSound, MayRun, Running
  <2>12. CountsUsers'
    <3>0. kept[p][b] = NoBlock
      <4>1. want[p] # NoBlock
        BY <2>2, Constants DEF IInv, Coherent
      <4> QED
        BY <2>2, <4>1, KeptIsOther
    <3>1. p \notin Users(b) /\ Users(b)' = Users(b) \cup {p}
      BY <2>2, <3>0 DEF IInv, Typed, Users, Using
    <3>2. \A c \in Buffers \ {b} : Users(c)' = Users(c)
      BY <2>2 DEF IInv, Typed, Users, Using
    <3>3. /\ buf'[b].count = buf[b].count + 1
         /\ \A c \in Buffers \ {b} : buf'[c].count = buf[c].count
      BY <2>2 DEF IInv, Typed, Heads
    <3> QED
      BY <3>1, <3>2, <3>3, <2>2, UserAdded
  <2>13. HolderKeepsBlock'
    BY <2>2, Constants DEF IInv, Typed, HolderKeepsBlock, Keeps
  <2>14. OneBufferPerBlock'
    BY <2>2, Constants DEF IInv, Typed, OneBufferPerBlock
  <2>15. TakenOut' = TakenOut
    BY <2>2, Constants DEF IInv, Typed, TakenOut, Takes
  <2>16. SomeoneGood'
    <3>1. want[p] # NoBlock
      BY <2>2, Constants DEF IInv, Coherent
    <3> QED
      BY <2>2, <3>1, GoodNow DEF IInv, Typed
  <2>17. FreeListSound'
    BY <2>2, <2>15, FreeListKept
  <2>18. KeptSound'
    BY <2>2, KeptStays
  <2>19. NoRing'
    BY <2>2, RingStays DEF IInv, Typed
  <2> QED
    BY <2>3, <2>4, <2>5, <2>6, <2>7, <2>8, <2>9, <2>10, <2>11, <2>12, <2>13,
       <2>14, <2>17, <2>16, <2>2, <2>18, <2>19 DEF IInv
<1>2. CASE Cached(want[p]) = {}
  <2>1. /\ pc[p] \in {"find", "woken"} /\ MayRun(p)
        /\ bh' = [bh EXCEPT ![p] = free_list] /\ pc' = [pc EXCEPT ![p] = "scan"]
        /\ UNCHANGED <<buf, hashed, next_free, prev_free, free_list, io, dest, disk,
                       refetched, late, lost, pinned, want, kept, idx>>
    BY <1>2 DEF IInv, Typed, Find, At, Goto, device, races
  <2>2. Typed'
    BY <2>1, Constants DEF IInv, Typed, Heads, Copies, Running, Sleeping
  <2>3. OneRuns'
    BY <2>1, Constants DEF IInv, Typed, OneRuns, MayRun, Running
  <2>4. Coherent'
    BY <2>1, Constants DEF IInv, Typed, Coherent
  <2>5. LocksSound'
    BY <2>1, Constants DEF IInv, Typed, LocksSound
  <2>6. HashSound'
    BY <2>1, Constants DEF IInv, Typed, HashSound
  <2>7. EvictsUnused'
    BY <2>1, Constants DEF IInv, Typed, EvictsUnused, Coherent, MayRun,
       Running
  <2>8. TakenIsHidden'
    BY <2>1, Constants DEF IInv, Typed, TakenIsHidden, Takes, Using
  <2>9. TakenIsClean'
    BY <2>1, Constants DEF IInv, Typed, TakenIsClean, Spoilt, Takes
  <2>10. SearchSound'
    <3>1. Searched(p, {free_list})'
      BY <2>1 DEF IInv, Typed, Searched
    <3> QED
      BY <2>1, <3>1, Constants DEF IInv, Typed, SearchSound, MayRun, Running
  <2>11. CountsUsers'
    <3>1. \A b \in Buffers : Users(b)' = Users(b)
      BY <2>1 DEF IInv, Typed, Users, Using
    <3> QED
      BY <2>1, <3>1 DEF IInv, CountsUsers
  <2>12. HolderKeepsBlock'
    BY <2>1, Constants DEF IInv, Typed, HolderKeepsBlock, Keeps
  <2>13. OneBufferPerBlock'
    BY <2>1, Constants DEF IInv, Typed, OneBufferPerBlock
  <2>14. TakenOut' = TakenOut
    BY <2>1, Constants DEF IInv, Typed, TakenOut, Takes
  <2>15. SomeoneGood'
    BY <2>1, GoodStays DEF IInv, Typed, Good, Active, Unused
  <2>16. FreeListSound'
    BY <2>1, <2>14, FreeListKept
  <2>17. KeptSound'
    BY <2>1, KeptStays
  <2>18. NoRing'
    BY <2>1, RingStays DEF IInv, Typed
  <2> QED
    BY <2>2, <2>3, <2>4, <2>5, <2>6, <2>7, <2>8, <2>9, <2>10, <2>11, <2>12,
       <2>13, <2>16, <2>15, <2>1, <2>17, <2>18 DEF IInv
<1> QED
  BY <1>1, <1>2 DEF Find

LEMMA HashWakeIInv ==
    ASSUME IInv, NEW p \in Procs, HashWake(p)
    PROVE  IInv'
<1>1. /\ pc[p] = "hashwait" /\ MayRun(p) /\ bh[p] \in Buffers /\ buf[bh[p]].blk = want[p]
      /\ pc' = [pc EXCEPT ![p] = "got"]
      /\ UNCHANGED <<buf, hashed, next_free, prev_free, free_list, io, dest, disk,
                     refetched, late, lost, pinned, want, bh, kept, idx>>
  BY DEF IInv, Typed, Coherent, HolderKeepsBlock, Keeps, HashWake, At, Goto, device,
     races
<1>2. Typed'
  BY <1>1, Constants DEF IInv, Typed, Heads, Copies, Running, Sleeping
<1>3. OneRuns'
  BY <1>1, Constants DEF IInv, Typed, OneRuns, MayRun, Running
<1>4. Coherent'
  BY <1>1, Constants DEF IInv, Typed, Coherent
<1>5. LocksSound'
  BY <1>1, Constants DEF IInv, Typed, LocksSound
<1>6. HashSound'
  BY <1>1, Constants DEF IInv, Typed, HashSound
<1>7. EvictsUnused'
  BY <1>1, Constants DEF IInv, Typed, EvictsUnused, Coherent, MayRun, Running
<1>8. TakenIsHidden'
  BY <1>1, Constants DEF IInv, Typed, TakenIsHidden, Takes, Using
<1>9. TakenIsClean'
  BY <1>1, Constants DEF IInv, Typed, TakenIsClean, Spoilt, Takes
<1>10. SearchSound'
  BY <1>1, Constants DEF IInv, Typed, SearchSound, MayRun, Running
<1>11. CountsUsers'
  BY <1>1, CountsStay DEF IInv, Typed, Using
<1>12. HolderKeepsBlock'
  BY <1>1, Constants DEF IInv, Typed, HolderKeepsBlock, Keeps
<1>13. OneBufferPerBlock'
  BY <1>1, Constants DEF IInv, Typed, OneBufferPerBlock
<1>14. TakenOut' = TakenOut
  BY <1>1, Constants DEF IInv, Typed, TakenOut, Takes
<1>15. SomeoneGood'
  BY <1>1, GoodStays DEF IInv, Typed, Good, Active, Unused
<1>16. FreeListSound'
  BY <1>1, <1>14, FreeListKept
<1>17. KeptSound'
  BY <1>1, KeptStays
<1>18. NoRing'
  BY <1>1, RingStays DEF IInv, Typed
<1> QED
  BY <1>2, <1>3, <1>4, <1>5, <1>6, <1>7, <1>8, <1>9, <1>10, <1>11, <1>12,
     <1>13, <1>16, <1>15, <1>1, <1>17, <1>18 DEF IInv

LEMMA BrelseIInv ==
    ASSUME IInv, NEW p \in Procs, Brelse(p)
    PROVE  IInv'
<1>1. /\ pc[p] \in {"hold", "failed"} /\ MayRun(p) /\ bh[p] \in Buffers /\ want[p] \in Blocks
      /\ buf' = [buf EXCEPT ![bh[p]].count = @ - 1]
      /\ pc' = [q \in Procs |-> IF pc[q] = "bufwait" THEN "woken"
                                ELSE IF q = p THEN pc'[p] ELSE pc[q]]
      /\ want' = [want EXCEPT ![p] = want'[p]] /\ bh' = [bh EXCEPT ![p] = bh'[p]]
      /\ kept' = [kept EXCEPT ![p] = kept'[p]]
      /\ UNCHANGED <<hashed, next_free, prev_free, free_list, io, dest, disk, refetched,
                     late, lost, pinned, idx>>
  <2>1. /\ pc[p] \in {"hold", "failed"} /\ MayRun(p) /\ bh[p] \in Buffers /\ want[p] \in Blocks
        /\ buf' = [buf EXCEPT ![bh[p]].count = @ - 1]
        /\ UNCHANGED <<hashed, next_free, prev_free, free_list, io, dest, disk, refetched,
                       late, lost, pinned, idx>>
    BY DEF IInv, Coherent, Brelse, At, device, races
  <2>2. /\ DOMAIN want = Procs /\ DOMAIN bh = Procs /\ DOMAIN kept = Procs
        /\ kept = [kept EXCEPT ![p] = kept[p]]
    BY DEF IInv, Typed
  <2> QED
    BY <2>1, <2>2 DEF Brelse, WakeBufferWait
<1>19. \/ /\ pc'[p] = "idle" /\ want'[p] = NoBlock /\ bh'[p] = NoBuffer
          /\ kept'[p] = kept[p] /\ Keeps(p) = {}
       \/ \E c \in Keeps(p) :
             /\ pc'[p] = "hold" /\ want'[p] = kept[p][c] /\ bh'[p] = c
             /\ kept'[p] = [kept[p] EXCEPT ![c] = NoBlock]
             /\ buf[c].blk = kept[p][c] /\ c \in hashed
             /\ c \in Buffers \ {bh[p]} /\ kept[p][c] \in Blocks
  <2>1. CASE Keeps(p) = {} /\ want' = [want EXCEPT ![p] = NoBlock]
                /\ bh' = [bh EXCEPT ![p] = NoBuffer] /\ kept' = kept
                /\ WakeBufferWait(p, "idle")
    BY <1>1, <2>1 DEF IInv, Typed, WakeBufferWait
  <2>2. CASE \E c \in Keeps(p) :
                /\ WakeBufferWait(p, "hold") /\ want' = [want EXCEPT ![p] = kept[p][c]]
                /\ bh' = [bh EXCEPT ![p] = c] /\ kept' = [kept EXCEPT ![p][c] = NoBlock]
    <3>1. PICK c \in Keeps(p) :
                /\ WakeBufferWait(p, "hold") /\ want' = [want EXCEPT ![p] = kept[p][c]]
                /\ bh' = [bh EXCEPT ![p] = c] /\ kept' = [kept EXCEPT ![p][c] = NoBlock]
      BY <2>2
    <3>2. pc'[p] = "hold" /\ want'[p] = kept[p][c] /\ bh'[p] = c
      BY <1>1, <3>1 DEF IInv, Typed, WakeBufferWait
    <3>3. kept'[p] = [kept[p] EXCEPT ![c] = NoBlock]
      BY <3>1 DEF IInv, Typed
    <3>4. buf[c].blk = kept[p][c] /\ c \in hashed
      BY DEF IInv, HolderKeepsBlock
    <3>5. kept[p][bh[p]] = NoBlock
      BY <1>1, NotKept
    <3>6. c \in Buffers /\ c # bh[p]
      BY <3>5 DEF Keeps
    <3>7. kept[p][c] \in Blocks
      BY <3>4 DEF IInv, HashSound
    <3> QED
      BY <3>2, <3>3, <3>4, <3>6, <3>7
  <2> QED
    BY <2>1, <2>2 DEF Brelse
<1>20. /\ kept[p] \in [Buffers -> Blocks \cup {NoBlock}]
       /\ kept'[p] \in [Buffers -> Blocks \cup {NoBlock}]
       /\ want'[p] \in Blocks \cup {NoBlock} /\ bh'[p] \in Buffers \cup {NoBuffer}
       /\ pc'[p] \in {"idle", "hold"} /\ kept'[p][bh[p]] = NoBlock /\ bh'[p] # bh[p]
  <2>1. kept[p] \in [Buffers -> Blocks \cup {NoBlock}] /\ kept[p][bh[p]] = NoBlock
    BY <1>1, NotKept DEF IInv, Typed
  <2> QED
    BY <1>1, <1>19, <2>1, Constants, ZenonT(60)
<1>21. \A q \in Procs \ {p} :
          /\ kept'[q] = kept[q] /\ want'[q] = want[q] /\ bh'[q] = bh[q]
          /\ pc'[q] = IF pc[q] = "bufwait" THEN "woken" ELSE pc[q]
          /\ Keeps(q)' = Keeps(q)
  BY <1>1 DEF IInv, Typed, Keeps
<1>22. \A c \in Buffers : /\ buf'[c].blk = buf[c].blk /\ buf'[c].lock = buf[c].lock
                          /\ buf'[c].dirt = buf[c].dirt
                          /\ buf'[c].count = IF c = bh[p] THEN buf[c].count - 1 ELSE buf[c].count
  BY <1>1 DEF IInv, Typed, Heads
<1>2. Typed'
  <2>1. buf[bh[p]].count - 1 \in Int
    BY <1>1, Constants DEF IInv, Typed, Heads
  <2>2. buf' \in [Buffers -> Heads]
    BY <1>1, <2>1, CountChanged
  <2>3. pc' \in [Procs -> Running \cup Sleeping \cup {"idle", "hold"}]
    BY <1>1, <1>20 DEF IInv, Typed, Running, Sleeping
  <2>4. /\ kept' \in [Procs -> [Buffers -> Blocks \cup {NoBlock}]]
        /\ want' \in [Procs -> Blocks \cup {NoBlock}]
        /\ bh' \in [Procs -> Buffers \cup {NoBuffer}]
    BY <1>1, <1>20, ZenonT(60) DEF IInv, Typed
  <2> QED
    BY <2>2, <2>3, <2>4, <1>1 DEF IInv, Typed
<1>3. OneRuns'
  BY <1>1, <1>20, <1>21 DEF IInv, OneRuns, MayRun, Running
<1>4. Coherent'
  <2>1. ASSUME NEW q \in Procs \ {p}
        PROVE  Coherent!(q)'
    BY <1>1, <1>21 DEF IInv, Coherent
  <2>2. Coherent!(p)'
    BY <1>19, <1>1
  <2> QED
    BY <2>1, <2>2 DEF Coherent
<1>5. LocksSound'
  BY <1>1, <1>22 DEF IInv, LocksSound
<1>6. HashSound'
  BY <1>1, <1>22 DEF IInv, HashSound
<1>7. EvictsUnused'
  BY <1>20, <1>21, <1>1 DEF EvictsUnused, MayRun, Running
<1>8. TakenIsHidden'
  <2>1. ASSUME NEW q \in Procs, Takes(q)'
        PROVE  q # p /\ Takes(q) /\ bh'[q] = bh[q] /\ bh[q] \notin hashed
    BY <1>20, <1>21, <2>1 DEF IInv, TakenIsHidden, Takes
  <2>2. ASSUME NEW q \in Procs, Takes(q)', NEW r \in Procs, pc'[r] \in Using, bh'[r] = bh'[q]
        PROVE  q = r
    <3>1. CASE r = p
      <4>1. bh'[p] \in hashed
        BY <1>19, <2>2, <3>1 DEF Using
      <4> QED
        BY <2>1, <2>2, <3>1, <4>1
    <3>2. CASE r # p
      BY <1>21, <2>1, <2>2, <3>2 DEF IInv, TakenIsHidden, Using
    <3> QED
      BY <3>1, <3>2
  <2> QED
    BY <1>1, <2>1, <2>2 DEF TakenIsHidden
<1>9. TakenIsClean'
  <2>1. ASSUME NEW q \in Procs, Takes(q)'
        PROVE  Takes(q) /\ bh'[q] = bh[q] /\ pc'[q] = pc[q] /\ bh[q] \in Buffers
    BY <1>20, <1>21, <2>1 DEF IInv, Typed, Takes
  <2> QED
    BY <1>1, <1>22, <2>1 DEF IInv, TakenIsClean, Spoilt
<1>10. SearchSound'
  BY <1>1, <1>20, <1>21 DEF IInv, SearchSound, MayRun, Running
<1>11. CountsUsers'
  <2>1. PICK b \in Buffers : b = bh[p]
    BY <1>1
  <2>0. \A q \in Procs \ {p}, c \in Buffers : q \in Users(c)' <=> q \in Users(c)
    BY <1>21 DEF Users, Using
  <2>2. p \in Users(b) /\ p \notin Users(b)'
    BY <1>1, <1>20, <2>1 DEF Users, Using
  <2>3. \A c \in Buffers \ {b} : p \in Users(c)' <=> p \in Users(c)
    BY <1>1, <1>19, <1>20, <2>1, Constants DEF Users, Using, Keeps
  <2>5. Users(b)' = Users(b) \ {p} /\ \A c \in Buffers \ {b} : Users(c)' = Users(c)
    BY <2>0, <2>2, <2>3 DEF Users
  <2>4. /\ buf'[b].count = buf[b].count - 1
       /\ \A c \in Buffers \ {b} : buf'[c].count = buf[c].count
    BY <1>22, <2>1
  <2> QED
    BY <2>2, <2>5, <2>4, <1>1, UserRemoved
<1>12. HolderKeepsBlock'
  <2>1. ASSUME NEW q \in Procs \ {p}
        PROVE  /\ pc'[q] \in {"hashwait", "got", "lockwait", "readwait", "failed", "hold"} =>
                     buf'[bh'[q]].blk = want'[q] /\ bh'[q] \in hashed'
               /\ \A b \in Keeps(q)' : buf'[b].blk = kept'[q][b] /\ b \in hashed'
    <3>1. \A b \in Keeps(q)' : buf'[b].blk = kept'[q][b] /\ b \in hashed'
      BY <1>1, <1>21, <1>22 DEF IInv, HolderKeepsBlock, Keeps
    <3>2. ASSUME pc'[q] \in {"hashwait", "got", "lockwait", "readwait", "failed", "hold"}
          PROVE  buf'[bh'[q]].blk = want'[q] /\ bh'[q] \in hashed'
      <4>1. pc[q] = pc'[q] /\ bh'[q] = bh[q] /\ want'[q] = want[q]
        BY <1>21, <3>2
      <4>2. buf[bh[q]].blk = want[q] /\ bh[q] \in hashed /\ bh[q] \in Buffers
        BY <3>2, <4>1 DEF IInv, HolderKeepsBlock, Typed
      <4> QED
        BY <1>1, <1>22, <4>1, <4>2
    <3> QED
      BY <3>1, <3>2
  <2>2. \A b \in Keeps(p)' : buf'[b].blk = kept'[p][b] /\ b \in hashed'
    <3>1. \A b \in Keeps(p)' : b \in Keeps(p) /\ kept'[p][b] = kept[p][b]
      BY <1>19, <1>20 DEF Keeps
    <3> QED
      BY <1>1, <1>22, <3>1 DEF IInv, HolderKeepsBlock, Keeps
  <2>3. pc'[p] # "idle" => pc'[p] = "hold" /\ buf'[bh'[p]].blk = want'[p] /\ bh'[p] \in hashed'
    BY <1>1, <1>19, <1>22, ZenonT(60)
  <2> QED
    BY <1>20, <2>1, <2>2, <2>3 DEF HolderKeepsBlock
<1>13. OneBufferPerBlock'
  BY <1>1, <1>22 DEF IInv, Typed, OneBufferPerBlock
<1>14. TakenOut' = TakenOut
  BY <1>1, <1>20, <1>21 DEF IInv, TakenOut, Takes
<1>15. SomeoneGood'
  <2>1. CASE pc'[p] = "hold"
    <3>1. want'[p] # NoBlock
      BY <1>19, <2>1, Constants
    <3> QED
      BY <2>1, <3>1, GoodNow
  <2>2. CASE \E q \in Procs \ {p} : want[q] # NoBlock /\ pc[q] # "scanwait"
    BY <1>21, <2>2, GoodNow
  <2>3. CASE pc'[p] = "idle" /\ \A q \in Procs \ {p} : want[q] # NoBlock => pc[q] = "scanwait"
    <3>1. want'[p] = NoBlock /\ Keeps(p) = {} /\ kept'[p] = kept[p]
      BY <1>19, <2>3
    <3>2. SUFFICES ASSUME NEW q \in Procs \ {p}, want[q] # NoBlock
                   PROVE  \E w \in Procs : Good(w)'
      BY <1>21, <3>1 DEF SomeoneGood
    <3> DEFINE g == {w \in Procs : pc[w] = "scanwait"}
    <3>3. g # {} /\ g \subseteq Procs \ {p}
      BY <2>3, <3>2, <1>1
    <3>4. PICK w \in g : \A v \in g : kept[v][bh[w]] = NoBlock
      BY <3>3 DEF IInv, NoRing
    <3>5. want[w] # NoBlock /\ bh'[w] = bh[w]
      BY <1>21, <3>3, Constants DEF IInv, Coherent
    <3>6. PICK d \in Buffers \ DOMAIN pinned : d = bh[w]
      BY DEF IInv, Coherent, SearchSound
    <3>7. Users(d)' = {}
      <4>1. SUFFICES ASSUME NEW v \in Users(d)' PROVE FALSE
        OBVIOUS
      <4>2. v # p
        BY <1>21, <2>3, <3>1, <3>6, Constants DEF Users, Using, Keeps
      <4>3. v \in Procs \ {p} /\ v \in Users(d)
        BY <1>21, <4>2 DEF Users, Using
      <4>4. want[v] # NoBlock
        <5>1. CASE kept[v][d] # NoBlock
          BY <3>6, <4>3, <5>1 DEF IInv, KeptSound, Keeps
        <5>2. CASE bh[v] = d /\ pc[v] \in Using
          BY <3>6, <4>3, <5>2, Constants DEF IInv, Coherent, Using
        <5> QED
          BY <4>3, <5>1, <5>2 DEF Users
      <4>5. pc[v] = "scanwait"
        BY <2>3, <4>3, <4>4
      <4> QED
        BY <3>4, <3>6, <4>3, <4>5 DEF Users, Using
    <3>8. buf'[d].count = 0
      <4>1. Cardinality(Users(d)') = 0
        BY <3>7, FS_EmptySet
      <4>2. buf'[d].count = Cardinality(Users(d)') + (IF d \in DOMAIN pinned' THEN 1 ELSE 0)
        BY <1>11 DEF CountsUsers
      <4>3. d \notin DOMAIN pinned'
        BY <1>1, <3>6
      <4> QED
        BY <4>1, <4>2, <4>3
    <3> QED
      BY <1>21, <3>3, <3>5, <3>6, <3>8 DEF Good, Active, Unused
  <2> QED
    BY <1>20, <2>1, <2>2, <2>3
<1>16. FreeListSound'
  BY <1>1, <1>14, FreeListKept
<1>17. KeptSound'
  <2>1. CASE pc'[p] = "idle"
    <3>1. kept'[p] = kept[p] /\ Keeps(p) = {}
      BY <1>19, <2>1
    <3>2. Keeps(p)' = Keeps(p)
      BY <3>1 DEF Keeps
    <3>3. \A b \in Buffers : want'[p] # NoBlock => kept'[p][b] # want'[p]
      BY <1>19, <2>1
    <3> QED
      BY <1>21, <3>1, <3>2, <3>3 DEF IInv, KeptSound
  <2>2. CASE pc'[p] = "hold"
    <3>1. PICK c \in Keeps(p) :
             /\ want'[p] = kept[p][c] /\ kept'[p] = [kept[p] EXCEPT ![c] = NoBlock]
             /\ buf[c].blk = kept[p][c] /\ c \in hashed
             /\ c \in Buffers /\ kept[p][c] \in Blocks
      BY <1>19, <2>2
    <3>2. Keeps(p)' = Keeps(p) \ {c}
      BY <1>20, <3>1 DEF Keeps
    <3>3. Cardinality(Keeps(p))' <= MaxKept
      <4>1. IsFiniteSet(Keeps(p))
        BY BuffersFinite DEF Keeps
      <4>2. Cardinality(Keeps(p) \ {c}) = Cardinality(Keeps(p)) - 1
        BY <4>1, FS_RemoveElement
      <4>3. Cardinality(Keeps(p)) \in Nat /\ Cardinality(Keeps(p)) <= MaxKept
        BY <4>1, FS_CardinalityType DEF IInv, KeptSound
      <4> QED
        BY <3>2, <4>2, <4>3, BufferAssumption
    <3>4. ASSUME NEW b \in Buffers PROVE kept'[p][b] # want'[p]
      <4>1. CASE b = c
        BY <1>20, <3>1, <4>1, Constants
      <4>2. CASE b # c
        <5>1. kept'[p][b] = kept[p][b]
          BY <1>20, <3>1, <4>2
        <5>2. b \in Keeps(p) => buf[b].blk = kept[p][b] /\ b \in hashed
          BY DEF IInv, HolderKeepsBlock
        <5>3. b \in Keeps(p) => buf[b].blk # buf[c].blk
          BY <3>1, <4>2, <5>2 DEF IInv, OneBufferPerBlock
        <5> QED
          BY <3>1, <5>1, <5>2, <5>3, Constants DEF Keeps
      <4> QED
        BY <4>1, <4>2
    <3>5. want'[p] # NoBlock
      BY <3>1, Constants
    <3> QED
      BY <1>21, <3>3, <3>4, <3>5 DEF IInv, KeptSound
  <2> QED
    BY <1>20, <2>1, <2>2
<1>18. NoRing'
  BY <1>1, <1>20, <1>21, RingStays
<1> QED
  BY <1>2, <1>3, <1>4, <1>5, <1>6, <1>7, <1>8, <1>9, <1>10, <1>11, <1>12,
     <1>13, <1>16, <1>15, <1>1, <1>17, <1>18 DEF IInv

LEMMA ModifyIInv ==
    ASSUME IInv, NEW p \in Procs, NEW b \in Buffers, Modify(p, b)
    PROVE  IInv'
<1>1. /\ b \in hashed /\ buf[b].blk \in Blocks
      /\ buf' \in [Buffers -> Heads]
      /\ \A c \in Buffers : buf'[c].blk = buf[c].blk /\ buf'[c].count = buf[c].count
      /\ \A c \in Buffers : buf'[c].lock = buf[c].lock
      /\ \A c \in Buffers \ {b} : buf'[c].dirt = buf[c].dirt
      /\ io' \in [Buffers -> {"none", "read", "write", "sent", "sentold"}]
      /\ \A c \in Buffers : io'[c] = io[c] \/ (io[c] = "sent" /\ io'[c] = "sentold")
      /\ UNCHANGED <<hashed, next_free, prev_free, free_list, dest, refetched, lost,
                     pinned, pc, want, bh, kept, idx>>
  BY Modified DEF Modify
<1>2. Typed'
  <2>1. disk' \in [Blocks -> Copies]
    BY <1>1 DEF IInv, Typed, Modify, Copies
  <2>2. late' \subseteq Blocks
    BY <1>1 DEF IInv, Typed, Modify
  <2> QED
    BY <2>1, <2>2, <1>1 DEF IInv, Typed
<1>3. LocksSound'
  BY <1>1 DEF IInv, LocksSound
<1>4. TakenIsClean'
  <2>1. ASSUME NEW q \in Procs, Takes(q)'
        PROVE  Takes(q) /\ bh[q] \in Buffers \ {b}
    BY <1>1, <2>1, Constants DEF IInv, Typed, TakenIsHidden, Takes
  <2>2. ASSUME NEW c \in Buffers \ {b}
        PROVE  /\ buf'[c].lock = buf[c].lock /\ buf'[c].dirt = buf[c].dirt
               /\ buf'[c].blk = buf[c].blk
               /\ io'[c] = io[c] \/ (io[c] = "sent" /\ io'[c] = "sentold")
    BY <1>1
  <2> QED
    BY <1>1, <2>1, <2>2 DEF IInv, TakenIsClean, Spoilt
<1> QED
  BY <1>1, <1>2, <1>3, <1>4, RestStays

LEMMA WriteEndsIInv ==
    ASSUME IInv, NEW b \in Buffers, WriteEnds(b)
    PROVE  IInv'
<1>1. /\ io[b] # "none" /\ dest[b] \in Blocks
      /\ buf' \in [Buffers -> Heads]
      /\ \A c \in Buffers : buf'[c].blk = buf[c].blk /\ buf'[c].count = buf[c].count
      /\ \A c \in Buffers \ {b} : buf'[c] = buf[c]
      /\ ~buf'[b].lock /\ ~buf'[b].dirt
      /\ io' = [io EXCEPT ![b] = "none"] /\ dest' = [dest EXCEPT ![b] = NoBlock]
      /\ UNCHANGED <<hashed, next_free, prev_free, free_list, refetched, lost, pinned, pc,
                     want, bh, kept, idx>>
  BY Written DEF WriteEnds, Ended
<1>2. Typed'
  <2>1. disk' \in [Blocks -> Copies]
    BY <1>1, Constants DEF IInv, Typed, WriteEnds, Copies
  <2>2. late' \subseteq Blocks
    BY <1>1, Constants DEF IInv, Typed, WriteEnds
  <2> QED
    BY <2>1, <2>2, <1>1 DEF IInv, Typed
<1>3. LocksSound'
  <2>1. ASSUME NEW c \in Buffers, c # b
        PROVE  buf'[c] = buf[c] /\ io'[c] = io[c] /\ dest'[c] = dest[c]
    BY <1>1, <2>1 DEF IInv, Typed
  <2>2. io'[b] = "none" /\ ~buf'[b].lock /\ (buf'[b].dirt => buf'[b].blk \in Blocks)
    BY <1>1 DEF IInv, Typed, LocksSound
  <2> QED
    BY <1>1, <2>1, <2>2 DEF IInv, LocksSound
<1>4. TakenIsClean'
  <2>1. ASSUME NEW q \in Procs, Takes(q)'
        PROVE  Takes(q) /\ bh[q] \in Buffers
    BY <1>1, <2>1 DEF IInv, Typed, Takes
  <2>2. ASSUME NEW c \in Buffers, c # b
        PROVE  buf'[c] = buf[c] /\ io'[c] = io[c]
    BY <1>1, <2>2 DEF IInv, Typed
  <2> QED
    BY <1>1, <2>1, <2>2 DEF IInv, TakenIsClean, Spoilt
<1> QED
  <2>1. \A c \in Buffers : buf'[c].lock => buf[c].lock
    BY <1>1
  <2> QED
    BY <1>1, <1>2, <1>3, <1>4, <2>1, RestStays

LEMMA WriteFailsIInv ==
    ASSUME IInv, NEW b \in Buffers, WriteFails(b)
    PROVE  IInv'
<1>1. /\ io[b] \in {"sent", "sentold"}
      /\ UNCHANGED <<hashed, next_free, prev_free, free_list, refetched, late, pinned, pc,
                     want, bh, kept, idx>>
  BY DEF WriteFails
<1>2. dest[b] \in Blocks /\ disk' \in [Blocks -> Copies]
  <2>1. dest[b] \in Blocks
    BY <1>1 DEF IInv, LocksSound
  <2> QED
    BY <2>1 DEF IInv, Typed, WriteFails, Copies
<1>3. CASE io' = [io EXCEPT ![b] = "write"] /\ UNCHANGED <<buf, dest, lost>>
  <2>1. Typed'
    BY <1>1, <1>2, <1>3 DEF IInv, Typed
  <2>2. \A c \in Buffers : io'[c] = io[c] \/ (c = b /\ io'[c] = "write")
    BY <1>3 DEF IInv, Typed
  <2>3. LocksSound'
    BY <1>1, <1>3, <2>2 DEF IInv, LocksSound
  <2>4. TakenIsClean'
    BY <1>1, <1>3, <2>2 DEF IInv, Typed, TakenIsClean, Spoilt, Takes
  <2> QED
    BY <1>1, <1>3, <2>1, <2>3, <2>4, RestStays
<1>4. CASE /\ Ended(b) /\ lost' = lost \cup {dest[b]}
           /\ buf' = [buf EXCEPT ![b] = [@ EXCEPT !.lock = FALSE, !.uptodate = FALSE]]
  <2>1. /\ buf' \in [Buffers -> Heads]
        /\ \A c \in Buffers : buf'[c].blk = buf[c].blk /\ buf'[c].count = buf[c].count
        /\ \A c \in Buffers \ {b} : buf'[c] = buf[c]
        /\ ~buf'[b].lock /\ buf'[b].dirt = buf[b].dirt
    BY <1>1, <1>4, GivenUp
  <2>2. Typed'
    BY <1>1, <1>2, <1>4, <2>1 DEF IInv, Typed, Ended
  <2>3. ASSUME NEW c \in Buffers, c # b
        PROVE  buf'[c] = buf[c] /\ io'[c] = io[c] /\ dest'[c] = dest[c]
    BY <1>4, <2>1, <2>3 DEF IInv, Typed, Ended
  <2>4. io'[b] = "none" /\ (buf'[b].dirt => buf[b].blk \in lost')
    <3>1. io'[b] = "none"
      BY <1>4 DEF IInv, Typed, Ended
    <3>2. buf[b].dirt => buf[b].blk = dest[b] \/ buf[b].blk \in lost
      BY <1>1, Constants DEF IInv, LocksSound
    <3> QED
      BY <1>4, <2>1, <3>1, <3>2
  <2>5. LocksSound'
    BY <1>4, <2>1, <2>3, <2>4 DEF IInv, LocksSound
  <2>6. TakenIsClean'
    <3>1. ASSUME NEW q \in Procs, Takes(q)'
          PROVE  Takes(q) /\ bh[q] \in Buffers
      BY <1>1, <3>1 DEF IInv, Typed, Takes
    <3>2. \A c \in Buffers : Spoilt(c) => Spoilt(c)'
      BY <1>4, <2>1 DEF Spoilt
    <3>3. buf'[b].dirt => Spoilt(b)'
      BY <2>1, <2>4 DEF Spoilt
    <3> QED
      BY <1>1, <2>1, <2>3, <3>1, <3>2, <3>3 DEF IInv, TakenIsClean
  <2> QED
    <3>1. \A c \in Buffers : buf'[c].lock => buf[c].lock
      BY <2>1
    <3> QED
      BY <1>1, <2>1, <2>2, <2>5, <2>6, <3>1, RestStays
<1> QED
  BY <1>3, <1>4 DEF WriteFails

LEMMA ReadEndsIInv ==
    ASSUME IInv, NEW b \in Buffers, ReadEnds(b)
    PROVE  IInv'
<1>1. /\ io[b] = "read" /\ dest[b] \in Blocks
      /\ buf' \in [Buffers -> Heads]
      /\ \A c \in Buffers : buf'[c].blk = buf[c].blk /\ buf'[c].count = buf[c].count
      /\ \A c \in Buffers \ {b} : buf'[c] = buf[c]
      /\ ~buf'[b].lock /\ (buf'[b].dirt => buf[b].dirt)
      /\ io' = [io EXCEPT ![b] = "none"] /\ dest' = [dest EXCEPT ![b] = NoBlock]
      /\ UNCHANGED <<hashed, next_free, prev_free, free_list, disk, refetched, late, lost,
                     pinned, pc, want, bh, kept, idx>>
  BY ReadIn DEF ReadEnds, Ended, races
<1>2. Typed'
  BY <1>1 DEF IInv, Typed
<1>3. LocksSound'
  <2>1. ASSUME NEW c \in Buffers, c # b
        PROVE  buf'[c] = buf[c] /\ io'[c] = io[c] /\ dest'[c] = dest[c]
    BY <1>1, <2>1 DEF IInv, Typed
  <2>2. io'[b] = "none" /\ ~buf'[b].lock /\ (buf'[b].dirt => buf'[b].blk \in Blocks)
    BY <1>1 DEF IInv, Typed, LocksSound
  <2> QED
    BY <1>1, <2>1, <2>2 DEF IInv, LocksSound
<1>4. TakenIsClean'
  <2>1. ASSUME NEW q \in Procs, Takes(q)'
        PROVE  Takes(q) /\ bh[q] \in Buffers
    BY <1>1, <2>1 DEF IInv, Typed, Takes
  <2>2. ASSUME NEW c \in Buffers, c # b
        PROVE  buf'[c] = buf[c] /\ io'[c] = io[c]
    BY <1>1, <2>2 DEF IInv, Typed
  <2> QED
    BY <1>1, <2>1, <2>2 DEF IInv, TakenIsClean, Spoilt
<1> QED
  <2>1. \A c \in Buffers : buf'[c].lock => buf[c].lock
    BY <1>1
  <2> QED
    BY <1>1, <1>2, <1>3, <1>4, <2>1, RestStays

LEMMA ReadIInv ==
    ASSUME IInv, NEW p \in Procs, Read(p)
    PROVE  IInv'
<1>1. CASE At(p, "got") /\ Goto(p, "hold") /\ UNCHANGED <<buf, io, dest>>
  <2>1. /\ pc[p] = "got" /\ MayRun(p) /\ bh[p] \in Buffers
        /\ pc' = [pc EXCEPT ![p] = "hold"]
        /\ UNCHANGED <<buf, hashed, next_free, prev_free, free_list, io, dest, disk,
                       refetched, late, lost, pinned, want, bh, kept, idx>>
    BY <1>1 DEF IInv, Typed, Coherent, Read, At, Goto, races
  <2>2. Typed'
    BY <2>1, Constants DEF IInv, Typed, Heads, Copies, Running, Sleeping
  <2>3. OneRuns'
    BY <2>1, Constants DEF IInv, Typed, OneRuns, MayRun, Running
  <2>4. Coherent'
    BY <2>1, Constants DEF IInv, Typed, Coherent
  <2>5. LocksSound'
    BY <2>1, Constants DEF IInv, Typed, LocksSound
  <2>6. HashSound'
    BY <2>1, Constants DEF IInv, Typed, HashSound
  <2>7. EvictsUnused'
    BY <2>1, Constants DEF IInv, Typed, EvictsUnused, Coherent, MayRun,
       Running
  <2>8. TakenIsHidden'
    BY <2>1, Constants DEF IInv, Typed, TakenIsHidden, Takes, Using
  <2>9. TakenIsClean'
    BY <2>1, Constants DEF IInv, Typed, TakenIsClean, Spoilt, Takes
  <2>10. SearchSound'
    BY <2>1, Constants DEF IInv, Typed, SearchSound, MayRun, Running
  <2>11. CountsUsers'
    BY <2>1, CountsStay DEF IInv, Typed, Using
  <2>12. HolderKeepsBlock'
    BY <2>1, Constants DEF IInv, Typed, HolderKeepsBlock, Keeps
  <2>13. OneBufferPerBlock'
    BY <2>1, Constants DEF IInv, Typed, OneBufferPerBlock
  <2>14. TakenOut' = TakenOut
    BY <2>1, Constants DEF IInv, Typed, TakenOut, Takes
  <2>15. SomeoneGood'
    BY <2>1, GoodRemains DEF IInv, Typed
  <2>16. FreeListSound'
    BY <2>1, <2>14, FreeListKept
  <2>17. KeptSound'
    BY <2>1, KeptStays
  <2>18. NoRing'
    BY <2>1, RingStays DEF IInv, Typed
  <2> QED
    BY <2>2, <2>3, <2>4, <2>5, <2>6, <2>7, <2>8, <2>9, <2>10, <2>11, <2>12,
       <2>13, <2>16, <2>15, <2>1, <2>17, <2>18 DEF IInv
<1>2. CASE /\ At(p, "got") \/ At(p, "lockwait")
           /\ Goto(p, "readwait") /\ Start(bh[p], "read")
  <2>1. PICK b \in Buffers : b = bh[p] /\ Start(b, "read")
    BY <1>2 DEF IInv, Coherent, At
  <2>2. /\ pc[p] \in {"got", "lockwait"} /\ MayRun(p) /\ b = bh[p] /\ buf[b].blk \in Blocks
        /\ pc' = [pc EXCEPT ![p] = "readwait"]
        /\ buf' \in [Buffers -> Heads]
        /\ \A c \in Buffers : buf'[c].blk = buf[c].blk /\ buf'[c].count = buf[c].count
        /\ \A c \in Buffers : buf'[c].dirt = buf[c].dirt
        /\ \A c \in Buffers \ {b} : buf'[c].lock = buf[c].lock
        /\ buf'[b].lock /\ io' = [io EXCEPT ![b] = "read"]
        /\ dest' = [dest EXCEPT ![b] = buf[b].blk]
        /\ UNCHANGED <<hashed, next_free, prev_free, free_list, disk, refetched, late,
                       lost, pinned, want, bh, kept, idx>>
    BY <2>1, <1>2, Started DEF IInv, Typed, HolderKeepsBlock, Keeps, HashSound, Read,
       At, Goto, races
  <2>3. Typed'
    <3>1. pc' \in [Procs -> Running \cup Sleeping \cup {"idle", "hold"}]
      BY <2>2 DEF IInv, Typed, Sleeping
    <3>2. dest' \in [Buffers -> Blocks \cup {NoBlock}]
      BY <2>2 DEF IInv, Typed
    <3> QED
      BY <2>2, <3>1, <3>2 DEF IInv, Typed
  <2>4. OneRuns'
    BY <2>2, Constants DEF IInv, Typed, OneRuns, MayRun, Running
  <2>5. Coherent'
    BY <2>2, Constants DEF IInv, Typed, Coherent
  <2>6. LocksSound'
    BY <2>1, <2>2, LocksAtStart
  <2>7. HashSound'
    BY <2>2, Constants DEF IInv, Typed, HashSound
  <2>8. EvictsUnused'
    BY <2>2, Constants DEF IInv, Typed, EvictsUnused, Coherent, MayRun,
       Running
  <2>9. TakenIsHidden'
    BY <2>2, Constants DEF IInv, Typed, TakenIsHidden, Takes, Using
  <2>10. TakenIsClean'
    <3>1. ASSUME NEW q \in Procs, Takes(q)'
          PROVE  /\ Takes(q) /\ bh'[q] = bh[q] /\ bh[q] \in Buffers \ {b}
                 /\ pc'[q] = pc[q] /\ idx'[q] = idx[q]
      BY <2>2, <3>1, Constants DEF IInv, Typed, TakenIsHidden, Takes, Using
    <3>2. ASSUME NEW c \in Buffers \ {b}
          PROVE  /\ buf'[c].lock = buf[c].lock /\ buf'[c].dirt = buf[c].dirt
                 /\ io'[c] = io[c] /\ buf'[c].blk = buf[c].blk
      BY <2>2 DEF IInv, Typed
    <3> QED
      BY <2>2, <3>1, <3>2 DEF IInv, TakenIsClean, Spoilt
  <2>11. SearchSound'
    BY <2>2, Constants DEF IInv, Typed, SearchSound, MayRun, Running
  <2>12. CountsUsers'
    BY <2>2, CountsStay DEF IInv, Typed, Using
  <2>13. HolderKeepsBlock'
    BY <2>2, HolderStays DEF IInv, Typed
  <2>14. OneBufferPerBlock'
    BY <2>2, Constants DEF IInv, Typed, OneBufferPerBlock
  <2>15. TakenOut' = TakenOut
    BY <2>2, Constants DEF IInv, Typed, TakenOut, Takes
  <2>16. SomeoneGood'
    BY <2>2, GoodRemains DEF IInv, Typed
  <2>17. FreeListSound'
    BY <2>2, <2>15, FreeListKept
  <2>18. KeptSound'
    BY <2>2, KeptStays
  <2>19. NoRing'
    BY <2>2, RingStays DEF IInv, Typed
  <2> QED
    BY <2>3, <2>4, <2>5, <2>6, <2>7, <2>8, <2>9, <2>10, <2>11, <2>12, <2>13,
       <2>14, <2>17, <2>16, <2>2, <2>18, <2>19 DEF IInv
<1> QED
  BY <1>1, <1>2 DEF Read

LEMMA SyncIInv ==
    ASSUME IInv, NEW p \in Procs, Sync(p)
    PROVE  IInv'
<1>1. CASE Attention(p) = {}
  <2>1. /\ pc[p] = "sync" /\ MayRun(p)
        /\ idx' = [idx EXCEPT ![p] = 0] /\ 0 \in 0..NR_BUFFERS + 1
        /\ pc' = [pc EXCEPT ![p] = pc'[p]]
        /\ pc'[p] = IF bh[p] = NoBuffer THEN "idle" ELSE "take"
        /\ UNCHANGED <<buf, hashed, next_free, prev_free, free_list, io, dest, disk,
                       refetched, late, lost, pinned, want, bh, kept>>
    BY <1>1, Constants DEF IInv, Typed, Sync, At, Goto, races
  <2>2. Typed'
    BY <2>1, Constants DEF IInv, Typed, Heads, Copies, Running, Sleeping
  <2>3. OneRuns'
    BY <2>1, Constants DEF IInv, Typed, OneRuns, MayRun, Running
  <2>4. Coherent'
    BY <2>1, Constants DEF IInv, Typed, Coherent
  <2>5. LocksSound'
    BY <2>1, Constants DEF IInv, Typed, LocksSound
  <2>6. HashSound'
    BY <2>1, Constants DEF IInv, Typed, HashSound
  <2>7. EvictsUnused'
    BY <2>1, Constants DEF IInv, Typed, EvictsUnused, Coherent, MayRun,
       Running
  <2>8. TakenIsHidden'
    BY <2>1, Constants DEF IInv, Typed, TakenIsHidden, Takes, Using
  <2>9. TakenIsClean'
    <3>2. ASSUME Takes(p)
          PROVE  Spoilt(bh[p]) \/ (~buf[bh[p]].lock /\ ~buf[bh[p]].dirt)
      BY <1>1, <2>1, <3>2, PastIsClean
    <3>3. ASSUME NEW q \in Procs \ {p}, Takes(q)'
          PROVE  Takes(q) /\ bh'[q] = bh[q] /\ pc'[q] = pc[q] /\ idx'[q] = idx[q]
      BY <2>1, <3>3 DEF IInv, Typed, Takes
    <3>4. Takes(p)' => Takes(p) /\ pc'[p] = "take"
      BY <2>1 DEF IInv, Typed, Takes
    <3> QED
      BY <2>1, <3>2, <3>3, <3>4 DEF IInv, Typed, TakenIsClean, Spoilt
  <2>10. SearchSound'
    BY <2>1, Constants DEF IInv, Typed, SearchSound, MayRun, Running
  <2>11. CountsUsers'
    <3>1. \A b \in Buffers : Users(b)' = Users(b)
      BY <2>1, Constants DEF IInv, Typed, Coherent, Users, Using
    <3> QED
      BY <2>1, <3>1 DEF IInv, CountsUsers
  <2>12. HolderKeepsBlock'
    BY <2>1, Constants DEF IInv, Typed, HolderKeepsBlock, Keeps
  <2>13. OneBufferPerBlock'
    BY <2>1, Constants DEF IInv, Typed, OneBufferPerBlock
  <2>14. TakenOut' = TakenOut
    BY <2>1, Constants DEF IInv, Typed, TakenOut, Takes
  <2>15. SomeoneGood'
    BY <2>1, GoodRemains DEF IInv, Typed
  <2>16. FreeListSound'
    BY <2>1, <2>14, FreeListKept
  <2>17. KeptSound'
    BY <2>1, KeptStays
  <2>18. NoRing'
    BY <2>1, RingStays DEF IInv, Typed
  <2> QED
    BY <2>2, <2>3, <2>4, <2>5, <2>6, <2>7, <2>8, <2>9, <2>10, <2>11, <2>12,
       <2>13, <2>16, <2>15, <2>1, <2>17, <2>18 DEF IInv
<1>2. CASE \E b \in Attention(p) : /\ \A c \in Attention(p) : b <= c
        /\ idx' = [idx EXCEPT ![p] = b]
        /\ buf[b].lock /\ Goto(p, "syncwait") /\ UNCHANGED <<buf, io, dest>>
  <2>1. PICK b \in Attention(p) : /\ \A c \in Attention(p) : b <= c
        /\ idx' = [idx EXCEPT ![p] = b]
        /\ buf[b].lock /\ Goto(p, "syncwait") /\ UNCHANGED <<buf, io, dest>>
    BY <1>2
  <2>2. /\ pc[p] = "sync" /\ MayRun(p) /\ b \in Buffers
        /\ \A c \in Attention(p) : b <= c
        /\ idx' = [idx EXCEPT ![p] = b] /\ b \in 0..NR_BUFFERS + 1
        /\ pc' = [pc EXCEPT ![p] = "syncwait"]
        /\ UNCHANGED <<buf, hashed, next_free, prev_free, free_list, io, dest, disk,
                       refetched, late, lost, pinned, want, bh, kept>>
    BY <2>1, Constants DEF IInv, Typed, Sync, At, Goto, races, Attention
  <2>3. Typed'
    BY <2>2, Constants DEF IInv, Typed, Heads, Copies, Running, Sleeping
  <2>4. OneRuns'
    BY <2>2, Constants DEF IInv, Typed, OneRuns, MayRun, Running
  <2>5. Coherent'
    BY <2>2, Constants DEF IInv, Typed, Coherent
  <2>6. LocksSound'
    BY <2>2, Constants DEF IInv, Typed, LocksSound
  <2>7. HashSound'
    BY <2>2, Constants DEF IInv, Typed, HashSound
  <2>8. EvictsUnused'
    BY <2>2, Constants DEF IInv, Typed, EvictsUnused, Coherent, MayRun,
       Running
  <2>9. TakenIsHidden'
    BY <2>2, Constants DEF IInv, Typed, TakenIsHidden, Takes, Using
  <2>10. TakenIsClean'
    <3>1. Takes(p) /\ idx'[p] > bh[p] =>
             Spoilt(bh[p]) \/ (~buf[bh[p]].lock /\ ~buf[bh[p]].dirt)
      BY <2>2, BelowIsPast, PastIsClean DEF IInv, Typed
    <3>2. ASSUME NEW q \in Procs \ {p}, Takes(q)'
          PROVE  Takes(q) /\ bh'[q] = bh[q] /\ pc'[q] = pc[q] /\ idx'[q] = idx[q]
      BY <2>2, <3>2 DEF IInv, Typed, Takes
    <3>3. pc'[p] = "syncwait" /\ (Takes(p)' => Takes(p))
      BY <2>2 DEF IInv, Typed, Takes
    <3> QED
      BY <2>2, <3>1, <3>2, <3>3 DEF IInv, TakenIsClean, Spoilt
  <2>11. SearchSound'
    BY <2>2, Constants DEF IInv, Typed, SearchSound, MayRun, Running
  <2>12. CountsUsers'
    BY <2>2, CountsStay DEF IInv, Typed, Using
  <2>13. HolderKeepsBlock'
    BY <2>2, Constants DEF IInv, Typed, HolderKeepsBlock, Keeps
  <2>14. OneBufferPerBlock'
    BY <2>2, Constants DEF IInv, Typed, OneBufferPerBlock
  <2>15. TakenOut' = TakenOut
    BY <2>2, Constants DEF IInv, Typed, TakenOut, Takes
  <2>16. SomeoneGood'
    BY <2>2, GoodRemains DEF IInv, Typed
  <2>17. FreeListSound'
    BY <2>2, <2>15, FreeListKept
  <2>18. KeptSound'
    BY <2>2, KeptStays
  <2>19. NoRing'
    BY <2>2, RingStays DEF IInv, Typed
  <2> QED
    BY <2>3, <2>4, <2>5, <2>6, <2>7, <2>8, <2>9, <2>10, <2>11, <2>12, <2>13,
       <2>14, <2>17, <2>16, <2>2, <2>18, <2>19 DEF IInv
<1>3. CASE \E b \in Attention(p) : /\ \A c \in Attention(p) : b <= c
        /\ idx' = [idx EXCEPT ![p] = b]
        /\ ~buf[b].lock /\ Goto(p, "syncio") /\ Start(b, "write")
  <2>1. PICK b \in Attention(p) : /\ \A c \in Attention(p) : b <= c
        /\ idx' = [idx EXCEPT ![p] = b]
        /\ ~buf[b].lock /\ Goto(p, "syncio") /\ Start(b, "write")
    BY <1>3
  <2>2. /\ pc[p] = "sync" /\ MayRun(p) /\ b \in Buffers /\ buf[b].blk \in Blocks /\ buf[b].dirt /\ ~buf[b].lock
        /\ \A c \in Attention(p) : b <= c
        /\ idx' = [idx EXCEPT ![p] = b] /\ b \in 0..NR_BUFFERS + 1
        /\ pc' = [pc EXCEPT ![p] = "syncio"]
        /\ buf' \in [Buffers -> Heads]
        /\ \A c \in Buffers : buf'[c].blk = buf[c].blk /\ buf'[c].count = buf[c].count
        /\ \A c \in Buffers : buf'[c].dirt = buf[c].dirt
        /\ \A c \in Buffers \ {b} : buf'[c].lock = buf[c].lock
        /\ buf'[b].lock /\ io' = [io EXCEPT ![b] = "write"]
        /\ dest' = [dest EXCEPT ![b] = buf[b].blk]
        /\ UNCHANGED <<hashed, next_free, prev_free, free_list, disk, refetched, late,
                       lost, pinned, want, bh, kept>>
    <3>1. b \in Buffers /\ buf[b].dirt /\ buf[b].blk \in Blocks
      BY <2>1 DEF IInv, LocksSound, Attention
    <3> QED
      BY <2>1, <3>1, Constants, Started DEF Sync, At, Goto, races
  <2>3. Typed'
    <3>1. pc' \in [Procs -> Running \cup Sleeping \cup {"idle", "hold"}]
      BY <2>2 DEF IInv, Typed, Sleeping
    <3>2. dest' \in [Buffers -> Blocks \cup {NoBlock}] /\ idx' \in [Procs -> 0..NR_BUFFERS + 1]
      BY <2>2, Constants DEF IInv, Typed
    <3> QED
      BY <2>2, <3>1, <3>2 DEF IInv, Typed
  <2>4. OneRuns'
    BY <2>2, Constants DEF IInv, Typed, OneRuns, MayRun, Running
  <2>5. Coherent'
    BY <2>2, Constants DEF IInv, Typed, Coherent
  <2>6. LocksSound'
    BY <2>1, <2>2, LocksAtStart
  <2>7. HashSound'
    BY <2>2, Constants DEF IInv, Typed, HashSound
  <2>8. EvictsUnused'
    BY <2>2, Constants DEF IInv, Typed, EvictsUnused, Coherent, MayRun,
       Running
  <2>9. TakenIsHidden'
    BY <2>2, Constants DEF IInv, Typed, TakenIsHidden, Takes, Using
  <2>10. TakenIsClean'
    <3>1. Takes(p) /\ b > bh[p] =>
             Spoilt(bh[p]) \/ (~buf[bh[p]].lock /\ ~buf[bh[p]].dirt)
      BY <2>2, BelowIsPast, PastIsClean
    <3> QED
      BY <2>1, <2>2, <3>1, CleanAtStart
  <2>11. SearchSound'
    BY <2>2, Constants DEF IInv, Typed, SearchSound, MayRun, Running
  <2>12. CountsUsers'
    BY <2>2, CountsStay DEF IInv, Typed, Using
  <2>13. HolderKeepsBlock'
    BY <2>2, HolderStays DEF IInv, Typed
  <2>14. OneBufferPerBlock'
    BY <2>2, Constants DEF IInv, Typed, OneBufferPerBlock
  <2>15. TakenOut' = TakenOut
    BY <2>2, Constants DEF IInv, Typed, TakenOut, Takes
  <2>16. SomeoneGood'
    BY <2>2, GoodRemains DEF IInv, Typed
  <2>17. FreeListSound'
    BY <2>2, <2>15, FreeListKept
  <2>18. KeptSound'
    BY <2>2, KeptStays
  <2>19. NoRing'
    BY <2>2, RingStays DEF IInv, Typed
  <2> QED
    BY <2>3, <2>4, <2>5, <2>6, <2>7, <2>8, <2>9, <2>10, <2>11, <2>12, <2>13,
       <2>14, <2>17, <2>16, <2>2, <2>18, <2>19 DEF IInv
<1> QED
  BY <1>1, <1>2, <1>3 DEF Sync

LEMMA SyncWakeIInv ==
    ASSUME IInv, NEW p \in Procs, SyncWake(p)
    PROVE  IInv'
<1>1. CASE buf[idx[p]].dirt
  <2>1. PICK b \in Buffers : b = idx[p] /\ Start(b, "write")
    BY <1>1 DEF SyncWake, IInv, Typed, Coherent, SyncWake, At
  <2>2. /\ pc[p] = "syncwait" /\ MayRun(p) /\ b = idx[p] /\ buf[b].blk \in Blocks
        /\ buf[b].dirt /\ ~buf[b].lock
        /\ pc' = [pc EXCEPT ![p] = "syncio"]
        /\ buf' \in [Buffers -> Heads]
        /\ \A c \in Buffers : buf'[c].blk = buf[c].blk /\ buf'[c].count = buf[c].count
        /\ \A c \in Buffers : buf'[c].dirt = buf[c].dirt
        /\ \A c \in Buffers \ {b} : buf'[c].lock = buf[c].lock
        /\ buf'[b].lock /\ io' = [io EXCEPT ![b] = "write"]
        /\ dest' = [dest EXCEPT ![b] = buf[b].blk]
        /\ UNCHANGED <<hashed, next_free, prev_free, free_list, disk, refetched, late,
                       lost, pinned, want, bh, kept, idx>>
    BY <2>1, <1>1, Started DEF IInv, Typed, LocksSound, SyncWake, At, Awake,
       Goto, races
  <2>3. Typed'
    <3>1. pc' \in [Procs -> Running \cup Sleeping \cup {"idle", "hold"}]
      BY <2>2 DEF IInv, Typed, Sleeping
    <3>2. dest' \in [Buffers -> Blocks \cup {NoBlock}] /\ idx' \in [Procs -> 0..NR_BUFFERS + 1]
      BY <2>2, Constants DEF IInv, Typed
    <3> QED
      BY <2>2, <3>1, <3>2 DEF IInv, Typed
  <2>4. OneRuns'
    BY <2>2, Constants DEF IInv, Typed, OneRuns, MayRun, Running
  <2>5. Coherent'
    BY <2>2, Constants DEF IInv, Typed, Coherent
  <2>6. LocksSound'
    BY <2>1, <2>2, LocksAtStart
  <2>7. HashSound'
    BY <2>2, Constants DEF IInv, Typed, HashSound
  <2>8. EvictsUnused'
    BY <2>2, Constants DEF IInv, Typed, EvictsUnused, Coherent, MayRun,
       Running
  <2>9. TakenIsHidden'
    BY <2>2, Constants DEF IInv, Typed, TakenIsHidden, Takes, Using
  <2>10. TakenIsClean'
    <3>1. Takes(p) /\ b > bh[p] =>
             Spoilt(bh[p]) \/ (~buf[bh[p]].lock /\ ~buf[bh[p]].dirt)
      BY <2>2 DEF IInv, TakenIsClean
    <3>2. idx' = [idx EXCEPT ![p] = b]
      BY <2>2 DEF IInv, Typed
    <3> QED
      BY <2>1, <2>2, <3>1, <3>2, CleanAtStart
  <2>11. SearchSound'
    BY <2>2, Constants DEF IInv, Typed, SearchSound, MayRun, Running
  <2>12. CountsUsers'
    <3>1. \A c \in Buffers : Users(c)' = Users(c)
      BY <2>2 DEF IInv, Typed, Users, Using
    <3> QED
      BY <2>2, <3>1 DEF IInv, CountsUsers
  <2>13. HolderKeepsBlock'
    BY <2>2, HolderStays DEF IInv, Typed
  <2>14. OneBufferPerBlock'
    BY <2>2, Constants DEF IInv, Typed, OneBufferPerBlock
  <2>15. TakenOut' = TakenOut
    BY <2>2, Constants DEF IInv, Typed, TakenOut, Takes
  <2>16. SomeoneGood'
    BY <2>2, GoodRemains DEF IInv, Typed
  <2>17. FreeListSound'
    BY <2>2, <2>15, FreeListKept
  <2>18. KeptSound'
    BY <2>2, KeptStays
  <2>19. NoRing'
    BY <2>2, RingStays DEF IInv, Typed
  <2> QED
    BY <2>3, <2>4, <2>5, <2>6, <2>7, <2>8, <2>9, <2>10, <2>11, <2>12, <2>13,
       <2>14, <2>17, <2>16, <2>2, <2>18, <2>19 DEF IInv
<1>2. CASE ~buf[idx[p]].dirt
  <2>1. /\ pc[p] = "syncwait" /\ MayRun(p) /\ idx[p] \in Buffers
        /\ ~buf[idx[p]].lock /\ ~buf[idx[p]].dirt
        /\ pc' = [pc EXCEPT ![p] = "sync"]
        /\ idx' = [idx EXCEPT ![p] = idx[p] + 1] /\ idx[p] + 1 \in 0..NR_BUFFERS + 1
        /\ UNCHANGED <<buf, hashed, next_free, prev_free, free_list, io, dest, disk,
                       refetched, late, lost, pinned, want, bh, kept>>
    BY <1>2, Constants DEF IInv, Typed, Coherent, SyncWake, At, Awake, Goto,
       races
  <2>2. Typed'
    BY <2>1, Constants DEF IInv, Typed, Heads, Copies, Running, Sleeping
  <2>3. OneRuns'
    BY <2>1, Constants DEF IInv, Typed, OneRuns, MayRun, Running
  <2>4. Coherent'
    BY <2>1, Constants DEF IInv, Typed, Coherent
  <2>5. LocksSound'
    BY <2>1, Constants DEF IInv, Typed, LocksSound
  <2>6. HashSound'
    BY <2>1, Constants DEF IInv, Typed, HashSound
  <2>7. EvictsUnused'
    BY <2>1, Constants DEF IInv, Typed, EvictsUnused, Coherent, MayRun,
       Running
  <2>8. TakenIsHidden'
    BY <2>1, Constants DEF IInv, Typed, TakenIsHidden, Takes, Using
  <2>9. TakenIsClean'
    <3>1. Takes(p) /\ idx'[p] > bh[p] =>
             Spoilt(bh[p]) \/ (~buf[bh[p]].lock /\ ~buf[bh[p]].dirt)
      <4>1. ASSUME Takes(p)
            PROVE  idx[p] + 1 > bh[p] => idx[p] > bh[p] \/ idx[p] = bh[p]
        <5>1. idx[p] \in Int /\ bh[p] \in Int
          BY <2>1, <4>1, Constants DEF IInv, Typed, Takes
        <5> QED
          BY <5>1
      <4> QED
        BY <2>1, <4>1, Constants DEF IInv, Typed, TakenIsClean, Spoilt
    <3>2. ASSUME NEW q \in Procs \ {p}, Takes(q)'
          PROVE  Takes(q) /\ bh'[q] = bh[q] /\ pc'[q] = pc[q] /\ idx'[q] = idx[q]
      BY <2>1, <3>2 DEF IInv, Typed, Takes
    <3> QED
      BY <2>1, <3>1, <3>2, Constants DEF IInv, Typed, TakenIsClean, Spoilt, Takes, MayRun, Running
  <2>10. SearchSound'
    BY <2>1, Constants DEF IInv, Typed, SearchSound, MayRun, Running
  <2>11. CountsUsers'
    BY <2>1, CountsStay DEF IInv, Typed, Using
  <2>12. HolderKeepsBlock'
    BY <2>1, Constants DEF IInv, Typed, HolderKeepsBlock, Keeps
  <2>13. OneBufferPerBlock'
    BY <2>1, Constants DEF IInv, Typed, OneBufferPerBlock
  <2>14. TakenOut' = TakenOut
    BY <2>1, Constants DEF IInv, Typed, TakenOut, Takes
  <2>15. SomeoneGood'
    BY <2>1, GoodRemains DEF IInv, Typed
  <2>16. FreeListSound'
    BY <2>1, <2>14, FreeListKept
  <2>17. KeptSound'
    BY <2>1, KeptStays
  <2>18. NoRing'
    BY <2>1, RingStays DEF IInv, Typed
  <2> QED
    BY <2>2, <2>3, <2>4, <2>5, <2>6, <2>7, <2>8, <2>9, <2>10, <2>11, <2>12,
       <2>13, <2>16, <2>15, <2>1, <2>17, <2>18 DEF IInv
<1> QED
  BY <1>1, <1>2 DEF SyncWake

LEMMA ScanIInv ==
    ASSUME IInv, NEW p \in Procs, Scan(p)
    PROVE  IInv'
<1>1. CASE buf[bh[p]].count # 0 /\ next_free[bh[p]] = free_list
  <2>1. /\ pc[p] = "scan" /\ MayRun(p) /\ bh[p] \in Buffers
        /\ buf[bh[p]].count # 0 /\ next_free[bh[p]] = free_list
        /\ bh' = [bh EXCEPT ![p] = NoBuffer] /\ pc' = [pc EXCEPT ![p] = "bufwait"]
        /\ UNCHANGED <<buf, hashed, next_free, prev_free, free_list, io, dest, disk,
                       refetched, late, lost, pinned, want, kept, idx>>
    BY <1>1 DEF IInv, Typed, Coherent, Scan, NextToTry, At, Goto, cache,
       device, races
  <2>2. Typed'
    BY <2>1, Constants DEF IInv, Typed, Heads, Copies, Running, Sleeping
  <2>3. OneRuns'
    BY <2>1, Constants DEF IInv, Typed, OneRuns, MayRun, Running
  <2>4. Coherent'
    BY <2>1, Constants DEF IInv, Typed, Coherent
  <2>5. LocksSound'
    BY <2>1, Constants DEF IInv, Typed, LocksSound
  <2>6. HashSound'
    BY <2>1, Constants DEF IInv, Typed, HashSound
  <2>7. EvictsUnused'
    BY <2>1, Constants DEF IInv, Typed, EvictsUnused, Coherent, MayRun,
       Running
  <2>8. TakenIsHidden'
    BY <2>1, Constants DEF IInv, Typed, TakenIsHidden, Takes, Using
  <2>9. TakenIsClean'
    BY <2>1, Constants DEF IInv, Typed, TakenIsClean, Spoilt, Takes
  <2>10. SearchSound'
    BY <2>1, Constants DEF IInv, Typed, SearchSound, MayRun, Running
  <2>11. CountsUsers'
    BY <2>1, CountsStay DEF IInv, Typed, Using
  <2>12. HolderKeepsBlock'
    BY <2>1, Constants DEF IInv, Typed, HolderKeepsBlock, Keeps
  <2>13. OneBufferPerBlock'
    BY <2>1, Constants DEF IInv, Typed, OneBufferPerBlock
  <2>14. TakenOut' = TakenOut
    BY <2>1, Constants DEF IInv, Typed, TakenOut, Takes
  <2>15. SomeoneGood'
    <3>1. ASSUME \A q \in Procs \ {p} : ~Good(q)
          PROVE  FALSE
      <4>1. /\ TakenOut = {}
            /\ \A b \in Buffers : buf[b].count # 0 =>
                  b \in DOMAIN pinned \/ \E q \in Procs : kept[q][b] # NoBlock
        BY <2>1, <3>1, NobodyElse
      <4>2. PICK s \in SUBSET Buffers : Searched(p, s)
        BY <2>1, <3>1 DEF IInv, SearchSound
      <4>3. s # {} /\ Closed(s) /\ \A b \in s : buf[b].count # 0
        BY <2>1, <4>2 DEF Searched, Closed
      <4>4. OnFreeList = Buffers
        BY <4>1 DEF OnFreeList
      <4>5. s = Buffers
        BY <4>3, <4>4 DEF IInv, FreeListSound
      <4> QED
        BY <4>1, <4>3, <4>5, OneIsNotKept
    <3>2. PICK q \in Procs \ {p} : Good(q)
      BY <3>1
    <3>3. Good(q)'
      BY <2>1, <3>2 DEF IInv, Typed, Good, Active, Unused
    <3> QED
      BY <3>3 DEF SomeoneGood
  <2>16. FreeListSound'
    BY <2>1, <2>14, FreeListKept
  <2>17. KeptSound'
    BY <2>1, KeptStays
  <2>18. NoRing'
    BY <2>1, RingStays DEF IInv, Typed
  <2> QED
    BY <2>2, <2>3, <2>4, <2>5, <2>6, <2>7, <2>8, <2>9, <2>10, <2>11, <2>12,
       <2>13, <2>16, <2>15, <2>1, <2>17, <2>18 DEF IInv
<1>2. CASE buf[bh[p]].count # 0 /\ next_free[bh[p]] # free_list
  <2>1. PICK b \in Buffers : b = next_free[bh[p]]
    BY <1>2 DEF Scan, IInv, Typed, Coherent, At
  <2>2. /\ pc[p] = "scan" /\ MayRun(p) /\ bh[p] \in Buffers
        /\ buf[bh[p]].count # 0 /\ b = next_free[bh[p]]
        /\ bh' = [bh EXCEPT ![p] = b]
        /\ UNCHANGED <<buf, hashed, next_free, prev_free, free_list, io, dest, disk,
                       refetched, late, lost, pinned, pc, want, kept, idx>>
    BY <2>1, <1>2 DEF IInv, Typed, Coherent, Scan, NextToTry, At, Goto, cache,
       device, races
  <2>3. Typed'
    BY <2>2, Constants DEF IInv, Typed, Heads, Copies, Running, Sleeping
  <2>4. OneRuns'
    BY <2>2, Constants DEF IInv, Typed, OneRuns, MayRun, Running
  <2>5. Coherent'
    BY <2>2, Constants DEF IInv, Typed, Coherent
  <2>6. LocksSound'
    BY <2>2, Constants DEF IInv, Typed, LocksSound
  <2>7. HashSound'
    BY <2>2, Constants DEF IInv, Typed, HashSound
  <2>8. EvictsUnused'
    BY <2>2, Constants DEF IInv, Typed, EvictsUnused, Coherent, MayRun,
       Running
  <2>9. TakenIsHidden'
    BY <2>2, Constants DEF IInv, Typed, TakenIsHidden, Takes, Using
  <2>10. TakenIsClean'
    BY <2>2, Constants DEF IInv, Typed, TakenIsClean, Spoilt, Takes
  <2>11. SearchSound'
    <3>1. \A q \in Procs : pc'[q] = "scan" => q = p
      BY <2>2 DEF MayRun, Running
    <3>2. CASE \E q \in Procs \ {p} : Good(q)
      <4>1. PICK q \in Procs \ {p} : Good(q)
        BY <3>2
      <4>2. Good(q)'
        BY <2>2, <4>1 DEF IInv, Typed, Good, Active, Unused
      <4> QED
        BY <2>2, <3>1, <4>2 DEF IInv, Typed, SearchSound
    <3>3. CASE \A q \in Procs \ {p} : ~Good(q)
      <4>1. PICK s \in SUBSET Buffers : Searched(p, s)
        BY <2>2, <3>3 DEF IInv, SearchSound
      <4>2. Searched(p, s \cup {b})'
        BY <2>2, <4>1 DEF IInv, Typed, Searched
      <4> QED
        BY <2>2, <3>1, <4>2 DEF IInv, Typed, SearchSound
    <3> QED
      BY <3>2, <3>3
  <2>12. CountsUsers'
    BY <2>2, CountsStay DEF IInv, Typed, Using
  <2>13. HolderKeepsBlock'
    BY <2>2, Constants DEF IInv, Typed, HolderKeepsBlock, Keeps
  <2>14. OneBufferPerBlock'
    BY <2>2, Constants DEF IInv, Typed, OneBufferPerBlock
  <2>15. TakenOut' = TakenOut
    BY <2>2, Constants DEF IInv, Typed, TakenOut, Takes
  <2>16. SomeoneGood'
    BY <2>2, GoodNow, Constants DEF IInv, Coherent
  <2>17. FreeListSound'
    BY <2>2, <2>15, FreeListKept
  <2>18. KeptSound'
    BY <2>2, KeptStays
  <2>19. NoRing'
    BY <2>2, RingStays DEF IInv, Typed
  <2> QED
    BY <2>3, <2>4, <2>5, <2>6, <2>7, <2>8, <2>9, <2>10, <2>11, <2>12, <2>13,
       <2>14, <2>17, <2>16, <2>2, <2>18, <2>19 DEF IInv
<1>3. CASE buf[bh[p]].count = 0
  <2>1. /\ pc[p] = "scan" /\ MayRun(p) /\ bh[p] \in Buffers
        /\ buf[bh[p]].count = 0 /\ bh[p] \notin DOMAIN pinned
        /\ pc' = [pc EXCEPT ![p] = pc'[p]]
        /\ pc'[p] = IF buf[bh[p]].lock THEN "scanwait" ELSE "evict"
        /\ UNCHANGED <<buf, hashed, next_free, prev_free, free_list, io, dest, disk,
                       refetched, late, lost, pinned, want, bh, kept, idx>>
    BY <1>3, NoUsers DEF IInv, Typed, Coherent, Scan, At, Goto, cache, device,
       races
  <2>2. Typed'
    BY <2>1, Constants DEF IInv, Typed, Heads, Copies, Running, Sleeping
  <2>3. OneRuns'
    BY <2>1, Constants DEF IInv, Typed, OneRuns, MayRun, Running
  <2>4. Coherent'
    BY <2>1, Constants DEF IInv, Typed, Coherent
  <2>5. LocksSound'
    BY <2>1, Constants DEF IInv, Typed, LocksSound
  <2>6. HashSound'
    BY <2>1, Constants DEF IInv, Typed, HashSound
  <2>7. EvictsUnused'
    BY <2>1, Constants DEF IInv, Typed, EvictsUnused, Coherent, MayRun,
       Running
  <2>8. TakenIsHidden'
    BY <2>1, Constants DEF IInv, Typed, TakenIsHidden, Takes, Using
  <2>9. TakenIsClean'
    BY <2>1, Constants DEF IInv, Typed, TakenIsClean, Spoilt, Takes
  <2>10. SearchSound'
    BY <2>1, Constants DEF IInv, Typed, SearchSound, MayRun, Running
  <2>11. CountsUsers'
    BY <2>1, CountsStay DEF IInv, Typed, Using
  <2>12. HolderKeepsBlock'
    BY <2>1, Constants DEF IInv, Typed, HolderKeepsBlock, Keeps
  <2>13. OneBufferPerBlock'
    BY <2>1, Constants DEF IInv, Typed, OneBufferPerBlock
  <2>14. TakenOut' = TakenOut
    BY <2>1, Constants DEF IInv, Typed, TakenOut, Takes
  <2>15. SomeoneGood'
    <3>1. Good(p)'
      BY <2>1, Constants DEF IInv, Typed, Coherent, Good, Active, Unused
    <3> QED
      BY <3>1 DEF SomeoneGood
  <2>16. FreeListSound'
    BY <2>1, <2>14, FreeListKept
  <2>17. KeptSound'
    BY <2>1, KeptStays
  <2>18. NoRing'
    <3>1. \A q \in Procs : kept[q][bh[p]] = NoBlock
      BY <2>1, NoUsers DEF Users
    <3>2. SUFFICES ASSUME NEW g \in SUBSET Procs, g # {}, \A q \in g : pc'[q] = "scanwait"
                   PROVE  \E w \in g : \A q \in g : kept[q][bh[w]] = NoBlock
      BY <2>1 DEF NoRing
    <3>3. CASE p \in g
      BY <3>1, <3>3
    <3>4. CASE p \notin g
      <4>1. \A q \in g : pc[q] = "scanwait"
        BY <2>1, <3>2, <3>4 DEF IInv, Typed
      <4> QED
        BY <3>2, <4>1 DEF IInv, NoRing
    <3> QED
      BY <3>3, <3>4
  <2> QED
    BY <2>2, <2>3, <2>4, <2>5, <2>6, <2>7, <2>8, <2>9, <2>10, <2>11, <2>12,
       <2>13, <2>16, <2>15, <2>1, <2>17, <2>18 DEF IInv
<1> QED
  BY <1>1, <1>2, <1>3 DEF Scan

LEMMA ScanWakeIInv ==
    ASSUME IInv, NEW p \in Procs, ScanWake(p)
    PROVE  IInv'
<1>1. CASE Unused(bh[p])
  <2>1. /\ pc[p] = "scanwait" /\ MayRun(p) /\ bh[p] \in Buffers /\ ~buf[bh[p]].lock
        /\ buf[bh[p]].count = 0
        /\ pc' = [pc EXCEPT ![p] = "evict"]
        /\ UNCHANGED <<buf, hashed, next_free, prev_free, free_list, io, dest, disk,
                       refetched, late, lost, pinned, want, bh, kept, idx>>
    BY <1>1 DEF IInv, Typed, Coherent, ScanWake, Unused, At, Awake, Goto,
       cache, device, races
  <2>2. Typed'
    BY <2>1, Constants DEF IInv, Typed, Heads, Copies, Running, Sleeping
  <2>3. OneRuns'
    BY <2>1, Constants DEF IInv, Typed, OneRuns, MayRun, Running
  <2>4. Coherent'
    BY <2>1, Constants DEF IInv, Typed, Coherent
  <2>5. LocksSound'
    BY <2>1, Constants DEF IInv, Typed, LocksSound
  <2>6. HashSound'
    BY <2>1, Constants DEF IInv, Typed, HashSound
  <2>7. EvictsUnused'
    BY <2>1, Constants DEF IInv, Typed, EvictsUnused, Coherent, MayRun,
       Running
  <2>8. TakenIsHidden'
    BY <2>1, Constants DEF IInv, Typed, TakenIsHidden, Takes, Using
  <2>9. TakenIsClean'
    BY <2>1, Constants DEF IInv, Typed, TakenIsClean, Spoilt, Takes
  <2>10. SearchSound'
    BY <2>1, Constants DEF IInv, Typed, SearchSound, MayRun, Running
  <2>11. CountsUsers'
    BY <2>1, CountsStay DEF IInv, Typed, Using
  <2>12. HolderKeepsBlock'
    BY <2>1, Constants DEF IInv, Typed, HolderKeepsBlock, Keeps
  <2>13. OneBufferPerBlock'
    BY <2>1, Constants DEF IInv, Typed, OneBufferPerBlock
  <2>14. TakenOut' = TakenOut
    BY <2>1, Constants DEF IInv, Typed, TakenOut, Takes
  <2>15. SomeoneGood'
    BY <2>1, GoodNow, Constants DEF IInv, Typed, Coherent
  <2>16. FreeListSound'
    BY <2>1, <2>14, FreeListKept
  <2>17. KeptSound'
    BY <2>1, KeptStays
  <2>18. NoRing'
    BY <2>1, RingStays DEF IInv, Typed
  <2> QED
    BY <2>2, <2>3, <2>4, <2>5, <2>6, <2>7, <2>8, <2>9, <2>10, <2>11, <2>12,
       <2>13, <2>16, <2>15, <2>1, <2>17, <2>18 DEF IInv
<1>2. CASE ~Unused(bh[p])
  <2>1. PICK q \in Procs : q # p /\ Good(q)
    <3>1. pc[p] = "scanwait" /\ want[p] # NoBlock
      BY <1>2, Constants DEF IInv, Coherent, ScanWake, At
    <3> QED
      BY <1>2, <3>1 DEF IInv, SomeoneGood, Good
  <2>2. /\ pc[p] = "scanwait" /\ MayRun(p) /\ bh[p] \in Buffers /\ ~buf[bh[p]].lock
        /\ bh' = [bh EXCEPT ![p] = bh'[p]] /\ bh'[p] \in Buffers \cup {NoBuffer}
        /\ pc' = [pc EXCEPT ![p] = pc'[p]]
        /\ pc'[p] = "bufwait" \/ (pc'[p] = "scan" /\ bh'[p] \in Buffers)
        /\ UNCHANGED <<buf, hashed, next_free, prev_free, free_list, io, dest, disk,
                       refetched, late, lost, pinned, want, kept, idx>>
    BY <1>2 DEF IInv, Typed, Coherent, ScanWake, NextToTry, At, Awake, Goto,
       cache, device, races
  <2>3. Typed'
    BY <2>2, Constants DEF IInv, Typed, Heads, Copies, Running, Sleeping
  <2>4. OneRuns'
    BY <2>2, Constants DEF IInv, Typed, OneRuns, MayRun, Running
  <2>5. Coherent'
    BY <2>2, Constants DEF IInv, Typed, Coherent
  <2>6. LocksSound'
    BY <2>2, Constants DEF IInv, Typed, LocksSound
  <2>7. HashSound'
    BY <2>2, Constants DEF IInv, Typed, HashSound
  <2>8. EvictsUnused'
    BY <2>2, Constants DEF IInv, Typed, EvictsUnused, Coherent, MayRun,
       Running
  <2>9. TakenIsHidden'
    <3>1. \A r \in Procs : /\ pc'[r] \in Using <=> pc[r] \in Using
                           /\ pc[r] \in Using => bh'[r] = bh[r] /\ pc'[r] = pc[r]
      BY <2>2 DEF IInv, Typed, Using
    <3>2. \A r \in Procs : Takes(r)' => Takes(r) /\ pc[r] \in Using /\ bh'[r] = bh[r]
      BY <2>2, <3>1 DEF Takes, Using
    <3> QED
      BY <2>2, <3>1, <3>2 DEF IInv, TakenIsHidden
  <2>10. TakenIsClean'
    BY <2>2, Constants DEF IInv, Typed, TakenIsClean, Spoilt, Takes
  <2>11. SearchSound'
    <3>1. Good(q)'
      BY <2>1, <2>2 DEF IInv, Typed, Good, Active, Unused
    <3>2. \A r \in Procs : pc'[r] = "scan" => r = p
      BY <2>2 DEF IInv, Typed, MayRun, Running
    <3> QED
      BY <2>1, <2>2, <3>1, <3>2 DEF IInv, Typed, SearchSound
  <2>12. CountsUsers'
    BY <2>2, CountsStay DEF IInv, Typed, Using
  <2>13. HolderKeepsBlock'
    BY <2>2, Constants DEF IInv, Typed, HolderKeepsBlock, Keeps
  <2>14. OneBufferPerBlock'
    BY <2>2, Constants DEF IInv, Typed, OneBufferPerBlock
  <2>15. TakenOut' = TakenOut
    BY <2>2, Constants DEF IInv, Typed, TakenOut, Takes
  <2>16. SomeoneGood'
    <3>1. Good(q)'
      BY <2>1, <2>2 DEF IInv, Typed, Good, Active, Unused
    <3> QED
      BY <3>1 DEF SomeoneGood
  <2>17. FreeListSound'
    BY <2>2, <2>15, FreeListKept
  <2>18. KeptSound'
    BY <2>2, KeptStays
  <2>19. NoRing'
    BY <2>2, RingStays DEF IInv, Typed
  <2> QED
    BY <2>3, <2>4, <2>5, <2>6, <2>7, <2>8, <2>9, <2>10, <2>11, <2>12, <2>13,
       <2>14, <2>17, <2>16, <2>2, <2>18, <2>19 DEF IInv
<1> QED
  BY <1>1, <1>2 DEF ScanWake

LEMMA EvictIInv ==
    ASSUME IInv, NEW p \in Procs, Evict(p)
    PROVE  IInv'
<1>1. CASE NeedsWriting(bh[p])
  <2>1. PICK b \in Buffers : b = bh[p]
    BY <1>1 DEF Evict, IInv, Typed, Coherent, At
  <2>2. /\ pc[p] = "evict" /\ MayRun(p) /\ b \in Buffers /\ bh[p] = b
        /\ Users(b) = {} /\ buf[b].count = 0 /\ ~buf[b].lock /\ b \notin DOMAIN pinned
        /\ buf' = [buf EXCEPT ![b].count = @ + 1] /\ hashed' = hashed \ {b}
        /\ next_free' = [next_free EXCEPT ![prev_free[b]] = next_free[b]]
        /\ prev_free' = [prev_free EXCEPT ![next_free[b]] = prev_free[b]]
        /\ free_list' = IF free_list = b THEN next_free[b] ELSE free_list
        /\ pc' = [pc EXCEPT ![p] = "sync"]
        /\ idx' = [idx EXCEPT ![p] = 1] /\ 1 \in 0..NR_BUFFERS + 1
        /\ UNCHANGED <<io, dest, disk, refetched, late, lost, pinned, want, bh, kept>>
    BY <2>1, <1>1, NoUsers, Constants DEF IInv, EvictsUnused, SearchSound,
       NeedsWriting, Evict, RemoveFromQueues, At, Goto, device, races
  <2>3. Typed'
    <3>1. buf[b].count + 1 \in Int
      BY <2>2, Constants DEF IInv, Typed, Heads
    <3>2. buf' \in [Buffers -> Heads]
      BY <2>2, <3>1, <2>2, CountChanged
    <3>3. pc' \in [Procs -> Running \cup Sleeping \cup {"idle", "hold"}]
      BY <2>2, Constants DEF IInv, Typed, Running, Sleeping
    <3> QED
      BY <3>1, <3>2, <3>3, <2>2 DEF IInv, Typed
  <2>4. OneRuns'
    BY <2>2, Constants DEF IInv, Typed, OneRuns, MayRun, Running
  <2>5. Coherent'
    BY <2>2, Constants DEF IInv, Typed, Coherent
  <2>6. LocksSound'
    BY <2>2, Constants DEF IInv, Typed, LocksSound
  <2>7. HashSound'
    BY <2>2, Constants DEF IInv, Typed, HashSound
  <2>8. EvictsUnused'
    BY <2>2, Constants DEF IInv, Typed, EvictsUnused, Coherent, MayRun,
       Running
  <2>9. TakenIsHidden'
    BY <2>2, Constants DEF IInv, Typed, TakenIsHidden, Takes, Using, Users
  <2>10. TakenIsClean'
    <3>1. ~(1 > b)
      BY <2>2 DEF Buffers
    <3>2. ASSUME NEW q \in Procs \ {p}, Takes(q)'
          PROVE  /\ Takes(q) /\ bh'[q] = bh[q] /\ bh[q] \in Buffers \ {b}
                 /\ pc'[q] = pc[q] /\ idx'[q] = idx[q]
      BY <2>2, <3>2, Constants DEF IInv, Typed, Takes, Users, Using
    <3>3. \A c \in Buffers \ {b} : buf'[c] = buf[c]
      BY <2>2 DEF IInv, Typed
    <3> QED
      BY <2>2, <3>1, <3>2, <3>3 DEF IInv, Typed, TakenIsClean, Spoilt
  <2>11. SearchSound'
    BY <2>2, Constants DEF IInv, Typed, SearchSound, MayRun, Running
  <2>12. CountsUsers'
    <3>1. p \notin Users(b) /\ Users(b)' = Users(b) \cup {p}
      BY <2>2 DEF IInv, Typed, Users, Using
    <3>2. \A c \in Buffers \ {b} : Users(c)' = Users(c)
      BY <2>2 DEF IInv, Typed, Users, Using
    <3>3. buf'[b].count = buf[b].count + 1 /\ \A c \in Buffers \ {b} : buf'[c] = buf[c]
      BY <2>2 DEF IInv, Typed, Heads
    <3>4. pinned' = pinned
      BY <2>2
    <3> QED
      BY <3>1, <3>2, <3>3, <3>4, UserAdded
  <2>13. HolderKeepsBlock'
    BY <2>2, Constants DEF IInv, Typed, HolderKeepsBlock, Keeps, Users, Using
  <2>14. OneBufferPerBlock'
    BY <2>2, Constants DEF IInv, Typed, OneBufferPerBlock
  <2>15. FreeListSound'
    <3>1. /\ b \in OnFreeList
           /\ \E c \in OnFreeList : c # b
      BY <2>2, OthersOnFreeList
    <3>2. PICK c \in OnFreeList \ {b} : TRUE
      BY <3>1
    <3>3. Ring(OnFreeList \ {b}, next_free', prev_free', free_list')
      <4>1. /\ Ring(OnFreeList, next_free, prev_free, free_list) /\ free_list \in OnFreeList
            /\ OnFreeList \in SUBSET Buffers
            /\ next_free \in [Buffers -> Buffers] /\ prev_free \in [Buffers -> Buffers]
        BY FreeListIsRing DEF IInv, Typed, FreeListSound, OnFreeList
      <4> QED
        BY <2>2, <3>1, <3>2, <4>1, RingRemove
    <3>4. TakenOut' = TakenOut \cup {b}
      BY <2>2, Constants DEF IInv, Typed, TakenOut, Takes
    <3>5. OnFreeList' = OnFreeList \ {b}
      BY <3>4 DEF OnFreeList
    <3> QED
      BY <3>3, <3>5 DEF FreeListSound, Ring, Closed
  <2>16. SomeoneGood'
    BY <2>2, GoodNow, Constants DEF IInv, Typed, Coherent
  <2>17. KeptSound'
    BY <2>2, KeptStays
  <2>18. NoRing'
    BY <2>2, RingStays DEF IInv, Typed
  <2> QED
    BY <2>3, <2>4, <2>5, <2>6, <2>7, <2>8, <2>9, <2>10, <2>11, <2>12, <2>13,
       <2>14, <2>15, <2>16, <2>2, <2>17, <2>18 DEF IInv
<1>2. CASE ~NeedsWriting(bh[p])
  <2>1. PICK b \in Buffers : b = bh[p]
    BY <1>2 DEF Evict, IInv, Typed, Coherent, At
  <2>2. /\ pc[p] = "evict" /\ MayRun(p) /\ b \in Buffers /\ bh[p] = b
        /\ Users(b) = {} /\ buf[b].count = 0 /\ ~buf[b].lock /\ b \notin DOMAIN pinned
        /\ buf' = [buf EXCEPT ![b].count = @ + 1] /\ hashed' = hashed \ {b}
        /\ next_free' = [next_free EXCEPT ![prev_free[b]] = next_free[b]]
        /\ prev_free' = [prev_free EXCEPT ![next_free[b]] = prev_free[b]]
        /\ free_list' = IF free_list = b THEN next_free[b] ELSE free_list
        /\ pc' = [pc EXCEPT ![p] = "take"]
        /\ ~buf[b].dirt
        /\ UNCHANGED <<io, dest, disk, refetched, late, lost, pinned, want, bh, kept,
                       idx>>
    BY <2>1, <1>2, NoUsers, Constants DEF IInv, EvictsUnused, SearchSound,
       NeedsWriting, Evict, RemoveFromQueues, At, Goto, device, races
  <2>3. Typed'
    <3>1. buf[b].count + 1 \in Int
      BY <2>2, Constants DEF IInv, Typed, Heads
    <3>2. buf' \in [Buffers -> Heads]
      BY <2>2, <3>1, <2>2, CountChanged
    <3>3. pc' \in [Procs -> Running \cup Sleeping \cup {"idle", "hold"}]
      BY <2>2, Constants DEF IInv, Typed, Running, Sleeping
    <3> QED
      BY <3>1, <3>2, <3>3, <2>2 DEF IInv, Typed
  <2>4. OneRuns'
    BY <2>2, Constants DEF IInv, Typed, OneRuns, MayRun, Running
  <2>5. Coherent'
    BY <2>2, Constants DEF IInv, Typed, Coherent
  <2>6. LocksSound'
    BY <2>2, Constants DEF IInv, Typed, LocksSound
  <2>7. HashSound'
    BY <2>2, Constants DEF IInv, Typed, HashSound
  <2>8. EvictsUnused'
    BY <2>2, Constants DEF IInv, Typed, EvictsUnused, Coherent, MayRun,
       Running
  <2>9. TakenIsHidden'
    BY <2>2, Constants DEF IInv, Typed, TakenIsHidden, Takes, Using, Users
  <2>10. TakenIsClean'
    BY <2>2, Constants DEF IInv, Typed, TakenIsClean, Spoilt, Takes, Users,
       TakenIsHidden, Using
  <2>11. SearchSound'
    BY <2>2, Constants DEF IInv, Typed, SearchSound, MayRun, Running
  <2>12. CountsUsers'
    <3>1. p \notin Users(b) /\ Users(b)' = Users(b) \cup {p}
      BY <2>2 DEF IInv, Typed, Users, Using
    <3>2. \A c \in Buffers \ {b} : Users(c)' = Users(c)
      BY <2>2 DEF IInv, Typed, Users, Using
    <3>3. buf'[b].count = buf[b].count + 1 /\ \A c \in Buffers \ {b} : buf'[c] = buf[c]
      BY <2>2 DEF IInv, Typed, Heads
    <3>4. pinned' = pinned
      BY <2>2
    <3> QED
      BY <3>1, <3>2, <3>3, <3>4, UserAdded
  <2>13. HolderKeepsBlock'
    BY <2>2, Constants DEF IInv, Typed, HolderKeepsBlock, Keeps, Users, Using
  <2>14. OneBufferPerBlock'
    BY <2>2, Constants DEF IInv, Typed, OneBufferPerBlock
  <2>15. FreeListSound'
    <3>1. /\ b \in OnFreeList
           /\ \E c \in OnFreeList : c # b
      BY <2>2, OthersOnFreeList
    <3>2. PICK c \in OnFreeList \ {b} : TRUE
      BY <3>1
    <3>3. Ring(OnFreeList \ {b}, next_free', prev_free', free_list')
      <4>1. /\ Ring(OnFreeList, next_free, prev_free, free_list) /\ free_list \in OnFreeList
            /\ OnFreeList \in SUBSET Buffers
            /\ next_free \in [Buffers -> Buffers] /\ prev_free \in [Buffers -> Buffers]
        BY FreeListIsRing DEF IInv, Typed, FreeListSound, OnFreeList
      <4> QED
        BY <2>2, <3>1, <3>2, <4>1, RingRemove
    <3>4. TakenOut' = TakenOut \cup {b}
      BY <2>2, Constants DEF IInv, Typed, TakenOut, Takes
    <3>5. OnFreeList' = OnFreeList \ {b}
      BY <3>4 DEF OnFreeList
    <3> QED
      BY <3>3, <3>5 DEF FreeListSound, Ring, Closed
  <2>16. SomeoneGood'
    BY <2>2, GoodNow, Constants DEF IInv, Typed, Coherent
  <2>17. KeptSound'
    BY <2>2, KeptStays
  <2>18. NoRing'
    BY <2>2, RingStays DEF IInv, Typed
  <2> QED
    BY <2>3, <2>4, <2>5, <2>6, <2>7, <2>8, <2>9, <2>10, <2>11, <2>12, <2>13,
       <2>14, <2>15, <2>16, <2>2, <2>17, <2>18 DEF IInv
<1> QED
  BY <1>1, <1>2 DEF Evict

LEMMA TakeIInv ==
    ASSUME IInv, NEW p \in Procs, Take(p)
    PROVE  IInv'
<1>1. CASE Unbeaten(want[p])
  <2>1. PICK b \in Buffers :
              /\ b = bh[p] /\ b \notin hashed /\ Users(b) = {p} /\ buf[b].count = 1
              /\ buf' = [buf EXCEPT ![b] = buf'[b]]
              /\ buf'[b] \in Heads /\ buf'[b].blk = want[p] /\ ~buf'[b].dirt
              /\ buf'[b].count = 1
              /\ buf'[b].lock = buf[b].lock
              /\ buf[b].lock => dest[b] \in lost /\ buf'[b].blk \in lost' \cup {NoBlock}
              /\ lost \subseteq lost'
    <3>1. pc[p] = "take" /\ want[p] \in Blocks /\ want[p] # NoBlock
      BY Constants DEF IInv, Typed, Coherent, Take, At
    <3>2. PICK x : x = IF Unbeaten(want[p]) THEN want[p] ELSE NoBlock
      OBVIOUS
    <3> QED
      BY <1>1, <3>1, <3>2, PutBack
  <2>2. pc[p] = "take" /\ MayRun(p) /\ want[p] \in Blocks /\ want[p] # NoBlock
    BY Constants DEF IInv, Typed, Coherent, Take, At
  <2>3. /\ pc[p] = "take" /\ MayRun(p) /\ b \in Buffers /\ bh[p] = b
        /\ want[p] \in Blocks /\ want[p] # NoBlock /\ \A c \in hashed : buf[c].blk # want[p]
        /\ hashed' = hashed \cup {b}
        /\ next_free' = [next_free EXCEPT ![b] = free_list, ![prev_free[free_list]] = b]
        /\ prev_free' = [prev_free EXCEPT ![b] = prev_free[free_list], ![free_list] = b]
        /\ pc' = [pc EXCEPT ![p] = pc'[p]] /\ pc'[p] \in {"got", "lockwait"}
        /\ refetched' \subseteq Blocks /\ lost' \subseteq Blocks
        /\ UNCHANGED <<free_list, io, dest, disk, late, pinned, want, bh, kept, idx>>
    BY <1>1, <2>1, <2>2, Constants DEF Take, Unbeaten, Cached,
       InsertIntoQueues, Goto, device, races, IInv, Typed
  <2>4. Typed'
    <3>1. buf' \in [Buffers -> Heads]
      BY <2>1 DEF IInv, Typed
    <3>2. pc' \in [Procs -> Running \cup Sleeping \cup {"idle", "hold"}]
      BY <2>3 DEF IInv, Typed, Running, Sleeping
    <3>3. hashed' \subseteq Buffers /\ next_free' \in [Buffers -> Buffers]
           /\ prev_free' \in [Buffers -> Buffers]
      BY <2>3 DEF IInv, Typed
    <3> QED
      BY <2>3, <3>1, <3>2, <3>3, Constants DEF IInv, Typed
  <2>5. OneRuns'
    BY <2>1, <2>3, Constants DEF IInv, Typed, OneRuns, MayRun, Running
  <2>6. Coherent'
    BY <2>1, <2>3, Constants DEF IInv, Typed, Coherent
  <2>7. LocksSound'
    <3>1. \A c \in Buffers : c # b => buf'[c] = buf[c]
      BY <2>1 DEF IInv, Typed
    <3> QED
      BY <2>1, <2>3, <3>1 DEF IInv, LocksSound
  <2>8. HashSound'
    BY <2>1, <2>3, Constants DEF IInv, Typed, HashSound
  <2>9. EvictsUnused'
    BY <2>1, <2>3, Constants DEF IInv, Typed, EvictsUnused, Coherent, MayRun,
       Running
  <2>10. TakenIsHidden'
    BY <2>1, <2>3, Constants DEF IInv, Typed, TakenIsHidden, Takes, Using,
       Users
  <2>11. TakenIsClean'
    <3>1. ASSUME NEW q \in Procs, Takes(q)'
          PROVE  /\ Takes(q) /\ bh'[q] = bh[q] /\ bh[q] \in Buffers \ {b} /\ pc'[q] = pc[q]
      BY <2>1, <2>3, <3>1, Constants DEF IInv, Typed, Takes, Users, Using
    <3>2. \A c \in Buffers : c # b => buf'[c] = buf[c]
      BY <2>1 DEF IInv, Typed
    <3> QED
      BY <2>1, <2>3, <3>1, <3>2 DEF IInv, TakenIsClean, Spoilt
  <2>12. SearchSound'
    BY <2>1, <2>3, Constants DEF IInv, Typed, SearchSound, MayRun, Running
  <2>13. CountsUsers'
    <3>1. \A c \in Buffers : Users(c)' = Users(c)
      BY <2>1, <2>3 DEF IInv, Typed, Users, Using
    <3>2. \A c \in Buffers : buf'[c].count = buf[c].count
      BY <2>1, <2>3 DEF IInv, Typed
    <3> QED
      BY <2>3, <3>1, <3>2 DEF IInv, CountsUsers
  <2>14. HolderKeepsBlock'
    <3>1. ASSUME NEW q \in Procs \ {p}, pc'[q] \in {"hashwait", "got", "lockwait", "readwait", "failed", "hold"}
          PROVE  /\ bh'[q] = bh[q] /\ bh[q] # b /\ bh[q] \in hashed
                 /\ buf[bh[q]].blk = want[q] /\ buf'[bh[q]] = buf[bh[q]]
      BY <2>1, <2>3, <3>1 DEF IInv, Typed, HolderKeepsBlock, Keeps, Users, Using
    <3>2. ASSUME NEW q \in Procs, NEW c \in Keeps(q)'
          PROVE  buf'[c].blk = kept'[q][c] /\ c \in hashed'
      <4>1. c \in Keeps(q) /\ c # b
        BY <2>1, <2>3, <3>2 DEF IInv, HolderKeepsBlock, Keeps
      <4> QED
        BY <2>1, <2>3, <4>1 DEF IInv, Typed, HolderKeepsBlock, Keeps
    <3> QED
      BY <2>1, <2>3, <3>1, <3>2 DEF IInv, Typed, HolderKeepsBlock
  <2>15. OneBufferPerBlock'
    BY <2>1, <2>3, Constants DEF IInv, Typed, OneBufferPerBlock
  <2>16. FreeListSound'
    <3>1. TakenOut' = TakenOut \ {b}
      BY <2>1, <2>3, Constants DEF IInv, Typed, TakenOut, Takes, Users, Using
    <3>2. OnFreeList' = OnFreeList \cup {b} /\ b \notin OnFreeList
      BY <2>1, <2>3, <3>1, Constants DEF OnFreeList, TakenOut, Takes
    <3>3. Ring(OnFreeList \cup {b}, next_free', prev_free', free_list')
      <4>1. /\ Ring(OnFreeList, next_free, prev_free, free_list) /\ free_list \in OnFreeList
            /\ OnFreeList \in SUBSET Buffers
            /\ next_free \in [Buffers -> Buffers] /\ prev_free \in [Buffers -> Buffers]
        BY FreeListIsRing DEF IInv, Typed, FreeListSound, OnFreeList
      <4> QED
        BY <2>1, <2>3, <3>2, <4>1, RingInsert
    <3> QED
      BY <3>2, <3>3 DEF FreeListSound, Ring, Closed
  <2>17. SomeoneGood'
    BY <2>3, GoodNow DEF IInv, Typed
  <2>18. KeptSound'
    BY <2>1, <2>3, KeptStays
  <2>19. NoRing'
    BY <2>1, <2>3, RingStays DEF IInv, Typed
  <2> QED
    BY <2>4, <2>5, <2>6, <2>7, <2>8, <2>9, <2>10, <2>11, <2>12, <2>13, <2>14,
       <2>15, <2>16, <2>17, <2>1, <2>3, <2>18, <2>19 DEF IInv
<1>2. CASE ~Unbeaten(want[p])
  <2>1. PICK b \in Buffers :
              /\ b = bh[p] /\ b \notin hashed /\ Users(b) = {p} /\ buf[b].count = 1
              /\ buf' = [buf EXCEPT ![b] = buf'[b]]
              /\ buf'[b] \in Heads /\ buf'[b].blk = NoBlock /\ ~buf'[b].dirt
              /\ buf'[b].count = 0
              /\ buf'[b].lock = buf[b].lock
              /\ buf[b].lock => dest[b] \in lost /\ buf'[b].blk \in lost' \cup {NoBlock}
              /\ lost \subseteq lost'
    <3>1. pc[p] = "take" /\ want[p] \in Blocks /\ want[p] # NoBlock
      BY Constants DEF IInv, Typed, Coherent, Take, At
    <3>2. PICK x : x = IF Unbeaten(want[p]) THEN want[p] ELSE NoBlock
      OBVIOUS
    <3> QED
      BY <1>2, <3>1, <3>2, PutBack
  <2>2. pc[p] = "take" /\ MayRun(p) /\ want[p] \in Blocks /\ want[p] # NoBlock
    BY Constants DEF IInv, Typed, Coherent, Take, At
  <2>3. /\ pc[p] = "take" /\ MayRun(p) /\ b \in Buffers /\ bh[p] = b
        /\ hashed' = hashed
        /\ next_free' = [next_free EXCEPT ![b] = free_list, ![prev_free[free_list]] = b]
        /\ prev_free' = [prev_free EXCEPT ![b] = prev_free[free_list], ![free_list] = b]
        /\ pc' = [pc EXCEPT ![p] = "find"]
        /\ bh' = [bh EXCEPT ![p] = NoBuffer]
        /\ want[p] # NoBlock
        /\ refetched' \subseteq Blocks /\ lost' \subseteq Blocks
        /\ UNCHANGED <<free_list, io, dest, disk, late, pinned, want, kept, idx>>
    BY <1>2, <2>1, <2>2, Constants DEF Take, Unbeaten, Cached,
       InsertIntoQueues, Goto, device, races, IInv, Typed
  <2>4. Typed'
    <3>1. buf' \in [Buffers -> Heads]
      BY <2>1 DEF IInv, Typed
    <3>2. pc' \in [Procs -> Running \cup Sleeping \cup {"idle", "hold"}]
      BY <2>3 DEF IInv, Typed, Running, Sleeping
    <3>3. hashed' \subseteq Buffers /\ next_free' \in [Buffers -> Buffers]
           /\ prev_free' \in [Buffers -> Buffers]
      BY <2>3 DEF IInv, Typed
    <3> QED
      BY <2>3, <3>1, <3>2, <3>3, Constants DEF IInv, Typed
  <2>5. OneRuns'
    BY <2>1, <2>3, Constants DEF IInv, Typed, OneRuns, MayRun, Running
  <2>6. Coherent'
    BY <2>1, <2>3, Constants DEF IInv, Typed, Coherent
  <2>7. LocksSound'
    <3>1. \A c \in Buffers : c # b => buf'[c] = buf[c]
      BY <2>1 DEF IInv, Typed
    <3> QED
      BY <2>1, <2>3, <3>1 DEF IInv, LocksSound
  <2>8. HashSound'
    BY <2>1, <2>3, Constants DEF IInv, Typed, HashSound
  <2>9. EvictsUnused'
    BY <2>1, <2>3, Constants DEF IInv, Typed, EvictsUnused, Coherent, MayRun,
       Running
  <2>10. TakenIsHidden'
    BY <2>1, <2>3, Constants DEF IInv, Typed, TakenIsHidden, Takes, Using,
       Users
  <2>11. TakenIsClean'
    <3>1. ASSUME NEW q \in Procs, Takes(q)'
          PROVE  /\ Takes(q) /\ bh'[q] = bh[q] /\ bh[q] \in Buffers \ {b} /\ pc'[q] = pc[q]
      BY <2>1, <2>3, <3>1, Constants DEF IInv, Typed, Takes, Users, Using
    <3>2. \A c \in Buffers : c # b => buf'[c] = buf[c]
      BY <2>1 DEF IInv, Typed
    <3> QED
      BY <2>1, <2>3, <3>1, <3>2 DEF IInv, TakenIsClean, Spoilt
  <2>12. SearchSound'
    BY <2>1, <2>3, Constants DEF IInv, Typed, SearchSound, MayRun, Running
  <2>13. CountsUsers'
    <3>0. kept[p][b] = NoBlock
      BY <2>1, <2>3, NotKept, Constants DEF Takes
    <3>1. p \in Users(b) /\ Users(b)' = Users(b) \ {p}
      BY <2>1, <2>3, <3>0, Constants DEF IInv, Typed, Users, Using
    <3>2. \A c \in Buffers \ {b} : Users(c)' = Users(c) /\ buf'[c].count = buf[c].count
      BY <2>1, <2>3, Constants DEF IInv, Typed, Users, Using
    <3> QED
      BY <2>1, <2>3, <3>1, <3>2, UserRemoved
  <2>14. HolderKeepsBlock'
    <3>1. ASSUME NEW q \in Procs \ {p}, pc'[q] \in {"hashwait", "got", "lockwait", "readwait", "failed", "hold"}
          PROVE  /\ bh'[q] = bh[q] /\ bh[q] # b /\ bh[q] \in hashed
                 /\ buf[bh[q]].blk = want[q] /\ buf'[bh[q]] = buf[bh[q]]
      BY <2>1, <2>3, <3>1 DEF IInv, Typed, HolderKeepsBlock, Keeps, Users, Using
    <3>2. ASSUME NEW q \in Procs, NEW c \in Keeps(q)'
          PROVE  buf'[c].blk = kept'[q][c] /\ c \in hashed'
      <4>1. c \in Keeps(q) /\ c # b
        BY <2>1, <2>3, <3>2 DEF IInv, HolderKeepsBlock, Keeps
      <4> QED
        BY <2>1, <2>3, <4>1 DEF IInv, Typed, HolderKeepsBlock, Keeps
    <3> QED
      BY <2>1, <2>3, <3>1, <3>2 DEF IInv, Typed, HolderKeepsBlock
  <2>15. OneBufferPerBlock'
    BY <2>1, <2>3, Constants DEF IInv, Typed, OneBufferPerBlock
  <2>16. FreeListSound'
    <3>1. TakenOut' = TakenOut \ {b}
      BY <2>1, <2>3, Constants DEF IInv, Typed, TakenOut, Takes, Users, Using
    <3>2. OnFreeList' = OnFreeList \cup {b} /\ b \notin OnFreeList
      BY <2>1, <2>3, <3>1, Constants DEF OnFreeList, TakenOut, Takes
    <3>3. Ring(OnFreeList \cup {b}, next_free', prev_free', free_list')
      <4>1. /\ Ring(OnFreeList, next_free, prev_free, free_list) /\ free_list \in OnFreeList
            /\ OnFreeList \in SUBSET Buffers
            /\ next_free \in [Buffers -> Buffers] /\ prev_free \in [Buffers -> Buffers]
        BY FreeListIsRing DEF IInv, Typed, FreeListSound, OnFreeList
      <4> QED
        BY <2>1, <2>3, <3>2, <4>1, RingInsert
    <3> QED
      BY <3>2, <3>3 DEF FreeListSound, Ring, Closed
  <2>17. SomeoneGood'
    BY <2>3, GoodNow DEF IInv, Typed
  <2>18. KeptSound'
    BY <2>1, <2>3, KeptStays
  <2>19. NoRing'
    BY <2>1, <2>3, RingStays DEF IInv, Typed
  <2> QED
    BY <2>4, <2>5, <2>6, <2>7, <2>8, <2>9, <2>10, <2>11, <2>12, <2>13, <2>14,
       <2>15, <2>16, <2>17, <2>1, <2>3, <2>18, <2>19 DEF IInv
<1> QED
  BY <1>1, <1>2 DEF Take
-----------------------------------------------------------------------------
(* The first state: the free list in the order of the buffers in memory.   *)

LEMMA Smallest ==
    ASSUME NEW t \in SUBSET Nat, t # {}
    PROVE  \E x \in t : \A y \in t : x <= y
<1> DEFINE R == OpToRel(<, Nat)
<1>1. PICK x \in t : \A y \in t : <<y, x>> \notin R
  <2> HIDE DEF R
  <2>1. IsWellFoundedOn(R, Nat)
    BY NatLessThanWellFounded DEF R
  <2> QED
    BY <2>1, WFMin
<1>2. \A y \in t : ~(y < x)
  BY <1>1 DEF OpToRel
<1> QED
  BY <1>2

LEMMA FirstRing ==
    ASSUME NEW n, n = [b \in Buffers |-> IF b = NR_BUFFERS THEN 1 ELSE b + 1],
           NEW s \in SUBSET Buffers, s # {}, \A b \in s : n[b] \in s
    PROVE  s = Buffers
<1>1. NR_BUFFERS \in Nat /\ Buffers = 1..NR_BUFFERS
  BY BufferAssumption DEF Buffers
<1>2. 1 \in s
  <2> DEFINE t == {NR_BUFFERS - b : b \in s}
  <2>0. \A b \in s : NR_BUFFERS - b \in Nat
    BY <1>1
  <2>1. t \in SUBSET Nat /\ t # {}
    BY <2>0
  <2>2. PICK x \in t : \A y \in t : x <= y
    BY <2>1, Smallest
  <2>3. PICK b \in s : x = NR_BUFFERS - b
    OBVIOUS
  <2>4. CASE b = NR_BUFFERS
    BY <2>4, <1>1
  <2>5. CASE b # NR_BUFFERS
    <3>1. b + 1 \in s
      BY <2>5, <1>1
    <3>2. NR_BUFFERS - (b + 1) \in t
      BY <3>1
    <3>3. NR_BUFFERS - b <= NR_BUFFERS - (b + 1)
      BY <3>2, <2>2, <2>3
    <3> QED
      BY <3>3, <1>1
  <2> QED
    BY <2>4, <2>5
<1>3. SUFFICES ASSUME Buffers \ s # {}
               PROVE  FALSE
  OBVIOUS
<1>4. PICK b \in Buffers \ s : \A c \in Buffers \ s : b <= c
  <2>1. Buffers \ s \in SUBSET Nat
    BY <1>1
  <2> QED
    BY <1>3, <2>1, Smallest
<1>5. b - 1 \in s
  BY <1>1, <1>2, <1>4
<1> QED
  BY <1>1, <1>4, <1>5, SMTT(60)

LEMMA InitIInv == Init => IInv
<1> SUFFICES ASSUME Init PROVE IInv
  OBVIOUS
<1>1. /\ DOMAIN pinned \subseteq Buffers /\ DOMAIN pinned # {}
      /\ \A b \in DOMAIN pinned : pinned[b] \in Blocks
      /\ \A b, c \in DOMAIN pinned : pinned[b] = pinned[c] => b = c
  BY BufferAssumption DEF Init
<1>2. NR_BUFFERS \in Nat /\ NR_BUFFERS >= 1 /\ 1 \in Buffers
  BY <1>1, BufferAssumption DEF Buffers
<1>3. TakenOut = {} /\ OnFreeList = Buffers /\ \A b \in Buffers : Users(b) = {}
  BY DEF Init, TakenOut, OnFreeList, Takes, Users, Using
<1>4. \A b \in Buffers : /\ buf[b].blk = IF b \in DOMAIN pinned THEN pinned[b] ELSE NoBlock
                         /\ buf[b].count = IF b \in DOMAIN pinned THEN 1 ELSE 0
                         /\ ~buf[b].lock /\ ~buf[b].dirt
  BY DEF Init
<1>13. \A p \in Procs : Keeps(p) = {}
  BY DEF Init, Keeps
<1>5. Typed
  <2>1. buf \in [Buffers -> Heads]
    BY <1>1 DEF Init, Heads, Copies
  <2>2. next_free \in [Buffers -> Buffers] /\ prev_free \in [Buffers -> Buffers]
    BY <1>2 DEF Init, Buffers
  <2> QED
    BY <1>1, <1>2, <2>1, <2>2 DEF Init, Typed, Copies
<1>6. FreeListSound
  <2>1. \A b \in Buffers : /\ next_free[b] \in Buffers /\ prev_free[next_free[b]] = b
                           /\ prev_free[b] \in Buffers /\ next_free[prev_free[b]] = b
    BY <1>2 DEF Init, Buffers
  <2>2. \A s \in SUBSET Buffers : s # {} /\ Closed(s) => s = Buffers
    BY FirstRing DEF Init, Closed
  <2> QED
    BY <1>2, <1>3, <2>1, <2>2 DEF Init, FreeListSound
<1>7. CountsUsers
  BY <1>3, <1>4, FS_EmptySet DEF CountsUsers
<1>8. HashSound /\ OneBufferPerBlock
  BY <1>1, <1>4 DEF Init, HashSound, OneBufferPerBlock
<1>9. LocksSound
  BY <1>4 DEF Init, LocksSound
<1>10. pinned \in Bitmaps /\ OneRuns /\ Coherent
  BY DEF Init, OneRuns, Coherent, Running
<1>11. EvictsUnused /\ TakenIsHidden /\ TakenIsClean /\ SearchSound
  BY DEF Init, EvictsUnused, TakenIsHidden, TakenIsClean, Spoilt, SearchSound, Takes
<1>12. HolderKeepsBlock /\ SomeoneGood /\ NoRing
  BY <1>13 DEF Init, HolderKeepsBlock, SomeoneGood, NoRing
<1>14. KeptSound
  <2>1. \A p \in Procs : Cardinality(Keeps(p)) <= MaxKept
    <3>1. Cardinality({}) = 0 /\ 0 <= MaxKept
      BY FS_EmptySet, BufferAssumption
    <3> QED
      BY <1>13, <3>1
  <2> QED
    BY <1>13, <2>1 DEF Init, KeptSound
<1> QED
  BY <1>5, <1>6, <1>7, <1>8, <1>9, <1>10, <1>11, <1>12, <1>14 DEF IInv
-----------------------------------------------------------------------------
LEMMA NextIInv == IInv /\ [Next]_vars => IInv'
<1> SUFFICES ASSUME IInv, [Next]_vars PROVE IInv'
  OBVIOUS
<1>1. CASE UNCHANGED vars
  <2>1. UNCHANGED <<buf, hashed, next_free, prev_free, free_list, io, dest, disk,
                    refetched, late, lost, pinned, pc, want, bh, kept, idx>>
    BY <1>1 DEF vars, cache, device, races
  <2>2. Typed' /\ LocksSound' /\ TakenIsClean'
    BY <2>1 DEF IInv, Typed, LocksSound, TakenIsClean, Spoilt, Takes
  <2> QED
    BY <2>1, <2>2, RestStays
<1>2. ASSUME NEW p \in Procs, Step(p)
      PROVE  IInv'
  BY <1>2, FindIInv, HashWakeIInv, ScanIInv, ScanWakeIInv, EvictIInv, TakeIInv, ReadIInv,
     ReadDoneIInv, SyncIInv, SyncWakeIInv, SyncIoDoneIInv, BrelseIInv DEF Step
<1>3. ASSUME NEW b \in Buffers, Transfer(b)
      PROVE  IInv'
  BY <1>3, SendIInv, WriteEndsIInv, WriteFailsIInv, ReadEndsIInv DEF Transfer
<1> QED
  BY <1>1, <1>2, <1>3, SysSyncIInv, AskIInv, ModifyIInv DEF Next

LEMMA Inductive == Spec => []IInv
BY InitIInv, NextIInv, PTL DEF Spec

(* The state is well typed: b_count never exceeds the number of processes  *)
(* and one (getblk, brelse).                                               *)
THEOREM TypeCorrect == Spec => []TypeOK
<1>1. IInv => TypeOK
  <2> SUFFICES ASSUME IInv PROVE TypeOK
    OBVIOUS
  <2> DEFINE n == Cardinality(Procs)
  <2>1. ASSUME NEW b \in Buffers
        PROVE  buf[b].count \in 0..n + 1
    <3>1. Cardinality(Users(b)) \in Nat /\ n \in Nat /\ Cardinality(Users(b)) <= n
      BY BufferAssumption, UsersAreFinite, FS_Subset, FS_CardinalityType DEF Users
    <3>2. buf[b].count = Cardinality(Users(b)) + (IF b \in DOMAIN pinned THEN 1 ELSE 0)
      BY DEF IInv, CountsUsers
    <3> QED
      BY <3>1, <3>2
  <2>2. buf \in [Buffers -> [blk : Blocks \cup {NoBlock}, count : 0..n + 1,
                             dirt : BOOLEAN, uptodate : BOOLEAN, lock : BOOLEAN,
                             data : Copies]]
    BY <2>1 DEF IInv, Typed, Heads
  <2> QED
    BY <2>2 DEF IInv, Typed, TypeOK
<1> QED
  BY <1>1, Inductive, PTL

(* However processes sleep in getblk(), a block never gets two buffers.    *)
THEOREM NoTwoBuffers == Spec => []OneBufferPerBlock
<1>1. IInv => OneBufferPerBlock
  BY DEF IInv
<1> QED
  BY <1>1, Inductive, PTL

(* The buffer that getblk() or bread() returns holds the block asked for,  *)
(* and keeps it until brelse().                                            *)
THEOREM HolderKeeps == Spec => []HolderKeepsBlock
<1>1. IInv => HolderKeepsBlock
  BY DEF IInv
<1> QED
  BY <1>1, Inductive, PTL

(* b_count is the number of users: no brelse() is missed, none is done     *)
(* twice.                                                                  *)
THEOREM CountsAreRight == Spec => []CountsUsers
<1>1. IInv => CountsUsers
  BY DEF IInv
<1> QED
  BY <1>1, Inductive, PTL

(* The free list stays one ring of the buffers that are not taken out.     *)
THEOREM FreeListIsSound == Spec => []FreeListSound
<1>1. IInv => FreeListSound
  BY DEF IInv
<1> QED
  BY <1>1, Inductive, PTL

(* However many buffers the processes hold while they ask for more: they   *)
(* never all wait for a buffer to become free (getblk, brelse).            *)
THEOREM NobodyIsLeft == Spec => []SleepersAreWoken
<1>1. IInv => SleepersAreWoken
  BY Constants DEF IInv, Coherent, SomeoneGood, Good, SleepersAreWoken
<1> QED
  BY <1>1, Inductive, PTL

-----------------------------------------------------------------------------
(* The data: what programs put in a block is what they find in it          *)
(* (LatestIsFound), on top of the invariant of the locks and the lists.    *)

(* What is known of the contents of blocks that are not lost.  A buffer    *)
(* that is being written is dirty, one that is being read neither dirty    *)
(* nor up to date, and in the hash table; what a process holds has been    *)
(* read.                                                                   *)
TransfersSound ==
    \A b \in Buffers : buf[b].blk \in Blocks \ lost =>
       /\ io[b] \in {"write", "sent", "sentold"} => buf[b].dirt
       /\ io[b] = "read" => b \in hashed /\ ~buf[b].dirt /\ ~buf[b].uptodate
       /\ buf[b].dirt => buf[b].uptodate
Filled(b) == buf[b].uptodate \/ Spoilt(b)
HoldersRead ==
    /\ \A b \in DOMAIN pinned : Filled(b)
    /\ \A p \in Procs : /\ pc[p] = "hold" => Filled(bh[p])
                        /\ \A b \in Keeps(p) : Filled(b)
                        /\ pc[p] = "got" => ~buf[bh[p]].lock
                        /\ pc[p] = "lockwait" => Spoilt(bh[p])

(* Of a block that has not been brought in beside its old buffer one copy  *)
(* at most is dirty, the one in the hash table if there is one; without a  *)
(* dirty copy the disk is right, but for a change that came too late.      *)
Dirty(x) == {b \in Buffers : buf[b].blk = x /\ buf[b].dirt}
OneDirty ==
    \A x \in Blocks \ (refetched \cup lost) :
       /\ \A b \in Dirty(x) : buf[b].data = "new"
       /\ \A b, c \in Dirty(x) : b = c
       /\ Cached(x) # {} => Dirty(x) \subseteq hashed
LatestSomewhere ==
    \A x \in Blocks \ (refetched \cup late \cup lost) :
       /\ Dirty(x) = {} => disk[x] = "new"
       /\ \A b \in Valid(x) : buf[b].data = "new"
       /\ \A b \in Buffers : io[b] = "sentold" => dest[b] # x
DataSound == TransfersSound /\ HoldersRead /\ OneDirty /\ LatestSomewhere

-----------------------------------------------------------------------------
LEMMA DataImpliesLatest == IInv /\ DataSound => LatestIsFound
<1> SUFFICES ASSUME IInv, DataSound, NEW x \in Blocks \ (refetched \cup late \cup lost)
             PROVE  Findable(x) /\ WillBeWritten(x)
  BY DEF LatestIsFound
<1>1. /\ Dirty(x) = {} => disk[x] = "new"
      /\ \A b \in Valid(x) : buf[b].data = "new"
      /\ Cached(x) # {} => Dirty(x) \subseteq hashed
  BY DEF DataSound, OneDirty, LatestSomewhere
<1>2. Findable(x)
  <2>1. CASE Valid(x) # {}
    BY <1>1, <2>1 DEF Findable
  <2>2. CASE Valid(x) = {} /\ Evicting(x) = {}
    <3>1. ASSUME NEW c \in Dirty(x)
          PROVE  FALSE
      <4>1. c \in Buffers /\ buf[c].blk = x /\ buf[c].uptodate
        BY <3>1 DEF DataSound, TransfersSound, Dirty
      <4> QED
        BY <2>2, <4>1 DEF Valid, Cached, Evicting
    <3> QED
      BY <1>1, <2>2, <3>1 DEF Findable
  <2> QED
    BY <2>1, <2>2 DEF Findable
<1>3. WillBeWritten(x)
  <2>1. SUFFICES ASSUME NEW b \in Valid(x), disk[x] = "old"
                 PROVE  buf[b].dirt
    BY DEF WillBeWritten
  <2>2. b \in Cached(x) /\ Dirty(x) \subseteq hashed /\ Dirty(x) # {}
    BY <1>1, <2>1 DEF Valid
  <2>3. \A c \in Dirty(x) : c = b
    BY <2>2 DEF IInv, OneBufferPerBlock, Cached, Dirty
  <2> QED
    BY <2>2, <2>3 DEF Dirty
<1> QED
  BY <1>2, <1>3

(* A transfer of a block that is not lost is one of its buffer. *)
LEMMA SameBlock ==
    ASSUME IInv, NEW b \in Buffers, io[b] # "none", NEW x \in Blocks \ lost,
           dest[b] = x \/ buf[b].blk = x
    PROVE  dest[b] = x /\ buf[b].blk = x
BY Constants DEF IInv, LocksSound

(* The contents, but for what processes hold. *)
Contents == TransfersSound /\ OneDirty /\ LatestSomewhere

(* A step that leaves the contents and the transfers alone. *)
LEMMA ContentsKept ==
    ASSUME IInv, DataSound, UNCHANGED <<hashed, io, dest, disk, refetched, late, lost>>,
           \A c \in Buffers : /\ buf'[c].blk = buf[c].blk /\ buf'[c].dirt = buf[c].dirt
                              /\ buf'[c].uptodate = buf[c].uptodate
                              /\ buf'[c].data = buf[c].data
    PROVE  Contents'
<1>1. \A x : Dirty(x)' = Dirty(x) /\ Cached(x)' = Cached(x) /\ Valid(x)' = Valid(x)
  BY DEF Dirty, Cached, Valid, IInv, Typed
<1>2. TransfersSound'
  BY DEF DataSound, TransfersSound
<1>3. \A x : Dirty(x) \subseteq Buffers /\ Valid(x) \subseteq Buffers
  BY DEF Dirty, Valid, Cached, IInv, Typed
<1>4. OneDirty'
  BY <1>1, <1>3 DEF DataSound, OneDirty
<1>5. LatestSomewhere'
  BY <1>1, <1>3 DEF DataSound, LatestSomewhere
<1> QED
  BY <1>2, <1>4, <1>5 DEF Contents

(* A transfer is started. *)
LEMMA ContentsStarted ==
    ASSUME IInv, DataSound, NEW b \in Buffers, NEW rw \in {"read", "write"}, Start(b, rw),
           rw = "write" => buf[b].dirt,
           rw = "read" => Spoilt(b) \/ (b \in hashed /\ ~buf[b].dirt /\ ~buf[b].uptodate),
           UNCHANGED <<hashed, disk, refetched, late, lost>>
    PROVE  /\ Contents'
           /\ \A c \in Buffers : buf'[c].uptodate = buf[c].uptodate
<1>1. \A c \in Buffers : /\ buf'[c].blk = buf[c].blk /\ buf'[c].dirt = buf[c].dirt
                         /\ buf'[c].uptodate = buf[c].uptodate
                         /\ buf'[c].data = buf[c].data
  <2> DEFINE h == [buf[b] EXCEPT !.lock = TRUE]
  <2>1. buf \in [Buffers -> Heads] /\ buf' = [buf EXCEPT ![b] = h] /\ buf[b] \in Heads
    BY DEF IInv, Typed, Start
  <2>2. /\ h.blk = buf[b].blk /\ h.dirt = buf[b].dirt
        /\ h.uptodate = buf[b].uptodate /\ h.data = buf[b].data
    BY <2>1 DEF Heads
  <2> QED
    BY <2>1, <2>2
<1>2. \A x : Dirty(x)' = Dirty(x) /\ Cached(x)' = Cached(x) /\ Valid(x)' = Valid(x)
  BY <1>1 DEF Dirty, Cached, Valid, IInv, Typed
<1>3. \A c \in Buffers : /\ c # b => io'[c] = io[c] /\ dest'[c] = dest[c]
                         /\ io'[b] = rw
  BY DEF Start, IInv, Typed
<1>4. TransfersSound'
  BY <1>1, <1>3 DEF DataSound, TransfersSound, Spoilt
<1>5. \A x : Dirty(x) \subseteq Buffers /\ Valid(x) \subseteq Buffers
  BY DEF Dirty, Valid, Cached, IInv, Typed
<1>6. OneDirty'
  BY <1>1, <1>2, <1>5 DEF DataSound, OneDirty
<1>7. LatestSomewhere'
  BY <1>1, <1>2, <1>3, <1>5 DEF DataSound, LatestSomewhere
<1> QED
  BY <1>1, <1>4, <1>6, <1>7 DEF Contents

(* What processes hold stays as it is, but for p. *)
LEMMA HoldersKept ==
    ASSUME IInv, DataSound, NEW p \in Procs, UNCHANGED pinned,
           \A c \in hashed : (Filled(c) => Filled(c)') /\ (Spoilt(c) => Spoilt(c)'),
           \A q \in Procs : q # p =>
              /\ pc'[q] \in {"hold", "got", "lockwait"} => pc'[q] = pc[q]
              /\ bh'[q] = bh[q] /\ kept'[q] = kept[q]
              /\ pc[q] = "got" /\ ~buf[bh[q]].lock => ~buf'[bh[q]].lock,
           /\ pc'[p] = "hold" => Filled(bh[p])'
           /\ pc'[p] = "got" => ~buf'[bh'[p]].lock
           /\ pc'[p] = "lockwait" => Spoilt(bh[p])'
           /\ \A b \in Keeps(p)' : Filled(b)'
    PROVE  HoldersRead'
<1>1. \A b \in DOMAIN pinned : Filled(b)'
  BY DEF IInv, HashSound, DataSound, HoldersRead
<1>2. ASSUME NEW q \in Procs, q # p
      PROVE  /\ pc'[q] = "hold" => Filled(bh[q])'
             /\ pc'[q] = "got" => ~buf'[bh'[q]].lock
             /\ pc'[q] = "lockwait" => Spoilt(bh[q])'
  <2>1. pc[q] \in {"hold", "lockwait"} => bh[q] \in hashed
    BY DEF IInv, HolderKeepsBlock
  <2> QED
    BY <1>2, <2>1 DEF DataSound, HoldersRead, Filled, Spoilt
<1>3. ASSUME NEW q \in Procs, q # p
      PROVE  \A b \in Keeps(q)' : Filled(b)'
  <2>1. Keeps(q)' = Keeps(q)
    BY <1>3 DEF Keeps
  <2>2. \A b \in Keeps(q) : b \in hashed /\ Filled(b)
    BY DEF IInv, HolderKeepsBlock, DataSound, HoldersRead
  <2> QED
    BY <2>1, <2>2
<1> QED
  BY <1>1, <1>2, <1>3 DEF HoldersRead

(* Nor does a transfer disturb them that unlocks buffers at most. *)
LEMMA HoldersStay ==
    ASSUME IInv, DataSound, UNCHANGED <<pinned, pc, bh, kept>>,
           \A c \in hashed : (Filled(c) => Filled(c)') /\ (Spoilt(c) => Spoilt(c)'),
           \A c \in Buffers : ~buf[c].lock => ~buf'[c].lock
    PROVE  HoldersRead'
<1>1. \A b \in DOMAIN pinned : Filled(b)'
  BY DEF IInv, HashSound, DataSound, HoldersRead
<1>2. ASSUME NEW q \in Procs
      PROVE  /\ pc'[q] = "hold" => Filled(bh[q])'
             /\ pc'[q] = "got" => ~buf'[bh'[q]].lock
             /\ pc'[q] = "lockwait" => Spoilt(bh[q])'
  <2>1. pc[q] \in {"hold", "got", "lockwait"} => bh[q] \in hashed /\ bh[q] \in Buffers
    BY DEF IInv, Typed, HolderKeepsBlock
  <2> QED
    BY <2>1 DEF DataSound, HoldersRead, Filled, Spoilt
<1>3. ASSUME NEW q \in Procs
      PROVE  \A b \in Keeps(q)' : Filled(b)'
  <2>1. Keeps(q)' = Keeps(q)
    BY DEF Keeps
  <2>2. \A b \in Keeps(q) : b \in hashed /\ Filled(b)
    BY DEF IInv, HolderKeepsBlock, DataSound, HoldersRead
  <2> QED
    BY <2>1, <2>2
<1> QED
  BY <1>1, <1>2, <1>3 DEF HoldersRead

LEMMA QuietData ==
    ASSUME IInv, DataSound, NEW p \in Procs,
           \/ \E x \in Blocks : Ask(p, x)
           \/ SysSync(p) \/ SyncIoDone(p) \/ HashWake(p) \/ Scan(p) \/ ScanWake(p) \/ ReadDone(p)
    PROVE  DataSound'
<1>1. /\ UNCHANGED <<buf, hashed, io, dest, disk, refetched, late, lost, pinned>>
      /\ \A q \in Procs \ {p} : pc'[q] = pc[q] /\ bh'[q] = bh[q] /\ kept'[q] = kept[q]
      /\ pc'[p] = "hold" => Filled(bh'[p])
      /\ pc'[p] = "got" => ~buf[bh'[p]].lock
      /\ pc'[p] # "lockwait"
      /\ \A b \in Keeps(p)' : b \in Keeps(p) \/ (pc[p] = "hold" /\ b = bh[p])
  <2>1. CASE \E x \in Blocks : Ask(p, x)
    BY <2>1 DEF IInv, Typed, Ask, At, Goto, Keeps, cache, device, races
  <2>2. CASE SysSync(p) \/ SyncIoDone(p)
    BY <2>2 DEF IInv, Typed, SysSync, SyncIoDone, At, Goto, Keeps, cache, device, races
  <2>3. CASE HashWake(p)
    <3>1. buf[bh[p]].blk = want[p]
      BY <2>3 DEF IInv, HolderKeepsBlock, HashWake, At
    <3> QED
      BY <2>3, <3>1 DEF IInv, Typed, HashWake, At, Awake, Goto, Keeps, device, races
  <2>4. CASE Scan(p)
    BY <2>4 DEF IInv, Typed, Scan, NextToTry, At, Goto, Keeps, cache, device, races
  <2>5. CASE ScanWake(p)
    BY <2>5 DEF IInv, Typed, ScanWake, NextToTry, At, Goto, Keeps, cache, device, races
  <2>6. CASE ReadDone(p)
    BY <2>6 DEF IInv, Typed, ReadDone, At, Goto, Keeps, Filled, cache, device, races
  <2> QED
    BY <2>1, <2>2, <2>3, <2>4, <2>5, <2>6
<1>2. Contents'
  BY <1>1, ContentsKept
<1>3. \A c : (Filled(c)' <=> Filled(c)) /\ (Spoilt(c)' <=> Spoilt(c))
  BY <1>1 DEF Filled, Spoilt
<1>4. \A b \in Keeps(p)' : Filled(b)'
  BY <1>1, <1>3 DEF DataSound, HoldersRead
<1>5. pc'[p] = "hold" => Filled(bh[p])'
  BY <1>1 DEF Filled, Spoilt
<1>6. HoldersRead'
  BY <1>1, <1>3, <1>4, <1>5, HoldersKept
<1> QED
  BY <1>2, <1>6 DEF Contents, DataSound

LEMMA CountData ==
    ASSUME IInv, DataSound, NEW p \in Procs, Find(p) \/ Brelse(p)
    PROVE  DataSound'
<1>1. ASSUME NEW b \in Buffers, NEW k, buf' = [buf EXCEPT ![b].count = k]
      PROVE  \A c \in Buffers : /\ buf'[c].blk = buf[c].blk /\ buf'[c].dirt = buf[c].dirt
                                /\ buf'[c].uptodate = buf[c].uptodate
                                /\ buf'[c].data = buf[c].data /\ buf'[c].lock = buf[c].lock
  <2> DEFINE h == [buf[b] EXCEPT !.count = k]
  <2>1. buf \in [Buffers -> Heads] /\ buf' = [buf EXCEPT ![b] = h] /\ buf[b] \in Heads
    BY <1>1 DEF IInv, Typed
  <2>2. /\ h.blk = buf[b].blk /\ h.dirt = buf[b].dirt /\ h.lock = buf[b].lock
        /\ h.uptodate = buf[b].uptodate /\ h.data = buf[b].data
    BY <2>1 DEF Heads
  <2> QED
    BY <2>1, <2>2
<1>2. \A c \in Buffers : /\ buf'[c].blk = buf[c].blk /\ buf'[c].dirt = buf[c].dirt
                         /\ buf'[c].uptodate = buf[c].uptodate
                         /\ buf'[c].data = buf[c].data /\ buf'[c].lock = buf[c].lock
  <2>1. CASE Find(p)
    <3>1. CASE Cached(want[p]) = {}
      BY <2>1, <3>1 DEF Find
    <3>2. CASE \E b \in Cached(want[p]) : Found(p, b)
      <4>1. PICK b \in Cached(want[p]) : Found(p, b)
        BY <3>2
      <4>2. b \in Buffers
        BY <4>1 DEF Cached, IInv, Typed
      <4> QED
        BY <4>1, <4>2, <1>1 DEF Found
    <3> QED
      BY <2>1, <3>1, <3>2 DEF Find
  <2>2. CASE Brelse(p)
    <3>1. bh[p] \in Buffers
      BY <2>2 DEF IInv, Coherent, Brelse, At
    <3> QED
      BY <2>2, <3>1, <1>1 DEF Brelse
  <2> QED
    BY <2>1, <2>2
<1>3. /\ UNCHANGED <<hashed, io, dest, disk, refetched, late, lost, pinned>>
      /\ \A q \in Procs \ {p} : /\ pc'[q] \in {"hold", "got", "lockwait"} => pc'[q] = pc[q]
                                /\ bh'[q] = bh[q] /\ kept'[q] = kept[q]
      /\ pc'[p] = "hold" => bh'[p] \in Keeps(p)
      /\ pc'[p] = "got" => bh'[p] \in Buffers /\ ~buf[bh'[p]].lock
      /\ pc'[p] # "lockwait"
      /\ Keeps(p)' \subseteq Keeps(p)
  <2>1. CASE Find(p)
    BY <2>1 DEF IInv, Typed, Find, Cached, At, Goto, Keeps, device, races
  <2>2. CASE Brelse(p)
    <3>1. CASE pc' = [q \in Procs |-> IF pc[q] = "bufwait" THEN "woken"
                                     ELSE IF q = p THEN "idle" ELSE pc[q]]
               /\ bh' = [bh EXCEPT ![p] = NoBuffer] /\ UNCHANGED kept
      BY <2>2, <3>1 DEF IInv, Typed, Brelse, At, Keeps, device, races
    <3>2. CASE \E b \in Keeps(p) :
                  /\ pc' = [q \in Procs |-> IF pc[q] = "bufwait" THEN "woken"
                                            ELSE IF q = p THEN "hold" ELSE pc[q]]
                  /\ bh' = [bh EXCEPT ![p] = b]
                  /\ kept' = [kept EXCEPT ![p][b] = NoBlock]
      BY <2>2, <3>2 DEF IInv, Typed, Brelse, At, Keeps, device, races
    <3> QED
      BY <2>2, <3>1, <3>2 DEF Brelse, WakeBufferWait
  <2> QED
    BY <2>1, <2>2
<1>4. Contents'
  BY <1>2, <1>3, ContentsKept
<1>5. hashed \subseteq Buffers /\ Keeps(p) \subseteq Buffers
  BY DEF IInv, Typed, Keeps
<1>6. \A c \in Buffers : (Filled(c)' <=> Filled(c)) /\ (Spoilt(c)' <=> Spoilt(c))
  BY <1>2, <1>3 DEF Filled, Spoilt
<1>7. \A b \in Keeps(p) : Filled(b)'
  BY <1>5, <1>6 DEF DataSound, HoldersRead
<1>8. pc'[p] = "hold" => Filled(bh[p])'
  <2> SUFFICES ASSUME pc'[p] = "hold", NEW b \in Keeps(p), b = bh'[p]
               PROVE  Filled(bh[p])'
    BY <1>3
  <2>1. Filled(b)'
    BY <1>7
  <2> QED
    BY <2>1 DEF Filled, Spoilt
<1>9. HoldersRead'
  <2>1. \A q \in Procs : pc[q] = "got" => bh[q] \in Buffers
    BY DEF IInv, Coherent
  <2> QED
    BY <1>2, <1>3, <1>5, <1>6, <1>7, <1>8, <2>1, HoldersKept
<1> QED
  BY <1>4, <1>9 DEF Contents, DataSound

LEMMA ReadData ==
    ASSUME IInv, DataSound, NEW p \in Procs, Read(p)
    PROVE  DataSound'
<1>1. PICK b \in Buffers : b = bh[p]
  BY DEF IInv, Coherent, Read, At
<1>2. /\ UNCHANGED <<hashed, disk, refetched, late, lost, pinned, bh, kept>>
      /\ b \in hashed /\ hashed \subseteq Buffers /\ buf[b].blk \in Blocks
      /\ \A q \in Procs \ {p} : pc[q] # "got"
  BY <1>1 DEF IInv, Typed, HolderKeepsBlock, HashSound, Read, At, MayRun, Running, races
<1>3. CASE pc[p] = "got" /\ buf[b].uptodate
  <2>1. UNCHANGED <<buf, io, dest>> /\ pc' = [pc EXCEPT ![p] = "hold"]
    BY <1>1, <1>3 DEF Read, At, Goto
  <2>2. Contents'
    BY <1>2, <2>1, ContentsKept
  <2>3. \A c : (Filled(c)' <=> Filled(c)) /\ (Spoilt(c)' <=> Spoilt(c)) /\ Keeps(p)' = Keeps(p)
    BY <1>2, <2>1 DEF Filled, Spoilt, Keeps
  <2>4. Filled(bh[p])'
    BY <1>1, <1>2, <1>3, <2>1 DEF Filled
  <2>5. pc'[p] = "hold" /\ \A q \in Procs \ {p} : pc'[q] = pc[q]
    BY <2>1 DEF IInv, Typed
  <2>6. HoldersRead'
    BY <1>2, <2>1, <2>3, <2>4, <2>5, HoldersKept DEF DataSound, HoldersRead
  <2> QED
    BY <2>2, <2>6 DEF Contents, DataSound
<1>4. CASE (pc[p] = "got" /\ ~buf[b].uptodate) \/ pc[p] = "lockwait"
  <2>1. Start(b, "read") /\ pc' = [pc EXCEPT ![p] = "readwait"]
    BY <1>1, <1>4 DEF Read, At, Goto
  <2>2. Spoilt(b) \/ (~buf[b].dirt /\ ~buf[b].uptodate)
    BY <1>1, <1>2, <1>4 DEF DataSound, TransfersSound, HoldersRead, Spoilt
  <2>3. Contents' /\ \A c \in Buffers : buf'[c].uptodate = buf[c].uptodate
    BY <1>2, <2>1, <2>2, ContentsStarted
  <2>4. \A c \in Buffers : (Filled(c)' <=> Filled(c)) /\ (Spoilt(c)' <=> Spoilt(c))
    BY <1>2, <2>1, <2>3, Started DEF Filled, Spoilt
  <2>5. Keeps(p)' = Keeps(p) /\ Keeps(p) \subseteq Buffers
    BY <1>2 DEF Keeps
  <2>6. pc'[p] = "readwait" /\ \A q \in Procs \ {p} : pc'[q] = pc[q]
    BY <2>1 DEF IInv, Typed
  <2>7. HoldersRead'
    BY <1>2, <2>4, <2>5, <2>6, HoldersKept DEF DataSound, HoldersRead
  <2> QED
    BY <2>3, <2>7 DEF Contents, DataSound
<1> QED
  BY <1>1, <1>3, <1>4 DEF Read, At

LEMMA SyncData ==
    ASSUME IInv, DataSound, NEW p \in Procs, Sync(p) \/ SyncWake(p)
    PROVE  DataSound'
<1>1. /\ UNCHANGED <<hashed, disk, refetched, late, lost, pinned, bh, kept>>
      /\ \A q \in Procs : pc'[q] \in {"hold", "got", "lockwait"} => pc'[q] = pc[q]
      /\ \A q \in Procs : pc[q] # "got"
      /\ hashed \subseteq Buffers /\ pc'[p] \notin {"hold", "got", "lockwait"}
      /\ Keeps(p)' = Keeps(p) /\ Keeps(p) \subseteq Buffers
  BY DEF IInv, Typed, Sync, SyncWake, At, Goto, MayRun, Running, Keeps, races
<1>2. CASE UNCHANGED <<buf, io, dest>>
  <2>1. Contents'
    BY <1>1, <1>2, ContentsKept
  <2>2. \A c : (Filled(c)' <=> Filled(c)) /\ (Spoilt(c)' <=> Spoilt(c))
    BY <1>1, <1>2 DEF Filled, Spoilt
  <2>3. HoldersRead'
    BY <1>1, <2>2, HoldersKept DEF DataSound, HoldersRead
  <2> QED
    BY <2>1, <2>3 DEF Contents, DataSound
<1>3. CASE \E b \in Buffers : Start(b, "write") /\ buf[b].dirt
  <2>1. PICK b \in Buffers : Start(b, "write") /\ buf[b].dirt
    BY <1>3
  <2>2. Contents' /\ \A c \in Buffers : buf'[c].uptodate = buf[c].uptodate
    BY <1>1, <2>1, ContentsStarted
  <2>3. \A c \in Buffers : (Filled(c)' <=> Filled(c)) /\ (Spoilt(c)' <=> Spoilt(c))
    BY <1>1, <2>1, <2>2, Started DEF Filled, Spoilt
  <2>4. HoldersRead'
    BY <1>1, <2>3, HoldersKept DEF DataSound, HoldersRead
  <2> QED
    BY <2>2, <2>4 DEF Contents, DataSound
<1>4. CASE Sync(p)
  BY <1>2, <1>3, <1>4 DEF Sync, Attention
<1>5. CASE SyncWake(p)
  BY <1>2, <1>3, <1>5 DEF SyncWake, At, IInv, Coherent
<1> QED
  BY <1>4, <1>5

LEMMA EvictData ==
    ASSUME IInv, DataSound, NEW p \in Procs, Evict(p)
    PROVE  DataSound'
<1>1. PICK b \in Buffers : b = bh[p]
  BY DEF IInv, Coherent, Evict, At
<1>2. /\ UNCHANGED <<io, dest, disk, refetched, late, lost, pinned, bh, kept>>
      /\ buf' = [buf EXCEPT ![b].count = @ + 1] /\ hashed' = hashed \ {b}
      /\ pc[p] = "evict" /\ Users(b) = {} /\ io[b] = "none"
      /\ \A q \in Procs : pc'[q] \in {"hold", "got", "lockwait"} => pc'[q] = pc[q]
      /\ pc'[p] \notin {"hold", "got", "lockwait"} /\ Keeps(p)' = Keeps(p)
      /\ hashed \subseteq Buffers /\ Keeps(p) \subseteq Buffers /\ \A q \in Procs : pc[q] # "got"
  BY <1>1, NoUsers
     DEF IInv, Typed, EvictsUnused, LocksSound, Evict, RemoveFromQueues, At, Goto, MayRun, Running, Keeps, device, races
<1>3. \A c \in Buffers : /\ buf'[c].blk = buf[c].blk /\ buf'[c].dirt = buf[c].dirt
                         /\ buf'[c].uptodate = buf[c].uptodate
                         /\ buf'[c].data = buf[c].data /\ buf'[c].lock = buf[c].lock
  <2> DEFINE h == [buf[b] EXCEPT !.count = @ + 1]
  <2>1. buf \in [Buffers -> Heads] /\ buf' = [buf EXCEPT ![b] = h] /\ buf[b] \in Heads
    BY <1>2 DEF IInv, Typed
  <2>2. /\ h.blk = buf[b].blk /\ h.dirt = buf[b].dirt /\ h.lock = buf[b].lock
        /\ h.uptodate = buf[b].uptodate /\ h.data = buf[b].data
    BY <2>1 DEF Heads
  <2> QED
    BY <2>1, <2>2
<1>4. TransfersSound'
  BY <1>2, <1>3 DEF DataSound, TransfersSound
<1>5. HoldersRead'
  <2>1. \A c \in Buffers : (Filled(c)' <=> Filled(c)) /\ (Spoilt(c)' <=> Spoilt(c))
    BY <1>2, <1>3 DEF Filled, Spoilt
  <2> QED
    BY <1>2, <2>1, HoldersKept DEF DataSound, HoldersRead
<1>6. \A x : /\ Dirty(x)' = Dirty(x) /\ Cached(x)' = Cached(x) \ {b}
             /\ Valid(x)' \subseteq Valid(x) /\ Dirty(x) \subseteq Buffers
             /\ Valid(x) \subseteq Buffers
  BY <1>2, <1>3 DEF Dirty, Cached, Valid, IInv, Typed
<1>7. OneDirty'
  <2>1. ASSUME NEW x \in Blocks \ (refetched \cup lost), Cached(x) \ {b} # {}
        PROVE  Dirty(x) \subseteq hashed \ {b}
    <3>1. PICK c \in Cached(x) : c # b
      BY <2>1
    <3>2. Dirty(x) \subseteq hashed
      BY <2>1 DEF DataSound, OneDirty
    <3>3. \A d \in Dirty(x) : d = c
      BY <3>1, <3>2 DEF IInv, OneBufferPerBlock, Dirty, Cached
    <3> QED
      BY <3>1, <3>2, <3>3
  <2>2. \A x \in Blocks \ (refetched \cup lost) : \A c \in Dirty(x) : buf'[c].data = "new"
    BY <1>3, <1>6 DEF DataSound, OneDirty
  <2> QED
    BY <1>2, <1>6, <2>1, <2>2 DEF DataSound, OneDirty
<1>8. LatestSomewhere'
  BY <1>2, <1>3, <1>6 DEF DataSound, LatestSomewhere
<1> QED
  BY <1>4, <1>5, <1>7, <1>8 DEF DataSound

LEMMA TakeData ==
    ASSUME IInv, DataSound, NEW p \in Procs, Take(p)
    PROVE  DataSound'
<1>1. PICK x : x = IF Unbeaten(want[p]) THEN want[p] ELSE NoBlock
  OBVIOUS
<1>2. pc[p] = "take" /\ Takes(p) /\ (x \in Blocks => Cached(x) = {})
  BY <1>1, Constants DEF Take, At, Takes, IInv, Coherent, Unbeaten
<1>3. PICK b \in Buffers :
              /\ b = bh[p] /\ b \notin hashed /\ Users(b) = {p} /\ buf[b].count = 1
              /\ x \in Blocks \cup {NoBlock}
              /\ buf' = [buf EXCEPT ![b] = buf'[b]]
              /\ buf'[b] \in Heads /\ buf'[b].blk = x /\ ~buf'[b].dirt
              /\ buf'[b].lock = buf[b].lock
              /\ buf[b].lock => Spoilt(b) /\ x \in lost' \cup {NoBlock}
              /\ lost \subseteq lost'
  BY <1>1, <1>2, PutBack
<1>4. /\ UNCHANGED <<io, dest, disk, late, pinned>>
      /\ hashed' = IF x = NoBlock THEN hashed ELSE hashed \cup {b}
      /\ refetched' = refetched \cup {y \in {x} \cap Blocks :
                                        \E c \in Evicting(y) \ {b} : buf[c].dirt}
      /\ \A q \in Procs \ {p} : pc'[q] = pc[q] /\ bh'[q] = bh[q]
      /\ UNCHANGED kept /\ pc'[p] # "hold"
      /\ pc'[p] = "got" => bh'[p] = b /\ ~buf[b].lock
      /\ pc'[p] = "lockwait" => bh'[p] = b /\ buf[b].lock /\ x # NoBlock
      /\ Spoilt(b) \/ ~buf[b].dirt
      /\ ~buf'[b].uptodate
  <2>1. /\ UNCHANGED <<io, dest, disk, late, pinned>>
        /\ hashed' = IF x = NoBlock THEN hashed ELSE hashed \cup {b}
        /\ refetched' = refetched \cup {y \in {x} \cap Blocks :
                                          \E c \in Evicting(y) \ {b} : buf[c].dirt}
    BY <1>1, <1>3 DEF Take, InsertIntoQueues
  <2>2. /\ \A q \in Procs \ {p} : pc'[q] = pc[q] /\ bh'[q] = bh[q]
        /\ UNCHANGED kept /\ pc'[p] # "hold"
        /\ pc'[p] = "got" => bh'[p] = b /\ ~buf[b].lock
        /\ pc'[p] = "lockwait" => bh'[p] = b /\ buf[b].lock /\ x # NoBlock
    BY <1>1, <1>3 DEF IInv, Typed, Take, Goto
  <2>3. Spoilt(b) \/ ~buf[b].dirt
    BY <1>2, <1>3 DEF IInv, TakenIsClean
  <2>4. ~buf'[b].uptodate
    BY <1>3 DEF Take, IInv, Typed
  <2> QED
    BY <2>1, <2>2, <2>3, <2>4
<1>5. \A c \in Buffers \ {b} : buf'[c] = buf[c]
  BY <1>3 DEF IInv, Typed
<1>6. TransfersSound'
  <2>1. ASSUME NEW c \in Buffers \ {b}, buf'[c].blk \in Blocks \ lost'
        PROVE  /\ io'[c] \in {"write", "sent", "sentold"} => buf'[c].dirt
               /\ io'[c] = "read" => c \in hashed' /\ ~buf'[c].dirt /\ ~buf'[c].uptodate
               /\ buf'[c].dirt => buf'[c].uptodate
    BY <1>3, <1>4, <1>5, <2>1 DEF DataSound, TransfersSound
  <2>2. ASSUME buf'[b].blk \in Blocks \ lost'
        PROVE  io'[b] = "none"
    BY <1>3, <1>4, <2>2, Constants DEF IInv, LocksSound
  <2> QED
    BY <1>3, <2>1, <2>2 DEF TransfersSound
<1>7. HoldersRead'
  <2>1. \A c \in hashed : /\ c \in Buffers /\ c # b /\ (Filled(c) => Filled(c)')
                          /\ (Spoilt(c) => Spoilt(c)')
    BY <1>3, <1>5 DEF Filled, Spoilt, IInv, Typed
  <2>2. Keeps(p)' = Keeps(p) /\ Keeps(p) \subseteq hashed
    BY <1>4 DEF Keeps, IInv, HolderKeepsBlock
  <2>3. \A c \in Keeps(p)' : Filled(c)'
    BY <2>1, <2>2 DEF DataSound, HoldersRead
  <2>4. pc'[p] = "got" => ~buf'[bh'[p]].lock
    BY <1>3, <1>4
  <2>5. pc'[p] = "lockwait" => Spoilt(bh[p])'
    BY <1>3, <1>4 DEF Spoilt
  <2>6. \A q \in Procs \ {p} : pc[q] # "got"
    BY <1>2 DEF IInv, OneRuns, Running
  <2> QED
    BY <1>4, <2>1, <2>3, <2>4, <2>5, <2>6, HoldersKept
<1>8. \A y \in Blocks \ lost' :
                        /\ Dirty(y)' = Dirty(y) /\ Dirty(y) \subseteq Buffers \ {b}
                        /\ y # x => Cached(y)' = Cached(y)
                        /\ Valid(y)' = Valid(y) /\ Valid(y) \subseteq Buffers \ {b}
  <2>1. \A y \in Blocks \ lost' : Dirty(y)' = Dirty(y) /\ Dirty(y) \subseteq Buffers \ {b}
    BY <1>3, <1>4, <1>5 DEF Dirty, Spoilt
  <2>2. hashed \subseteq Buffers \ {b}
    BY <1>3 DEF IInv, Typed
  <2>3. \A y \in Blocks : y # x => Cached(y)' = Cached(y)
    BY <1>3, <1>4, <1>5, <2>2 DEF Cached
  <2>4. \A y \in Blocks : Valid(y)' = Valid(y) /\ Valid(y) \subseteq Buffers \ {b}
    BY <1>3, <1>4, <1>5, <2>2 DEF Cached, Valid
  <2> QED
    BY <2>1, <2>3, <2>4
<1>9. OneDirty'
  <2>1. \A y \in Blocks \ (refetched \cup lost)' :
                  /\ \A c \in Dirty(y)' : buf'[c].data = "new"
                  /\ \A c, d \in Dirty(y)' : c = d
    BY <1>3, <1>4, <1>5, <1>8 DEF DataSound, OneDirty
  <2>2. ASSUME NEW y \in Blocks \ (refetched \cup lost)', Cached(y)' # {}
        PROVE  Dirty(y)' \subseteq hashed'
    <3>1. CASE y # x
      BY <1>3, <1>4, <1>8, <2>2, <3>1 DEF DataSound, OneDirty
    <3>2. CASE y = x
      <4>1. \A c \in Evicting(x) \ {b} : ~buf[c].dirt
        BY <1>4, <2>2, <3>2
      <4> QED
        BY <1>8, <2>2, <3>2, <1>4, <4>1 DEF Dirty, Evicting
    <3> QED
      BY <3>1, <3>2
  <2> QED
    BY <2>1, <2>2 DEF OneDirty
<1>10. LatestSomewhere'
  BY <1>3, <1>4, <1>5, <1>8 DEF DataSound, LatestSomewhere
<1> QED
  BY <1>6, <1>7, <1>9, <1>10 DEF DataSound

LEMMA ModifyData ==
    ASSUME IInv, DataSound, NEW p \in Procs, NEW b \in Buffers, Modify(p, b)
    PROVE  DataSound'
<1>0. PICK x : x = buf[b].blk
  OBVIOUS
<1>1. /\ x = buf[b].blk /\ b \in hashed /\ x \in Blocks
      /\ \A c \in Buffers : buf'[c].blk = buf[c].blk
      /\ \A c \in Buffers : buf'[c].lock = buf[c].lock
      /\ \A c \in Buffers \ {b} : buf'[c].dirt = buf[c].dirt
      /\ \A c \in Buffers : io'[c] = io[c] \/ (io[c] = "sent" /\ io'[c] = "sentold")
  BY <1>0, Modified
<1>2. /\ UNCHANGED <<hashed, refetched, pinned, pc, bh>>
      /\ disk' = [disk EXCEPT ![x] = "old"]
      /\ late' = IF io[b] = "sent" THEN late \cup {x} ELSE late
      /\ \A c \in Buffers : io'[c] = IF dest[c] = x /\ io[c] = "sent" THEN "sentold" ELSE io[c]
      /\ UNCHANGED <<dest, lost, kept>> /\ Filled(b)
  BY <1>0 DEF DataSound, HoldersRead, Modify, At
<1>3. /\ \A c \in Buffers : buf'[c].uptodate = buf[c].uptodate
      /\ buf'[b].dirt /\ buf'[b].data = "new"
      /\ \A c \in Buffers \ {b} : buf[c].blk # x => buf'[c].data = buf[c].data
  <2>1. ASSUME NEW h \in Heads
        PROVE  LET g == [h EXCEPT !.data = "new", !.dirt = TRUE]
                   k == [h EXCEPT !.data = "old"]
               IN /\ g.uptodate = h.uptodate /\ g.dirt /\ g.data = "new"
                  /\ k.uptodate = h.uptodate
    BY DEF Heads
  <2>2. ASSUME NEW c \in Buffers
        PROVE  /\ buf[c] \in Heads /\ buf[b] \in Heads
               /\ buf'[c] = IF c = b THEN [buf[b] EXCEPT !.data = "new", !.dirt = TRUE]
                            ELSE IF buf[c].blk = x THEN [buf[c] EXCEPT !.data = "old"]
                            ELSE buf[c]
    BY <1>0 DEF Modify, IInv, Typed
  <2>3. ASSUME NEW c \in Buffers
        PROVE  buf'[c].uptodate = buf[c].uptodate
    <3>1. CASE c = b
      BY <2>1, <2>2, <3>1
    <3>2. CASE c # b /\ buf[c].blk = x
      BY <2>1, <2>2, <3>2
    <3> QED
      BY <2>2, <3>1, <3>2
  <2>4. buf'[b].dirt /\ buf'[b].data = "new"
    BY <2>1, <2>2
  <2>5. \A c \in Buffers \ {b} : buf[c].blk # x => buf'[c].data = buf[c].data
    BY <2>2
  <2> QED
    BY <2>3, <2>4, <2>5
<1>4. TransfersSound'
  BY <1>1, <1>2, <1>3 DEF DataSound, TransfersSound, Filled, Spoilt
<1>5. hashed \subseteq Buffers
  BY DEF IInv, Typed
<1>6. HoldersRead'
  <2>1. \A c \in hashed : (Filled(c) => Filled(c)') /\ (Spoilt(c) => Spoilt(c)')
    BY <1>1, <1>2, <1>3, <1>5 DEF Filled, Spoilt
  <2> QED
    BY <1>1, <1>2, <2>1, HoldersStay
<1>7. \A y : /\ Cached(y)' = Cached(y) /\ Valid(y)' = Valid(y)
             /\ y # x => Dirty(y)' = Dirty(y)
             /\ Dirty(y) \subseteq Buffers /\ Valid(y) \subseteq Buffers
  BY <1>1, <1>2, <1>3, <1>5 DEF Dirty, Cached, Valid
<1>8. Cached(x) = {b}
  BY <1>1 DEF IInv, OneBufferPerBlock, Cached
<1>9. x \notin refetched \cup lost => Dirty(x)' = {b}
  <2>1. ASSUME x \notin refetched \cup lost, NEW c \in Dirty(x)
        PROVE  c = b
    <3>1. Dirty(x) \subseteq hashed
      BY <1>1, <1>8, <2>1 DEF DataSound, OneDirty
    <3> QED
      BY <1>8, <3>1 DEF Dirty, Cached
  <2> QED
    BY <1>1, <1>3, <2>1 DEF Dirty
<1>10. OneDirty'
  <2>1. ASSUME NEW y \in Blocks \ (refetched \cup lost), y # x
        PROVE  /\ \A c \in Dirty(y) : buf'[c].data = "new"
               /\ \A c, d \in Dirty(y) : c = d
               /\ Cached(y) # {} => Dirty(y) \subseteq hashed
    BY <1>3, <2>1 DEF DataSound, OneDirty, Dirty
  <2> QED
    BY <1>1, <1>2, <1>3, <1>7, <1>8, <1>9, <2>1 DEF OneDirty
<1>11. LatestSomewhere'
  <2>1. ASSUME NEW y \in Blocks \ (refetched \cup late' \cup lost), y # x
        PROVE  /\ Dirty(y)' = {} => disk'[y] = "new"
               /\ \A c \in Valid(y)' : buf'[c].data = "new"
               /\ \A c \in Buffers : io'[c] = "sentold" => dest'[c] # y
    <3>1. y \notin late /\ disk'[y] = disk[y]
      BY <1>2, <2>1 DEF IInv, Typed
    <3>2. \A c \in Valid(y) : buf'[c].data = buf[c].data
      BY <1>1, <1>3, <2>1 DEF IInv, Typed, Valid, Cached
    <3>3. \A c \in Buffers : io'[c] = "sentold" => dest'[c] # y
      BY <1>1, <1>2, <2>1, <3>1 DEF DataSound, LatestSomewhere
    <3> QED
      BY <1>7, <2>1, <3>1, <3>2, <3>3 DEF DataSound, LatestSomewhere
  <2>2. ASSUME x \notin refetched \cup late' \cup lost
        PROVE  /\ Dirty(x)' # {}
               /\ \A c \in Valid(x)' : buf'[c].data = "new"
               /\ \A c \in Buffers : io'[c] = "sentold" => dest'[c] # x
    <3>1. io[b] # "sent" /\ x \notin late /\ x \notin refetched \cup lost
      BY <1>2, <2>2
    <3>2. Dirty(x)' # {} /\ \A c \in Valid(x)' : buf'[c].data = "new"
      BY <1>3, <1>7, <1>8, <1>9, <3>1 DEF Valid
    <3>3. ASSUME NEW c \in Buffers, io[c] = "sent", dest[c] = x
          PROVE  FALSE
      <4>1. c \in Dirty(x)
        <5>1. buf[c].blk = x
          BY <1>1, <3>1, <3>3, SameBlock
        <5> QED
          BY <1>1, <3>1, <3>3, <5>1 DEF DataSound, TransfersSound, Dirty
      <4>2. Dirty(x) \subseteq hashed
        BY <1>1, <1>8, <3>1 DEF DataSound, OneDirty
      <4>3. c = b
        BY <1>8, <4>1, <4>2, <3>3 DEF Cached, Dirty
      <4> QED
        BY <3>1, <3>3, <4>3
    <3>4. \A c \in Buffers : io'[c] = "sentold" => dest'[c] # x
      BY <1>1, <1>2, <3>1, <3>3 DEF DataSound, LatestSomewhere
    <3> QED
      BY <3>2, <3>4
  <2> QED
    BY <1>2, <2>1, <2>2 DEF LatestSomewhere
<1> QED
  BY <1>4, <1>6, <1>10, <1>11 DEF DataSound

LEMMA SendData ==
    ASSUME IInv, DataSound, NEW b \in Buffers, Send(b)
    PROVE  DataSound'
<1>1. /\ UNCHANGED <<buf, hashed, dest, disk, refetched, late, lost, pinned, pc, bh, kept>>
      /\ io[b] = "write" /\ io' = [io EXCEPT ![b] = io'[b]]
      /\ io'[b] \in Sent(b) /\ io'[b] \in {"sent", "sentold"}
  BY DEF Send, Sent, cache, races, IInv, Typed
<1>2. TransfersSound' /\ OneDirty'
  BY <1>1, SMTT(60) DEF IInv, Typed, DataSound, TransfersSound, OneDirty, Dirty, Cached
<1>3. HoldersRead'
  BY <1>1, HoldersStay DEF Filled, Spoilt
<1>4. ASSUME NEW x \in Blocks \ (refetched \cup late \cup lost), dest[b] = x
      PROVE  io'[b] = "sent"
  <2>1. buf[b].blk = x
    BY <1>1, <1>4, SameBlock
  <2>2. b \in Dirty(x)
    BY <1>1, <2>1 DEF DataSound, TransfersSound, Dirty
  <2>3. buf[b].data = "new"
    BY <2>2 DEF DataSound, OneDirty
  <2> QED
    BY <1>1, <1>4, <2>1, <2>3 DEF Sent
<1>5. LatestSomewhere'
  BY <1>1, <1>4 DEF IInv, Typed, DataSound, LatestSomewhere, Dirty, Valid, Cached
<1> QED
  BY <1>2, <1>3, <1>5 DEF DataSound

LEMMA WrittenData ==
    ASSUME IInv, DataSound, NEW b \in Buffers, WriteEnds(b)
    PROVE  DataSound'
<1>0. PICK x : x = dest[b]
  OBVIOUS
<1>1. /\ x \in Blocks
      /\ \A c \in Buffers : buf'[c].blk = buf[c].blk
      /\ \A c \in Buffers \ {b} : buf'[c] = buf[c]
      /\ ~buf'[b].lock /\ ~buf'[b].dirt
  BY <1>0, Written
<1>2. /\ UNCHANGED <<hashed, refetched, lost, pinned, pc, bh, kept>>
      /\ io[b] \in {"sent", "sentold"}
      /\ \A c \in Buffers : c # b => io'[c] = io[c] /\ dest'[c] = dest[c]
      /\ io'[b] = "none"
      /\ disk' = [disk EXCEPT ![x] = IF io[b] = "sent" THEN "new" ELSE "old"]
      /\ late' = IF io[b] = "sent" THEN late \ {x} ELSE late
  BY <1>0 DEF WriteEnds, Ended, IInv, Typed
<1>3. buf'[b].uptodate /\ buf'[b].data = buf[b].data
  BY DEF IInv, Typed, Heads, WriteEnds
<1>4. /\ \A y \in Blocks \ lost : buf[b].blk = y => y = x /\ b \in Dirty(y) /\ buf[b].uptodate
      /\ x \notin lost => buf[b].blk = x
  <2>1. \A y \in Blocks \ lost : dest[b] = y \/ buf[b].blk = y => dest[b] = y /\ buf[b].blk = y
    BY <1>2, SameBlock
  <2> QED
    BY <1>0, <1>1, <1>2, <2>1 DEF DataSound, TransfersSound, Dirty
<1>5. TransfersSound'
  BY <1>1, <1>2, <1>3 DEF DataSound, TransfersSound
<1>6. hashed \subseteq Buffers
  BY DEF IInv, Typed
<1>7. HoldersRead'
  <2>1. \A c \in hashed : (Filled(c) => Filled(c)') /\ (Spoilt(c) => Spoilt(c)')
    BY <1>1, <1>2, <1>3, <1>6 DEF Filled, Spoilt
  <2> QED
    BY <1>1, <1>2, <2>1, HoldersStay
<1>8. \A y \in Blocks \ lost :
         /\ Cached(y)' = Cached(y) /\ Valid(y)' = Valid(y)
         /\ Dirty(y)' = Dirty(y) \ {b} /\ (y # x => b \notin Dirty(y))
         /\ Dirty(y) \subseteq Buffers /\ Valid(y) \subseteq Buffers
  BY <1>1, <1>2, <1>3, <1>4, <1>6 DEF Dirty, Cached, Valid
<1>9. \A c \in Buffers : buf'[c].data = buf[c].data
  BY <1>1, <1>3
<1>10. OneDirty'
  BY <1>2, <1>8, <1>9 DEF DataSound, OneDirty
<1>11. ASSUME x \notin refetched \cup lost
       PROVE  /\ Dirty(x) = {b} /\ buf[b].data = "new"
              /\ \A c \in Valid(x) : c = b
              /\ \A c \in Buffers \ {b} : io[c] = "sentold" => dest[c] # x
  <2>1. Dirty(x) = {b} /\ buf[b].data = "new" /\ (Cached(x) # {} => b \in hashed)
    BY <1>1, <1>4, <1>11 DEF DataSound, OneDirty
  <2>2. \A c \in Valid(x) : c = b
    BY <1>4, <1>11, <2>1 DEF Valid, Cached, IInv, OneBufferPerBlock
  <2>3. ASSUME NEW c \in Buffers \ {b}, io[c] = "sentold", dest[c] = x
        PROVE  FALSE
    <3>1. buf[c].blk = x
      BY <1>1, <1>11, <2>3, SameBlock
    <3>2. c \in Dirty(x)
      BY <1>1, <1>11, <2>3, <3>1 DEF DataSound, TransfersSound, Dirty
    <3> QED
      BY <2>1, <3>2
  <2> QED
    BY <2>1, <2>2, <2>3
<1>12. LatestSomewhere'
  <2>1. ASSUME NEW y \in Blocks \ (refetched \cup late' \cup lost), y # x
        PROVE  /\ Dirty(y)' = {} => disk'[y] = "new"
               /\ \A c \in Valid(y)' : buf'[c].data = "new"
               /\ \A c \in Buffers : io'[c] = "sentold" => dest'[c] # y
    <3>1. y \notin late /\ disk'[y] = disk[y] /\ Dirty(y)' = Dirty(y)
      <4>1. y \notin late /\ disk'[y] = disk[y]
        BY <1>2, <2>1 DEF IInv, Typed
      <4>2. Dirty(y)' = Dirty(y) \ {b} /\ b \notin Dirty(y)
        BY <1>8, <2>1
      <4> QED
        BY <4>1, <4>2
    <3>2. \A c \in Buffers : io'[c] = "sentold" => dest'[c] # y
      BY <1>2, <2>1, <3>1 DEF DataSound, LatestSomewhere
    <3> QED
      BY <1>8, <1>9, <2>1, <3>1, <3>2 DEF DataSound, LatestSomewhere
  <2>2. ASSUME x \notin refetched \cup late' \cup lost
        PROVE  /\ disk'[x] = "new"
               /\ \A c \in Valid(x)' : buf'[c].data = "new"
               /\ \A c \in Buffers : io'[c] = "sentold" => dest'[c] # x
    <3>1. io[b] = "sent"
      BY <1>0, <1>1, <1>2, <2>2 DEF DataSound, LatestSomewhere
    <3>2. disk'[x] = "new"
      BY <1>1, <1>2, <3>1 DEF IInv, Typed
    <3>3. \A c \in Valid(x)' : buf'[c].data = "new"
      BY <1>1, <1>8, <1>9, <1>11, <2>2
    <3>4. \A c \in Buffers : io'[c] = "sentold" => dest'[c] # x
      BY <1>2, <1>11, <2>2
    <3> QED
      BY <3>2, <3>3, <3>4
  <2> QED
    BY <1>2, <2>1, <2>2 DEF LatestSomewhere
<1> QED
  BY <1>5, <1>7, <1>10, <1>12 DEF DataSound

LEMMA WriteFailsData ==
    ASSUME IInv, DataSound, NEW b \in Buffers, WriteFails(b)
    PROVE  DataSound'
<1>0. PICK x : x = dest[b]
  OBVIOUS
<1>1. /\ UNCHANGED <<hashed, refetched, late, pinned, pc, bh, kept>>
      /\ io[b] \in {"sent", "sentold"} /\ hashed \subseteq Buffers
      /\ x \in Blocks /\ \A y \in Blocks : y # x => disk'[y] = disk[y]
  BY <1>0 DEF WriteFails, IInv, Typed, LocksSound
<1>2. \A y \in Blocks \ lost : buf[b].blk = y \/ y = x => y = x /\ b \in Dirty(y)
  <2>1. \A y \in Blocks \ lost : dest[b] = y \/ buf[b].blk = y => dest[b] = y /\ buf[b].blk = y
    BY <1>1, SameBlock
  <2> QED
    BY <1>0, <1>1, <2>1 DEF DataSound, TransfersSound, Dirty
<1>3. CASE io' = [io EXCEPT ![b] = "write"] /\ UNCHANGED <<buf, dest, lost>>
  <2>1. /\ \A c \in Buffers : c # b => io'[c] = io[c]
        /\ io'[b] = "write"
    BY <1>3 DEF IInv, Typed
  <2>2. \A y : Dirty(y)' = Dirty(y) /\ Cached(y)' = Cached(y) /\ Valid(y)' = Valid(y)
    BY <1>1, <1>3 DEF Dirty, Cached, Valid
  <2>3. TransfersSound'
    BY <1>1, <1>3, <2>1 DEF DataSound, TransfersSound
  <2>4. OneDirty'
    BY <1>1, <1>3, <2>2 DEF DataSound, OneDirty
  <2>5. LatestSomewhere'
    BY <1>1, <1>2, <1>3, <2>1, <2>2 DEF DataSound, LatestSomewhere
  <2>6. HoldersRead'
    BY <1>1, <1>3, HoldersStay DEF Filled, Spoilt
  <2> QED
    BY <2>3, <2>4, <2>5, <2>6 DEF DataSound
<1>4. CASE /\ Ended(b) /\ lost' = lost \cup {x}
           /\ buf' = [buf EXCEPT ![b] = [@ EXCEPT !.lock = FALSE, !.uptodate = FALSE]]
  <2>1. /\ \A c \in Buffers : buf'[c].blk = buf[c].blk
        /\ \A c \in Buffers \ {b} : buf'[c] = buf[c]
        /\ ~buf'[b].lock
    BY <1>0, <1>1, <1>4, GivenUp
  <2>2. /\ \A c \in Buffers : c # b => io'[c] = io[c] /\ dest'[c] = dest[c]
        /\ io'[b] = "none"
    BY <1>4 DEF Ended, IInv, Typed
  <2>3. \A y \in Blocks \ lost' : y \in Blocks \ lost /\ buf[b].blk # y /\ y # x
    BY <1>2, <1>4
  <2>4. \A y \in Blocks \ lost' :
           /\ Cached(y)' = Cached(y) /\ Valid(y)' = Valid(y) /\ Dirty(y)' = Dirty(y)
           /\ Dirty(y) \subseteq Buffers \ {b} /\ Valid(y) \subseteq Buffers \ {b}
    BY <1>1, <2>1, <2>3 DEF Dirty, Cached, Valid
  <2>5. TransfersSound'
    BY <1>1, <2>1, <2>2, <2>3 DEF DataSound, TransfersSound
  <2>6. OneDirty'
    BY <1>1, <2>1, <2>3, <2>4 DEF DataSound, OneDirty
  <2>7. LatestSomewhere'
    BY <1>1, <2>1, <2>2, <2>3, <2>4 DEF DataSound, LatestSomewhere
  <2>8. HoldersRead'
    <3>1. buf[b].blk \in Blocks => Spoilt(b)'
      BY <2>1, <2>3 DEF Spoilt
    <3>2. \A c \in hashed : c \in Buffers /\ buf[c].blk \in Blocks
      BY <1>1 DEF IInv, HashSound
    <3>3. \A c \in hashed : (Filled(c) => Filled(c)') /\ (Spoilt(c) => Spoilt(c)')
      BY <1>4, <2>1, <3>1, <3>2 DEF Filled, Spoilt
    <3> QED
      BY <1>1, <2>1, <3>3, HoldersStay
  <2> QED
    BY <2>5, <2>6, <2>7, <2>8 DEF DataSound
<1> QED
  BY <1>0, <1>3, <1>4 DEF WriteFails

LEMMA ReadInData ==
    ASSUME IInv, DataSound, NEW b \in Buffers, ReadEnds(b)
    PROVE  DataSound'
<1>0. PICK x : x = dest[b]
  OBVIOUS
<1>1. /\ x \in Blocks
      /\ \A c \in Buffers : buf'[c].blk = buf[c].blk
      /\ \A c \in Buffers \ {b} : buf'[c] = buf[c]
      /\ ~buf'[b].lock /\ (buf'[b].dirt => buf[b].dirt)
  BY <1>0, ReadIn
<1>2. /\ UNCHANGED <<hashed, disk, refetched, late, lost, pinned, pc, bh, kept>>
      /\ io[b] = "read" /\ io'[b] = "none" /\ hashed \subseteq Buffers
      /\ \A c \in Buffers : c # b => io'[c] = io[c] /\ dest'[c] = dest[c]
  BY DEF ReadEnds, Ended, races, IInv, Typed
<1>3. ASSUME NEW y \in Blocks \ lost, buf[b].blk = y
      PROVE  y = x /\ b \in hashed /\ ~buf[b].dirt /\ ~buf[b].uptodate /\ ~buf'[b].dirt
  <2>1. dest[b] = y
    BY <1>2, <1>3, SameBlock
  <2> QED
    BY <1>0, <1>1, <1>2, <1>3, <2>1 DEF DataSound, TransfersSound
<1>4. buf'[b].uptodate => buf'[b].data = disk[x]
  <2> DEFINE h == [buf[b] EXCEPT !.lock = FALSE, !.uptodate = TRUE, !.dirt = FALSE,
                                 !.data = disk[dest[b]]]
             g == [buf[b] EXCEPT !.lock = FALSE, !.uptodate = FALSE]
  <2>1. buf \in [Buffers -> Heads] /\ buf[b] \in Heads
    BY DEF IInv, Typed
  <2>2. h.data = disk[dest[b]] /\ ~g.uptodate
    BY <2>1 DEF Heads
  <2>3. buf' = [buf EXCEPT ![b] = h] \/ buf' = [buf EXCEPT ![b] = g]
    BY DEF ReadEnds
  <2>4. buf'[b] = h \/ buf'[b] = g
    BY <2>1, <2>3
  <2> QED
    BY <1>0, <2>2, <2>4
<1>5. TransfersSound'
  BY <1>1, <1>2, <1>3 DEF DataSound, TransfersSound
<1>6. HoldersRead'
  <2>1. \A c \in hashed : c \in Buffers /\ buf[c].blk \in Blocks
    BY <1>2 DEF IInv, HashSound
  <2>2. \A c \in hashed : (Filled(c) => Filled(c)') /\ (Spoilt(c) => Spoilt(c)')
    BY <1>1, <1>2, <1>3, <2>1 DEF Filled, Spoilt
  <2> QED
    BY <1>1, <1>2, <2>2, HoldersStay
<1>7. \A y \in Blocks \ lost :
         /\ Cached(y)' = Cached(y) /\ Dirty(y)' = Dirty(y) /\ b \notin Dirty(y)
         /\ Valid(y)' \subseteq Valid(y) \cup ({b} \cap Valid(y)') /\ Dirty(y) \subseteq Buffers
         /\ Valid(y) \subseteq Buffers \ {b}
  BY <1>1, <1>2, <1>3 DEF Dirty, Cached, Valid
<1>8. OneDirty'
  BY <1>1, <1>2, <1>7 DEF DataSound, OneDirty
<1>9. ASSUME x \notin refetched \cup lost, buf[b].blk = x
      PROVE  Dirty(x) = {}
  <2>1. b \in hashed
    BY <1>1, <1>3, <1>9
  <2>2. Dirty(x) \subseteq hashed
    BY <1>1, <1>9, <2>1 DEF DataSound, OneDirty, Cached
  <2>3. \A c \in Dirty(x) : c = b
    BY <1>9, <2>1, <2>2 DEF IInv, OneBufferPerBlock, Dirty
  <2> QED
    BY <1>1, <1>7, <1>9, <2>3
<1>10. LatestSomewhere'
  <2>1. ASSUME NEW y \in Blocks \ (refetched \cup late \cup lost)
        PROVE  /\ Dirty(y)' = {} => disk'[y] = "new"
               /\ \A c \in Valid(y)' \ {b} : buf'[c].data = "new"
               /\ \A c \in Buffers : io'[c] = "sentold" => dest'[c] # y
    BY <1>1, <1>2, <1>7, <2>1 DEF DataSound, LatestSomewhere
  <2>2. ASSUME NEW y \in Blocks \ (refetched \cup late \cup lost), b \in Valid(y)'
        PROVE  buf'[b].data = "new"
    <3>1. buf[b].blk = y /\ buf'[b].uptodate
      BY <1>1, <2>2 DEF Valid, Cached
    <3>2. y = x
      BY <1>3, <2>2, <3>1
    <3> QED
      BY <1>4, <1>9, <2>2, <3>1, <3>2 DEF DataSound, LatestSomewhere
  <2> QED
    BY <1>2, <2>1, <2>2 DEF LatestSomewhere
<1> QED
  BY <1>5, <1>6, <1>8, <1>10 DEF DataSound

-----------------------------------------------------------------------------
LEMMA InitData == Init => DataSound
<1> SUFFICES ASSUME Init PROVE DataSound
  OBVIOUS
<1>1. /\ DOMAIN pinned \subseteq Buffers /\ \A b \in DOMAIN pinned : pinned[b] \in Blocks
  BY BufferAssumption DEF Init
<1>2. \A b \in Buffers : /\ buf[b].uptodate <=> b \in DOMAIN pinned
                         /\ b \in DOMAIN pinned => buf[b].data = "new"
                         /\ ~buf[b].dirt /\ io[b] = "none"
  BY DEF Init
<1>3. TransfersSound /\ HoldersRead
  BY <1>1, <1>2 DEF Init, TransfersSound, HoldersRead, Filled, Keeps
<1>4. \A x : Dirty(x) = {}
  BY <1>2 DEF Dirty
<1>5. OneDirty
  BY <1>4 DEF OneDirty
<1>6. LatestSomewhere
  BY <1>1, <1>2, <1>4 DEF Init, LatestSomewhere, Valid, Cached
<1> QED
  BY <1>3, <1>5, <1>6 DEF DataSound

LEMMA NextData == IInv /\ DataSound /\ [Next]_vars => DataSound'
<1> SUFFICES ASSUME IInv, DataSound, [Next]_vars PROVE DataSound'
  OBVIOUS
<1>1. CASE UNCHANGED vars
  <2>1. Contents'
    BY <1>1, ContentsKept DEF vars, cache, device, races
  <2>2. HoldersRead'
    BY <1>1, HoldersStay DEF vars, cache, device, races, Filled, Spoilt
  <2> QED
    BY <2>1, <2>2 DEF Contents, DataSound
<1>2. ASSUME NEW p \in Procs, Step(p)
      PROVE  DataSound'
  BY <1>2, QuietData, CountData, EvictData, TakeData, ReadData, SyncData DEF Step
<1>3. ASSUME NEW b \in Buffers, Transfer(b)
      PROVE  DataSound'
  BY <1>3, SendData, WrittenData, WriteFailsData, ReadInData DEF Transfer
<1> QED
  BY <1>1, <1>2, <1>3, QuietData, ModifyData DEF Next

(* What programs last put in a block is what they find in the cache or on  *)
(* the disk, and what only the cache has is marked dirty; except for the   *)
(* three ways the code has to lose it, a block brought in beside its old   *)
(* buffer, a change behind a write and a write that is given up (getblk,   *)
(* bread, sync_dev, write_intr, bad_rw_intr).                              *)
THEOREM LatestFound == Spec => []LatestIsFound
<1>1. Init => IInv /\ DataSound
  BY InitIInv, InitData
<1>2. IInv /\ DataSound /\ [Next]_vars => (IInv /\ DataSound)'
  BY NextIInv, NextData
<1> QED
  BY <1>1, <1>2, DataImpliesLatest, PTL DEF Spec
=============================================================================
