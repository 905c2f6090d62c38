---------------------- MODULE MemoryFileBlocks_proofs -----------------------
(***************************************************************************)
(* The proofs about page frames (Memory) and about the blocks of files     *)
(* (FileBlocks). They share no state and no definition.                    *)
(*                                                                         *)
(* Memory: the count of every frame is the number of references to it, and *)
(* the rest follows. IInv is RefCount together with the shape of the       *)
(* tables (Shape) and the two facts that say which frames have one         *)
(* reference only.                                                         *)
(*                                                                         *)
(* FileBlocks: a block belongs to one place of one file, and only the two  *)
(* known mistakes lose one. BlocksIInv is about labels that the code does  *)
(* not have: a label says to which place, of which file, a block in use    *)
(* has been given, and how much there is below it. Every pointer that      *)
(* counts agrees with the label of its block, so no two pointers name one  *)
(* block; and every block in use is named by a pointer, and so, from label *)
(* to label, is found from an inode or from the work of a truncate().      *)
(***************************************************************************)
EXTENDS Memory, FileBlocks, FiniteSetTheorems, SequenceTheorems, TLAPS

(* Which slots own what. *)
Shape ==
    \A t \in Tasks :
       /\ state[t] = "free" <=> task[t] = NoFrame
       /\ state[t] \in {"free", "exiting", "zombie"} =>
             pg_dir[t] = NoTables /\ pte[t] = NoPages
       /\ state[t] # "exec" => args[t] = NoArgs
       /\ state[t] = "exec" /\ ~stray => args[t] # NoArgs
       /\ state[t] \in {"running", "exec"} =>
             \E d \in Dirs : pg_dir[t][d] # NoFrame
       /\ \A a \in Addr : pte[t][a].frame # NoFrame => pg_dir[t][a[1]] # NoFrame
       /\ \A a \in Addr : pte[t][a].rw => pte[t][a].frame # NoFrame

IInv ==
    /\ TypeOK
    /\ Shape
    /\ RefCount
    /\ WritableIsUnshared
    /\ KernelFramesUnshared
    /\ NoPanic

-----------------------------------------------------------------------------
(* Counting *)

(* The address space, and the sets references are counted in, are finite. *)
LEMMA Finiteness ==
    /\ IsFiniteSet(Addr) /\ IsFiniteSet(ArgAddrs)
    /\ IsFiniteSet(Tasks \X Addr)
    /\ IsFiniteSet(Tasks \X Dirs)
    /\ IsFiniteSet(Tasks \X ArgAddrs)
<1>1. IsFiniteSet(Addr)
  BY MemoryAssumption, FS_Product DEF Addr
<1>2. IsFiniteSet(ArgAddrs)
  BY <1>1, MemoryAssumption, FS_Subset
<1> QED
  BY <1>1, <1>2, MemoryAssumption, FS_Product

(* Replacing the part A of a finite set by B changes its size by the       *)
(* difference of theirs.                                                   *)
LEMMA Exchange ==
    ASSUME NEW S, NEW T, IsFiniteSet(S), IsFiniteSet(T),
           NEW A \in SUBSET S, NEW B \in SUBSET T, S \ A = T \ B
    PROVE  /\ Cardinality(S) \in Nat /\ Cardinality(T) \in Nat
           /\ Cardinality(A) \in Nat /\ Cardinality(B) \in Nat
           /\ Cardinality(A) <= Cardinality(S)
           /\ Cardinality(T) = Cardinality(S) - Cardinality(A) + Cardinality(B)
<1>1. /\ IsFiniteSet(A) /\ IsFiniteSet(B)
      /\ Cardinality(A) <= Cardinality(S)
  BY FS_Subset
<1>2. /\ Cardinality(S) \in Nat /\ Cardinality(T) \in Nat
      /\ Cardinality(A) \in Nat /\ Cardinality(B) \in Nat
  BY <1>1, FS_CardinalityType
<1>3. S \cap A = A /\ T \cap B = B
  OBVIOUS
<1>4. Cardinality(S \ A) = Cardinality(S) - Cardinality(A)
  BY <1>3, FS_Difference, ZenonT(60)
<1>5. Cardinality(T \ B) = Cardinality(T) - Cardinality(B)
  BY <1>3, FS_Difference
<1>6. Cardinality(S \ A) = Cardinality(T \ B)
  OBVIOUS
<1> QED
  BY <1>1, <1>2, <1>4, <1>5, <1>6

(* An element of a finite set is its only one when the set has size 1. *)
LEMMA OnlyElement ==
    ASSUME NEW S, IsFiniteSet(S), NEW x \in S
    PROVE  /\ Cardinality(S) \in Nat /\ Cardinality(S) >= 1
           /\ Cardinality(S) = 1 => \A y \in S : y = x
<1>1. Cardinality(S) \in Nat
  BY FS_CardinalityType
<1>2. Cardinality(S) # 0
  BY FS_EmptySet
<1>3. ASSUME Cardinality(S) = 1 PROVE \A y \in S : y = x
  BY <1>3, FS_Singleton
<1> QED
  BY <1>1, <1>2, <1>3

(* The reference sets of a frame are finite, in this state and the next. *)
LEMMA FiniteRefs ==
    ASSUME NEW f
    PROVE  /\ IsFiniteSet(PteRefs(f)) /\ IsFiniteSet(PteRefs(f)')
           /\ IsFiniteSet(DirRefs(f)) /\ IsFiniteSet(DirRefs(f)')
           /\ IsFiniteSet(TaskRefs(f)) /\ IsFiniteSet(TaskRefs(f)')
           /\ IsFiniteSet(ArgRefs(f)) /\ IsFiniteSet(ArgRefs(f)')
<1>1. /\ PteRefs(f) \in SUBSET (Tasks \X Addr)
      /\ PteRefs(f)' \in SUBSET (Tasks \X Addr)
  BY DEF PteRefs
<1>2. /\ DirRefs(f) \in SUBSET (Tasks \X Dirs)
      /\ DirRefs(f)' \in SUBSET (Tasks \X Dirs)
  BY DEF DirRefs
<1>3. /\ TaskRefs(f) \in SUBSET Tasks
      /\ TaskRefs(f)' \in SUBSET Tasks
  BY DEF TaskRefs
<1>4. /\ ArgRefs(f) \in SUBSET (Tasks \X ArgAddrs)
      /\ ArgRefs(f)' \in SUBSET (Tasks \X ArgAddrs)
  BY DEF ArgRefs
<1> QED
  BY <1>1, <1>2, <1>3, <1>4, Finiteness, MemoryAssumption, FS_Subset

(* The size of each reference set is a natural number. *)
LEMMA RefSizes ==
    ASSUME NEW f
    PROVE  /\ Cardinality(PteRefs(f)) \in Nat /\ Cardinality(PteRefs(f)') \in Nat
           /\ Cardinality(DirRefs(f)) \in Nat /\ Cardinality(DirRefs(f)') \in Nat
           /\ Cardinality(TaskRefs(f)) \in Nat /\ Cardinality(TaskRefs(f)') \in Nat
           /\ Cardinality(ArgRefs(f)) \in Nat /\ Cardinality(ArgRefs(f)') \in Nat
BY FiniteRefs, FS_CardinalityType

(* Nothing refers to a free frame. *)
LEMMA FreeUnreferenced ==
    ASSUME RefCount, NEW f \in Frames, mem_map[f] = 0
    PROVE  /\ \A t \in Tasks, a \in Addr : pte[t][a].frame # f
           /\ \A t \in Tasks, d \in Dirs : pg_dir[t][d] # f
           /\ \A t \in Tasks : task[t] # f
           /\ \A t \in Tasks, a \in ArgAddrs : args[t][a] # f
           /\ f \notin pipes /\ f \notin lost
<1>1. /\ Cardinality(PteRefs(f)) = 0 /\ Cardinality(DirRefs(f)) = 0
      /\ Cardinality(TaskRefs(f)) = 0 /\ Cardinality(ArgRefs(f)) = 0
      /\ f \notin pipes /\ f \notin lost
  BY RefSizes DEF RefCount, References
<1>2. /\ PteRefs(f) = {} /\ DirRefs(f) = {} /\ TaskRefs(f) = {} /\ ArgRefs(f) = {}
  BY <1>1, FiniteRefs, FS_EmptySet
<1>3. ASSUME NEW t \in Tasks, NEW a \in Addr PROVE pte[t][a].frame # f
  <2>1. <<t, a>> \notin PteRefs(f) BY <1>2
  <2> QED BY <2>1 DEF PteRefs
<1>4. ASSUME NEW t \in Tasks, NEW d \in Dirs PROVE pg_dir[t][d] # f
  <2>1. <<t, d>> \notin DirRefs(f) BY <1>2
  <2> QED BY <2>1 DEF DirRefs
<1>5. ASSUME NEW t \in Tasks, NEW a \in ArgAddrs PROVE args[t][a] # f
  <2>1. <<t, a>> \notin ArgRefs(f) BY <1>2
  <2> QED BY <2>1 DEF ArgRefs
<1>6. ASSUME NEW t \in Tasks PROVE task[t] # f
  BY <1>2 DEF TaskRefs
<1> QED
  BY <1>1, <1>3, <1>4, <1>5, <1>6

(* A frame that a page-table entry maps has mem_map at least 1; when it is *)
(* 1, that entry is the only reference.                                    *)
LEMMA MappedOnce ==
    ASSUME RefCount, NEW f \in Frames,
           NEW t \in Tasks, NEW a \in Addr, pte[t][a].frame = f
    PROVE  /\ mem_map[f] \in Nat /\ mem_map[f] >= 1
           /\ mem_map[f] = 1 =>
                /\ \A u \in Tasks, b \in Addr :
                      pte[u][b].frame = f => u = t /\ b = a
                /\ \A u \in Tasks, d \in Dirs : pg_dir[u][d] # f
                /\ \A u \in Tasks : task[u] # f
                /\ \A u \in Tasks, b \in ArgAddrs : args[u][b] # f
                /\ f \notin pipes /\ f \notin lost
<1>1. <<t, a>> \in PteRefs(f)
  BY DEF PteRefs
<1>2. /\ Cardinality(PteRefs(f)) >= 1
      /\ Cardinality(PteRefs(f)) = 1 => \A y \in PteRefs(f) : y = <<t, a>>
  BY <1>1, FiniteRefs, OnlyElement
<1>3. /\ mem_map[f] \in Nat /\ mem_map[f] >= 1
      /\ mem_map[f] = 1 =>
           /\ Cardinality(PteRefs(f)) = 1 /\ Cardinality(DirRefs(f)) = 0
           /\ Cardinality(TaskRefs(f)) = 0 /\ Cardinality(ArgRefs(f)) = 0
           /\ f \notin pipes /\ f \notin lost
  BY <1>2, RefSizes DEF RefCount, References
<1>4. ASSUME mem_map[f] = 1
      PROVE  /\ \A y \in PteRefs(f) : y = <<t, a>>
             /\ DirRefs(f) = {} /\ TaskRefs(f) = {} /\ ArgRefs(f) = {}
             /\ f \notin pipes /\ f \notin lost
  BY <1>2, <1>3, <1>4, FiniteRefs, FS_EmptySet
<1>5. ASSUME mem_map[f] = 1, NEW u \in Tasks, NEW b \in Addr, pte[u][b].frame = f
      PROVE  u = t /\ b = a
  <2>1. <<u, b>> \in PteRefs(f) BY <1>5 DEF PteRefs
  <2> QED BY <2>1, <1>4, <1>5
<1>6. ASSUME mem_map[f] = 1, NEW u \in Tasks, NEW d \in Dirs PROVE pg_dir[u][d] # f
  <2>1. <<u, d>> \notin DirRefs(f) BY <1>4, <1>6
  <2> QED BY <2>1 DEF DirRefs
<1>7. ASSUME mem_map[f] = 1, NEW u \in Tasks, NEW b \in ArgAddrs PROVE args[u][b] # f
  <2>1. <<u, b>> \notin ArgRefs(f) BY <1>4, <1>7
  <2> QED BY <2>1 DEF ArgRefs
<1>8. ASSUME mem_map[f] = 1, NEW u \in Tasks PROVE task[u] # f
  BY <1>4, <1>8 DEF TaskRefs
<1> QED
  BY <1>3, <1>4, <1>5, <1>6, <1>7, <1>8

(* What is still referred to has a mem_map of at least 1. *)
Held(f) == \/ f \in pipes \cup lost
           \/ \E t \in Tasks : \/ f \in KernelFrames(t)
                               \/ \E a \in Addr : pte[t][a].frame = f
HeldCounted == \A f \in Frames : Held(f) => mem_map[f] >= 1

LEMMA HeldCounts == RefCount => HeldCounted
<1> SUFFICES ASSUME RefCount, NEW f \in Frames, Held(f)
             PROVE  mem_map[f] >= 1
  BY DEF HeldCounted
<1>1. CASE f \in pipes \cup lost
  BY <1>1, RefSizes DEF RefCount, References
<1>2. ASSUME NEW t \in Tasks, task[t] = f PROVE mem_map[f] >= 1
  <2>1. t \in TaskRefs(f) BY <1>2 DEF TaskRefs
  <2>2. Cardinality(TaskRefs(f)) >= 1 BY <2>1, FiniteRefs, OnlyElement
  <2> QED BY <2>2, RefSizes DEF RefCount, References
<1>3. ASSUME NEW t \in Tasks, NEW d \in Dirs, pg_dir[t][d] = f PROVE mem_map[f] >= 1
  <2>1. <<t, d>> \in DirRefs(f) BY <1>3 DEF DirRefs
  <2>2. Cardinality(DirRefs(f)) >= 1 BY <2>1, FiniteRefs, OnlyElement
  <2> QED BY <2>2, RefSizes DEF RefCount, References
<1>4. ASSUME NEW t \in Tasks, NEW a \in ArgAddrs, args[t][a] = f PROVE mem_map[f] >= 1
  <2>1. <<t, a>> \in ArgRefs(f) BY <1>4 DEF ArgRefs
  <2>2. Cardinality(ArgRefs(f)) >= 1 BY <2>1, FiniteRefs, OnlyElement
  <2> QED BY <2>2, RefSizes DEF RefCount, References
<1>5. ASSUME NEW t \in Tasks, NEW a \in Addr, pte[t][a].frame = f PROVE mem_map[f] >= 1
  BY <1>5, MappedOnce
<1> QED
  BY <1>1, <1>2, <1>3, <1>4, <1>5 DEF KernelFrames, Held

LEMMA HeldCountsNext == RefCount' => HeldCounted'
BY HeldCounts, PTL

-----------------------------------------------------------------------------
(* The initial states *)

LEMMA InitInv == Init => IInv
<1> SUFFICES ASSUME Init PROVE IInv
  OBVIOUS
<1>0. PICK s \in Frames : \E tab \in Frames \ {s} :
        /\ mem_map = [f \in Frames |-> IF f \in {s, tab} THEN 1 ELSE 0]
        /\ task = [t \in Tasks |-> IF t = FirstTask THEN s ELSE NoFrame]
        /\ pg_dir = [t \in Tasks |-> [d \in Dirs |->
                        IF t = FirstTask /\ d = 0 THEN tab ELSE NoFrame]]
  BY DEF Init
<1>1. PICK tab \in Frames \ {s} :
        /\ mem_map = [f \in Frames |-> IF f \in {s, tab} THEN 1 ELSE 0]
        /\ task = [t \in Tasks |-> IF t = FirstTask THEN s ELSE NoFrame]
        /\ pg_dir = [t \in Tasks |-> [d \in Dirs |->
                        IF t = FirstTask /\ d = 0 THEN tab ELSE NoFrame]]
  BY <1>0
<1>2. PICK low \in [Addr -> LowFrames] :
        pte = [t \in Tasks |-> [a \in Addr |->
                 IF t = FirstTask /\ a[1] = 0
                 THEN [frame |-> low[a], rw |-> FALSE] ELSE NotPresent]]
  BY DEF Init
<1>3. /\ content = [f \in AllFrames |-> Zero]
      /\ state = [t \in Tasks |-> IF t = FirstTask THEN "running" ELSE "free"]
      /\ father = [t \in Tasks |-> NoTask]
      /\ args = [t \in Tasks |-> NoArgs]
      /\ pipes = {} /\ lost = {} /\ panic = FALSE /\ stray = FALSE
  BY DEF Init
<1>4. TypeOK
  <2>1. pte \in [Tasks -> [Addr -> Entry]]
    BY <1>2 DEF Entry, NotPresent, AllFrames
  <2> QED
    BY <2>1, <1>1, <1>3, MemoryAssumption DEF TypeOK, States, NoArgs, AllFrames
<1>5. Shape
  <2>1. \A t \in Tasks : t # FirstTask => pte[t] = NoPages /\ pg_dir[t] = NoTables
    BY <1>1, <1>2 DEF NoPages, NoTables
  <2>2. \A t \in Tasks, a \in Addr :
           /\ pte[t][a].frame # NoFrame => pg_dir[t][a[1]] # NoFrame
           /\ ~pte[t][a].rw
    BY <1>1, <1>2, MemoryAssumption DEF NotPresent, AllFrames, Addr
  <2> QED
    BY <2>1, <2>2, <1>1, <1>3, MemoryAssumption DEF Shape, AllFrames
<1>6. RefCount
  <2> SUFFICES ASSUME NEW f \in Frames PROVE mem_map[f] = References(f)
    BY DEF RefCount
  <2>1. PteRefs(f) = {}
    BY <1>2, MemoryAssumption DEF PteRefs, NotPresent, AllFrames
  <2>2. DirRefs(f) = IF f = tab THEN {<<FirstTask, 0>>} ELSE {}
    BY <1>1, MemoryAssumption DEF DirRefs, AllFrames
  <2>3. TaskRefs(f) = IF f = s THEN {FirstTask} ELSE {}
    BY <1>1, MemoryAssumption DEF TaskRefs, AllFrames
  <2>4. ArgRefs(f) = {}
    BY <1>3, MemoryAssumption DEF ArgRefs, NoArgs, AllFrames
  <2>5. /\ Cardinality(PteRefs(f)) = 0 /\ Cardinality(ArgRefs(f)) = 0
        /\ Cardinality(DirRefs(f)) = IF f = tab THEN 1 ELSE 0
        /\ Cardinality(TaskRefs(f)) = IF f = s THEN 1 ELSE 0
    BY <2>1, <2>2, <2>3, <2>4, FS_Singleton, FS_EmptySet
  <2> QED
    BY <2>5, <1>1, <1>3 DEF References
<1>7. WritableIsUnshared
  BY <1>2 DEF WritableIsUnshared, NotPresent
<1>8. KernelFramesUnshared
  BY <1>1, <1>3, MemoryAssumption DEF KernelFramesUnshared, KernelFrames, NoArgs, AllFrames
<1>9. NoPanic
  BY <1>3 DEF NoPanic
<1> QED
  BY <1>4, <1>5, <1>6, <1>7, <1>8, <1>9 DEF IInv

-----------------------------------------------------------------------------
(* The steps *)

(* The references of task t that free_page_tables() gives back.  Where the *)
(* other tasks keep their tables, mem_map and the counts change alike.     *)
LEMMA PteChange ==
    ASSUME NEW t \in Tasks, NEW f,
           \A u \in Tasks \ {t}, a \in Addr : pte'[u][a].frame = pte[u][a].frame
    PROVE  LET old == Cardinality(EntryRefs(pte[t], t, f))
               new == Cardinality(EntryRefs(pte'[t], t, f))
           IN /\ old \in Nat /\ new \in Nat /\ old <= Cardinality(PteRefs(f))
              /\ Cardinality(PteRefs(f)') = Cardinality(PteRefs(f)) - old + new
<1>1. /\ EntryRefs(pte[t], t, f) \in SUBSET PteRefs(f)
      /\ EntryRefs(pte'[t], t, f) \in SUBSET PteRefs(f)'
  BY DEF EntryRefs, PteRefs
<1>2. PteRefs(f) \ EntryRefs(pte[t], t, f) = PteRefs(f)' \ EntryRefs(pte'[t], t, f)
  BY DEF EntryRefs, PteRefs
<1> QED
  BY <1>1, <1>2, FiniteRefs, Exchange

LEMMA DirChange ==
    ASSUME NEW t \in Tasks, NEW f,
           \A u \in Tasks \ {t}, d \in Dirs : pg_dir'[u][d] = pg_dir[u][d]
    PROVE  LET old == Cardinality(TableRefs(t, f))
               new == Cardinality(TableRefs(t, f)')
           IN /\ old \in Nat /\ new \in Nat /\ old <= Cardinality(DirRefs(f))
              /\ Cardinality(DirRefs(f)') = Cardinality(DirRefs(f)) - old + new
<1>1. /\ TableRefs(t, f) \in SUBSET DirRefs(f)
      /\ TableRefs(t, f)' \in SUBSET DirRefs(f)'
  BY DEF TableRefs, DirRefs
<1>2. DirRefs(f) \ TableRefs(t, f) = DirRefs(f)' \ TableRefs(t, f)'
  BY DEF TableRefs, DirRefs
<1> QED
  BY <1>1, <1>2, FiniteRefs, Exchange

(* Frames that are counted at most once, and referred to, are counted once. *)
LEMMA AtMostOnce ==
    ASSUME TypeOK', RefCount',
           \A t \in Tasks, a \in Addr : pte'[t][a].rw =>
                 pte'[t][a].frame \in Frames
                 /\ mem_map'[pte'[t][a].frame] <= 1,
           \A f \in Frames :
               (f \in pipes' \cup lost' \/ \E t \in Tasks : f \in KernelFrames(t)')
               => mem_map'[f] <= 1
    PROVE  WritableIsUnshared' /\ KernelFramesUnshared'
<1>1. HeldCounted'
  BY HeldCountsNext
<1>2. \A f \in Frames : mem_map'[f] \in Nat
  BY DEF TypeOK
<1>3. WritableIsUnshared'
  <2> SUFFICES ASSUME NEW t \in Tasks, NEW a \in Addr, pte'[t][a].rw,
                      NEW f \in Frames, f = pte'[t][a].frame
               PROVE  mem_map'[f] = 1
    BY DEF WritableIsUnshared
  <2>1. Held(f)'
    BY DEF Held
  <2>2. mem_map'[f] >= 1
    BY <1>1, <2>1 DEF HeldCounted
  <2> QED
    BY <1>2, <2>2
<1>4. KernelFramesUnshared'
  <2> SUFFICES ASSUME NEW f \in Frames,
                      f \in pipes' \cup lost' \/ \E t \in Tasks : f \in KernelFrames(t)'
               PROVE  mem_map'[f] = 1
    BY DEF KernelFramesUnshared
  <2>1. Held(f)'
    BY DEF Held
  <2>2. mem_map'[f] >= 1
    BY <1>1, <2>1 DEF HeldCounted
  <2> QED
    BY <1>2, <2>2
<1> QED
  BY <1>3, <1>4

(* do_exit() keeps the invariant whether the frame lost by do_no_page() is *)
(* there or not: mm and lost' are what they are at the call.               *)
LEMMA ExitStep ==
    ASSUME IInv, ~stray, stray' \in BOOLEAN, NEW t \in Tasks, state[t] = "running",
           NEW mm \in [Frames -> Nat], DoExit(t, mm), lost' \subseteq Frames,
           \A f \in Frames :
              mm[f] = Cardinality(PteRefs(f)) + Cardinality(DirRefs(f))
                      + Cardinality(TaskRefs(f)) + Cardinality(ArgRefs(f))
                      + (IF f \in pipes THEN 1 ELSE 0)
                      + (IF f \in lost' THEN 1 ELSE 0),
           \A f \in Frames : f \in lost' \ lost => mm[f] = 1,
           \A f \in Frames : Held(f) => mm[f] = mem_map[f],
           lost \subseteq lost'
    PROVE  IInv'
<1> USE DEF IInv, DoExit
<1>1. /\ pg_dir' = [pg_dir EXCEPT ![t] = NoTables]
      /\ pte' = [pte EXCEPT ![t] = NoPages]
      /\ UNCHANGED <<content, task, args, pipes>>
  OBVIOUS
<1>2. ASSUME NEW f \in Frames
      PROVE  /\ Cardinality(EntryRefs(pte[t], t, f)) \in Nat
             /\ Cardinality(EntryRefs(pte[t], t, f)) <= Cardinality(PteRefs(f))
             /\ Cardinality(PteRefs(f)') = Cardinality(PteRefs(f))
                                           - Cardinality(EntryRefs(pte[t], t, f))
             /\ Cardinality(TableRefs(t, f)) \in Nat
             /\ Cardinality(TableRefs(t, f)) <= Cardinality(DirRefs(f))
             /\ Cardinality(DirRefs(f)') = Cardinality(DirRefs(f))
                                           - Cardinality(TableRefs(t, f))
  <2>1. EntryRefs(pte'[t], t, f) = {} /\ TableRefs(t, f)' = {}
    BY <1>1, MemoryAssumption
       DEF TypeOK, EntryRefs, TableRefs, NoPages, NoTables, NotPresent, AllFrames
  <2>2. \A u \in Tasks \ {t} : pte'[u] = pte[u] /\ pg_dir'[u] = pg_dir[u]
    BY <1>1 DEF TypeOK
  <2>3. Cardinality({}) = 0
    BY FS_EmptySet
  <2>4. /\ Cardinality(EntryRefs(pte'[t], t, f)) = 0
        /\ Cardinality(TableRefs(t, f)') = 0
    BY <2>1, <2>3
  <2> QED
    BY <2>2, <2>4, PteChange, DirChange, RefSizes
<1>3. ASSUME NEW f \in Frames
      PROVE  /\ TableCount(t)[f] \in Nat /\ TableCount(t)[f] <= mm[f]
             /\ mem_map'[f] = mm[f] - TableCount(t)[f]
             /\ TaskRefs(f)' = TaskRefs(f) /\ ArgRefs(f)' = ArgRefs(f)
  <2>1. TableCount(t)[f] = Cardinality(EntryRefs(pte[t], t, f))
                           + Cardinality(TableRefs(t, f))
    BY DEF TableCount
  <2>2. TableCount(t)[f] \in Nat /\ TableCount(t)[f] <= mm[f]
    BY <2>1, <1>2, RefSizes
  <2>3. mem_map'[f] = mm[f] - TableCount(t)[f]
    BY <2>2 DEF FreePages
  <2> QED
    BY <2>2, <2>3, <1>1 DEF TaskRefs, ArgRefs
<1>4. NoPanic'
  BY <1>3 DEF Overfreed, NoPanic
<1>5. TypeOK'
  <2>1. mem_map' \in [Frames -> Nat]
    <3>1. mem_map' = [f \in Frames |-> mem_map'[f]]
      BY DEF FreePages
    <3> QED BY <3>1, <1>3
  <2>2. pte' \in [Tasks -> [Addr -> Entry]] /\ pg_dir' \in [Tasks -> [Dirs -> Frames \cup {NoFrame}]]
    BY <1>1 DEF TypeOK, NoPages, NoTables, NotPresent, Entry
  <2>3. panic' \in BOOLEAN
    BY <1>4 DEF NoPanic, Overfreed
  <2> QED
    BY <2>1, <2>2, <2>3, <1>1 DEF TypeOK, States
<1>6. Shape'
  BY <1>1, MemoryAssumption DEF TypeOK, Shape, NoPages, NoTables, NotPresent, Addr
<1>7. RefCount'
  <2> SUFFICES ASSUME NEW f \in Frames PROVE mem_map'[f] = References(f)'
    BY DEF RefCount
  <2>1. TableCount(t)[f] = Cardinality(EntryRefs(pte[t], t, f))
                           + Cardinality(TableRefs(t, f))
    BY DEF TableCount
  <2> QED
    BY <2>1, <1>1, <1>2, <1>3, RefSizes DEF References
<1>8. WritableIsUnshared' /\ KernelFramesUnshared'
  <2>1. ASSUME NEW f \in Frames, Held(f) PROVE mem_map'[f] <= mem_map[f]
    <3>1. mm[f] = mem_map[f] /\ mm[f] \in Nat
      BY <2>1
    <3> QED BY <3>1, <1>3
  <2>2. ASSUME NEW u \in Tasks, NEW a \in Addr, pte'[u][a].rw
        PROVE  pte'[u][a].frame \in Frames /\ mem_map'[pte'[u][a].frame] <= 1
    <3>1. pte'[u][a] = pte[u][a]
      BY <2>2, <1>1 DEF TypeOK, NoPages, NotPresent
    <3>2. pte[u][a].frame \in Frames /\ mem_map[pte[u][a].frame] = 1
      BY <2>2, <3>1 DEF WritableIsUnshared
    <3>3. Held(pte[u][a].frame)
      BY DEF Held
    <3> QED
      BY <3>1, <3>2, <3>3, <2>1
  <2>3. ASSUME NEW f \in Frames,
               f \in pipes' \cup lost' \/ \E u \in Tasks : f \in KernelFrames(u)'
        PROVE  mem_map'[f] <= 1
    <3>1. CASE f \in lost' \ lost
      BY <3>1, <1>3
    <3>2. CASE f \notin lost' \ lost
      <4>1. f \in pipes \cup lost \/ \E u \in Tasks : f \in KernelFrames(u)
        BY <2>3, <3>2, <1>1, MemoryAssumption DEF TypeOK, KernelFrames, NoTables, AllFrames
      <4>2. mem_map[f] = 1 /\ Held(f)
        BY <4>1 DEF KernelFramesUnshared, Held
      <4> QED
        BY <4>2, <2>1
    <3> QED BY <3>1, <3>2
  <2> QED
    BY <2>2, <2>3, <1>5, <1>7, AtMostOnce
<1> QED
  BY <1>4, <1>5, <1>6, <1>7, <1>8

(* exit(), the page faults that run out of memory, and the end of a task   *)
(* in the middle of execve().                                              *)
LEMMA Exits ==
    ASSUME IInv, ~stray, stray' \in BOOLEAN, NEW t \in Tasks,
           \/ Exit(t) \/ ExecDies(t)
           \/ \E a \in Addr : DemandPageFails(t, a) \/ CopyOnWriteFails(t, a)
    PROVE  IInv'
<1>1. state[t] = "running"
  BY DEF Exit, ExecDies, DemandPageFails, CopyOnWriteFails, Running
<1>2. CASE DoExit(t, mem_map) /\ UNCHANGED lost
  <2>1. mem_map \in [Frames -> Nat] /\ lost' \subseteq Frames
    BY <1>2 DEF IInv, TypeOK
  <2>2. \A f \in Frames :
          mem_map[f] = Cardinality(PteRefs(f)) + Cardinality(DirRefs(f))
                       + Cardinality(TaskRefs(f)) + Cardinality(ArgRefs(f))
                       + (IF f \in pipes THEN 1 ELSE 0)
                       + (IF f \in lost' THEN 1 ELSE 0)
    BY <1>2 DEF IInv, RefCount, References
  <2> QED
    BY <1>1, <1>2, <2>1, <2>2, ExitStep
<1>3. ASSUME NEW F \in SUBSET FreeIn(mem_map), DoExit(t, Take(mem_map, F)),
             lost' = lost \cup F
      PROVE  IInv'
  <2> DEFINE mm == Take(mem_map, F)
  <2>1. \A n \in F : n \in Frames /\ mem_map[n] = 0
    BY DEF FreeIn
  <2>2. mm \in [Frames -> Nat] /\ lost' \subseteq Frames
    BY <1>3, <2>1 DEF IInv, TypeOK, Take
  <2>3. \A f \in Frames : Held(f) => mm[f] = mem_map[f]
    BY <2>1, HeldCounts DEF IInv, HeldCounted, Take
  <2>4. \A n \in F : n \notin lost /\ n \notin pipes
    BY <2>1, FreeUnreferenced DEF IInv
  <2>5. ASSUME NEW f \in Frames
        PROVE  mm[f] = Cardinality(PteRefs(f)) + Cardinality(DirRefs(f))
                       + Cardinality(TaskRefs(f)) + Cardinality(ArgRefs(f))
                       + (IF f \in pipes THEN 1 ELSE 0)
                       + (IF f \in lost' THEN 1 ELSE 0)
    <3>1. mem_map[f] = Cardinality(PteRefs(f)) + Cardinality(DirRefs(f))
                       + Cardinality(TaskRefs(f)) + Cardinality(ArgRefs(f))
                       + (IF f \in pipes THEN 1 ELSE 0)
                       + (IF f \in lost THEN 1 ELSE 0)
      BY DEF IInv, RefCount, References
    <3>2. CASE f \in F
      <4>1. mm[f] = 1 /\ mem_map[f] = 0 /\ f \in lost' /\ f \notin lost
        BY <3>2, <2>1, <2>4, <1>3 DEF Take
      <4> QED
        BY <3>1, <4>1, RefSizes
    <3>3. CASE f \notin F
      <4>1. mm[f] = mem_map[f] /\ (f \in lost' <=> f \in lost)
        BY <3>3, <1>3 DEF Take
      <4> QED
        BY <3>1, <4>1
    <3> QED
      BY <3>2, <3>3
  <2>6. \A f \in Frames : f \in lost' \ lost => mm[f] = 1
    BY <1>3 DEF Take
  <2>7. lost \subseteq lost'
    BY <1>3
  <2> HIDE DEF mm
  <2>8. DoExit(t, mm)
    BY <1>3 DEF mm
  <2> QED
    BY <1>1, <2>2, <2>3, <2>5, <2>6, <2>7, <2>8, ExitStep
<1>4. CASE ExecDies(t)
  BY <1>3, <1>4 DEF ExecDies
<1>5. ASSUME NEW n \in FreeIn(mem_map), DoExit(t, Take(mem_map, {n})), lost' = lost \cup {n}
      PROVE  IInv'
  BY <1>3, <1>5
<1> QED
  BY <1>2, <1>4, <1>5 DEF Exit, DemandPageFails, CopyOnWriteFails

(* Steps that change no reference: a store, a zombie, a write-protected or *)
(* unprotected entry that keeps its frame.                                 *)
LEMMA SameRefs ==
    ASSUME IInv, ~stray, stray' \in BOOLEAN,
           UNCHANGED <<mem_map, pg_dir, task, args, pipes, lost, panic>>,
           \A t \in Tasks, a \in Addr :
              /\ pte'[t][a].frame = pte[t][a].frame
              /\ pte'[t][a].rw =>
                    \/ pte[t][a].rw
                    \/ pte[t][a].frame \in Frames /\ mem_map[pte[t][a].frame] = 1,
           TypeOK', Shape'
    PROVE  IInv'
<1>1. ASSUME NEW f
      PROVE  /\ PteRefs(f)' = PteRefs(f) /\ DirRefs(f)' = DirRefs(f)
             /\ TaskRefs(f)' = TaskRefs(f) /\ ArgRefs(f)' = ArgRefs(f)
  BY DEF PteRefs, DirRefs, TaskRefs, ArgRefs
<1>2. RefCount'
  BY <1>1 DEF IInv, RefCount, References
<1>3. WritableIsUnshared'
  BY DEF IInv, WritableIsUnshared
<1>4. KernelFramesUnshared'
  BY DEF IInv, KernelFramesUnshared, KernelFrames
<1> QED
  BY <1>2, <1>3, <1>4 DEF IInv, NoPanic

LEMMA Stores ==
    ASSUME IInv, ~stray, stray' \in BOOLEAN, NEW t \in Tasks,
           \/ BecomeZombie(t) \/ ForkFails(t)
           \/ \E a \in Addr : \/ UnWriteProtect(t, a)
                              \/ \E v \in Values : Store(t, a, v)
    PROVE  IInv'
<1> USE DEF IInv
<1>1. ASSUME NEW a \in Addr, NEW v \in Values, Store(t, a, v) PROVE IInv'
  <2>1. TypeOK' BY <1>1 DEF Store, TypeOK
  <2>2. Shape' BY <1>1 DEF Store, Shape
  <2> QED BY <2>1, <2>2, <1>1, SameRefs DEF Store
<1>2. CASE BecomeZombie(t)
  <2>1. TypeOK' BY <1>2 DEF BecomeZombie, TypeOK, States
  <2>2. Shape' BY <1>2 DEF BecomeZombie, Shape, TypeOK
  <2> QED BY <2>1, <2>2, <1>2, SameRefs DEF BecomeZombie
<1>3. ASSUME NEW a \in Addr, UnWriteProtect(t, a) PROVE IInv'
  <2>1. TypeOK'
    <3>1. pte[t][a] \in Entry
      BY DEF TypeOK
    <3>2. pte' = [pte EXCEPT ![t][a].rw = TRUE]
      BY <1>3 DEF UnWriteProtect
    <3>3. [pte[t][a] EXCEPT !.rw = TRUE] \in Entry
      BY <3>1 DEF Entry
    <3>4. pte' \in [Tasks -> [Addr -> Entry]]
      BY <3>2, <3>3 DEF TypeOK
    <3> QED
      BY <1>3, <3>4 DEF UnWriteProtect, TypeOK
  <2>2. ASSUME NEW u \in Tasks, NEW b \in Addr
        PROVE  /\ pte'[u][b].frame = pte[u][b].frame
               /\ pte'[u][b].rw => pte[u][b].rw \/ (u = t /\ b = a)
    BY <1>3 DEF UnWriteProtect, TypeOK, Entry
  <2>3. \A u \in Tasks : u # t => pte'[u] = pte[u]
    BY <1>3 DEF UnWriteProtect, TypeOK
  <2>4. Shape'
    BY <1>3, <2>2, <2>3 DEF UnWriteProtect, Shape, Running
  <2> QED
    BY <2>1, <2>2, <2>4, <1>3, SameRefs DEF UnWriteProtect, SoleOwner
<1>4. CASE ForkFails(t)
  <2> DEFINE k == Cardinality(FreeIn(mem_map)) - 1
  <2>1. pte' = [pte EXCEPT ![t] = WriteProtected(t, FirstDirs(t, k))]
    BY <1>4 DEF ForkFails
  <2> HIDE DEF k
  <2> DEFINE w == WriteProtected(t, FirstDirs(t, k))
  <2>5. ASSUME NEW b \in Addr
        PROVE  w[b] \in Entry /\ w[b].frame = pte[t][b].frame
               /\ (w[b].rw => pte[t][b].rw)
    <3>1. pte[t][b] \in Entry
      BY DEF TypeOK
    <3> QED BY <3>1 DEF WriteProtected, Entry
  <2>6. pte' = [pte EXCEPT ![t] = w] /\ w \in [Addr -> Entry]
    BY <2>1, <2>5 DEF WriteProtected
  <2> HIDE DEF w
  <2>2. ASSUME NEW u \in Tasks, NEW b \in Addr
        PROVE  /\ pte'[u][b].frame = pte[u][b].frame
               /\ pte'[u][b].rw => pte[u][b].rw
    BY <2>5, <2>6 DEF TypeOK
  <2>3. TypeOK'
    <3>1. pte' \in [Tasks -> [Addr -> Entry]]
      BY <2>6 DEF TypeOK
    <3> QED BY <3>1, <1>4 DEF ForkFails, TypeOK
  <2>4. Shape'
    <3>1. \A u \in Tasks : u # t => pte'[u] = pte[u]
      BY <2>1 DEF TypeOK
    <3> QED BY <1>4, <2>2, <3>1 DEF ForkFails, Shape, Running
  <2> QED
    BY <2>2, <2>3, <2>4, <1>4, SameRefs DEF ForkFails
<1> QED
  BY <1>1, <1>2, <1>3, <1>4

(* release(): the slot and its frame. *)
LEMMA ReleaseStep ==
    ASSUME IInv, ~stray, stray' \in BOOLEAN, NEW t \in Tasks, state[t] \in {"exiting", "zombie"}, Release(t),
           UNCHANGED <<pg_dir, pte, args, pipes, lost>>,
           content' \in [AllFrames -> Values]
    PROVE  IInv'
<1> USE DEF IInv
<1>1. task[t] \in Frames
  BY DEF TypeOK, Shape
<1>2. mem_map[task[t]] = 1
  BY <1>1 DEF KernelFramesUnshared, KernelFrames
<1>3. /\ mem_map' = [f \in Frames |-> IF f = task[t] THEN 0 ELSE mem_map[f]]
      /\ panic' = FALSE
  BY <1>1, <1>2 DEF Release, FreePages, Once, Overfreed, TypeOK
<1>4. TypeOK'
  <2>1. mem_map' \in [Frames -> Nat] /\ panic' \in BOOLEAN
    BY <1>3 DEF TypeOK
  <2>2. /\ task' \in [Tasks -> Frames \cup {NoFrame}]
        /\ state' \in [Tasks -> States]
        /\ father' \in [Tasks -> Tasks \cup {NoTask}]
    BY DEF TypeOK, Release, States
  <2> QED
    BY <2>1, <2>2 DEF TypeOK
<1>5. Shape'
  BY MemoryAssumption DEF Shape, Release, TypeOK
<1>6. RefCount'
  <2> SUFFICES ASSUME NEW f \in Frames PROVE mem_map'[f] = References(f)'
    BY DEF RefCount
  <2>1. /\ PteRefs(f)' = PteRefs(f) /\ DirRefs(f)' = DirRefs(f)
        /\ ArgRefs(f)' = ArgRefs(f)
    BY DEF PteRefs, DirRefs, ArgRefs
  <2>2. TaskRefs(f)' = TaskRefs(f) \ {t}
    BY MemoryAssumption DEF TaskRefs, Release, TypeOK, AllFrames
  <2>3. Cardinality(TaskRefs(f)') = IF t \in TaskRefs(f)
                                    THEN Cardinality(TaskRefs(f)) - 1
                                    ELSE Cardinality(TaskRefs(f))
    BY <2>2, FiniteRefs, FS_RemoveElement
  <2>4. t \in TaskRefs(f) <=> f = task[t]
    BY DEF TaskRefs
  <2> QED
    BY <2>1, <2>3, <2>4, <1>1, <1>2, <1>3, RefSizes DEF RefCount, References
<1>7. WritableIsUnshared' /\ KernelFramesUnshared'
  <2>1. \A f \in Frames : mem_map'[f] <= mem_map[f]
    BY <1>2, <1>3 DEF TypeOK
  <2>2. ASSUME NEW u \in Tasks, NEW a \in Addr, pte'[u][a].rw
        PROVE  pte'[u][a].frame \in Frames /\ mem_map'[pte'[u][a].frame] <= 1
    BY <2>1, <2>2 DEF WritableIsUnshared
  <2>3. ASSUME NEW f \in Frames,
               f \in pipes' \cup lost' \/ \E u \in Tasks : f \in KernelFrames(u)'
        PROVE  mem_map'[f] <= 1
    <3>1. f \in pipes \cup lost \/ \E u \in Tasks : f \in KernelFrames(u)
      BY <2>3, MemoryAssumption DEF KernelFrames, Release, TypeOK, AllFrames
    <3> QED
      BY <3>1, <2>1 DEF KernelFramesUnshared
  <2> QED
    BY <2>2, <2>3, <1>4, <1>6, AtMostOnce
<1> QED
  BY <1>3, <1>4, <1>5, <1>6, <1>7 DEF NoPanic

(* fork(): the child's references are added. *)
LEMMA ForkStep ==
    ASSUME IInv, ~stray, stray' \in BOOLEAN, NEW p \in Tasks, NEW c \in Tasks, Fork(p, c)
    PROVE  IInv'
<1> USE DEF IInv
<1>1. /\ c # p /\ state[p] = "running" /\ state[c] = "free"
      /\ pte[c] = NoPages /\ pg_dir[c] = NoTables /\ args[c] = NoArgs
  BY DEF Fork, Running, Shape
<1>2. PICK s \in FreeIn(mem_map) :
        \E tab \in NewTables(p, FreeIn(mem_map) \ {s}) :
         /\ mem_map' =
              [f \in Frames |->
                 Take(mem_map, {s} \cup {tab[d] : d \in Dirs})[f]
                 + Cardinality(EntryRefs(CopyOf(p), c, f))]
         /\ task' = [task EXCEPT ![c] = s]
         /\ pg_dir' = [pg_dir EXCEPT ![c] = tab]
  BY DEF Fork
<1>3. PICK tab \in NewTables(p, FreeIn(mem_map) \ {s}) :
         /\ mem_map' =
              [f \in Frames |->
                 Take(mem_map, {s} \cup {tab[d] : d \in Dirs})[f]
                 + Cardinality(EntryRefs(CopyOf(p), c, f))]
         /\ task' = [task EXCEPT ![c] = s]
         /\ pg_dir' = [pg_dir EXCEPT ![c] = tab]
  BY <1>2
<1> DEFINE New == {s} \cup {tab[d] : d \in Dirs}
           copy(f) == Cardinality(EntryRefs(CopyOf(p), c, f))
           w == WriteProtected(p, PresentDirs(p))
<1>4. /\ s \in Frames /\ mem_map[s] = 0
      /\ tab \in [Dirs -> Frames \cup {NoFrame}]
      /\ \A d \in Dirs : /\ tab[d] # s
                         /\ tab[d] = NoFrame <=> pg_dir[p][d] = NoFrame
                         /\ tab[d] # NoFrame => mem_map[tab[d]] = 0
      /\ \A d, e \in Dirs : tab[d] = tab[e] /\ tab[d] # NoFrame => d = e
  BY MemoryAssumption DEF NewTables, FreeIn, AllFrames
<1>5. /\ pte' = [pte EXCEPT ![p] = w, ![c] = CopyOf(p)]
      /\ state' = [state EXCEPT ![c] = "running"]
      /\ father' = [father EXCEPT ![c] = p]
      /\ UNCHANGED <<content, args, pipes, lost, panic>>
  BY DEF Fork
<1>6. \A f \in Frames : f \in New => mem_map[f] = 0
  BY <1>4, MemoryAssumption DEF AllFrames
<1>7. ASSUME NEW a \in Addr
      PROVE  /\ w[a] \in Entry /\ w[a].frame = pte[p][a].frame
             /\ w[a].rw => pte[p][a].rw /\ ~(a[1] \in PresentDirs(p) /\ pte[p][a].frame \in Frames)
             /\ CopyOf(p)[a] \in Entry /\ CopyOf(p)[a].frame = pte[p][a].frame
             /\ ~CopyOf(p)[a].rw
  <2>1. pte[p][a] \in Entry
    BY DEF TypeOK
  <2> QED BY <2>1 DEF WriteProtected, CopyOf, Entry
<1>8. w \in [Addr -> Entry] /\ CopyOf(p) \in [Addr -> Entry]
  BY <1>7 DEF WriteProtected, CopyOf
<1>9. /\ pte'[p] = w /\ pte'[c] = CopyOf(p)
      /\ \A u \in Tasks : u # p /\ u # c => pte'[u] = pte[u]
      /\ pte' \in [Tasks -> [Addr -> Entry]]
  <2> HIDE DEF w
  <2> QED BY <1>1, <1>5, <1>8 DEF TypeOK
<1>10. ASSUME NEW f \in Frames, \A a \in Addr : pte[p][a].frame # f
       PROVE  copy(f) = 0
  <2>1. EntryRefs(CopyOf(p), c, f) = {}
    BY <1>7, <1>10 DEF EntryRefs
  <2> QED BY <2>1, FS_EmptySet
<1>11. ASSUME NEW f \in Frames
       PROVE  copy(f) \in Nat
  <2>1. EntryRefs(CopyOf(p), c, f) \in SUBSET (Tasks \X Addr)
    BY DEF EntryRefs
  <2> QED BY <2>1, Finiteness, FS_Subset, FS_CardinalityType
<1>12. ASSUME NEW f \in Frames
       PROVE  mem_map'[f] = IF f \in New THEN 1 ELSE mem_map[f] + copy(f)
  <2>1. mem_map'[f] = (IF f \in New THEN 1 ELSE mem_map[f]) + copy(f)
    BY <1>3 DEF Take
  <2>2. f \in New => copy(f) = 0
    BY <1>6, <1>10, FreeUnreferenced
  <2> HIDE DEF New, copy
  <2> QED BY <2>1, <2>2
<1> HIDE DEF w, copy
<1>13. TypeOK'
  <2>1. mem_map' \in [Frames -> Nat]
    <3>1. ASSUME NEW f \in Frames PROVE mem_map'[f] \in Nat
      <4>1. mem_map[f] \in Nat BY DEF TypeOK
      <4> HIDE DEF New
      <4> QED BY <4>1, <1>11, <1>12
    <3>2. mem_map' = [f \in Frames |-> mem_map'[f]]
      BY <1>3
    <3> QED BY <3>1, <3>2
  <2>2. /\ pg_dir' \in [Tasks -> [Dirs -> Frames \cup {NoFrame}]]
        /\ task' \in [Tasks -> Frames \cup {NoFrame}]
        /\ state' \in [Tasks -> States]
        /\ father' \in [Tasks -> Tasks \cup {NoTask}]
    BY <1>3, <1>4, <1>5 DEF TypeOK, States
  <2> QED BY <2>1, <2>2, <1>5, <1>9 DEF TypeOK
<1>14. Shape'
  <2> SUFFICES ASSUME NEW t \in Tasks
      PROVE  /\ state'[t] = "free" <=> task'[t] = NoFrame
             /\ state'[t] \in {"free", "exiting", "zombie"} =>
                   pg_dir'[t] = NoTables /\ pte'[t] = NoPages
             /\ state'[t] # "exec" => args'[t] = NoArgs
             /\ state'[t] = "exec" => args'[t] # NoArgs
             /\ state'[t] \in {"running", "exec"} =>
                   \E d \in Dirs : pg_dir'[t][d] # NoFrame
             /\ \A a \in Addr : pte'[t][a].frame # NoFrame => pg_dir'[t][a[1]] # NoFrame
             /\ \A a \in Addr : pte'[t][a].rw => pte'[t][a].frame # NoFrame
    BY DEF Shape
  <2>1. CASE t = c
    <3>1. /\ state'[t] = "running" /\ task'[t] = s /\ pg_dir'[t] = tab /\ args'[t] = NoArgs
      BY <2>1, <1>1, <1>3, <1>5 DEF TypeOK
    <3>2. \E d \in Dirs : tab[d] # NoFrame
      BY <1>1, <1>4 DEF Shape
    <3>3. \A a \in Addr : pte[p][a].frame # NoFrame => tab[a[1]] # NoFrame
      BY <1>4 DEF Shape, Addr
    <3> QED
      BY <3>1, <3>2, <3>3, <2>1, <1>4, <1>7, <1>9, MemoryAssumption DEF AllFrames
  <2>2. CASE t = p
    <3>1. /\ state'[t] = "running" /\ task'[t] = task[t] /\ pg_dir'[t] = pg_dir[t] /\ args'[t] = args[t]
      BY <2>2, <1>1, <1>3, <1>5 DEF TypeOK
    <3>2. /\ task[t] # NoFrame /\ args[t] = NoArgs
          /\ \E d \in Dirs : pg_dir[t][d] # NoFrame
          /\ \A a \in Addr : pte[t][a].frame # NoFrame => pg_dir[t][a[1]] # NoFrame
          /\ \A a \in Addr : pte[t][a].rw => pte[t][a].frame # NoFrame
      BY <2>2, <1>1 DEF Shape
    <3>3. \A a \in Addr : /\ pte'[t][a].frame = pte[t][a].frame
                          /\ pte'[t][a].rw => pte[t][a].rw
      BY <2>2, <1>7, <1>9
    <3> QED
      BY <3>1, <3>2, <3>3
  <2>3. CASE t # p /\ t # c
    <3>1. /\ state'[t] = state[t] /\ task'[t] = task[t] /\ pg_dir'[t] = pg_dir[t]
          /\ args'[t] = args[t] /\ pte'[t] = pte[t]
      BY <2>3, <1>1, <1>3, <1>5, <1>9 DEF TypeOK
    <3> QED
      BY <3>1 DEF Shape
  <2> QED BY <2>1, <2>2, <2>3
<1>15. RefCount'
  <2> SUFFICES ASSUME NEW f \in Frames PROVE mem_map'[f] = References(f)'
    BY DEF RefCount
  <2>1. Cardinality(PteRefs(f)') = Cardinality(PteRefs(f)) + copy(f)
    <3>1. \A u \in Tasks \ {c}, a \in Addr : pte'[u][a].frame = pte[u][a].frame
      BY <1>7, <1>9
    <3>2. EntryRefs(pte[c], c, f) = {}
      BY <1>1, MemoryAssumption DEF EntryRefs, NoPages, NotPresent, AllFrames
    <3>3. Cardinality(EntryRefs(pte[c], c, f)) = 0
      BY <3>2, FS_EmptySet
    <3>4. Cardinality(EntryRefs(pte'[c], c, f)) = copy(f)
      BY <1>9 DEF copy
    <3> QED BY <3>1, <3>3, <3>4, <1>11, PteChange, RefSizes
  <2>2. Cardinality(DirRefs(f)') = Cardinality(DirRefs(f))
                                   + (IF \E d \in Dirs : f = tab[d] THEN 1 ELSE 0)
    <3>1. \A u \in Tasks \ {c}, d \in Dirs : pg_dir'[u][d] = pg_dir[u][d]
      BY <1>3 DEF TypeOK
    <3>2. TableRefs(c, f) = {}
      BY <1>1, MemoryAssumption DEF TableRefs, NoTables, AllFrames
    <3>3. Cardinality(TableRefs(c, f)) = 0
      BY <3>2, FS_EmptySet
    <3>4. TableRefs(c, f)' = {x \in {c} \X Dirs : tab[x[2]] = f}
      BY <1>3 DEF TableRefs, TypeOK
    <3>5. Cardinality(TableRefs(c, f)') = IF \E d \in Dirs : f = tab[d] THEN 1 ELSE 0
      <4>1. ASSUME NEW d \in Dirs, f = tab[d] PROVE Cardinality(TableRefs(c, f)') = 1
        <5>1. TableRefs(c, f)' = {<<c, d>>}
          BY <3>4, <4>1, <1>4, MemoryAssumption DEF AllFrames
        <5> QED BY <5>1, FS_Singleton
      <4>2. ASSUME ~\E d \in Dirs : f = tab[d] PROVE Cardinality(TableRefs(c, f)') = 0
        <5>1. TableRefs(c, f)' = {}
          BY <3>4, <4>2
        <5> QED BY <5>1, FS_EmptySet
      <4> QED BY <4>1, <4>2
    <3> QED BY <3>1, <3>3, <3>5, DirChange, RefSizes
  <2>3. Cardinality(TaskRefs(f)') = Cardinality(TaskRefs(f)) + (IF f = s THEN 1 ELSE 0)
    <3>1. CASE f = s
      <4>1. TaskRefs(f) = {} /\ TaskRefs(f)' = {c}
        BY <3>1, <1>3, <1>4, FreeUnreferenced DEF TaskRefs, TypeOK
      <4> QED BY <4>1, <3>1, FS_EmptySet, FS_Singleton
    <3>2. CASE f # s
      <4>1. TaskRefs(f)' = TaskRefs(f)
        BY <3>2, <1>3, MemoryAssumption DEF Fork, TaskRefs, TypeOK, AllFrames
      <4> QED BY <4>1, <3>2, RefSizes
    <3> QED BY <3>1, <3>2
  <2>4. ArgRefs(f)' = ArgRefs(f)
    BY <1>5 DEF ArgRefs
  <2>5. f \in New <=> f = s \/ \E d \in Dirs : f = tab[d]
    OBVIOUS
  <2>6. f = s => ~\E d \in Dirs : f = tab[d]
    BY <1>4
  <2>7. mem_map[f] = References(f) /\ (f \in New => mem_map[f] = 0 /\ copy(f) = 0)
    BY <1>6, <1>10, FreeUnreferenced DEF RefCount
  <2>8. References(f)' = References(f) + copy(f) + (IF f \in New THEN 1 ELSE 0)
    <3>1. copy(f) \in Nat
      BY <1>11
    <3> HIDE DEF New
    <3> QED BY <3>1, <2>1, <2>2, <2>3, <2>4, <2>5, <2>6, <1>5, RefSizes DEF References
  <2>9. mem_map[f] \in Nat
    BY DEF TypeOK
  <2> HIDE DEF New
  <2> QED
    BY <2>7, <2>8, <2>9, <1>11, <1>12
<1>16. ASSUME NEW f \in Frames, f \notin New, mem_map[f] = 1,
              \A a \in Addr : pte[p][a].frame # f
       PROVE  mem_map'[f] <= 1
  BY <1>10, <1>12, <1>16
<1>17. \A f \in Frames : f \in New => mem_map'[f] <= 1
  BY <1>12
<1>18. ASSUME NEW u \in Tasks, NEW a \in Addr, pte'[u][a].rw
       PROVE  pte'[u][a].frame \in Frames /\ mem_map'[pte'[u][a].frame] <= 1
  <2>1. u # c
    BY <1>7, <1>9, <1>18
  <2>2. u # p
    <3> SUFFICES ASSUME u = p PROVE FALSE
      OBVIOUS
    <3>1. pte[p][a].rw /\ ~(a[1] \in PresentDirs(p) /\ pte[p][a].frame \in Frames)
      BY <1>7, <1>9, <1>18
    <3>2. pte[p][a].frame \in Frames /\ pg_dir[p][a[1]] # NoFrame
      BY <3>1 DEF Shape, WritableIsUnshared
    <3> QED BY <3>1, <3>2 DEF PresentDirs, Addr
  <2>3. pte'[u][a] = pte[u][a]
    BY <2>1, <2>2, <1>9
  <2>4. PICK f \in Frames : f = pte[u][a].frame /\ mem_map[f] = 1
    BY <2>3, <1>18 DEF WritableIsUnshared
  <2>5. \A b \in Addr : pte[p][b].frame # f
    BY <2>2, <2>4, MappedOnce
  <2>6. f \notin New
    BY <2>4, <1>6
  <2> QED BY <2>3, <2>4, <2>5, <2>6, <1>16
<1>19. ASSUME NEW f \in Frames,
              f \in pipes' \cup lost' \/ \E u \in Tasks : f \in KernelFrames(u)'
       PROVE  mem_map'[f] <= 1
  <2>1. CASE f \in New
    BY <2>1, <1>17
  <2>2. CASE f \notin New
    <3>1. f \in pipes \cup lost \/ \E u \in Tasks : f \in KernelFrames(u)
      <4>1. CASE f \in pipes' \cup lost'
        BY <4>1, <1>5
      <4>2. ASSUME NEW u \in Tasks, f \in KernelFrames(u)'
            PROVE  \E t \in Tasks : f \in KernelFrames(t)
        <5>1. u # c
          BY <4>2, <2>2, <1>3, <1>5, <1>1, MemoryAssumption DEF KernelFrames, TypeOK, NoArgs, AllFrames
        <5>2. task'[u] = task[u] /\ pg_dir'[u] = pg_dir[u] /\ args'[u] = args[u]
          BY <5>1, <1>3, <1>5 DEF TypeOK
        <5> QED BY <4>2, <5>2 DEF KernelFrames
      <4> QED BY <4>1, <4>2, <1>19
    <3>2. mem_map[f] = 1
      BY <3>1 DEF KernelFramesUnshared
    <3>3. ASSUME NEW b \in Addr PROVE pte[p][b].frame # f
      <4> SUFFICES ASSUME pte[p][b].frame = f PROVE FALSE
        OBVIOUS
      <4>1. /\ \A u \in Tasks, d \in Dirs : pg_dir[u][d] # f
            /\ \A u \in Tasks : task[u] # f
            /\ \A u \in Tasks, e \in ArgAddrs : args[u][e] # f
            /\ f \notin pipes /\ f \notin lost
        BY <3>2, MappedOnce
      <4> QED BY <4>1, <3>1 DEF KernelFrames
    <3> QED BY <3>2, <3>3, <2>2, <1>16
  <2> QED BY <2>1, <2>2
<1>20. WritableIsUnshared' /\ KernelFramesUnshared'
  BY <1>13, <1>15, <1>18, <1>19, AtMostOnce
<1> QED
  BY <1>5, <1>13, <1>14, <1>15, <1>20 DEF NoPanic

(* do_no_page(): one fresh frame, and a page table when there was none. *)
LEMMA DemandStep ==
    ASSUME IInv, ~stray, stray' \in BOOLEAN, NEW t \in Tasks, NEW a \in Addr, DemandPage(t, a)
    PROVE  IInv'
<1> USE DEF IInv
<1>1. PICK n \in FreeIn(mem_map) :
       \E tab \in PageTable(t, a[1], Take(mem_map, {n})) \ {NoFrame} :
         /\ mem_map' = Take(mem_map, {n, tab} \ {pg_dir[t][a[1]]})
         /\ pg_dir' = [pg_dir EXCEPT ![t][a[1]] = tab]
         /\ pte' = [pte EXCEPT ![t][a] = [frame |-> n, rw |-> TRUE]]
         /\ content' = [content EXCEPT ![n] = Zero]
  BY DEF DemandPage
<1>2. PICK tab \in PageTable(t, a[1], Take(mem_map, {n})) \ {NoFrame} :
         /\ mem_map' = Take(mem_map, {n, tab} \ {pg_dir[t][a[1]]})
         /\ pg_dir' = [pg_dir EXCEPT ![t][a[1]] = tab]
         /\ pte' = [pte EXCEPT ![t][a] = [frame |-> n, rw |-> TRUE]]
         /\ content' = [content EXCEPT ![n] = Zero]
  BY <1>1
<1> DEFINE d == a[1]
           fresh == pg_dir[t][d] = NoFrame
<1>3. /\ state[t] = "running" /\ pte[t][a].frame = NoFrame
      /\ UNCHANGED <<task, state, father, args, pipes, lost, panic>>
  BY DEF DemandPage, Running
<1>4. n \in Frames /\ mem_map[n] = 0 /\ n # NoFrame /\ d \in Dirs
  BY MemoryAssumption DEF FreeIn, AllFrames, Addr
<1>5. /\ tab \in Frames /\ tab # NoFrame /\ tab # n
      /\ ~fresh => tab = pg_dir[t][d]
      /\ fresh => mem_map[tab] = 0
  <2>1. CASE fresh
    <3>1. tab \in FreeIn(Take(mem_map, {n}))
      BY <2>1 DEF PageTable, GetFreePage
    <3> QED BY <3>1, <2>1, MemoryAssumption DEF FreeIn, Take, AllFrames
  <2>2. CASE ~fresh
    <3>1. tab = pg_dir[t][d] /\ tab \in Frames
      BY <2>2, <1>4 DEF PageTable, TypeOK
    <3> QED BY <3>1, <2>2, <1>4, FreeUnreferenced
  <2> QED BY <2>1, <2>2
<1>6. \A f \in Frames : mem_map'[f] = IF f = n \/ (f = tab /\ fresh) THEN 1 ELSE mem_map[f]
  BY <1>2, <1>4, <1>5, FreeUnreferenced DEF Take
<1>7. /\ \A u \in Tasks, b \in Addr :
            pte'[u][b] = IF u = t /\ b = a THEN [frame |-> n, rw |-> TRUE] ELSE pte[u][b]
      /\ \A u \in Tasks, e \in Dirs :
            pg_dir'[u][e] = IF u = t /\ e = d THEN tab ELSE pg_dir[u][e]
  BY <1>2, <1>4 DEF TypeOK
<1>8. TypeOK'
  <2>1. mem_map' \in [Frames -> Nat]
    <3>1. mem_map' = [f \in Frames |-> mem_map'[f]] BY <1>2 DEF Take
    <3> QED BY <3>1, <1>6 DEF TypeOK
  <2>2. [frame |-> n, rw |-> TRUE] \in Entry
    BY <1>4 DEF Entry, AllFrames
  <2>3. pte' \in [Tasks -> [Addr -> Entry]]
    BY <2>2, <1>2 DEF TypeOK
  <2>4. pg_dir' \in [Tasks -> [Dirs -> Frames \cup {NoFrame}]]
    BY <1>2, <1>5 DEF TypeOK
  <2>5. content' \in [AllFrames -> Values]
    BY <1>2, MemoryAssumption DEF TypeOK
  <2> QED BY <2>1, <2>3, <2>4, <2>5, <1>3 DEF TypeOK
<1>9. Shape'
  <2>1. \A u \in Tasks : u # t => pte'[u] = pte[u] /\ pg_dir'[u] = pg_dir[u]
    BY <1>2 DEF TypeOK
  <2>2. \E e \in Dirs : pg_dir'[t][e] # NoFrame
    BY <1>4, <1>5, <1>7
  <2>3. \A b \in Addr : /\ pte'[t][b].frame # NoFrame => pg_dir'[t][b[1]] # NoFrame
                        /\ pte'[t][b].rw => pte'[t][b].frame # NoFrame
    <3>1. \A b \in Addr : /\ pte[t][b].frame # NoFrame => pg_dir[t][b[1]] # NoFrame
                          /\ pte[t][b].rw => pte[t][b].frame # NoFrame
      BY DEF Shape
    <3>2. \A b \in Addr : b[1] \in Dirs
      BY DEF Addr
    <3> QED BY <3>1, <3>2, <1>4, <1>5, <1>7
  <2> QED BY <2>1, <2>2, <2>3, <1>3 DEF Shape
<1>10. RefCount'
  <2> SUFFICES ASSUME NEW f \in Frames PROVE mem_map'[f] = References(f)'
    BY DEF RefCount
  <2>0. f # NoFrame
    BY MemoryAssumption DEF AllFrames
  <2>1. TaskRefs(f)' = TaskRefs(f) /\ ArgRefs(f)' = ArgRefs(f)
    BY <1>3 DEF TaskRefs, ArgRefs
  <2>2. Cardinality(PteRefs(f)') = Cardinality(PteRefs(f)) + (IF f = n THEN 1 ELSE 0)
    <3>1. CASE f = n
      <4>1. PteRefs(f) = {} /\ PteRefs(f)' = {<<t, a>>}
        BY <3>1, <1>4, <1>7, FreeUnreferenced DEF PteRefs
      <4>2. Cardinality({}) = 0 /\ Cardinality({<<t, a>>}) = 1
        BY FS_EmptySet, FS_Singleton
      <4> QED BY <4>1, <4>2, <3>1
    <3>2. CASE f # n
      <4>1. PteRefs(f)' = PteRefs(f)
        BY <3>2, <2>0, <1>3, <1>7 DEF PteRefs
      <4> QED BY <4>1, <3>2, RefSizes
    <3> QED BY <3>1, <3>2
  <2>3. Cardinality(DirRefs(f)') = Cardinality(DirRefs(f))
                                   + (IF f = tab /\ fresh THEN 1 ELSE 0)
    <3>1. CASE f = tab /\ fresh
      <4>1. DirRefs(f) = {} /\ DirRefs(f)' = {<<t, d>>}
        BY <3>1, <1>4, <1>5, <1>7, FreeUnreferenced DEF DirRefs
      <4>2. Cardinality({}) = 0 /\ Cardinality({<<t, d>>}) = 1
        BY FS_EmptySet, FS_Singleton
      <4> QED BY <4>1, <4>2, <3>1
    <3>2. CASE ~(f = tab /\ fresh)
      <4>1. DirRefs(f)' = DirRefs(f)
        BY <3>2, <2>0, <1>5, <1>7 DEF DirRefs
      <4> QED BY <4>1, <3>2, RefSizes
    <3> QED BY <3>1, <3>2
  <2>4. mem_map[f] = References(f)
    BY DEF RefCount
  <2> QED
    BY <2>1, <2>2, <2>3, <2>4, <1>3, <1>4, <1>5, <1>6, RefSizes DEF References
<1>11. WritableIsUnshared' /\ KernelFramesUnshared'
  <2>1. ASSUME NEW u \in Tasks, NEW b \in Addr, pte'[u][b].rw
        PROVE  pte'[u][b].frame \in Frames /\ mem_map'[pte'[u][b].frame] <= 1
    <3>1. CASE u = t /\ b = a
      BY <3>1, <1>4, <1>6, <1>7
    <3>2. CASE ~(u = t /\ b = a)
      BY <3>2, <2>1, <1>6, <1>7 DEF WritableIsUnshared
    <3> QED BY <3>1, <3>2
  <2>2. ASSUME NEW f \in Frames,
               f \in pipes' \cup lost' \/ \E u \in Tasks : f \in KernelFrames(u)'
        PROVE  mem_map'[f] <= 1
    <3>1. CASE f = n \/ (f = tab /\ fresh)
      BY <3>1, <1>6
    <3>2. CASE ~(f = n \/ (f = tab /\ fresh))
      <4>1. f \in pipes \cup lost \/ \E u \in Tasks : f \in KernelFrames(u)
        BY <2>2, <3>2, <1>3, <1>4, <1>5, <1>7 DEF KernelFrames
      <4> QED BY <4>1, <3>2, <1>6 DEF KernelFramesUnshared
    <3> QED BY <3>1, <3>2
  <2> QED BY <2>1, <2>2, <1>8, <1>10, AtMostOnce
<1> QED
  BY <1>3, <1>8, <1>9, <1>10, <1>11 DEF NoPanic

(* un_wp_page() copies: one reference moves to a fresh frame. *)
LEMMA CopyStep ==
    ASSUME IInv, ~stray, stray' \in BOOLEAN, NEW t \in Tasks, NEW a \in Addr, CopyOnWrite(t, a)
    PROVE  IInv'
<1> USE DEF IInv
<1> DEFINE old == pte[t][a].frame
<1>1. PICK n \in FreeIn(mem_map) :
         /\ mem_map' = [f \in Frames |->
                          IF f = n THEN 1
                          ELSE IF f = old THEN mem_map[f] - 1 ELSE mem_map[f]]
         /\ pte' = [pte EXCEPT ![t][a] = [frame |-> n, rw |-> TRUE]]
         /\ content' = [content EXCEPT ![n] = content[old]]
  BY DEF CopyOnWrite
<1>2. /\ state[t] = "running" /\ old # NoFrame /\ ~SoleOwner(old)
      /\ UNCHANGED <<pg_dir, task, state, father, args, pipes, lost, panic>>
  BY DEF CopyOnWrite, Running
<1>3. n \in Frames /\ mem_map[n] = 0 /\ n # NoFrame /\ n # old
  BY MemoryAssumption, FreeUnreferenced DEF FreeIn, AllFrames
<1>4. old \in AllFrames /\ (old \in Frames => mem_map[old] \in Nat /\ mem_map[old] > 1)
  <2>1. pte[t][a] \in Entry
    BY DEF TypeOK
  <2>2. old \in AllFrames
    BY <2>1, <1>2 DEF Entry
  <2> QED BY <2>2, <1>2, MappedOnce DEF SoleOwner
<1>5. \A u \in Tasks, b \in Addr :
            pte'[u][b] = IF u = t /\ b = a THEN [frame |-> n, rw |-> TRUE] ELSE pte[u][b]
  BY <1>1 DEF TypeOK
<1>6. TypeOK'
  <2>1. mem_map' \in [Frames -> Nat]
    BY <1>1, <1>4 DEF TypeOK
  <2>2. [frame |-> n, rw |-> TRUE] \in Entry
    BY <1>3 DEF Entry, AllFrames
  <2>3. pte' \in [Tasks -> [Addr -> Entry]]
    BY <2>2, <1>1 DEF TypeOK
  <2>4. content' \in [AllFrames -> Values]
    BY <1>1, <1>4 DEF TypeOK
  <2> QED BY <2>1, <2>3, <2>4, <1>2 DEF TypeOK
<1>7. Shape'
  <2>1. \A u \in Tasks : u # t => pte'[u] = pte[u]
    BY <1>1 DEF TypeOK
  <2>2. \A b \in Addr : /\ pte'[t][b].frame # NoFrame => pg_dir[t][b[1]] # NoFrame
                        /\ pte'[t][b].rw => pte'[t][b].frame # NoFrame
    BY <1>2, <1>3, <1>5 DEF Shape
  <2> QED BY <2>1, <2>2, <1>2 DEF Shape
<1>8. RefCount'
  <2> SUFFICES ASSUME NEW f \in Frames PROVE mem_map'[f] = References(f)'
    BY DEF RefCount
  <2>1. /\ TaskRefs(f)' = TaskRefs(f) /\ ArgRefs(f)' = ArgRefs(f)
        /\ DirRefs(f)' = DirRefs(f)
    BY <1>2 DEF TaskRefs, ArgRefs, DirRefs
  <2>2. Cardinality(PteRefs(f)') = IF f = n THEN Cardinality(PteRefs(f)) + 1
                                   ELSE IF f = old THEN Cardinality(PteRefs(f)) - 1
                                   ELSE Cardinality(PteRefs(f))
    <3>1. CASE f = n
      <4>1. PteRefs(f) = {} /\ PteRefs(f)' = {<<t, a>>}
        BY <3>1, <1>3, <1>5, FreeUnreferenced DEF PteRefs
      <4>2. Cardinality({}) = 0 /\ Cardinality({<<t, a>>}) = 1
        BY FS_EmptySet, FS_Singleton
      <4> QED BY <4>1, <4>2, <3>1
    <3>2. CASE f = old
      <4>1. PteRefs(f)' = PteRefs(f) \ {<<t, a>>} /\ <<t, a>> \in PteRefs(f)
        BY <3>2, <1>3, <1>5 DEF PteRefs
      <4> QED BY <4>1, <3>2, <1>3, FiniteRefs, FS_RemoveElement, ZenonT(60)
    <3>3. CASE f # n /\ f # old
      <4>1. PteRefs(f)' = PteRefs(f)
        BY <3>3, <1>5 DEF PteRefs
      <4> QED BY <4>1, <3>3
    <3> QED BY <3>1, <3>2, <3>3
  <2>3. mem_map[f] = References(f)
    BY DEF RefCount
  <2>4. mem_map[f] \in Nat
    BY DEF TypeOK
  <2>5. mem_map'[f] = IF f = n THEN 1
                      ELSE IF f = old THEN mem_map[f] - 1 ELSE mem_map[f]
    BY <1>1
  <2>6. (f \in pipes' <=> f \in pipes) /\ (f \in lost' <=> f \in lost)
    BY <1>2
  <2>7. f = n => mem_map[f] = 0
    BY <1>3
  <2> HIDE DEF old
  <2> QED
    BY <2>1, <2>2, <2>3, <2>4, <2>5, <2>6, <2>7, RefSizes DEF References
<1>9. WritableIsUnshared' /\ KernelFramesUnshared'
  <2>1. \A f \in Frames : mem_map[f] = 1 => mem_map'[f] <= 1
    BY <1>1
  <2>2. ASSUME NEW u \in Tasks, NEW b \in Addr, pte'[u][b].rw
        PROVE  pte'[u][b].frame \in Frames /\ mem_map'[pte'[u][b].frame] <= 1
    <3>1. CASE u = t /\ b = a
      BY <3>1, <1>1, <1>3, <1>5
    <3>2. CASE ~(u = t /\ b = a)
      BY <3>2, <2>1, <2>2, <1>5 DEF WritableIsUnshared
    <3> QED BY <3>1, <3>2
  <2>3. ASSUME NEW f \in Frames,
               f \in pipes' \cup lost' \/ \E u \in Tasks : f \in KernelFrames(u)'
        PROVE  mem_map'[f] <= 1
    BY <2>1, <2>3, <1>2 DEF KernelFrames, KernelFramesUnshared
  <2> QED BY <2>2, <2>3, <1>6, <1>8, AtMostOnce
<1> QED
  BY <1>2, <1>6, <1>7, <1>8, <1>9 DEF NoPanic

(* The buffer of a pipe. *)
LEMMA PipeStep ==
    ASSUME IInv, ~stray, stray' \in BOOLEAN,
           \/ \E t \in Tasks, a \in Addr, v \in Values : Pipe(t, a, v)
           \/ \E n \in Frames : ClosePipe(n)
    PROVE  IInv'
<1> USE DEF IInv
<1> DEFINE Moved(m) ==
         /\ \/ /\ mem_map[m] = 0 /\ m \notin pipes
               /\ mem_map' = [f \in Frames |-> IF f = m THEN 1 ELSE mem_map[f]]
               /\ pipes' = pipes \cup {m}
            \/ /\ m \in pipes
               /\ mem_map' = [f \in Frames |-> IF f = m THEN 0 ELSE mem_map[f]]
               /\ pipes' = pipes \ {m}
         /\ mem_map[m] \in {0, 1}
         /\ panic' = FALSE
         /\ content' \in [AllFrames -> Values]
<1>1. PICK m \in Frames : Moved(m)
  <2>1. ASSUME NEW t \in Tasks, NEW a \in Addr, NEW v \in Values, Pipe(t, a, v)
        PROVE  \E m \in Frames : Moved(m)
    <3>1. PICK m \in FreeIn(mem_map) : mem_map' = Take(mem_map, {m}) /\ pipes' = pipes \cup {m}
      BY <2>1 DEF Pipe
    <3>2. m \in Frames /\ mem_map[m] = 0 /\ m \notin pipes
      BY FreeUnreferenced DEF FreeIn
    <3>3. mem_map' = [f \in Frames |-> IF f = m THEN 1 ELSE mem_map[f]]
      BY <3>1 DEF Take
    <3>4. content' \in [AllFrames -> Values] /\ panic' = FALSE
      BY <2>1 DEF Pipe, TypeOK, NoPanic
    <3> QED BY <3>1, <3>2, <3>3, <3>4
  <2>2. ASSUME NEW n \in Frames, ClosePipe(n) PROVE Moved(n)
    <3>1. n \in pipes /\ mem_map[n] = 1
      BY <2>2 DEF ClosePipe, KernelFramesUnshared
    <3>2. mem_map' = [f \in Frames |-> IF f = n THEN 0 ELSE mem_map[f]] /\ panic' = FALSE
      BY <2>2, <3>1 DEF ClosePipe, FreePages, Overfreed, Once, TypeOK
    <3>3. content' \in [AllFrames -> Values] /\ pipes' = pipes \ {n}
      BY <2>2 DEF ClosePipe, TypeOK
    <3> QED BY <3>1, <3>2, <3>3
  <2> QED BY <2>1, <2>2
<1>2. UNCHANGED <<pg_dir, pte, task, state, father, args, lost>>
  BY DEF Pipe, ClosePipe
<1>3. TypeOK'
  <2>1. mem_map' \in [Frames -> Nat]
    BY <1>1 DEF TypeOK
  <2>2. pipes' \subseteq Frames /\ panic' \in BOOLEAN
    BY <1>1 DEF TypeOK
  <2> QED BY <2>1, <2>2, <1>1, <1>2 DEF TypeOK
<1>4. Shape'
  BY <1>2 DEF Shape
<1>5. RefCount'
  <2> SUFFICES ASSUME NEW f \in Frames PROVE mem_map'[f] = References(f)'
    BY DEF RefCount
  <2>1. /\ TaskRefs(f)' = TaskRefs(f) /\ ArgRefs(f)' = ArgRefs(f)
        /\ DirRefs(f)' = DirRefs(f) /\ PteRefs(f)' = PteRefs(f)
    BY <1>2 DEF TaskRefs, ArgRefs, DirRefs, PteRefs
  <2>2. mem_map[f] = References(f) /\ (m \in pipes => mem_map[m] = 1)
    BY DEF RefCount, KernelFramesUnshared
  <2> QED
    BY <2>1, <2>2, <1>1, <1>2, RefSizes DEF References
<1>6. WritableIsUnshared' /\ KernelFramesUnshared'
  <2>1. \A f \in Frames : mem_map[f] = 1 => mem_map'[f] <= 1
    BY <1>1
  <2>2. ASSUME NEW u \in Tasks, NEW b \in Addr, pte'[u][b].rw
        PROVE  pte'[u][b].frame \in Frames /\ mem_map'[pte'[u][b].frame] <= 1
    BY <2>1, <2>2, <1>2 DEF WritableIsUnshared
  <2>3. ASSUME NEW f \in Frames,
               f \in pipes' \cup lost' \/ \E u \in Tasks : f \in KernelFrames(u)'
        PROVE  mem_map'[f] <= 1
    BY <2>1, <2>3, <1>1, <1>2 DEF KernelFrames, KernelFramesUnshared
  <2> QED BY <2>2, <2>3, <1>3, <1>5, AtMostOnce
<1> QED
  BY <1>1, <1>3, <1>4, <1>5, <1>6 DEF NoPanic


(* copy_strings(): fresh frames, known to page[] alone. *)
LEMMA StringsStep ==
    ASSUME IInv, ~stray, stray' \in BOOLEAN, NEW t \in Tasks, state[t] = "running",
           NEW page \in ArgPages, CopyStrings(t, page), page = NoArgs => stray'
    PROVE  IInv'
<1> USE DEF IInv
<1>1. PICK string \in [ArgAddrs -> Values] :
         /\ page \in [ArgAddrs -> FreeIn(mem_map) \cup {NoFrame}]
         /\ \A a, b \in ArgAddrs :
               page[a] = page[b] /\ page[a] # NoFrame => a = b
         /\ mem_map' = Take(mem_map, Filled(page))
         /\ args' = [args EXCEPT ![t] = page]
         /\ content' = [f \in AllFrames |->
                          IF \E a \in ArgAddrs : page[a] = f
                          THEN string[CHOOSE a \in ArgAddrs : page[a] = f]
                          ELSE content[f]]
  BY DEF CopyStrings, ArgPages
<1>2. /\ state[t] = "running" /\ args[t] = NoArgs
      /\ state' = [state EXCEPT ![t] = "exec"]
      /\ UNCHANGED <<pg_dir, pte, task, father, pipes, lost, panic>>
  BY DEF CopyStrings, Shape
<1>3. \A f \in Frames :
         /\ (\E a \in ArgAddrs : page[a] = f) => mem_map[f] = 0 /\ mem_map'[f] = 1
         /\ ~(\E a \in ArgAddrs : page[a] = f) => mem_map'[f] = mem_map[f]
  BY <1>1, MemoryAssumption DEF Take, Filled, FreeIn, AllFrames
<1>4. TypeOK'
  <2>1. mem_map' \in [Frames -> Nat]
    <3>1. mem_map' = [f \in Frames |-> mem_map'[f]] BY <1>1 DEF Take
    <3> QED BY <3>1, <1>3, SMTT(60) DEF TypeOK
  <2>2. content' \in [AllFrames -> Values]
    <3>1. ASSUME NEW f \in AllFrames PROVE content'[f] \in Values
      <4>1. CASE \E a \in ArgAddrs : page[a] = f
        <5>1. (CHOOSE a \in ArgAddrs : page[a] = f) \in ArgAddrs BY <4>1
        <5> QED BY <5>1, <4>1, <1>1
      <4>2. CASE ~\E a \in ArgAddrs : page[a] = f
        BY <4>2, <1>1 DEF TypeOK
      <4> QED BY <4>1, <4>2
    <3>2. content' = [f \in AllFrames |-> content'[f]]
      BY <1>1
    <3> QED BY <3>1, <3>2
  <2>3. page \in [ArgAddrs -> Frames \cup {NoFrame}]
    BY <1>1 DEF FreeIn
  <2>4. args' \in [Tasks -> [ArgAddrs -> Frames \cup {NoFrame}]]
    BY <1>1, <2>3 DEF TypeOK
  <2> QED BY <2>1, <2>2, <2>4, <1>2 DEF TypeOK, States
<1>5. Shape'
  <2>1. args'[t] = page /\ state'[t] = "exec"
    BY <1>1, <1>2 DEF TypeOK
  <2>2. \A u \in Tasks : u # t => args'[u] = args[u] /\ state'[u] = state[u]
    BY <1>1, <1>2 DEF TypeOK
  <2> QED BY <2>1, <2>2, <1>2 DEF Shape
<1>6. \A u \in Tasks, a \in ArgAddrs :
         args'[u][a] = IF u = t THEN page[a] ELSE args[u][a]
  BY <1>1 DEF TypeOK
<1>7. RefCount'
  <2> SUFFICES ASSUME NEW f \in Frames PROVE mem_map'[f] = References(f)'
    BY DEF RefCount
  <2>0. f # NoFrame /\ mem_map[f] = References(f)
    BY MemoryAssumption DEF AllFrames, RefCount
  <2>1. /\ TaskRefs(f)' = TaskRefs(f) /\ PteRefs(f)' = PteRefs(f)
        /\ DirRefs(f)' = DirRefs(f)
    BY <1>2 DEF TaskRefs, PteRefs, DirRefs
  <2>2. ASSUME NEW a \in ArgAddrs, page[a] = f
        PROVE  Cardinality(ArgRefs(f)) = 0 /\ Cardinality(ArgRefs(f)') = 1
    <3>1. ArgRefs(f) = {}
      BY <2>2, <1>3, FreeUnreferenced DEF ArgRefs
    <3>2. \A b \in ArgAddrs : page[b] = f => b = a
      BY <2>0, <2>2, <1>1
    <3>3. \A u \in Tasks, b \in ArgAddrs : args[u][b] # f
      BY <2>2, <1>3, FreeUnreferenced
    <3>4. ArgRefs(f)' = {<<t, a>>}
      BY <2>2, <3>2, <3>3, <1>6 DEF ArgRefs
    <3> QED BY <3>1, <3>4, FS_EmptySet, FS_Singleton
  <2>3. ASSUME ~\E a \in ArgAddrs : page[a] = f
        PROVE  ArgRefs(f)' = ArgRefs(f)
    BY <2>0, <2>3, <1>2, <1>6 DEF ArgRefs, NoArgs
  <2>4. (f \in pipes' <=> f \in pipes) /\ (f \in lost' <=> f \in lost)
    BY <1>2
  <2>5. CASE \E a \in ArgAddrs : page[a] = f
    <3>1. Cardinality(ArgRefs(f)) = 0 /\ Cardinality(ArgRefs(f)') = 1
      BY <2>2, <2>5
    <3>2. mem_map[f] = 0 /\ mem_map'[f] = 1
      BY <2>5, <1>3
    <3> QED BY <2>0, <2>1, <2>4, <3>1, <3>2, RefSizes DEF References
  <2>6. CASE ~\E a \in ArgAddrs : page[a] = f
    <3>1. mem_map'[f] = mem_map[f] /\ ArgRefs(f)' = ArgRefs(f)
      BY <2>3, <2>6, <1>3
    <3> QED BY <2>0, <2>1, <2>4, <3>1 DEF References
  <2> QED
    BY <2>5, <2>6
<1>8. WritableIsUnshared' /\ KernelFramesUnshared'
  <2>1. \A f \in Frames : mem_map[f] = 1 => mem_map'[f] <= 1
    BY <1>3
  <2>2. ASSUME NEW u \in Tasks, NEW b \in Addr, pte'[u][b].rw
        PROVE  pte'[u][b].frame \in Frames /\ mem_map'[pte'[u][b].frame] <= 1
    BY <2>1, <2>2, <1>2 DEF WritableIsUnshared
  <2>3. ASSUME NEW f \in Frames,
               f \in pipes' \cup lost' \/ \E u \in Tasks : f \in KernelFrames(u)'
        PROVE  mem_map'[f] <= 1
    <3>1. CASE \E a \in ArgAddrs : page[a] = f
      BY <3>1, <1>3
    <3>2. CASE ~\E a \in ArgAddrs : page[a] = f
      <4>1. f \in pipes \cup lost \/ \E u \in Tasks : f \in KernelFrames(u)
        BY <2>3, <3>2, <1>2, <1>6 DEF KernelFrames
      <4> QED BY <4>1, <2>1 DEF KernelFramesUnshared
    <3> QED BY <3>1, <3>2
  <2> QED BY <2>2, <2>3, <1>4, <1>7, AtMostOnce
<1> QED
  BY <1>2, <1>4, <1>5, <1>7, <1>8 DEF NoPanic

LEMMA ExecArgsStep ==
    ASSUME IInv, ~stray, NEW t \in Tasks,
           (ExecArgs(t) /\ UNCHANGED stray) \/ ExecStray(t)
    PROVE  IInv'
<1>1. PICK page \in ArgPages : CopyStrings(t, page) /\ (Filled(page) # {} \/ stray')
  BY DEF ExecArgs, ExecStray
<1>2. state[t] = "running" /\ stray' \in BOOLEAN
  BY DEF ExecArgs, ExecStray, Running, IInv, TypeOK
<1>3. page = NoArgs => stray'
  BY <1>1 DEF NoArgs, Filled
<1> QED
  BY <1>1, <1>2, <1>3, StringsStep

(* The references of one task are not more than all references. *)
LEMMA TaskShare ==
    ASSUME IInv, NEW t \in Tasks, NEW f \in Frames
    PROVE  /\ TableCount(t)[f] \in Nat /\ TableCount(t)[f] <= mem_map[f]
           /\ TableCount(t)[f] = Cardinality(EntryRefs(pte[t], t, f))
                                 + Cardinality(TableRefs(t, f))
           /\ FreedByExec(t)[f] = mem_map[f] - TableCount(t)[f]
<1>1. EntryRefs(pte[t], t, f) \in SUBSET PteRefs(f) /\ TableRefs(t, f) \in SUBSET DirRefs(f)
  BY DEF EntryRefs, PteRefs, TableRefs, DirRefs
<1>2. /\ IsFiniteSet(EntryRefs(pte[t], t, f)) /\ IsFiniteSet(TableRefs(t, f))
      /\ Cardinality(EntryRefs(pte[t], t, f)) <= Cardinality(PteRefs(f))
      /\ Cardinality(TableRefs(t, f)) <= Cardinality(DirRefs(f))
  BY <1>1, FiniteRefs, FS_Subset
<1>3. /\ Cardinality(EntryRefs(pte[t], t, f)) \in Nat
      /\ Cardinality(TableRefs(t, f)) \in Nat
  BY <1>2, FS_CardinalityType
<1>4. TableCount(t)[f] = Cardinality(EntryRefs(pte[t], t, f))
                         + Cardinality(TableRefs(t, f))
  BY DEF TableCount
<1>5. TableCount(t)[f] \in Nat /\ TableCount(t)[f] <= mem_map[f]
  BY <1>2, <1>3, <1>4, RefSizes DEF IInv, RefCount, References
<1> QED
  BY <1>4, <1>5 DEF FreedByExec, FreePages

(* execve() frees at least the one page table it needs. *)
LEMMA ExecFindsTable ==
    ASSUME IInv, NEW t \in Tasks, state[t] = "exec"
    PROVE  FreeIn(FreedByExec(t)) # {}
<1>1. PICK d \in Dirs : pg_dir[t][d] \in Frames
  BY DEF IInv, Shape, TypeOK
<1> DEFINE g == pg_dir[t][d]
<1>2. mem_map[g] = 1
  BY <1>1 DEF IInv, KernelFramesUnshared, KernelFrames
<1>3. <<t, d>> \in TableRefs(t, g)
  BY DEF TableRefs
<1>4. IsFiniteSet(TableRefs(t, g))
  <2>1. TableRefs(t, g) \in SUBSET (Tasks \X Dirs)
    BY DEF TableRefs
  <2> QED BY <2>1, Finiteness, FS_Subset
<1>5. Cardinality(TableRefs(t, g)) >= 1 /\ Cardinality(TableRefs(t, g)) \in Nat
  BY <1>3, <1>4, OnlyElement
<1>6. Cardinality(EntryRefs(pte[t], t, g)) \in Nat
  <2>1. EntryRefs(pte[t], t, g) \in SUBSET (Tasks \X Addr)
    BY DEF EntryRefs
  <2> QED BY <2>1, Finiteness, FS_Subset, FS_CardinalityType
<1> HIDE DEF g
<1>7. FreedByExec(t)[g] = 0
  <2>1. g \in Frames BY <1>1 DEF g
  <2> QED BY <2>1, <1>2, <1>5, <1>6, TaskShare
<1> QED
  BY <1>1, <1>7 DEF FreeIn, g

(* The new address space: a page table and the argument pages. *)
LEMMA ExecReplaceStep ==
    ASSUME IInv, ~stray, stray' \in BOOLEAN, NEW t \in Tasks, ExecReplace(t)
    PROVE  IInv' /\ lost' = lost
<1> USE DEF IInv
<1> DEFINE mm == FreedByExec(t)
<1>1. PICK tab \in GetFreePage(mm) :
            /\ mem_map' = Take(mm, {tab})
            /\ pg_dir' = [pg_dir EXCEPT ![t] = [d \in Dirs |->
                            IF \E a \in ArgAddrs : a[1] = d
                            THEN tab ELSE NoFrame]]
            /\ pte' = [pte EXCEPT ![t] = [a \in Addr |->
                         IF tab # NoFrame /\ a \in ArgAddrs
                            /\ args[t][a] # NoFrame
                         THEN [frame |-> args[t][a], rw |-> TRUE]
                         ELSE NotPresent]]
            /\ lost' = IF tab = NoFrame THEN lost \cup Filled(args[t]) ELSE lost
  BY DEF ExecReplace
<1>2. /\ state[t] = "exec" /\ args[t] # NoArgs
      /\ panic' = Overfreed(mem_map, TableCount(t))
      /\ args' = [args EXCEPT ![t] = NoArgs]
      /\ state' = [state EXCEPT ![t] = "running"]
      /\ UNCHANGED <<content, task, father, pipes>>
  BY DEF ExecReplace, Shape
<1>3. tab \in Frames /\ mm[tab] = 0 /\ tab # NoFrame /\ lost' = lost
  <2>1. tab \in FreeIn(mm)
    BY <1>2, ExecFindsTable DEF GetFreePage
  <2> QED BY <2>1, <1>1, MemoryAssumption DEF FreeIn, AllFrames
<1>4. panic' = FALSE
  <2>1. ASSUME NEW f \in Frames PROVE ~(TableCount(t)[f] > mem_map[f])
    <3>1. mem_map[f] \in Nat BY DEF TypeOK
    <3> QED BY <3>1, TaskShare
  <2> QED BY <2>1, <1>2 DEF Overfreed
<1> DEFINE Arg(f) == \E a \in ArgAddrs : args[t][a] = f
<1>5. ASSUME NEW f \in Frames, NEW a \in ArgAddrs, args[t][a] = f
      PROVE  /\ mem_map[f] = 1 /\ f \notin pipes /\ f \notin lost
             /\ ArgRefs(f) = {<<t, a>>} /\ Cardinality(ArgRefs(f)) = 1
             /\ Cardinality(PteRefs(f)) = 0 /\ Cardinality(DirRefs(f)) = 0
             /\ Cardinality(TaskRefs(f)) = 0
  <2>1. mem_map[f] = 1
    BY <1>5 DEF KernelFramesUnshared, KernelFrames
  <2>2. <<t, a>> \in ArgRefs(f)
    BY <1>5 DEF ArgRefs
  <2>3. Cardinality(ArgRefs(f)) >= 1
    BY <2>2, FiniteRefs, OnlyElement
  <2>4. /\ Cardinality(ArgRefs(f)) = 1 /\ Cardinality(PteRefs(f)) = 0
        /\ Cardinality(DirRefs(f)) = 0 /\ Cardinality(TaskRefs(f)) = 0
        /\ f \notin pipes /\ f \notin lost
    BY <2>1, <2>3, RefSizes DEF RefCount, References
  <2>5. ArgRefs(f) = {<<t, a>>}
    BY <2>2, <2>4, FiniteRefs, OnlyElement
  <2> QED BY <2>1, <2>4, <2>5
<1>6. PICK top \in Dirs : \A a \in ArgAddrs : a[1] = top
  <2>1. \E a \in ArgAddrs : TRUE
    BY <1>2 DEF TypeOK, NoArgs
  <2> QED BY <2>1, MemoryAssumption DEF Addr
<1>7. \E a \in ArgAddrs : a[1] = top
  BY <1>2, <1>6 DEF TypeOK, NoArgs
<1>8. /\ \A u \in Tasks, d \in Dirs :
            pg_dir'[u][d] = IF u = t THEN (IF d = top THEN tab ELSE NoFrame)
                            ELSE pg_dir[u][d]
      /\ \A u \in Tasks, a \in Addr :
            pte'[u][a] = IF u = t
                         THEN IF a \in ArgAddrs /\ args[t][a] # NoFrame
                              THEN [frame |-> args[t][a], rw |-> TRUE]
                              ELSE NotPresent
                         ELSE pte[u][a]
      /\ \A u \in Tasks, a \in ArgAddrs :
            args'[u][a] = IF u = t THEN NoFrame ELSE args[u][a]
  BY <1>1, <1>2, <1>3, <1>6, <1>7 DEF TypeOK, NoArgs
<1>14. ASSUME NEW b \in Addr
       PROVE  \/ /\ b \in ArgAddrs /\ args[t][b] # NoFrame
                 /\ pte'[t][b].frame = args[t][b]
              \/ /\ ~(b \in ArgAddrs /\ args[t][b] # NoFrame)
                 /\ pte'[t][b].frame = NoFrame /\ ~pte'[t][b].rw
  <2>1. CASE b \in ArgAddrs /\ args[t][b] # NoFrame
    <3>1. pte'[t][b] = [frame |-> args[t][b], rw |-> TRUE]
      BY <2>1, <1>8
    <3> QED BY <2>1, <3>1
  <2>2. CASE ~(b \in ArgAddrs /\ args[t][b] # NoFrame)
    <3>1. pte'[t][b] = NotPresent
      BY <2>2, <1>8
    <3> QED BY <2>2, <3>1 DEF NotPresent
  <2> QED BY <2>1, <2>2
<1>9. ASSUME NEW f \in Frames
      PROVE  /\ mem_map[f] \in Nat /\ mm[f] \in Nat /\ mm[f] <= mem_map[f]
             /\ mem_map'[f] = IF f = tab THEN 1 ELSE mm[f]
  <2>2. mem_map[f] \in Nat
    BY DEF TypeOK
  <2>4. mm[f] = mem_map[f] - TableCount(t)[f]
    BY TaskShare
  <2>5. TableCount(t)[f] \in Nat /\ TableCount(t)[f] <= mem_map[f]
    BY TaskShare
  <2>1. mm[f] \in Nat /\ mm[f] <= mem_map[f]
    BY <2>2, <2>4, <2>5
  <2>3. mem_map' = Take(mm, {tab})
    BY <1>1
  <2> QED
    BY <2>1, <2>2, <2>3 DEF Take
<1>10. TypeOK'
  <2>1. mem_map' \in [Frames -> Nat]
    <3>1. mem_map' = [f \in Frames |-> mem_map'[f]] BY <1>1 DEF Take
    <3> QED BY <3>1, <1>9
  <2>2. pg_dir' \in [Tasks -> [Dirs -> Frames \cup {NoFrame}]]
    BY <1>1, <1>3 DEF TypeOK
  <2>3. pte' \in [Tasks -> [Addr -> Entry]]
    <3> DEFINE e == [a \in Addr |->
                         IF tab # NoFrame /\ a \in ArgAddrs
                            /\ args[t][a] # NoFrame
                         THEN [frame |-> args[t][a], rw |-> TRUE]
                         ELSE NotPresent]
    <3>1. e \in [Addr -> Entry]
      BY DEF TypeOK, Entry, NotPresent, AllFrames
    <3>2. pte' = [pte EXCEPT ![t] = e]
      BY <1>1
    <3> HIDE DEF e
    <3> QED BY <3>1, <3>2 DEF TypeOK
  <2>4. args' \in [Tasks -> [ArgAddrs -> Frames \cup {NoFrame}]]
    BY <1>2 DEF TypeOK, NoArgs
  <2> QED BY <2>1, <2>2, <2>3, <2>4, <1>2, <1>3, <1>4 DEF TypeOK, States
<1>11. Shape'
  <2>1. \A u \in Tasks : u # t => /\ pte'[u] = pte[u] /\ pg_dir'[u] = pg_dir[u]
                                  /\ args'[u] = args[u] /\ state'[u] = state[u]
    BY <1>1, <1>2 DEF TypeOK
  <2>2. args'[t] = NoArgs /\ state'[t] = "running" /\ task'[t] = task[t] /\ task[t] # NoFrame
    BY <1>2 DEF TypeOK, Shape
  <2>3. pg_dir'[t][top] # NoFrame
    BY <1>3, <1>8
  <2>4. \A a \in Addr : /\ pte'[t][a].frame # NoFrame => pg_dir'[t][a[1]] # NoFrame
                        /\ pte'[t][a].rw => pte'[t][a].frame # NoFrame
    <3>1. \A b \in ArgAddrs : b[1] = top /\ pg_dir'[t][b[1]] # NoFrame
      BY <1>3, <1>6, <1>8
    <3> QED BY <3>1, <1>8, <1>14
  <2> QED BY <2>1, <2>2, <2>3, <2>4, <1>2 DEF Shape
<1>12. RefCount'
  <2> SUFFICES ASSUME NEW f \in Frames PROVE mem_map'[f] = References(f)'
    BY DEF RefCount
  <2> DEFINE e == Cardinality(EntryRefs(pte[t], t, f))
             k == Cardinality(TableRefs(t, f))
  <2>0. f # NoFrame /\ mem_map[f] = References(f)
    BY MemoryAssumption DEF AllFrames, RefCount
  <2>1. /\ e \in Nat /\ e <= Cardinality(PteRefs(f))
        /\ Cardinality(PteRefs(f)') = Cardinality(PteRefs(f)) - e
                                      + Cardinality(EntryRefs(pte'[t], t, f))
    BY <1>8, PteChange
  <2>2. /\ k \in Nat /\ k <= Cardinality(DirRefs(f))
        /\ Cardinality(DirRefs(f)') = Cardinality(DirRefs(f)) - k
                                      + Cardinality(TableRefs(t, f)')
    BY <1>8, DirChange
  <2>3. TaskRefs(f)' = TaskRefs(f)
    BY <1>2 DEF TaskRefs
  <2>4. Cardinality(TableRefs(t, f)') = IF f = tab THEN 1 ELSE 0
    <3>1. TableRefs(t, f)' = IF f = tab THEN {<<t, top>>} ELSE {}
      BY <2>0, <1>8 DEF TableRefs
    <3> QED BY <3>1, FS_EmptySet, FS_Singleton
  <2>5. ASSUME NEW a \in ArgAddrs, args[t][a] = f
        PROVE  Cardinality(EntryRefs(pte'[t], t, f)) = 1 /\ Cardinality(ArgRefs(f)') = 0
    <3>1. ArgRefs(f) = {<<t, a>>}
      BY <1>5, <2>5
    <3>2. a \in Addr /\ \A b \in ArgAddrs : args[t][b] = f => b = a
      <4>1. ASSUME NEW b \in ArgAddrs, args[t][b] = f PROVE b = a
        <5>1. <<t, b>> \in ArgRefs(f) BY <4>1 DEF ArgRefs
        <5> QED BY <5>1, <3>1
      <4> QED BY <4>1, MemoryAssumption
    <3>3. EntryRefs(pte'[t], t, f) = {<<t, a>>}
      BY <3>2, <2>0, <2>5, <1>14 DEF EntryRefs
    <3>4. ArgRefs(f)' = {}
      BY <3>1, <2>0, <1>8 DEF ArgRefs
    <3> QED BY <3>3, <3>4, FS_EmptySet, FS_Singleton
  <2>6. ASSUME ~Arg(f)
        PROVE  Cardinality(EntryRefs(pte'[t], t, f)) = 0 /\ ArgRefs(f)' = ArgRefs(f)
    <3>1. EntryRefs(pte'[t], t, f) = {}
      BY <2>0, <2>6, <1>14 DEF EntryRefs
    <3>2. ArgRefs(f)' = ArgRefs(f)
      BY <2>0, <2>6, <1>8 DEF ArgRefs
    <3> QED BY <3>1, <3>2, FS_EmptySet
  <2>7. mm[f] = mem_map[f] - (e + k)
    BY TaskShare
  <2>8. (f \in pipes' <=> f \in pipes) /\ (f \in lost' <=> f \in lost)
    BY <1>2, <1>3
  <2> HIDE DEF e, k
  <2>9. CASE Arg(f)
    <3>1. PICK a \in ArgAddrs : args[t][a] = f
      BY <2>9
    <3>2. /\ mem_map[f] = 1 /\ f \notin pipes /\ f \notin lost
          /\ Cardinality(PteRefs(f)) = 0 /\ Cardinality(DirRefs(f)) = 0
          /\ Cardinality(TaskRefs(f)) = 0
      BY <3>1, <1>5
    <3>3. e = 0 /\ k = 0
      BY <2>1, <2>2, <3>2
    <3>4. f # tab
      BY <2>7, <3>2, <3>3, <1>3
    <3>5. Cardinality(EntryRefs(pte'[t], t, f)) = 1 /\ Cardinality(ArgRefs(f)') = 0
      BY <2>5, <3>1
    <3>6. mem_map'[f] = 1
      BY <1>9, <2>7, <3>2, <3>3, <3>4
    <3> QED
      BY <2>1, <2>2, <2>3, <2>4, <2>8, <3>2, <3>3, <3>4, <3>5, <3>6 DEF References
  <2>10. CASE ~Arg(f)
    <3>1. References(f)' = References(f) - (e + k) + (IF f = tab THEN 1 ELSE 0)
      BY <2>1, <2>2, <2>3, <2>4, <2>6, <2>8, <2>10, RefSizes DEF References
    <3>2. mem_map'[f] = mem_map[f] - (e + k) + (IF f = tab THEN 1 ELSE 0)
      BY <2>1, <2>2, <2>7, <1>3, <1>9
    <3> QED BY <3>1, <3>2, <2>0
  <2> QED BY <2>9, <2>10
<1>13. WritableIsUnshared' /\ KernelFramesUnshared'
  <2>1. \A f \in Frames : mem_map[f] = 1 => mem_map'[f] <= 1
    BY <1>9
  <2>2. ASSUME NEW u \in Tasks, NEW b \in Addr, pte'[u][b].rw
        PROVE  pte'[u][b].frame \in Frames /\ mem_map'[pte'[u][b].frame] <= 1
    <3>1. CASE u = t
      <4>1. b \in ArgAddrs /\ args[t][b] # NoFrame /\ pte'[u][b].frame = args[t][b]
        BY <3>1, <2>2, <1>14
      <4>2. args[t][b] \in Frames
        BY <4>1 DEF TypeOK
      <4> QED BY <4>1, <4>2, <2>1, <1>5
    <3>2. CASE u # t
      BY <3>2, <2>1, <2>2, <1>8, ZenonT(60) DEF WritableIsUnshared
    <3> QED BY <3>1, <3>2
  <2>3. ASSUME NEW f \in Frames,
               f \in pipes' \cup lost' \/ \E u \in Tasks : f \in KernelFrames(u)'
        PROVE  mem_map'[f] <= 1
    <3>1. CASE f = tab
      BY <3>1, <1>9
    <3>2. CASE f # tab
      <4>1. f \in pipes \cup lost \/ \E u \in Tasks : f \in KernelFrames(u)
        <5>1. f # NoFrame
          BY MemoryAssumption DEF AllFrames
        <5> QED BY <5>1, <2>3, <3>2, <1>2, <1>3, <1>8 DEF KernelFrames
      <4> QED BY <4>1, <2>1 DEF KernelFramesUnshared
    <3> QED BY <3>1, <3>2
  <2> QED BY <2>2, <2>3, <1>10, <1>12, AtMostOnce
<1> QED
  BY <1>3, <1>4, <1>10, <1>11, <1>12, <1>13 DEF NoPanic


LEMMA StepInv == IInv /\ [Next]_vars => IInv'
<1> SUFFICES ASSUME IInv, [Next]_vars PROVE IInv'
  OBVIOUS
<1>1. ASSUME UNCHANGED vars PROVE IInv'
  <2>1. UNCHANGED <<mem_map, pg_dir, pte, content, task, state, father, args, pipes, lost,
                    panic, stray>>
    BY <1>1 DEF vars
  <2>2. TypeOK' /\ NoPanic'
    BY <2>1 DEF IInv, TypeOK, NoPanic
  <2>3. Shape'
    BY <2>1 DEF IInv, Shape
  <2>4. RefCount'
    BY <2>1 DEF IInv, RefCount, References, PteRefs, DirRefs, TaskRefs, ArgRefs
  <2>5. WritableIsUnshared' /\ KernelFramesUnshared'
    BY <2>1 DEF IInv, WritableIsUnshared, KernelFramesUnshared, KernelFrames
  <2>. QED BY <2>2, <2>3, <2>4, <2>5 DEF IInv
<1> DEFINE Live == ~stray /\ UNCHANGED stray /\ stray' \in BOOLEAN
<1>2. ASSUME Live, NEW t \in Tasks,
             \/ Exit(t) \/ ExecDies(t)
             \/ \E a \in Addr : DemandPageFails(t, a) \/ CopyOnWriteFails(t, a)
      PROVE  IInv'
  BY <1>2, Exits
<1>3. ASSUME Live, NEW t \in Tasks,
             \/ BecomeZombie(t) \/ ForkFails(t)
             \/ \E a \in Addr : \/ UnWriteProtect(t, a)
                                \/ \E v \in Values : Store(t, a, v)
      PROVE  IInv'
  BY <1>3, Stores
<1>4. ASSUME Live, NEW t \in Tasks, ReleaseSelf(t) PROVE IInv'
  <2>1. content' \in [AllFrames -> Values]
    BY <1>4 DEF ReleaseSelf, IInv, TypeOK
  <2> QED BY <1>4, <2>1, ReleaseStep DEF ReleaseSelf
<1>5. ASSUME ~stray, NEW t \in Tasks,
             \/ UNCHANGED stray /\ stray' \in BOOLEAN /\ (ExecArgs(t) \/ ExecReplace(t))
             \/ ExecStray(t)
      PROVE  IInv'
  BY <1>5, ExecArgsStep, ExecReplaceStep
<1>6. ASSUME Live, NEW t \in Tasks, NEW c \in Tasks, Fork(t, c) PROVE IInv'
  BY <1>6, ForkStep
<1>7. ASSUME Live, NEW t \in Tasks, NEW a \in Addr,
             DemandPage(t, a) \/ CopyOnWrite(t, a)
      PROVE  IInv'
  BY <1>7, DemandStep, CopyStep
<1>8. ASSUME Live,
             \/ \E t \in Tasks, a \in Addr, v \in Values : Pipe(t, a, v)
             \/ \E n \in Frames : ClosePipe(n)
      PROVE  IInv'
  BY <1>8, PipeStep
<1>9. ASSUME Live, NEW t \in Tasks, NEW a \in Addr, NEW v \in Values, NEW c \in Tasks,
              Wait(t, c, a, v)
       PROVE  IInv'
  <2>1. content' \in [AllFrames -> Values]
    BY <1>9 DEF Wait, IInv, TypeOK
  <2> QED BY <1>9, <2>1, ReleaseStep DEF Wait
<1>10. ASSUME Live, Steps PROVE IInv'
  BY <1>2, <1>3, <1>4, <1>5, <1>6, <1>7, <1>8, <1>9, <1>10 DEF Steps
<1>11. stray \in BOOLEAN
  BY DEF IInv, TypeOK
<1> QED
  BY <1>1, <1>5, <1>10, <1>11 DEF Next

-----------------------------------------------------------------------------
(* Theorems *)

LEMMA Invariance == Spec => []IInv
BY InitInv, StepInv, PTL DEF Spec

(* Every variable of the memory model keeps its type: mem_map counts never *)
(* go below zero, and page tables, task structures and argument pages are  *)
(* always frames that mem_map counts (all of mm/memory.c).                 *)
THEOREM TypeCorrect == Spec => []TypeOK
<1>1. IInv => TypeOK
  BY DEF IInv
<1> QED BY <1>1, Invariance, PTL

(* mem_map[f] is the number of references to frame f in every reachable    *)
(* state (get_free_page, free_page, free_page_tables, copy_page_tables).   *)
THEOREM CountsReferences == Spec => []RefCount
<1>1. IInv => RefCount
  BY DEF IInv
<1> QED BY <1>1, Invariance, PTL

(* A page a program can write is its own (copy_page_tables, un_wp_page).   *)
THEOREM WritersAreAlone == Spec => []WritableIsUnshared
<1>1. IInv => WritableIsUnshared
  BY DEF IInv
<1> QED BY <1>1, Invariance, PTL

(* No program can reach a page table, a task structure, an argument page   *)
(* or a pipe buffer (copy_page_tables, copy_process, sys_pipe).            *)
THEOREM KernelIsAlone == Spec => []KernelFramesUnshared
<1>1. IInv => KernelFramesUnshared
  BY DEF IInv
<1> QED BY <1>1, Invariance, PTL

(* free_page() never finds a frame already free.                           *)
THEOREM NeverPanics == Spec => []NoPanic
<1>1. IInv => NoPanic
  BY DEF IInv
<1> QED BY <1>1, Invariance, PTL

(* change_ldt() always finds a frame for the page table of the arguments.  *)
THEOREM ExecKeepsItsArguments == Spec => ExecKeepsArguments
<1>1. ASSUME IInv, [Next]_vars
      PROVE  [\A t \in Tasks : state[t] = "exec" /\ state'[t] = "running"
                                   => lost' = lost]_vars
  <2> SUFFICES ASSUME Next, NEW t \in Tasks, state[t] = "exec", state'[t] = "running"
               PROVE  lost' = lost
    BY <1>1
  <2>0. ~stray /\ stray' \in BOOLEAN
    BY <1>1 DEF Next, ExecStray, IInv, TypeOK
  <2>1. ASSUME NEW u \in Tasks, ExecReplace(u) PROVE lost' = lost
    BY <1>1, <2>0, <2>1, ExecReplaceStep
  <2>9. ASSUME NEW u \in Tasks, ExecDies(u) PROVE FALSE
    <3>1. u # t
      BY <2>9 DEF ExecDies, Running
    <3>2. state' = [state EXCEPT ![u] = "exiting"]
      BY <2>9 DEF ExecDies, DoExit
    <3> QED BY <1>1, <3>1, <3>2 DEF IInv, TypeOK
  <2>2. ASSUME NEW u \in Tasks, NEW a \in Addr, DemandPageFails(u, a)
        PROVE  FALSE
    <3>1. u # t
      BY <2>2 DEF DemandPageFails, Running
    <3>2. state' = [state EXCEPT ![u] = "exiting"]
      BY <2>2 DEF DemandPageFails, DoExit
    <3> QED BY <1>1, <3>1, <3>2 DEF IInv, TypeOK
  <2>3. ASSUME NEW u \in Tasks, NEW a \in Addr, NEW v \in Values, NEW c \in Tasks,
               Wait(u, c, a, v)
        PROVE  lost' = lost
    BY <2>3 DEF Wait
  <2>8. ASSUME NEW u \in Tasks, NEW a \in Addr, NEW v \in Values,
               Store(u, a, v) \/ Pipe(u, a, v)
        PROVE  lost' = lost
    BY <2>8 DEF Store, Pipe
  <2>4. ASSUME NEW n \in Frames, ClosePipe(n) PROVE lost' = lost
    BY <2>4 DEF ClosePipe
  <2>5. ASSUME NEW u \in Tasks, \/ Exit(u) \/ BecomeZombie(u) \/ ReleaseSelf(u)
               \/ ForkFails(u) \/ ExecArgs(u) \/ ExecStray(u)
        PROVE  lost' = lost
    BY <2>5 DEF Exit, BecomeZombie, ReleaseSelf, ForkFails, ExecArgs, ExecStray, CopyStrings
  <2>6. ASSUME NEW u \in Tasks, NEW c \in Tasks, Fork(u, c) PROVE lost' = lost
    BY <2>6 DEF Fork
  <2>7. ASSUME NEW u \in Tasks, NEW a \in Addr,
               \/ DemandPage(u, a) \/ UnWriteProtect(u, a)
               \/ CopyOnWrite(u, a) \/ CopyOnWriteFails(u, a)
        PROVE  lost' = lost
    BY <2>7 DEF DemandPage, UnWriteProtect, CopyOnWrite, CopyOnWriteFails
  <2> QED
    BY <2>1, <2>2, <2>3, <2>4, <2>5, <2>6, <2>7, <2>8, <2>9 DEF Next, Steps
<1> QED BY <1>1, Invariance, PTL DEF Spec, ExecKeepsArguments

-----------------------------------------------------------------------------
(* Refinement: frames are shared, memories are not. *)

(* What task t reads at a, entry by entry. *)
Read(t, a) == IF pte[t][a].frame = NoFrame THEN NoFrame
              ELSE content[pte[t][a].frame]

LEMMA Reading ==
    /\ View = [t \in Tasks |-> [a \in Addr |-> Read(t, a)]]
    /\ View' = [t \in Tasks |-> [a \in Addr |-> Read(t, a)']]
BY DEF View, Read

LEMMA SameView ==
    ASSUME \A t \in Tasks, a \in Addr : Read(t, a)' = Read(t, a)
    PROVE  View' = View
BY Reading

(* The memory of one task changes, to m. *)
LEMMA OneView ==
    ASSUME NEW t \in Tasks, NEW m, m = [a \in Addr |-> Read(t, a)'],
           \A u \in Tasks, a \in Addr : u # t => Read(u, a)' = Read(u, a)
    PROVE  View' = [View EXCEPT ![t] = m]
BY Reading

(* A store through a writable entry is seen at that page only. *)
LEMMA OwnStore ==
    ASSUME IInv, NEW t \in Tasks, NEW a \in Addr, NEW v \in Values,
           pte[t][a].rw, UNCHANGED pte,
           content' = [content EXCEPT ![pte[t][a].frame] = v]
    PROVE  Private!Store(t, a, v)
<1> DEFINE f == pte[t][a].frame
<1>1. f \in Frames /\ mem_map[f] = 1 /\ f # NoFrame
  BY MemoryAssumption DEF IInv, WritableIsUnshared, AllFrames
<1>2. \A u \in Tasks, b \in Addr : pte[u][b].frame = f => u = t /\ b = a
  BY <1>1, MappedOnce DEF IInv
<1>3. \A g : g # f /\ g \in AllFrames => content'[g] = content[g]
  BY DEF IInv, TypeOK
<1>4. content'[f] = v
  BY <1>1 DEF IInv, TypeOK, AllFrames
<1>5. \A u \in Tasks, b \in Addr : pte[u][b].frame \in AllFrames \cup {NoFrame}
  BY DEF IInv, TypeOK, Entry
<1> HIDE DEF f
<1>6. \A u \in Tasks, b \in Addr :
         Read(u, b)' = IF u = t /\ b = a THEN v ELSE Read(u, b)
  BY <1>1, <1>2, <1>3, <1>4, <1>5 DEF Read, f
<1>7. View' = [View EXCEPT ![t][a] = v]
  BY <1>6, Reading
<1>8. View[t][a] # NoFrame
  <2>1. content[f] \in Values
    BY <1>1 DEF IInv, TypeOK, AllFrames
  <2> QED BY <2>1, <1>1, Reading, MemoryAssumption DEF Read, f
<1> QED
  BY <1>7, <1>8 DEF Private!Store

LEMMA InitRefines == Init => Private!Init
<1> SUFFICES ASSUME Init PROVE Private!Init
  OBVIOUS
<1>1. IInv
  BY InitInv
<1>2. \A t \in Tasks, a \in Addr : t # FirstTask => pte[t][a].frame = NoFrame
  BY DEF Init, NotPresent
<1>3. \A t \in Tasks, a \in Addr : t # FirstTask => Read(t, a) = NoFrame
  BY <1>2 DEF Read
<1> DEFINE m == [a \in Addr |-> Read(FirstTask, a)]
<1>4. m \in [Addr -> Values \cup {NoFrame}]
  <2>1. ASSUME NEW a \in Addr PROVE Read(FirstTask, a) \in Values \cup {NoFrame}
    <3>1. pte[FirstTask][a].frame \in AllFrames \cup {NoFrame}
      BY <1>1, MemoryAssumption DEF IInv, TypeOK, Entry
    <3> QED BY <3>1, <1>1 DEF Read, IInv, TypeOK
  <2> QED BY <2>1
<1>5. View = [u \in Tasks |-> IF u = FirstTask THEN m ELSE [a \in Addr |-> NoFrame]]
  BY <1>3, Reading
<1> HIDE DEF m
<1> QED
  BY <1>4, <1>5, MemoryAssumption DEF Private!Init, Private!Empty

(* do_exit() discards the memory. *)
LEMMA ExitRefines ==
    ASSUME IInv, NEW t \in Tasks, NEW mm, DoExit(t, mm)
    PROVE  Private!Discard(t)
<1>1. pte' = [pte EXCEPT ![t] = NoPages] /\ content' = content
  BY DEF DoExit
<1>2. \A u \in Tasks, a \in Addr :
         Read(u, a)' = IF u = t THEN NoFrame ELSE Read(u, a)
  BY <1>1 DEF Read, IInv, TypeOK, NoPages, NotPresent
<1>3. View' = [View EXCEPT ![t] = [a \in Addr |-> NoFrame]]
  BY <1>2, OneView, ZenonT(60)
<1> QED
  BY <1>3 DEF Private!Discard, Private!Empty

LEMMA ForkRefines ==
    ASSUME IInv, NEW p \in Tasks, NEW c \in Tasks, Fork(p, c)
    PROVE  Private!Clone(p, c)
<1>1. c # p /\ pte[c] = NoPages
  BY DEF Fork, Running, IInv, Shape
<1>2. /\ content' = content
      /\ pte' = [pte EXCEPT ![p] = WriteProtected(p, PresentDirs(p)), ![c] = CopyOf(p)]
  BY DEF Fork
<1>3. ASSUME NEW a \in Addr
      PROVE  /\ WriteProtected(p, PresentDirs(p))[a].frame = pte[p][a].frame
             /\ CopyOf(p)[a].frame = pte[p][a].frame
  <2>1. pte[p][a] \in Entry
    BY DEF IInv, TypeOK
  <2> QED BY <2>1 DEF WriteProtected, CopyOf, Entry
<1>4. /\ \A a \in Addr : /\ pte'[p][a].frame = pte[p][a].frame
                         /\ pte'[c][a].frame = pte[p][a].frame
      /\ \A u \in Tasks : u # p /\ u # c => pte'[u] = pte[u]
  BY <1>1, <1>2, <1>3 DEF IInv, TypeOK
<1>5. ASSUME NEW u \in Tasks, NEW a \in Addr
      PROVE  Read(u, a)' = IF u = c THEN Read(p, a) ELSE Read(u, a)
  <2>1. pte'[u][a].frame = IF u = c THEN pte[p][a].frame ELSE pte[u][a].frame
    BY <1>1, <1>4
  <2> QED BY <2>1, <1>2 DEF Read
<1>6. View' = [View EXCEPT ![c] = View[p]]
  BY <1>5, Reading
<1>7. View[c] = [a \in Addr |-> NoFrame]
  BY <1>1, Reading DEF Read, NoPages, NotPresent
<1> QED
  BY <1>6, <1>7 DEF Private!Clone, Private!Empty

LEMMA DemandRefines ==
    ASSUME IInv, NEW t \in Tasks, NEW a \in Addr, DemandPage(t, a)
    PROVE  Private!Touch(t, a)
<1>1. PICK n \in FreeIn(mem_map) :
         /\ pte' = [pte EXCEPT ![t][a] = [frame |-> n, rw |-> TRUE]]
         /\ content' = [content EXCEPT ![n] = Zero]
  BY DEF DemandPage
<1>2. n \in Frames /\ n # NoFrame /\ \A u \in Tasks, b \in Addr : pte[u][b].frame # n
  BY MemoryAssumption, FreeUnreferenced DEF FreeIn, AllFrames, IInv
<1>3. \A u \in Tasks, b \in Addr :
         /\ pte'[u][b] = IF u = t /\ b = a THEN [frame |-> n, rw |-> TRUE] ELSE pte[u][b]
         /\ pte[u][b].frame \in AllFrames \cup {NoFrame}
  BY <1>1 DEF IInv, TypeOK, Entry
<1>4. content'[n] = Zero /\ \A f \in AllFrames : f # n => content'[f] = content[f]
  BY <1>1, <1>2 DEF IInv, TypeOK, AllFrames
<1>5. \A u \in Tasks, b \in Addr :
         Read(u, b)' = IF u = t /\ b = a THEN Zero ELSE Read(u, b)
  BY <1>2, <1>3, <1>4 DEF Read
<1>6. View' = [View EXCEPT ![t][a] = Zero]
  BY <1>5, Reading
<1>7. View[t][a] = NoFrame
  BY Reading DEF Read, DemandPage
<1> QED
  BY <1>6, <1>7 DEF Private!Touch

LEMMA CopyRefines ==
    ASSUME IInv, NEW t \in Tasks, NEW a \in Addr, CopyOnWrite(t, a)
    PROVE  View' = View
<1> DEFINE old == pte[t][a].frame
<1>1. PICK n \in FreeIn(mem_map) :
         /\ pte' = [pte EXCEPT ![t][a] = [frame |-> n, rw |-> TRUE]]
         /\ content' = [content EXCEPT ![n] = content[old]]
  BY DEF CopyOnWrite
<1>2. n \in Frames /\ n # NoFrame /\ \A u \in Tasks, b \in Addr : pte[u][b].frame # n
  BY MemoryAssumption, FreeUnreferenced DEF FreeIn, AllFrames, IInv
<1>3. \A u \in Tasks, b \in Addr :
         /\ pte'[u][b] = IF u = t /\ b = a THEN [frame |-> n, rw |-> TRUE] ELSE pte[u][b]
         /\ pte[u][b].frame \in AllFrames \cup {NoFrame}
  BY <1>1 DEF IInv, TypeOK, Entry
<1>4. content'[n] = content[old] /\ \A f \in AllFrames : f # n => content'[f] = content[f]
  BY <1>1, <1>2 DEF IInv, TypeOK, AllFrames
<1>5. old # NoFrame
  BY DEF CopyOnWrite
<1> HIDE DEF old
<1>6. Read(t, a)' = Read(t, a)
  BY <1>2, <1>3, <1>4, <1>5 DEF Read, old
<1>7. ASSUME NEW u \in Tasks, NEW b \in Addr, ~(u = t /\ b = a)
      PROVE  Read(u, b)' = Read(u, b)
  BY <1>2, <1>3, <1>4, <1>7 DEF Read
<1> QED
  BY <1>6, <1>7, SameView

LEMMA ExecArgsRefines ==
    ASSUME IInv, NEW t \in Tasks, ExecArgs(t) \/ ExecStray(t)
    PROVE  View' = View
<1>0. PICK page \in ArgPages : CopyStrings(t, page)
  BY DEF ExecArgs, ExecStray
<1>1. PICK string \in [ArgAddrs -> Values] :
      /\ page \in [ArgAddrs -> FreeIn(mem_map) \cup {NoFrame}]
      /\ content' = [f \in AllFrames |->
                          IF \E a \in ArgAddrs : page[a] = f
                          THEN string[CHOOSE a \in ArgAddrs : page[a] = f]
                          ELSE content[f]]
  BY <1>0 DEF CopyStrings, ArgPages
<1>2. pte' = pte
  BY <1>0 DEF CopyStrings
<1>3. ASSUME NEW u \in Tasks, NEW b \in Addr PROVE Read(u, b)' = Read(u, b)
  <2>1. pte[u][b].frame \in AllFrames \cup {NoFrame}
    BY DEF IInv, TypeOK, Entry
  <2>2. CASE pte[u][b].frame = NoFrame
    BY <2>2, <1>2 DEF Read
  <2>3. CASE pte[u][b].frame # NoFrame
    <3>1. \A a \in ArgAddrs : page[a] # pte[u][b].frame
      BY <1>1, <2>3, FreeUnreferenced DEF FreeIn, IInv
    <3> QED BY <3>1, <2>1, <2>3, <1>1, <1>2 DEF Read
  <2> QED BY <2>2, <2>3
<1> QED
  BY <1>3, SameView

LEMMA ExecReplaceRefines ==
    ASSUME IInv, ~stray, UNCHANGED stray, NEW t \in Tasks, ExecReplace(t)
    PROVE  Private!Replace(t)
<1>1. PICK tab \in GetFreePage(FreedByExec(t)) :
         pte' = [pte EXCEPT ![t] = [a \in Addr |->
                         IF tab # NoFrame /\ a \in ArgAddrs
                            /\ args[t][a] # NoFrame
                         THEN [frame |-> args[t][a], rw |-> TRUE]
                         ELSE NotPresent]]
  BY DEF ExecReplace
<1>2. content' = content
  BY DEF ExecReplace
<1>3. /\ \A u \in Tasks : u # t => pte'[u] = pte[u]
      /\ \A a \in Addr : a \notin ArgAddrs => pte'[t][a].frame = NoFrame
  BY <1>1 DEF IInv, TypeOK, NotPresent
<1>4. \A u \in Tasks, a \in Addr : u # t => Read(u, a)' = Read(u, a)
  BY <1>2, <1>3 DEF Read
<1> DEFINE m == [a \in Addr |-> Read(t, a)']
<1>5. ASSUME NEW a \in Addr
      PROVE  m[a] \in Values \cup {NoFrame} /\ (m[a] # NoFrame => a \in ArgAddrs)
  <2>1. pte'[t][a].frame \in AllFrames \cup {NoFrame}
    <3>1. stray' \in BOOLEAN
      BY DEF IInv, TypeOK
    <3> QED
      BY <3>1, ExecReplaceStep DEF IInv, TypeOK, Entry
  <2> QED BY <2>1, <1>2, <1>3 DEF Read, IInv, TypeOK
<1>6. View' = [View EXCEPT ![t] = m]
  BY <1>4, OneView
<1>7. m \in [Addr -> Values \cup {NoFrame}]
  BY <1>5
<1> HIDE DEF m
<1> QED
  BY <1>5, <1>6, <1>7 DEF Private!Replace

(* Steps that change neither the frame of an entry nor a frame's contents. *)
LEMMA QuietSteps ==
    ASSUME IInv, NEW t \in Tasks,
           \/ BecomeZombie(t) \/ ReleaseSelf(t) \/ ForkFails(t)
           \/ \E a \in Addr : UnWriteProtect(t, a)
           \/ \E n \in Frames : ClosePipe(n)
    PROVE  View' = View
<1>1. content' = content
  BY DEF BecomeZombie, ReleaseSelf, ForkFails, UnWriteProtect, ClosePipe
<1>2. ASSUME NEW u \in Tasks, NEW b \in Addr PROVE pte'[u][b].frame = pte[u][b].frame
  <2>1. CASE ForkFails(t)
    <3>1. PICK k : pte' = [pte EXCEPT ![t] = WriteProtected(t, FirstDirs(t, k))]
      BY <2>1 DEF ForkFails
    <3>2. pte[t][b] \in Entry
      BY DEF IInv, TypeOK
    <3>3. WriteProtected(t, FirstDirs(t, k))[b].frame = pte[t][b].frame
      BY <3>2 DEF WriteProtected, Entry
    <3> QED BY <3>1, <3>3 DEF IInv, TypeOK
  <2>2. ASSUME NEW a \in Addr, UnWriteProtect(t, a)
        PROVE  pte'[u][b].frame = pte[u][b].frame
    BY <2>2 DEF UnWriteProtect, IInv, TypeOK, Entry
  <2>3. CASE pte' = pte
    BY <2>3
  <2> QED BY <2>1, <2>2, <2>3 DEF BecomeZombie, ReleaseSelf, ClosePipe
<1> QED
  BY <1>1, <1>2, SameView DEF Read

LEMMA StepRefines ==
    ASSUME SharedPipeArray = FALSE, IInv, [Next]_vars
    PROVE  [Private!Next]_View
<1>1. ASSUME UNCHANGED vars PROVE View' = View
  BY <1>1, SameView DEF vars, Read
<1>2. ASSUME NEW t \in Tasks, Exit(t) \/ ExecDies(t) PROVE Private!Next
  <2>1. \E mm : DoExit(t, mm)
    BY <1>2 DEF Exit, ExecDies
  <2> QED BY <2>1, ExitRefines DEF Private!Next
<1>3. ASSUME NEW t \in Tasks, NEW a \in Addr,
             DemandPageFails(t, a) \/ CopyOnWriteFails(t, a)
      PROVE  Private!Next
  <2>1. \E mm : DoExit(t, mm)
    BY <1>3 DEF DemandPageFails, CopyOnWriteFails
  <2> QED BY <2>1, ExitRefines DEF Private!Next
<1>4. ASSUME NEW t \in Tasks,
             \/ BecomeZombie(t) \/ ReleaseSelf(t) \/ ForkFails(t)
             \/ \E a \in Addr : UnWriteProtect(t, a)
      PROVE  View' = View
  BY <1>4, QuietSteps
<1>5. ASSUME NEW n \in Frames, ClosePipe(n) PROVE View' = View
  BY <1>5, QuietSteps, MemoryAssumption
<1>6. ASSUME NEW t \in Tasks, ExecArgs(t) \/ ExecStray(t) PROVE View' = View
  BY <1>6, ExecArgsRefines
<1>7. ASSUME ~stray, UNCHANGED stray, NEW t \in Tasks, ExecReplace(t) PROVE Private!Next
  BY <1>7, ExecReplaceRefines DEF Private!Next
<1>8. ASSUME NEW t \in Tasks, NEW c \in Tasks, Fork(t, c) PROVE Private!Next
  BY <1>8, ForkRefines DEF Private!Next
<1>9. ASSUME NEW t \in Tasks, NEW a \in Addr, DemandPage(t, a) PROVE Private!Next
  BY <1>9, DemandRefines DEF Private!Next
<1>10. ASSUME NEW t \in Tasks, NEW a \in Addr, CopyOnWrite(t, a) PROVE View' = View
  BY <1>10, CopyRefines
<1>11. ASSUME NEW t \in Tasks, NEW a \in Addr, NEW v \in Values,
              \/ Store(t, a, v) \/ Pipe(t, a, v)
              \/ \E c \in Tasks : Wait(t, c, a, v)
       PROVE  Private!Next
  <2>1. /\ pte[t][a].rw /\ UNCHANGED pte
        /\ content' = [content EXCEPT ![pte[t][a].frame] = v]
    BY <1>11 DEF Store, Pipe, Wait
  <2> QED BY <2>1, OwnStore DEF Private!Next
<1>12. ASSUME ~stray, UNCHANGED stray, Steps PROVE [Private!Next]_View
  BY <1>2, <1>3, <1>4, <1>5, <1>6, <1>7, <1>8, <1>9, <1>10, <1>11, <1>12 DEF Steps
<1> QED
  BY <1>1, <1>6, <1>12 DEF Next

(* When every program calls pipe() with an array on a page of its own, the *)
(* kernel's shared frames implement a private memory for every task.       *)
THEOREM MemoryIsPrivate == SharedPipeArray = FALSE => (Spec => Isolation)
<1> SUFFICES ASSUME SharedPipeArray = FALSE PROVE Spec => Isolation
  OBVIOUS
<1>1. IInv /\ [Next]_vars => [Private!Next]_View
  BY StepRefines
<1> QED
  BY <1>1, InitRefines, Invariance, PTL DEF Spec, Isolation, Private!Spec
-----------------------------------------------------------------------------
(* The blocks of files. *)

(* The types of what a call has in hand at each of its steps. *)
Items == [blk : Blocks, depth : 0..2, slot : Slots \cup {0}]
Following == {"walk", "new", "found", "indirect", "data"}
CallOk(p) ==
    /\ op[p] # "none" <=> pc[p] # "user"
    /\ op[p] # "none" => file[p] \in Files
    /\ pc[p] = "free" <=> op[p] = "truncate"
    /\ todo[p] # <<>> <=> pc[p] = "free"
    /\ pc[p] \notin Following => at[p] = Inode
    /\ pc[p] \in {"new", "found", "indirect", "data"} => blk[p] \in Blocks
    /\ pc[p] = "new" => op[p] = "write"
PathOk(p) ==
    pc[p] \in Following =>
        /\ Len(path[p]) > 0
        /\ at[p] = Inode => path[p][1] \in Slots /\ Len(path[p]) = 1 + Depth[path[p][1]]
        /\ at[p] # Inode => path[p][1] \in Entries
        /\ \A k \in 2..Len(path[p]) : path[p][k] \in Entries
        /\ pc[p] = "indirect" => Len(path[p]) > 1
BlocksTyped ==
    /\ BlocksTypeOK
    /\ path \in [Procs -> Seq(Nat)] /\ todo \in [Procs -> Seq(Items)]
    /\ \A p \in Procs : CallOk(p) /\ PathOk(p)

(* A block that is marked as used, and has not been left over by truncate(),*)
(* belongs to a place: a slot of an inode, an entry of an indirect block,  *)
(* or the work of a truncate().  Its label says to which one, to which     *)
(* file, and how many indirections there are below it.  A block lost by    *)
(* two writers at one place keeps its label, and so do those below it.     *)
Labels == [file : Files \cup {NoFile}, depth : 0..2, in : {"inode", "block", "todo"},
           of : Nat, slot : Nat]
Label(f, d, in, b, s) == [file |-> f, depth |-> d, in |-> in, of |-> b, slot |-> s]
Kept == zmap \ (InHands \cup refused)
InodesFit(lab) ==
    \A f \in Files, s \in Slots :
        ~Truncating(f) /\ zone[f][s] # NoBlock =>
            zone[f][s] \in Kept /\ lab[zone[f][s]] = Label(f, Depth[s], "inode", NoBlock, s)
IndirectFit(lab) ==
    \A c \in Kept, e \in Entries :
        lab[c].depth > 0 /\ entries[c][e] # NoBlock =>
            /\ entries[c][e] \in Kept
            /\ lab[entries[c][e]] = Label(lab[c].file, lab[c].depth - 1, "block", c, e)
WorkFits(lab) ==
    \A p \in Procs : \A k \in 1..Len(todo[p]) :
        /\ todo[p][k].blk \in Kept
        /\ lab[todo[p][k].blk] = Label(file[p], todo[p][k].depth, "todo", NoBlock, 0)
        /\ \A j \in 1..Len(todo[p]) : todo[p][j].blk = todo[p][k].blk => j = k
Belongs(lab, b, f, d) == b \in Kept /\ lab[b].file = f /\ lab[b].depth = d
WriterFits(lab, p) ==
    op[p] = "write" =>
        /\ at[p] # Inode => Belongs(lab, at[p], file[p], Len(path[p]))
        /\ pc[p] \in {"found", "indirect", "data"} =>
             Belongs(lab, blk[p], file[p], Len(path[p]) - 1)
WritersFit(lab) == \A p \in Procs : WriterFits(lab, p)
Owned(lab, b) ==
    \/ \E f \in Files, s \in Slots : ~Truncating(f) /\ zone[f][s] = b
    \/ \E c \in Kept, e \in Entries : lab[c].depth > 0 /\ entries[c][e] = b
    \/ \E p \in Procs : \E k \in 1..Len(todo[p]) : todo[p][k].blk = b

HandsSound ==
    /\ refused \subseteq zmap \ InHands
    /\ \A p \in Procs : pc[p] = "new" =>
         blk[p] \in zmap /\ \A q \in Procs : pc[q] = "new" /\ blk[q] = blk[p] => q = p
Apart ==
    \A p, q \in Procs : op[p] = "truncate" /\ op[q] \in {"write", "truncate"} /\ file[p] = file[q]
                        => p = q
Fits(lab) ==
    /\ lab \in [Blocks -> Labels]
    /\ InodesFit(lab) /\ IndirectFit(lab) /\ WorkFits(lab) /\ WritersFit(lab)
    /\ ~doubled => \A b \in Kept : Owned(lab, b)
BlocksInv(lab) == HandsSound /\ Apart /\ Fits(lab)
BlocksIInv == BlocksTyped /\ (~overlap => \E lab : BlocksInv(lab))
-----------------------------------------------------------------------------
(* The properties *)

LEMMA FileBlocksConstants ==
  /\ NoBlock = 0 /\ Inode = 0 /\ NoBlock \notin Blocks /\ Blocks \subseteq Nat
  /\ Slots = 1..Len(Depth) /\ IsFiniteSet(Slots) /\ 0 \notin Slots
  /\ \A s \in Slots : Depth[s] \in 0..2
  /\ Entries \subseteq Nat /\ IsFiniteSet(Entries) /\ NoFile \notin Files
<1>1. Depth \in Seq(0..2)
  BY BlocksAssumption
<1>2. Slots = 1..Len(Depth) /\ Len(Depth) \in Nat
  BY <1>1 DEF Slots
<1>3. \A s \in Slots : Depth[s] \in 0..2
  BY <1>1, <1>2
<1>4. IsFiniteSet(1..Len(Depth))
  BY <1>2, FS_Interval
<1>. QED BY <1>2, <1>3, <1>4, BlocksAssumption DEF NoBlock, Inode

(* A pointer of a file says what the label of its block says. *)
LEMMA PointerLabels ==
  ASSUME NEW lab, BlocksTyped, BlocksInv(lab), NEW f \in Files, ~Truncating(f),
         NEW i \in Pointers(f)
  PROVE  /\ i.blk \in Kept /\ lab[i.blk].file = f
         /\ \/ lab[i.blk].in = "inode" /\ i.place = <<f, lab[i.blk].slot>>
            \/ lab[i.blk].in = "block" /\ i.place = <<lab[i.blk].of, lab[i.blk].slot>>
<1>. DEFINE Sound(j) == /\ j.blk \in Kept /\ lab[j.blk].file = f /\ lab[j.blk].depth = j.depth
                        /\ \/ lab[j.blk].in = "inode" /\ j.place = <<f, lab[j.blk].slot>>
                           \/ lab[j.blk].in = "block" /\ j.place = <<lab[j.blk].of, lab[j.blk].slot>>
<1>1. \A j \in Top(f) : j.blk # NoBlock => Sound(j)
  <2>1. SUFFICES ASSUME NEW s \in Slots, zone[f][s] # NoBlock
                 PROVE  Sound([place |-> <<f, s>>, blk |-> zone[f][s], depth |-> Depth[s]])
    BY DEF Top
  <2>2. zone[f][s] \in Kept /\ lab[zone[f][s]] = Label(f, Depth[s], "inode", NoBlock, s)
    BY <2>1 DEF BlocksInv, Fits, InodesFit
  <2>. QED BY <2>2 DEF Label
<1>2. ASSUME NEW S, \A j \in S : j.blk # NoBlock => Sound(j)
      PROVE  \A j \in Below(S) : j.blk # NoBlock => Sound(j)
  <2>1. SUFFICES ASSUME NEW j \in Below(S), j.blk # NoBlock PROVE Sound(j)
    OBVIOUS
  <2>2. PICK h \in S, e \in Entries : /\ h.blk # NoBlock /\ h.depth > 0
          /\ j = [place |-> <<h.blk, e>>, blk |-> entries[h.blk][e], depth |-> h.depth - 1]
    BY <2>1 DEF Below
  <2>3. Sound(h)
    BY <1>2, <2>2
  <2>4. lab[h.blk].depth > 0 /\ entries[h.blk][e] # NoBlock
    BY <2>1, <2>2, <2>3
  <2>5. entries[h.blk][e] \in Kept
        /\ lab[entries[h.blk][e]] = Label(lab[h.blk].file, lab[h.blk].depth - 1, "block", h.blk, e)
    BY <2>3, <2>4 DEF BlocksInv, Fits, IndirectFit
  <2>. QED BY <2>2, <2>3, <2>5 DEF Label
<1>. HIDE DEF Sound
<1>3. \A j \in Below(Top(f)) : j.blk # NoBlock => Sound(j)
  BY <1>1, <1>2
<1>4. \A j \in Below(Below(Top(f))) : j.blk # NoBlock => Sound(j)
  BY <1>2, <1>3
<1>5. Sound(i)
  BY <1>1, <1>3, <1>4 DEF Pointers
<1>. QED BY <1>5 DEF Sound

LEMMA BlocksAreNotShared == BlocksIInv => BlocksNotShared
<1>. SUFFICES ASSUME BlocksIInv PROVE BlocksNotShared
  OBVIOUS
<1>1. BlocksTyped /\ BlocksTypeOK
  BY DEF BlocksIInv, BlocksTyped
<1>2. SUFFICES ASSUME ~overlap
      PROVE  /\ \A i, j \in Referenced : i.blk = j.blk => i.place = j.place
             /\ \A i \in Referenced : i.blk \in zmap \ InHands
             /\ \A p \in Procs : WritesStayInFile(p)
  BY <1>1 DEF BlocksNotShared
<1>3. PICK lab : BlocksInv(lab)
  BY <1>2 DEF BlocksIInv
<1>4. ASSUME NEW i \in Referenced
      PROVE  \E f \in Files : ~Truncating(f) /\ i \in Pointers(f)
  BY DEF Referenced
<1>5. ASSUME NEW i \in Referenced, NEW j \in Referenced, i.blk = j.blk PROVE i.place = j.place
  <2>1. PICK f \in Files : ~Truncating(f) /\ i \in Pointers(f)
    BY <1>4
  <2>2. PICK g \in Files : ~Truncating(g) /\ j \in Pointers(g)
    BY <1>4
  <2>. QED BY <1>1, <1>3, <1>5, <2>1, <2>2, PointerLabels
<1>6. ASSUME NEW i \in Referenced PROVE i.blk \in zmap \ InHands
  BY <1>1, <1>3, <1>4, PointerLabels DEF Kept
<1>7. ASSUME NEW p \in Procs, pc[p] = "data", op[p] = "write"
      PROVE  /\ blk[p] \in zmap
             /\ \A f \in Files \ {file[p]} : \A i \in Pointers(f) : ~Truncating(f) => i.blk # blk[p]
  <2>1. blk[p] \in Kept /\ lab[blk[p]].file = file[p]
    BY <1>3, <1>7 DEF BlocksInv, Fits, WritersFit, WriterFits, Belongs
  <2>. QED BY <1>1, <1>3, <2>1, PointerLabels DEF Kept
<1>. QED BY <1>5, <1>6, <1>7 DEF WritesStayInFile

(* What is kept is found in a file or in the work of a truncate(): the     *)
(* places that own it, and own their block, are two at most.               *)
LEMMA BelowAre ==
  ASSUME NEW S, NEW h \in S, h.blk # NoBlock, h.depth > 0, NEW e \in Entries
  PROVE  [place |-> <<h.blk, e>>, blk |-> entries[h.blk][e], depth |-> h.depth - 1] \in Below(S)
BY DEF Below

LEMMA NoBlockIsLost == BlocksIInv => NoBlockLost
<1>. SUFFICES ASSUME BlocksIInv, ~overlap, ~doubled, NEW b \in zmap, b \notin InHands, b \notin refused
              PROVE  b \in {i.blk : i \in Referenced} \cup ToFree
  BY DEF NoBlockLost
<1>. DEFINE Found0 == {i.blk : i \in Referenced} \cup ToFree
            Rec(c, e, d) == [place |-> <<c, e>>, blk |-> entries[c][e], depth |-> d]
<1>1. PICK lab : BlocksInv(lab)
  BY DEF BlocksIInv
<1>2. /\ BlocksTyped /\ BlocksTypeOK /\ zmap \subseteq Blocks /\ lab \in [Blocks -> Labels]
      /\ \A c \in Kept : c \in Blocks /\ c # NoBlock /\ lab[c].depth \in 0..2
  BY <1>1, FileBlocksConstants DEF BlocksIInv, BlocksTyped, BlocksTypeOK, BlocksInv, Fits, Kept, Labels
<1>3. \A c \in Kept : Owned(lab, c)
  BY <1>1 DEF BlocksInv, Fits
\* the chain of places above a block, with what it starts from
<1>. DEFINE InTop(f, s, c) == /\ f \in Files /\ s \in Slots /\ ~Truncating(f) /\ zone[f][s] = c
                              /\ Depth[s] = lab[c].depth
            InWork(p, k, c) == /\ p \in Procs /\ k \in 1..Len(todo[p]) /\ todo[p][k].blk = c
                               /\ todo[p][k].depth = lab[c].depth
            Root(c) == \/ \E f \in Files, s \in Slots : InTop(f, s, c)
                       \/ \E p \in Procs : \E k \in 1..Len(todo[p]) : InWork(p, k, c)
            Child(c, e, t) == /\ c \in Kept /\ e \in Entries /\ lab[c].depth > 0 /\ entries[c][e] = t
                              /\ lab[t].depth = lab[c].depth - 1
<1>4. ASSUME NEW c \in Kept PROVE Root(c) \/ \E a \in Kept, e \in Entries : Child(a, e, c)
  <2>1. CASE \E f \in Files, s \in Slots : ~Truncating(f) /\ zone[f][s] = c
    <3>1. PICK f \in Files, s \in Slots : ~Truncating(f) /\ zone[f][s] = c
      BY <2>1
    <3>2. lab[c] = Label(f, Depth[s], "inode", NoBlock, s)
      BY <1>1, <1>2, <3>1 DEF BlocksInv, Fits, InodesFit
    <3>3. InTop(f, s, c)
      BY <3>1, <3>2 DEF Label
    <3>. QED BY <3>3
  <2>2. CASE \E a \in Kept, e \in Entries : lab[a].depth > 0 /\ entries[a][e] = c
    <3>1. PICK a \in Kept, e \in Entries : lab[a].depth > 0 /\ entries[a][e] = c
      BY <2>2
    <3>2. lab[c] = Label(lab[a].file, lab[a].depth - 1, "block", a, e)
      BY <1>1, <1>2, <3>1 DEF BlocksInv, Fits, IndirectFit
    <3>3. Child(a, e, c)
      BY <3>1, <3>2 DEF Label
    <3>. QED BY <3>3
  <2>3. CASE \E p \in Procs : \E k \in 1..Len(todo[p]) : todo[p][k].blk = c
    <3>0. PICK p \in Procs : \E k \in 1..Len(todo[p]) : todo[p][k].blk = c
      BY <2>3
    <3>1. PICK k \in 1..Len(todo[p]) : todo[p][k].blk = c
      BY <3>0
    <3>2. lab[c] = Label(file[p], todo[p][k].depth, "todo", NoBlock, 0)
      BY <1>1, <3>1 DEF BlocksInv, Fits, WorkFits
    <3>3. InWork(p, k, c)
      BY <3>1, <3>2 DEF Label
    <3>. QED BY <3>3
  <2>. QED BY <1>3, <2>1, <2>2, <2>3 DEF Owned
\* what can be seen from a root, at depths 0, 1 and 2
<1>. DEFINE Seen(S) == S \cup Below(S) \cup Below(Below(S))
<1>5. ASSUME NEW c \in Kept, Root(c)
      PROVE  \E S, h : /\ h \in S /\ h.blk = c /\ h.depth = lab[c].depth
                       /\ \A i \in Seen(S) : i.blk # NoBlock => i.blk \in Found0
  <2>1. CASE \E f \in Files, s \in Slots : InTop(f, s, c)
    <3>1. PICK f \in Files, s \in Slots : InTop(f, s, c)
      BY <2>1
    <3>. DEFINE h == [place |-> <<f, s>>, blk |-> zone[f][s], depth |-> Depth[s]]
    <3>2. h \in Top(f) /\ h.blk = c /\ h.depth = lab[c].depth
      BY <3>1 DEF Top
    <3>3. \A i \in Seen(Top(f)) : i.blk # NoBlock => i \in Referenced
      BY <3>1 DEF Pointers, Referenced
    <3>. QED BY <3>2, <3>3
  <2>2. CASE \E p \in Procs : \E k \in 1..Len(todo[p]) : InWork(p, k, c)
    <3>0. PICK p \in Procs : \E k \in 1..Len(todo[p]) : InWork(p, k, c)
      BY <2>2
    <3>1. PICK k \in 1..Len(todo[p]) : InWork(p, k, c)
      BY <3>0
    <3>. DEFINE h == todo[p][k]
    <3>2. h \in {h} /\ h.blk = c /\ h.depth = lab[c].depth
      BY <3>1
    <3>3. k \in DOMAIN todo[p]
      BY <1>2, <3>1 DEF BlocksTyped
    <3>4. \A i \in Seen({h}) : i.blk \in {h.blk} \cup BlocksBelow(h)
      BY DEF BlocksBelow
    <3>5. {h.blk} \cup BlocksBelow(h) \subseteq ToFree
      BY <3>3 DEF ToFree
    <3>. QED BY <3>2, <3>4, <3>5
  <2>. QED BY <1>5, <2>1, <2>2
<1>6. b \in Kept
  BY DEF Kept
<1>7. CASE Root(b)
  <2>1. PICK S, h : /\ h \in S /\ h.blk = b /\ h.depth = lab[b].depth
                    /\ \A i \in Seen(S) : i.blk # NoBlock => i.blk \in Found0
    BY <1>5, <1>6, <1>7
  <2>2. h \in Seen(S) /\ h.blk # NoBlock
    BY <1>2, <1>6, <2>1
  <2>. HIDE DEF Seen, Found0
  <2>3. b \in Found0
    BY <2>1, <2>2
  <2>. QED BY <2>3 DEF Found0
<1>8. ASSUME NEW a \in Kept, NEW e \in Entries, Child(a, e, b), Root(a) PROVE b \in Found0
  <2>1. PICK S, h : /\ h \in S /\ h.blk = a /\ h.depth = lab[a].depth
                    /\ \A i \in Seen(S) : i.blk # NoBlock => i.blk \in Found0
    BY <1>5, <1>8
  <2>2. Rec(a, e, h.depth - 1) \in Below(S)
    BY <1>2, <1>8, <2>1, BelowAre
  <2>3. Rec(a, e, h.depth - 1).blk = b /\ b # NoBlock
    BY <1>2, <1>6, <1>8
  <2>. QED BY <2>1, <2>2, <2>3
<1>9. ASSUME NEW a \in Kept, NEW e \in Entries, Child(a, e, b),
             NEW c \in Kept, NEW d \in Entries, Child(c, d, a), Root(c)
      PROVE  b \in Found0
  <2>1. PICK S, h : /\ h \in S /\ h.blk = c /\ h.depth = lab[c].depth
                    /\ \A i \in Seen(S) : i.blk # NoBlock => i.blk \in Found0
    BY <1>5, <1>9
  <2>2. Rec(c, d, h.depth - 1) \in Below(S)
    BY <1>2, <1>9, <2>1, BelowAre
  <2>3. /\ Rec(c, d, h.depth - 1).blk = a /\ a # NoBlock /\ h.depth - 1 = lab[a].depth
        /\ Rec(c, d, h.depth - 1).depth = h.depth - 1
    BY <1>2, <1>9, <2>1
  <2>4. Rec(a, e, h.depth - 1 - 1) \in Below(Below(S))
    <3>. DEFINE r == Rec(c, d, h.depth - 1)
    <3>1. r \in Below(S) /\ r.blk = a /\ r.blk # NoBlock /\ r.depth > 0 /\ r.depth = h.depth - 1
      BY <1>9, <2>2, <2>3
    <3>. HIDE DEF r
    <3>2. [place |-> <<r.blk, e>>, blk |-> entries[r.blk][e], depth |-> r.depth - 1] \in Below(Below(S))
      BY <3>1, BelowAre
    <3>. QED BY <3>1, <3>2
  <2>5. Rec(a, e, h.depth - 1 - 1).blk = b /\ b # NoBlock
    BY <1>2, <1>6, <1>9
  <2>. QED BY <2>1, <2>4, <2>5
\* a third place above b would be at depth 3
<1>. HIDE DEF Found0
<1>10. CASE ~Root(b)
  <2>1. PICK a \in Kept, e \in Entries : Child(a, e, b)
    BY <1>4, <1>6, <1>10
  <2>2. CASE ~Root(a)
    <3>1. PICK c \in Kept, d \in Entries : Child(c, d, a)
      BY <1>4, <2>2
    <3>2. CASE ~Root(c)
      <4>1. PICK g \in Kept, u \in Entries : Child(g, u, c)
        BY <1>4, <3>2
      <4>2. /\ lab[b].depth = lab[a].depth - 1 /\ lab[a].depth = lab[c].depth - 1
            /\ lab[c].depth = lab[g].depth - 1
        BY <2>1, <3>1, <4>1
      <4>. QED BY <1>2, <1>6, <4>2
    <3>. HIDE DEF Root, Child
    <3>. QED BY <1>9, <2>1, <3>1, <3>2 DEF Found0
  <2>. HIDE DEF Root, Child
  <2>. QED BY <1>8, <2>1, <2>2 DEF Found0
<1>. QED BY <1>7, <1>10
-----------------------------------------------------------------------------
(* The work of truncate() *)

LEMMA OrdersAre ==
  ASSUME NEW S, IsFiniteSet(S), NEW w \in Orders(S)
  PROVE  /\ w \in Seq(S) /\ Len(w) \in Nat /\ DOMAIN w = 1..Len(w) /\ (S # {} => Len(w) > 0)
         /\ \A s \in S : \E k \in 1..Len(w) : w[k] = s
         /\ S \subseteq Nat => \A j, k \in 1..Len(w) : w[j] = w[k] => j = k
<1>1. Cardinality(S) \in Nat
  BY FS_CardinalityType
<1>2. w \in [1..Cardinality(S) -> S]
  BY DEF Orders
<1>3. w \in Seq(S) /\ Len(w) = Cardinality(S) /\ DOMAIN w = 1..Len(w)
  BY <1>1, <1>2
<1>4. \A s \in S : \E k \in 1..Len(w) : w[k] = s
  BY <1>3 DEF Orders
<1>5. ASSUME S \subseteq Nat, NEW j \in 1..Len(w), NEW k \in 1..Len(w), w[j] = w[k] PROVE j = k
  <2>0. w[j] \in S /\ w[k] \in S /\ j \in Nat /\ k \in Nat
    BY <1>3
  <2>1. w[j] \in Nat /\ j \in Nat /\ k \in Nat
    BY <2>0, <1>5
  <2>2. (j < k => w[j] < w[k]) /\ (k < j => w[k] < w[j])
    BY <1>3 DEF Orders
  <2>. QED BY <1>5, <2>1, <2>2
<1>. QED BY <1>1, <1>3, <1>4, <1>5

(* Work t with A and i in the place of its first item is s. *)
Joins(A, i, t, s) ==
    /\ s \in Seq(Items) /\ Len(s) = Len(A) + Len(t) /\ s # <<>>
    /\ \A k \in 1..Len(s) : /\ k <= Len(A) => s[k] = A[k]
                            /\ k = Len(A) + 1 => s[k] = i
                            /\ k > Len(A) + 1 => s[k] = t[k - Len(A)]
LEMMA Joined ==
  ASSUME NEW A \in Seq(Items), NEW i \in Items, NEW t \in Seq(Items), t # <<>>
  PROVE  Joins(A, i, t, A \o <<i>> \o Tail(t))
<1>. DEFINE s == A \o <<i>> \o Tail(t)
<1>1. <<i>> \in Seq(Items) /\ Tail(t) \in Seq(Items) /\ Len(t) \in Nat \ {0} /\ Len(A) \in Nat
      /\ Len(Tail(t)) = Len(t) - 1 /\ Len(<<i>>) = 1 /\ <<i>>[1] = i
      /\ \A k \in 1..Len(t) - 1 : Tail(t)[k] = t[k + 1]
  BY HeadTailProperties, EmptySeq
<1>2. /\ A \o <<i>> \in Seq(Items) /\ Len(A \o <<i>>) = Len(A) + 1
      /\ \A k \in 1..Len(A) + 1 : (A \o <<i>>)[k] = IF k <= Len(A) THEN A[k] ELSE <<i>>[k - Len(A)]
  BY <1>1, ConcatProperties
<1>3. /\ s \in Seq(Items) /\ Len(s) = Len(A) + 1 + (Len(t) - 1)
      /\ \A k \in 1..Len(s) : s[k] = IF k <= Len(A) + 1 THEN (A \o <<i>>)[k]
                                     ELSE Tail(t)[k - (Len(A) + 1)]
  BY <1>1, <1>2, ConcatProperties
<1>4. Len(s) = Len(A) + Len(t)
  BY <1>1, <1>3
<1>5. ASSUME NEW k \in 1..Len(s)
      PROVE  /\ k <= Len(A) => s[k] = A[k]
             /\ k = Len(A) + 1 => s[k] = i
             /\ k > Len(A) + 1 => s[k] = t[k - Len(A)]
  <2>1. k <= Len(A) => s[k] = A[k]
    BY <1>1, <1>2, <1>3
  <2>2. k = Len(A) + 1 => s[k] = i
    BY <1>1, <1>2, <1>3
  <2>3. ASSUME k > Len(A) + 1 PROVE s[k] = t[k - Len(A)]
    <3>1. k - (Len(A) + 1) \in 1..Len(t) - 1 /\ (k - (Len(A) + 1)) + 1 = k - Len(A)
      BY <1>1, <1>4, <2>3
    <3>. QED BY <1>1, <1>3, <2>3, <3>1
  <2>. QED BY <2>1, <2>2, <2>3
<1>. HIDE DEF s
<1>6. s # <<>>
  BY <1>1, <1>3, <1>4
<1>. QED BY <1>3, <1>4, <1>5, <1>6 DEF Joins, s

LEMMA FileOf ==
  ASSUME BlocksTyped, NEW p \in Procs
  PROVE  /\ CallOk(p) /\ PathOk(p)
         /\ path[p] \in Seq(Nat) /\ Len(path[p]) \in Nat /\ todo[p] \in Seq(Items)
         /\ at[p] \in Blocks \cup {Inode} /\ blk[p] \in Blocks \cup {NoBlock}
         /\ \A k \in 1..Len(todo[p]) : todo[p][k] \in Items /\ todo[p][k].blk \in Blocks
                                       /\ todo[p][k].depth \in 0..2
         /\ \A b \in Blocks, e \in Entries : entries[b][e] \in Blocks \cup {NoBlock}
         /\ \A f \in Files, s \in Slots : zone[f][s] \in Blocks \cup {NoBlock}
<1>1. /\ path[p] \in Seq(Nat) /\ todo[p] \in Seq(Items)
      /\ at[p] \in Blocks \cup {Inode} /\ blk[p] \in Blocks \cup {NoBlock}
      /\ \A b \in Blocks, e \in Entries : entries[b][e] \in Blocks \cup {NoBlock}
      /\ \A f \in Files, s \in Slots : zone[f][s] \in Blocks \cup {NoBlock}
      /\ CallOk(p) /\ PathOk(p)
  BY DEF BlocksTyped, BlocksTypeOK
<1>2. Len(path[p]) \in Nat
  BY <1>1
<1>3. \A k \in 1..Len(todo[p]) : todo[p][k] \in Items
  BY <1>1
<1>. QED BY <1>1, <1>2, <1>3 DEF Items

LEMMA ItemFields == \A b, d, s : /\ Item(b, d, s).blk = b /\ Item(b, d, s).depth = d
                                  /\ Item(b, d, s).slot = s
BY DEF Item

(* What truncate() begins with. *)
LEMMA TruncateIs ==
  ASSUME BlocksTyped, NEW p \in Procs, NEW f \in Files, Truncate(p, f)
  PROVE  \E t \in Seq(Items) :
           /\ t # <<>> /\ todo' = [todo EXCEPT ![p] = t]
           /\ \A k \in 1..Len(t) : \E s \in Slots :
                /\ t[k] = Item(zone[f][s], Depth[s], s) /\ zone[f][s] # NoBlock
                /\ \A j \in 1..Len(t) : t[j].slot = s => j = k
           /\ \A s \in Slots : zone[f][s] # NoBlock => \E k \in 1..Len(t) : t[k].blk = zone[f][s]
<1>. DEFINE S == InUse(zone[f])
<1>1. PICK w \in Orders(S) :
        todo' = [todo EXCEPT ![p] = [k \in DOMAIN w |-> Item(zone[f][w[k]], Depth[w[k]], w[k])]]
  BY DEF Truncate
<1>2. DOMAIN zone[f] = Slots /\ zone[f] \in [Slots -> Blocks \cup {NoBlock}]
  BY DEF BlocksTyped, BlocksTypeOK
<1>3. S \subseteq Slots /\ IsFiniteSet(S) /\ S \subseteq Nat /\ S # {}
  <2>1. S \subseteq Slots
    BY <1>2 DEF InUse
  <2>2. IsFiniteSet(S)
    BY <2>1, FileBlocksConstants, FS_Subset
  <2>3. S # {}
    BY <1>2 DEF Truncate, InUse
  <2>. QED BY <2>1, <2>2, <2>3, FileBlocksConstants
<1>4. /\ w \in Seq(S) /\ Len(w) \in Nat /\ DOMAIN w = 1..Len(w) /\ Len(w) > 0
      /\ \A s \in S : \E k \in 1..Len(w) : w[k] = s
      /\ \A j, k \in 1..Len(w) : w[j] = w[k] => j = k
  BY <1>3, OrdersAre, ZenonT(60)
<1>. DEFINE t == [k \in DOMAIN w |-> Item(zone[f][w[k]], Depth[w[k]], w[k])]
<1>5. \A k \in 1..Len(w) : w[k] \in S
  BY <1>4
<1>6. \A s \in S : Item(zone[f][s], Depth[s], s) \in Items /\ zone[f][s] # NoBlock
  BY <1>2, <1>3, FileBlocksConstants DEF Item, Items, InUse
<1>7. t \in Seq(Items) /\ Len(t) = Len(w) /\ t # <<>>
      /\ \A k \in 1..Len(t) : t[k] = Item(zone[f][w[k]], Depth[w[k]], w[k])
  <2>1. t \in [1..Len(w) -> Items]
    BY <1>4, <1>5, <1>6
  <2>2. t \in Seq(Items) /\ Len(t) = Len(w)
    BY <1>4, <2>1
  <2>. QED BY <1>4, <2>2
<1>. HIDE DEF t, S
<1>8. ASSUME NEW k \in 1..Len(t)
      PROVE  \E s \in Slots : /\ t[k] = Item(zone[f][s], Depth[s], s) /\ zone[f][s] # NoBlock
                              /\ \A j \in 1..Len(t) : t[j].slot = s => j = k
  <2>1. w[k] \in S /\ w[k] \in Slots /\ zone[f][w[k]] # NoBlock
    BY <1>3, <1>5, <1>6, <1>7
  <2>2. \A j \in 1..Len(t) : t[j].slot = w[j]
    BY <1>7, ItemFields
  <2>. QED BY <1>4, <1>7, <2>1, <2>2
<1>9. ASSUME NEW s \in Slots, zone[f][s] # NoBlock PROVE \E k \in 1..Len(t) : t[k].blk = zone[f][s]
  <2>1. s \in S
    BY <1>2, <1>9 DEF S, InUse
  <2>2. PICK k \in 1..Len(w) : w[k] = s
    BY <1>4, <2>1
  <2>. QED BY <1>7, <2>2, ItemFields
<1>. QED BY <1>1, <1>7, <1>8, <1>9 DEF t

(* What is put in the place of an indirect block in the work: what it      *)
(* points to, unless it cannot be read, and itself.                        *)
FromEntries(b, A, d) ==
    \A k \in 1..Len(A) : \E e \in Entries :
        /\ A[k].blk = entries[b][e] /\ A[k].blk # NoBlock /\ A[k].depth = d
        /\ \A j \in 1..Len(A) : A[j].blk = A[k].blk =>
             j = k \/ \E g \in Entries : g # e /\ entries[b][g] = entries[b][e]
NewWork(p, A, i, t) ==
    /\ i.blk = todo[p][1].blk /\ i.depth = 0
    /\ todo' = [todo EXCEPT ![p] = t] /\ Joins(A, i, todo[p], t)
    /\ FromEntries(i.blk, A, todo[p][1].depth - 1)
    /\ \/ /\ refused' = refused
          /\ \A e \in Entries : entries[i.blk][e] # NoBlock =>
               \E k \in 1..Len(A) : A[k].blk = entries[i.blk][e]
       \/ /\ A = <<>>
          /\ refused' = refused \cup (BlocksBelow(todo[p][1]) \ {NoBlock})
LEMMA FreeIndirectIs ==
  ASSUME BlocksTyped, NEW p \in Procs, FreeIndirect(p)
  PROVE  /\ pc[p] = "free" /\ ~overlap /\ todo[p] # <<>> /\ 1 \in 1..Len(todo[p])
         /\ todo[p][1].depth \in 1..2 /\ todo[p][1].blk \in Blocks /\ Len(todo[p]) \in Nat
         /\ UNCHANGED <<zone, entries, zmap, pc, calls, blk, doubled, overlap>>
         /\ \E A \in Seq(Items), i \in Items, t \in Seq(Items) : NewWork(p, A, i, t)
<1>0. PICK h : h = todo[p][1]
  OBVIOUS
<1>. DEFINE S == InUse(entries[h.blk])
            i == [h EXCEPT !.depth = 0]
<1>1. pc[p] = "free" /\ ~overlap /\ todo[p] # <<>>
  BY FileOf DEF FreeIndirect, At, CallOk
<1>2. Len(todo[p]) \in Nat /\ 1 \in 1..Len(todo[p]) /\ Head(todo[p]) = h /\ todo[p] \in Seq(Items)
  BY <1>0, <1>1, FileOf
<1>3. h \in Items /\ h.blk \in Blocks /\ h.depth \in 0..2 /\ h.slot \in Slots \cup {0}
  BY <1>0, <1>2, FileOf DEF Items
<1>4. /\ h.depth > 0
      /\ UNCHANGED <<zone, entries, zmap, pc, calls, blk, doubled, overlap>>
      /\ \/ /\ \E w \in Orders(S) :
                 todo' = [todo EXCEPT ![p] =
                   [k \in DOMAIN w |-> Item(entries[h.blk][w[k]], h.depth - 1, 0)] \o <<i>> \o Tail(todo[p])]
            /\ UNCHANGED refused
         \/ /\ todo' = [todo EXCEPT ![p] = <<i>> \o Tail(todo[p])]
            /\ refused' = refused \cup (BlocksBelow(h) \ {NoBlock})
  BY <1>2 DEF FreeIndirect, Itself
<1>5. i \in Items /\ i.blk = h.blk /\ i.depth = 0
  BY <1>3 DEF Items
<1>6. h.depth \in 1..2 /\ h.depth - 1 \in 0..2
  <2>1. \A d \in 0..2 : d > 0 => d \in 1..2 /\ d - 1 \in 0..2
    OBVIOUS
  <2>. QED BY <1>3, <1>4, <2>1
<1>7. entries[h.blk] \in [Entries -> Blocks \cup {NoBlock}] /\ DOMAIN entries[h.blk] = Entries
  BY <1>3 DEF BlocksTyped, BlocksTypeOK
<1>8. ASSUME NEW w \in Orders(S), UNCHANGED refused,
             todo' = [todo EXCEPT ![p] =
               [k \in DOMAIN w |-> Item(entries[h.blk][w[k]], h.depth - 1, 0)] \o <<i>> \o Tail(todo[p])]
      PROVE  \E A \in Seq(Items), t \in Seq(Items) : NewWork(p, A, i, t)
  <2>. DEFINE A == [k \in DOMAIN w |-> Item(entries[h.blk][w[k]], h.depth - 1, 0)]
              t == A \o <<i>> \o Tail(todo[p])
  <2>1. S \subseteq Entries /\ IsFiniteSet(S) /\ S \subseteq Nat
    <3>1. S \subseteq Entries
      BY <1>7 DEF InUse
    <3>. QED BY <3>1, FileBlocksConstants, FS_Subset
  <2>2. /\ w \in Seq(S) /\ Len(w) \in Nat /\ DOMAIN w = 1..Len(w)
        /\ \A s \in S : \E k \in 1..Len(w) : w[k] = s
        /\ \A j, k \in 1..Len(w) : w[j] = w[k] => j = k
    <3>. HIDE DEF S
    <3>. QED BY <2>1, OrdersAre, ZenonT(60)
  <2>3. \A k \in 1..Len(w) : w[k] \in S
    BY <2>2
  <2>4. \A e \in S : /\ Item(entries[h.blk][e], h.depth - 1, 0) \in Items
                     /\ entries[h.blk][e] # NoBlock /\ e \in Entries
    BY <1>6, <1>7, <2>1 DEF Item, Items, InUse
  <2>5. A \in Seq(Items) /\ Len(A) = Len(w)
        /\ \A k \in 1..Len(A) : A[k] = Item(entries[h.blk][w[k]], h.depth - 1, 0)
    <3>1. A \in [1..Len(w) -> Items]
      BY <2>2, <2>3, <2>4
    <3>2. A \in Seq(Items) /\ Len(A) = Len(w)
      BY <2>2, <3>1
    <3>. QED BY <2>2, <3>2
  <2>. HIDE DEF A, S, i
  <2>6. Joins(A, i, todo[p], t)
    BY <1>1, <1>2, <1>5, <2>5, Joined
  <2>7. ASSUME NEW k \in 1..Len(A)
        PROVE  \E e \in Entries :
                 /\ A[k].blk = entries[i.blk][e] /\ A[k].blk # NoBlock
                 /\ A[k].depth = h.depth - 1
                 /\ \A j \in 1..Len(A) : A[j].blk = A[k].blk =>
                      j = k \/ \E g \in Entries : g # e /\ entries[i.blk][g] = entries[i.blk][e]
    <3>1. \A j \in 1..Len(A) : A[j].blk = entries[h.blk][w[j]] /\ A[j].depth = h.depth - 1
      BY <2>5, ItemFields
    <3>2. \A j \in 1..Len(A) : w[j] \in Entries /\ entries[h.blk][w[j]] # NoBlock
      BY <2>3, <2>4, <2>5
    <3>3. \A j \in 1..Len(A) : A[j].blk = A[k].blk =>
            j = k \/ (w[j] \in Entries /\ w[j] # w[k] /\ entries[i.blk][w[j]] = entries[i.blk][w[k]])
      BY <1>5, <2>2, <2>5, <3>1, <3>2
    <3>. QED BY <1>5, <3>1, <3>2, <3>3
  <2>8. ASSUME NEW e \in Entries, entries[i.blk][e] # NoBlock
        PROVE  \E k \in 1..Len(A) : A[k].blk = entries[i.blk][e]
    <3>1. e \in S
      BY <1>5, <1>7, <2>8 DEF S, InUse
    <3>2. PICK k \in 1..Len(w) : w[k] = e
      BY <2>2, <3>1
    <3>. QED BY <1>5, <2>5, <3>2, ItemFields
  <2>9. todo' = [todo EXCEPT ![p] = t]
    BY <1>8 DEF A
  <2>. HIDE DEF t
  <2>10. NewWork(p, A, i, t)
    BY <1>0, <1>5, <1>8, <2>6, <2>7, <2>8, <2>9 DEF NewWork, FromEntries
  <2>11. t \in Seq(Items)
    BY <2>6 DEF Joins
  <2>. QED BY <2>5, <2>10, <2>11
<1>9. ASSUME todo' = [todo EXCEPT ![p] = <<i>> \o Tail(todo[p])],
             refused' = refused \cup (BlocksBelow(h) \ {NoBlock})
      PROVE  \E A \in Seq(Items), t \in Seq(Items) : NewWork(p, A, i, t)
  <2>1. <<>> \in Seq(Items) /\ Len(<<>>) = 0
    OBVIOUS
  <2>2. <<>> \o <<i>> = <<i>>
    BY <1>5
  <2>. DEFINE t == <<>> \o <<i>> \o Tail(todo[p])
  <2>3. todo' = [todo EXCEPT ![p] = t]
    BY <1>9, <2>2
  <2>. HIDE DEF i
  <2>4. Joins(<<>>, i, todo[p], t)
    BY <1>1, <1>2, <1>5, <2>1, Joined
  <2>. HIDE DEF t
  <2>5. FromEntries(i.blk, <<>>, h.depth - 1)
    BY <2>1 DEF FromEntries
  <2>6. NewWork(p, <<>>, i, t)
    BY <1>0, <1>5, <1>9, <2>3, <2>4, <2>5 DEF NewWork
  <2>7. t \in Seq(Items)
    BY <2>4 DEF Joins
  <2>. QED BY <2>1, <2>6, <2>7
<1>10. \E A \in Seq(Items), t \in Seq(Items) : NewWork(p, A, i, t)
  BY <1>4, <1>8, <1>9
<1>. HIDE DEF i
<1>. QED BY <1>0, <1>1, <1>2, <1>3, <1>4, <1>5, <1>6, <1>10
-----------------------------------------------------------------------------
(* Types *)

LEMMA CallStays ==
  ASSUME BlocksTyped, NEW q \in Procs, pc'[q] = pc[q], op'[q] = op[q], file'[q] = file[q],
         path'[q] = path[q], at'[q] = at[q], blk'[q] = blk[q], todo'[q] = todo[q]
  PROVE  CallOk(q)' /\ PathOk(q)'
BY DEF BlocksTyped, CallOk, PathOk

LEMMA CallReturns ==
  ASSUME BlocksTyped, NEW p \in Procs, Return(p), todo'[p] = <<>>
  PROVE  /\ CallOk(p)' /\ PathOk(p)'
         /\ pc' \in [Procs -> Awake \cup {"user", "new", "indirect", "data", "free"}]
         /\ op' \in [Procs -> {"none", "read", "write", "truncate"}]
         /\ file' \in [Procs -> Files \cup {NoFile}]
         /\ at' \in [Procs -> Blocks \cup {Inode}]
         /\ blk' \in [Procs -> Blocks \cup {NoBlock}]
         /\ path' \in [Procs -> Seq(Nat)]
         /\ \A q \in Procs \ {p} :
              /\ pc'[q] = pc[q] /\ op'[q] = op[q] /\ file'[q] = file[q] /\ path'[q] = path[q]
              /\ at'[q] = at[q] /\ blk'[q] = blk[q]
         /\ pc'[p] = "user" /\ op'[p] = "none"
<1>1. <<>> \in Seq(Nat)
  OBVIOUS
<1>2. /\ pc'[p] = "user" /\ op'[p] = "none" /\ at'[p] = Inode
  BY DEF Return, Goto, BlocksTyped, BlocksTypeOK
<1>3. CallOk(p)' /\ PathOk(p)'
  BY <1>2 DEF CallOk, PathOk, Following
<1>. QED BY <1>1, <1>2, <1>3 DEF Return, Goto, BlocksTyped, BlocksTypeOK

LEMMA PathsAre ==
  ASSUME NEW w \in Paths
  PROVE  /\ w \in Seq(Nat) /\ Len(w) > 0 /\ w[1] \in Slots /\ Len(w) = 1 + Depth[w[1]]
         /\ \A k \in 2..Len(w) : w[k] \in Entries
<1>0. PICK s \in Slots : w \in {<<s>> \o v : v \in [1..Depth[s] -> Entries]}
  BY DEF Paths
<1>1. PICK v \in [1..Depth[s] -> Entries] : w = <<s>> \o v
  BY <1>0
<1>2. Depth[s] \in Nat /\ s \in Nat /\ Entries \subseteq Nat
  BY FileBlocksConstants
<1>3. v \in Seq(Nat) /\ Len(v) = Depth[s]
  <2>1. v \in [1..Depth[s] -> Nat]
    BY <1>1, <1>2
  <2>. QED BY <1>2, <2>1
<1>4. <<s>> \in Seq(Nat) /\ Len(<<s>>) = 1 /\ <<s>>[1] = s
  BY <1>2
<1>5. /\ w \in Seq(Nat) /\ Len(w) = 1 + Depth[s]
      /\ \A k \in 1..1 + Depth[s] : w[k] = IF k <= 1 THEN s ELSE v[k - 1]
  BY <1>1, <1>3, <1>4, ConcatProperties
<1>6. \A k \in 2..1 + Depth[s] : k - 1 \in 1..Depth[s] /\ w[k] = v[k - 1]
  BY <1>2, <1>5
<1>7. \A k \in 2..Len(w) : w[k] \in Entries
  BY <1>1, <1>5, <1>6
<1>8. w[1] = s /\ Len(w) > 0
  BY <1>2, <1>5
<1>. QED BY <1>2, <1>5, <1>7, <1>8

LEMMA PointerIs ==
  ASSUME BlocksTyped, NEW p \in Procs, pc[p] \in Following
  PROVE  /\ Head(path[p]) = path[p][1] /\ Pointer(p) \in Blocks \cup {NoBlock} /\ file[p] \in Files
         /\ Len(path[p]) \in Nat /\ Len(path[p]) > 0
         /\ at[p] = Inode => /\ path[p][1] \in Slots /\ Pointer(p) = zone[file[p]][path[p][1]]
                             /\ Len(path[p]) = 1 + Depth[path[p][1]]
         /\ at[p] # Inode => /\ at[p] \in Blocks /\ path[p][1] \in Entries
                             /\ Pointer(p) = entries[at[p]][path[p][1]]
<1>1. /\ CallOk(p) /\ PathOk(p) /\ path[p] \in Seq(Nat) /\ Len(path[p]) \in Nat
      /\ at[p] \in Blocks \cup {Inode}
  BY FileOf
<1>2. Head(path[p]) = path[p][1] /\ Len(path[p]) > 0
  BY <1>1 DEF PathOk
<1>3. file[p] \in Files
  BY <1>1 DEF CallOk, Following
<1>4. CASE at[p] = Inode
  BY <1>1, <1>2, <1>3, <1>4, FileOf DEF Pointer, PathOk
<1>5. CASE at[p] # Inode
  BY <1>1, <1>2, <1>3, <1>5, FileOf DEF Pointer, PathOk
<1>. QED BY <1>1, <1>2, <1>3, <1>4, <1>5

LEMMA TypedBegin ==
  ASSUME BlocksTyped, NEW p \in Procs, NEW f \in Files, NEW w \in Paths, NEW c \in {"read", "write"},
         Begin(p, f, w, c)
  PROVE  BlocksTyped'
<1>1. /\ w \in Seq(Nat) /\ Len(w) > 0 /\ w[1] \in Slots /\ Len(w) = 1 + Depth[w[1]]
      /\ \A k \in 2..Len(w) : w[k] \in Entries
  BY PathsAre
<1>2. /\ pc[p] = "user" /\ CallOk(p)
      /\ pc' = [pc EXCEPT ![p] = "walk"] /\ op' = [op EXCEPT ![p] = c] /\ file' = [file EXCEPT ![p] = f]
      /\ path' = [path EXCEPT ![p] = w] /\ overlap' \in BOOLEAN
      /\ UNCHANGED <<zone, entries, zmap, at, blk, todo, refused, doubled>>
  BY FileOf DEF Begin, At, Goto
<1>3. BlocksTypeOK' /\ path' \in [Procs -> Seq(Nat)] /\ todo' \in [Procs -> Seq(Items)]
  BY <1>1, <1>2 DEF BlocksTyped, BlocksTypeOK, Awake
<1>4. /\ pc'[p] = "walk" /\ op'[p] = c /\ file'[p] = f /\ path'[p] = w /\ at'[p] = Inode
      /\ todo'[p] = <<>>
  BY <1>2 DEF BlocksTyped, BlocksTypeOK, CallOk, Following
<1>5. CallOk(p)' /\ PathOk(p)'
  BY <1>1, <1>4 DEF CallOk, PathOk, Following
<1>6. \A q \in Procs \ {p} : CallOk(q)' /\ PathOk(q)'
  BY <1>2, CallStays DEF BlocksTyped, BlocksTypeOK
<1>. QED BY <1>3, <1>5, <1>6 DEF BlocksTyped

LEMMA TypedWalk ==
  ASSUME BlocksTyped, NEW p \in Procs, Walk(p)
  PROVE  BlocksTyped'
<1>1. /\ pc[p] = "walk" /\ CallOk(p) /\ PathOk(p) /\ Pointer(p) \in Blocks \cup {NoBlock}
      /\ UNCHANGED <<zone, entries, todo, refused, doubled, overlap>> /\ todo[p] = <<>>
  <2>1. pc[p] = "walk" /\ CallOk(p) /\ PathOk(p)
    BY FileOf DEF Walk, At
  <2>. QED BY <2>1, PointerIs DEF Walk, CallOk, Following
<1>2. ASSUME UNCHANGED <<op, file, path, at>>, NEW b \in Blocks, blk' = [blk EXCEPT ![p] = b],
             NEW l \in {"found", "new"}, pc' = [pc EXCEPT ![p] = l], l = "new" => op[p] = "write",
             zmap' \subseteq Blocks
      PROVE  BlocksTyped'
  <2>1. BlocksTypeOK' /\ path' \in [Procs -> Seq(Nat)] /\ todo' \in [Procs -> Seq(Items)]
    BY <1>1, <1>2 DEF BlocksTyped, BlocksTypeOK, Awake
  <2>2. pc'[p] = l /\ blk'[p] = b
    BY <1>2 DEF BlocksTyped, BlocksTypeOK
  <2>3. CallOk(p)' /\ PathOk(p)'
    BY <1>1, <1>2, <2>2 DEF CallOk, PathOk, Following
  <2>4. \A q \in Procs \ {p} : CallOk(q)' /\ PathOk(q)'
    BY <1>1, <1>2, CallStays DEF BlocksTyped, BlocksTypeOK
  <2>. QED BY <2>1, <2>3, <2>4 DEF BlocksTyped
<1>3. CASE Pointer(p) # NoBlock /\ blk' = [blk EXCEPT ![p] = Pointer(p)]
           /\ Goto(p, "found") /\ UNCHANGED <<zmap, calls>>
  <2>1. PICK b \in Blocks : b = Pointer(p)
    BY <1>1, <1>3
  <2>2. zmap' \subseteq Blocks
    BY <1>3 DEF BlocksTyped, BlocksTypeOK
  <2>3. blk' = [blk EXCEPT ![p] = b] /\ pc' = [pc EXCEPT ![p] = "found"] /\ UNCHANGED <<op, file, path, at>>
    BY <1>3, <2>1 DEF Goto, calls
  <2>4. "found" \in {"found", "new"} /\ ("found" = "new" => op[p] = "write")
    OBVIOUS
  <2>. QED BY <1>2, <2>2, <2>3, <2>4
<1>4. ASSUME op[p] = "write", NEW b \in Blocks \ zmap, Marked(b), blk' = [blk EXCEPT ![p] = b],
             Goto(p, "new"), UNCHANGED calls
      PROVE  BlocksTyped'
  <2>1. zmap' \subseteq Blocks
    BY <1>4 DEF BlocksTyped, BlocksTypeOK, Marked
  <2>. QED BY <1>2, <1>4, <2>1 DEF Goto, calls
<1>5. CASE Return(p) /\ UNCHANGED zmap
  <2>1. todo'[p] = <<>>
    BY <1>1
  <2>2. BlocksTypeOK' /\ path' \in [Procs -> Seq(Nat)] /\ todo' \in [Procs -> Seq(Items)]
    BY <1>1, <1>5, <2>1, CallReturns DEF BlocksTyped, BlocksTypeOK
  <2>3. \A q \in Procs : CallOk(q)' /\ PathOk(q)'
    BY <1>1, <1>5, <2>1, CallReturns, CallStays
  <2>. QED BY <2>2, <2>3 DEF BlocksTyped
<1>. QED BY <1>1, <1>3, <1>4, <1>5 DEF Walk

LEMMA TypedNewBlock ==
  ASSUME BlocksTyped, NEW p \in Procs, NewBlock(p)
  PROVE  BlocksTyped'
<1>1. pc[p] = "new" /\ CallOk(p) /\ blk[p] \in Blocks /\ file[p] \in Files /\ op[p] = "write"
  <2>1. pc[p] = "new" /\ CallOk(p)
    BY FileOf DEF NewBlock, At
  <2>. QED BY <2>1 DEF CallOk
<1>2. pc[p] \in Following
  BY <1>1 DEF Following
<1>3. /\ Head(path[p]) = path[p][1]
      /\ at[p] = Inode => path[p][1] \in Slots
      /\ at[p] # Inode => at[p] \in Blocks /\ path[p][1] \in Entries
  BY <1>2, PointerIs
<1>4. /\ zone' = IF at[p] # Inode THEN zone ELSE [zone EXCEPT ![file[p]][path[p][1]] = blk[p]]
      /\ entries' = IF at[p] = Inode THEN Cleared(blk[p])
                    ELSE [Cleared(blk[p]) EXCEPT ![at[p]][path[p][1]] = blk[p]]
      /\ doubled' \in BOOLEAN /\ pc' = [pc EXCEPT ![p] = "found"]
      /\ UNCHANGED <<zmap, op, file, path, at, blk, todo, refused, overlap>>
  BY <1>3 DEF NewBlock, Goto, calls
<1>5. zone' \in [Files -> [Slots -> Blocks \cup {NoBlock}]]
  BY <1>1, <1>3, <1>4 DEF BlocksTyped, BlocksTypeOK
<1>6. entries' \in [Blocks -> [Entries -> Blocks \cup {NoBlock}]]
  <2>1. Zeroes \in [Entries -> Blocks \cup {NoBlock}]
    BY DEF Zeroes
  <2>2. Cleared(blk[p]) \in [Blocks -> [Entries -> Blocks \cup {NoBlock}]]
    BY <1>1, <2>1 DEF Cleared, BlocksTyped, BlocksTypeOK
  <2>. HIDE DEF Zeroes
  <2>. QED BY <1>1, <1>3, <1>4, <2>2
<1>7. BlocksTypeOK' /\ path' \in [Procs -> Seq(Nat)] /\ todo' \in [Procs -> Seq(Items)]
  BY <1>4, <1>5, <1>6 DEF BlocksTyped, BlocksTypeOK, Awake
<1>8. pc'[p] = "found"
  BY <1>4 DEF BlocksTyped, BlocksTypeOK
<1>9. CallOk(p)' /\ PathOk(p)'
  BY <1>1, <1>2, <1>4, <1>8 DEF BlocksTyped, CallOk, PathOk, Following
<1>10. \A q \in Procs \ {p} : CallOk(q)' /\ PathOk(q)'
  BY <1>4, CallStays DEF BlocksTyped, BlocksTypeOK
<1>. QED BY <1>7, <1>9, <1>10 DEF BlocksTyped

LEMMA TypedFound ==
  ASSUME BlocksTyped, NEW p \in Procs, Found(p)
  PROVE  BlocksTyped'
<1>1. PICK l \in {"data", "indirect"} :
        pc' = [pc EXCEPT ![p] = l] /\ (l = "indirect" => Len(path[p]) # 1)
  BY DEF Found, Goto
<1>2. pc[p] = "found" /\ CallOk(p) /\ PathOk(p) /\ UNCHANGED <<op, file, path, at>>
      /\ UNCHANGED <<zone, entries, zmap, blk, todo, refused, doubled, overlap>>
  BY FileOf DEF Found, At, calls
<1>3. BlocksTypeOK' /\ path' \in [Procs -> Seq(Nat)] /\ todo' \in [Procs -> Seq(Items)]
  BY <1>1, <1>2 DEF BlocksTyped, BlocksTypeOK
<1>4. pc'[p] = l
  BY <1>1 DEF BlocksTyped, BlocksTypeOK
<1>5. CallOk(p)' /\ PathOk(p)'
  <2>1. CallOk(p)'
    BY <1>1, <1>2, <1>4 DEF CallOk, Following
  <2>2. Len(path[p]) \in Nat /\ (l = "indirect" => Len(path[p]) # 1)
    BY <1>1, FileOf
  <2>3. Len(path[p]) > 0 /\ (l = "indirect" => Len(path[p]) > 1)
    <3>1. Len(path[p]) > 0
      BY <1>2 DEF PathOk, Following
    <3>2. \A n \in Nat : n > 0 /\ n # 1 => n > 1
      OBVIOUS
    <3>. QED BY <2>2, <3>1, <3>2, Zenon
  <2>4. PathOk(p)'
    BY <1>2, <1>4, <2>3 DEF PathOk, Following
  <2>. QED BY <2>1, <2>4
<1>6. \A q \in Procs \ {p} : CallOk(q)' /\ PathOk(q)'
  BY <1>1, <1>2, CallStays DEF BlocksTyped, BlocksTypeOK
<1>. QED BY <1>3, <1>5, <1>6 DEF BlocksTyped

\* what a call that returns without having changed anything leaves
LEMMA TypedReturn ==
  ASSUME BlocksTyped, NEW p \in Procs, Return(p), pc[p] # "free",
         UNCHANGED <<zone, entries, zmap, todo, refused, doubled, overlap>>
  PROVE  BlocksTyped'
<1>1. todo'[p] = <<>>
  BY FileOf DEF CallOk
<1>2. BlocksTypeOK' /\ path' \in [Procs -> Seq(Nat)] /\ todo' \in [Procs -> Seq(Items)]
  BY <1>1, CallReturns DEF BlocksTyped, BlocksTypeOK
<1>3. \A q \in Procs : CallOk(q)' /\ PathOk(q)'
  BY <1>1, CallReturns, CallStays
<1>. QED BY <1>2, <1>3 DEF BlocksTyped

LEMMA Deeper ==
  ASSUME NEW w \in Seq(Nat), Len(w) > 1, \A k \in 2..Len(w) : w[k] \in Entries
  PROVE  /\ Tail(w) \in Seq(Nat) /\ Len(Tail(w)) = Len(w) - 1 /\ Len(Tail(w)) > 0
         /\ \A k \in 1..Len(Tail(w)) : Tail(w)[k] \in Entries
<1>1. w # <<>> /\ Len(w) \in Nat
  OBVIOUS
<1>2. /\ Tail(w) \in Seq(Nat) /\ Len(Tail(w)) = Len(w) - 1
      /\ \A k \in 1..Len(Tail(w)) : Tail(w)[k] = w[k + 1]
  BY <1>1, HeadTailProperties
<1>3. \A k \in 1..Len(Tail(w)) : k + 1 \in 2..Len(w)
  BY <1>1, <1>2
<1>. QED BY <1>1, <1>2, <1>3

LEMMA TypedIndirect ==
  ASSUME BlocksTyped, NEW p \in Procs, Indirect(p)
  PROVE  BlocksTyped'
<1>1. pc[p] = "indirect" /\ CallOk(p) /\ PathOk(p) /\ blk[p] \in Blocks /\ path[p] \in Seq(Nat)
      /\ UNCHANGED <<zone, entries, zmap, todo, refused, doubled, overlap>>
  <2>1. pc[p] = "indirect" /\ CallOk(p) /\ PathOk(p) /\ path[p] \in Seq(Nat)
    BY FileOf DEF Indirect, At
  <2>. QED BY <2>1 DEF Indirect, CallOk
<1>2. CASE Return(p)
  BY <1>1, <1>2, TypedReturn
<1>3. ASSUME at' = [at EXCEPT ![p] = blk[p]], path' = [path EXCEPT ![p] = Tail(path[p])],
             Goto(p, "walk"), UNCHANGED <<op, file, blk>>
      PROVE  BlocksTyped'
  <2>. DEFINE w == path[p]
  <2>1. /\ Tail(w) \in Seq(Nat) /\ Len(Tail(w)) > 0
        /\ \A k \in 1..Len(Tail(w)) : Tail(w)[k] \in Entries
    BY <1>1, Deeper DEF PathOk, Following
  <2>2. BlocksTypeOK' /\ path' \in [Procs -> Seq(Nat)] /\ todo' \in [Procs -> Seq(Items)]
    BY <1>1, <1>3, <2>1 DEF BlocksTyped, BlocksTypeOK, Goto, Awake
  <2>3. pc'[p] = "walk" /\ at'[p] = blk[p] /\ path'[p] = Tail(w)
    BY <1>3 DEF BlocksTyped, BlocksTypeOK, Goto
  <2>4. blk[p] # Inode
    BY <1>1, FileBlocksConstants
  <2>5. CallOk(p)'
    BY <1>1, <1>3, <2>3 DEF CallOk, Following
  <2>6. PathOk(p)'
    <3>0. Len(Tail(w)) \in Nat
      BY <2>1
    <3>. HIDE DEF w
    <3>1. Tail(w)[1] \in Entries /\ \A k \in 2..Len(Tail(w)) : Tail(w)[k] \in Entries
      BY <2>1, <3>0
    <3>. USE DEF w
    <3>. QED BY <2>1, <2>3, <2>4, <3>1 DEF PathOk
  <2>7. \A q \in Procs \ {p} : CallOk(q)' /\ PathOk(q)'
    BY <1>1, <1>3, CallStays DEF BlocksTyped, BlocksTypeOK, Goto
  <2>. QED BY <2>2, <2>5, <2>6, <2>7 DEF BlocksTyped
<1>. QED BY <1>2, <1>3 DEF Indirect

LEMMA TypedData ==
  ASSUME BlocksTyped, NEW p \in Procs, Data(p)
  PROVE  BlocksTyped'
BY TypedReturn DEF Data, At

LEMMA TypedTruncate ==
  ASSUME BlocksTyped, NEW p \in Procs, NEW f \in Files, Truncate(p, f)
  PROVE  BlocksTyped'
<1>1. /\ pc[p] = "user" /\ CallOk(p)
      /\ pc' = [pc EXCEPT ![p] = "free"] /\ op' = [op EXCEPT ![p] = "truncate"]
      /\ file' = [file EXCEPT ![p] = f] /\ overlap' \in BOOLEAN
      /\ UNCHANGED <<zone, entries, zmap, path, at, blk, refused, doubled>>
  BY FileOf DEF Truncate, At, Goto, Meets
<1>2. PICK t \in Seq(Items) : t # <<>> /\ todo' = [todo EXCEPT ![p] = t]
  BY TruncateIs
<1>3. BlocksTypeOK' /\ path' \in [Procs -> Seq(Nat)] /\ todo' \in [Procs -> Seq(Items)]
  BY <1>1, <1>2 DEF BlocksTyped, BlocksTypeOK, Awake
<1>4. pc'[p] = "free" /\ op'[p] = "truncate" /\ file'[p] = f /\ todo'[p] = t /\ at'[p] = at[p]
  BY <1>1, <1>2 DEF BlocksTyped, BlocksTypeOK
<1>5. CallOk(p)' /\ PathOk(p)'
  BY <1>1, <1>2, <1>4 DEF CallOk, PathOk, Following
<1>6. \A q \in Procs \ {p} : CallOk(q)' /\ PathOk(q)'
  BY <1>1, <1>2, CallStays DEF BlocksTyped, BlocksTypeOK
<1>. QED BY <1>3, <1>5, <1>6 DEF BlocksTyped

\* what there is below an item of the work
LEMMA BelowTyped ==
  ASSUME BlocksTyped, NEW h, h.blk \in Blocks, h.depth \in 0..2
  PROVE  BlocksBelow(h) \ {NoBlock} \subseteq Blocks
<1>. DEFINE Typed(S) == \A j \in S : j.blk \in Blocks \cup {NoBlock}
<1>1. ASSUME NEW S, Typed(S) PROVE Typed(Below(S))
  <2>1. SUFFICES ASSUME NEW j \in Below(S) PROVE j.blk \in Blocks \cup {NoBlock}
    OBVIOUS
  <2>2. PICK i \in S, e \in Entries : /\ i.blk # NoBlock
          /\ j = [place |-> <<i.blk, e>>, blk |-> entries[i.blk][e], depth |-> i.depth - 1]
    BY <2>1 DEF Below
  <2>3. entries[i.blk][e] \in Blocks \cup {NoBlock}
    BY <1>1, <2>2 DEF BlocksTyped, BlocksTypeOK
  <2>. QED BY <2>2, <2>3
<1>2. Typed({h})
  OBVIOUS
<1>. HIDE DEF Typed
<1>3. Typed(Below({h})) /\ Typed(Below(Below({h})))
  BY <1>1, <1>2
<1>. QED BY <1>3 DEF Typed, BlocksBelow

LEMMA TypedFreeIndirect ==
  ASSUME BlocksTyped, NEW p \in Procs, FreeIndirect(p)
  PROVE  BlocksTyped'
<1>1. /\ pc[p] = "free" /\ todo[p] # <<>> /\ todo[p][1].depth \in 1..2 /\ todo[p][1].blk \in Blocks
      /\ UNCHANGED <<zone, entries, zmap, pc, op, file, path, at, blk, doubled, overlap>>
  BY FreeIndirectIs DEF calls
<1>2. PICK A \in Seq(Items), i \in Items, t \in Seq(Items) : NewWork(p, A, i, t)
  BY FreeIndirectIs
<1>3. todo' = [todo EXCEPT ![p] = t] /\ t # <<>>
  BY <1>2 DEF NewWork, Joins
<1>4. refused' \subseteq Blocks
  <2>1. refused \subseteq Blocks
    BY DEF BlocksTyped, BlocksTypeOK
  <2>2. BlocksBelow(todo[p][1]) \ {NoBlock} \subseteq Blocks
    BY <1>1, BelowTyped
  <2>. QED BY <1>2, <2>1, <2>2 DEF NewWork
<1>5. BlocksTypeOK' /\ path' \in [Procs -> Seq(Nat)] /\ todo' \in [Procs -> Seq(Items)]
  BY <1>1, <1>3, <1>4 DEF BlocksTyped, BlocksTypeOK
<1>6. CallOk(p)' /\ PathOk(p)'
  BY <1>1, <1>3, FileOf DEF BlocksTyped, CallOk, PathOk
<1>7. \A q \in Procs \ {p} : CallOk(q)' /\ PathOk(q)'
  BY <1>1, <1>3, CallStays DEF BlocksTyped
<1>. QED BY <1>5, <1>6, <1>7 DEF BlocksTyped

(* A block is given back, or left over, and the next one is next. *)
LEMMA FreeBlockIs ==
  ASSUME BlocksTyped, NEW p \in Procs, FreeBlock(p)
  PROVE  /\ pc[p] = "free" /\ op[p] = "truncate" /\ ~overlap /\ todo[p] # <<>> /\ file[p] \in Files
         /\ todo[p][1] \in Items /\ todo[p][1].depth = 0 /\ todo[p][1].blk \in Blocks
         /\ Len(todo[p]) \in Nat /\ Len(todo[p]) > 0
         /\ \/ zmap' = zmap \ {todo[p][1].blk} /\ UNCHANGED refused
            \/ refused' = refused \cup {todo[p][1].blk} /\ UNCHANGED zmap
         /\ UNCHANGED <<entries, doubled, overlap>>
         /\ \E t \in Seq(Items) :
              /\ todo' = [todo EXCEPT ![p] = t] /\ Len(t) = Len(todo[p]) - 1
              /\ \A k \in 1..Len(t) : k + 1 \in 1..Len(todo[p]) /\ t[k] = todo[p][k + 1]
              /\ t = <<>> => /\ Return(p)
                             /\ zone' = [zone EXCEPT ![file[p]] = [s \in Slots |-> NoBlock]]
              /\ t # <<>> => /\ UNCHANGED <<pc, op, file, path, at, blk>>
                             /\ \/ zone' = zone
                                \/ \E s \in Slots : zone' = [zone EXCEPT ![file[p]][s] = NoBlock]
<1>. DEFINE t == Tail(todo[p])
<1>1. pc[p] = "free" /\ ~overlap /\ todo[p] # <<>> /\ op[p] = "truncate" /\ file[p] \in Files
  BY FileOf DEF FreeBlock, At, CallOk
<1>2. /\ Len(todo[p]) \in Nat /\ Len(todo[p]) > 0 /\ Head(todo[p]) = todo[p][1]
      /\ todo[p] \in Seq(Items) /\ todo[p][1] \in Items
  <2>1. todo[p] \in Seq(Items)
    BY FileOf
  <2>. QED BY <1>1, <2>1
<1>3. todo[p][1].blk \in Blocks /\ todo[p][1].slot \in Slots \cup {0}
  BY <1>2 DEF Items
<1>4. /\ t \in Seq(Items) /\ Len(t) = Len(todo[p]) - 1
      /\ \A k \in 1..Len(t) : t[k] = todo[p][k + 1]
  BY <1>1, <1>2, HeadTailProperties
<1>5. \A k \in 1..Len(t) : k + 1 \in 1..Len(todo[p])
  BY <1>2, <1>4
<1>6. /\ todo[p][1].depth = 0 /\ UNCHANGED <<entries, doubled, overlap>>
      /\ \/ zmap' = zmap \ {todo[p][1].blk} /\ UNCHANGED refused
         \/ refused' = refused \cup {todo[p][1].blk} /\ UNCHANGED zmap
      /\ Proceed(p, t, todo[p][1].slot)
  BY <1>2 DEF FreeBlock
<1>. HIDE DEF t
<1>7. /\ todo' = [todo EXCEPT ![p] = t]
      /\ t = <<>> => /\ Return(p)
                     /\ zone' = [zone EXCEPT ![file[p]] = [s \in Slots |-> NoBlock]]
      /\ t # <<>> => /\ UNCHANGED <<pc, op, file, path, at, blk>>
                     /\ \/ zone' = zone
                        \/ \E s \in Slots : zone' = [zone EXCEPT ![file[p]][s] = NoBlock]
  <2>1. CASE t = <<>>
    BY <1>6, <2>1 DEF Proceed
  <2>2. CASE t # <<>>
    BY <1>3, <1>6, <2>2 DEF Proceed, calls
  <2>. QED BY <2>1, <2>2
<1>. QED BY <1>1, <1>2, <1>3, <1>4, <1>5, <1>6, <1>7

LEMMA TypedFreeBlock ==
  ASSUME BlocksTyped, NEW p \in Procs, FreeBlock(p)
  PROVE  BlocksTyped'
<1>1. /\ pc[p] = "free" /\ todo[p] # <<>> /\ todo[p][1].blk \in Blocks /\ file[p] \in Files
      /\ \/ zmap' = zmap \ {todo[p][1].blk} /\ UNCHANGED refused
         \/ refused' = refused \cup {todo[p][1].blk} /\ UNCHANGED zmap
      /\ UNCHANGED <<entries, doubled, overlap>>
  BY FreeBlockIs
<1>2. PICK t \in Seq(Items) :
              /\ todo' = [todo EXCEPT ![p] = t]
              /\ t = <<>> => /\ Return(p)
                             /\ zone' = [zone EXCEPT ![file[p]] = [s \in Slots |-> NoBlock]]
              /\ t # <<>> => /\ UNCHANGED <<pc, op, file, path, at, blk>>
                             /\ \/ zone' = zone
                                \/ \E s \in Slots : zone' = [zone EXCEPT ![file[p]][s] = NoBlock]
  BY FreeBlockIs
<1>3. zmap' \subseteq Blocks /\ refused' \subseteq Blocks /\ todo' \in [Procs -> Seq(Items)]
      /\ entries' \in [Blocks -> [Entries -> Blocks \cup {NoBlock}]]
      /\ doubled' \in BOOLEAN /\ overlap' \in BOOLEAN /\ todo'[p] = t
  BY <1>1, <1>2 DEF BlocksTyped, BlocksTypeOK
<1>4. zone' \in [Files -> [Slots -> Blocks \cup {NoBlock}]]
  <2>0. zone \in [Files -> [Slots -> Blocks \cup {NoBlock}]]
    BY DEF BlocksTyped, BlocksTypeOK
  <2>. DEFINE Z == [s \in Slots |-> NoBlock]
  <2>00. Z \in [Slots -> Blocks \cup {NoBlock}]
    OBVIOUS
  <2>1. CASE t = <<>>
    <3>1. zone' = [zone EXCEPT ![file[p]] = Z]
      BY <1>2, <2>1
    <3>. HIDE DEF Z
    <3>. QED BY <1>1, <2>0, <2>00, <3>1
  <2>2. CASE t # <<>>
    <3>1. CASE zone' = zone
      BY <2>0, <3>1
    <3>2. ASSUME NEW s \in Slots, zone' = [zone EXCEPT ![file[p]][s] = NoBlock]
          PROVE  zone' \in [Files -> [Slots -> Blocks \cup {NoBlock}]]
      <4>1. zone[file[p]] \in [Slots -> Blocks \cup {NoBlock}]
        BY <1>1, <2>0
      <4>2. [zone[file[p]] EXCEPT ![s] = NoBlock] \in [Slots -> Blocks \cup {NoBlock}]
        BY <4>1
      <4>. QED BY <1>1, <2>0, <3>2, <4>2
    <3>. QED BY <1>2, <2>2, <3>1, <3>2
  <2>. QED BY <2>1, <2>2
<1>5. CASE t = <<>>
  <2>1. Return(p) /\ todo'[p] = <<>>
    BY <1>2, <1>3, <1>5
  <2>2. BlocksTypeOK' /\ path' \in [Procs -> Seq(Nat)]
    BY <1>3, <1>4, <2>1, CallReturns DEF BlocksTypeOK
  <2>3. \A q \in Procs \ {p} : todo'[q] = todo[q]
    BY <1>2 DEF BlocksTyped
  <2>4. \A q \in Procs : CallOk(q)' /\ PathOk(q)'
    BY <2>1, <2>3, CallReturns, CallStays
  <2>. QED BY <1>3, <2>2, <2>4 DEF BlocksTyped
<1>6. CASE t # <<>>
  <2>1. UNCHANGED <<pc, op, file, path, at, blk>>
    BY <1>2, <1>6
  <2>2. BlocksTypeOK' /\ path' \in [Procs -> Seq(Nat)]
    BY <1>3, <1>4, <2>1 DEF BlocksTyped, BlocksTypeOK
  <2>3. CallOk(p)' /\ PathOk(p)'
    BY <1>1, <1>3, <1>6, <2>1 DEF BlocksTyped, CallOk, PathOk
  <2>4. \A q \in Procs \ {p} : CallOk(q)' /\ PathOk(q)'
    BY <1>2, <2>1, CallStays DEF BlocksTyped
  <2>. QED BY <1>3, <2>2, <2>3, <2>4 DEF BlocksTyped
<1>. QED BY <1>5, <1>6
-----------------------------------------------------------------------------
(* Steps that leave the blocks as they are *)

LEMMA KeptBlocks ==
  ASSUME BlocksTyped
  PROVE  \A b \in Kept : b \in Blocks /\ b # NoBlock /\ b \in Nat /\ b \in zmap /\ b \notin refused
                         /\ \A q \in Procs : pc[q] = "new" => blk[q] # b
BY FileBlocksConstants DEF BlocksTyped, BlocksTypeOK, Kept, InHands

LEMMA HandsStay ==
  ASSUME BlocksTyped, HandsSound, UNCHANGED <<zmap, refused>>,
         \A q \in Procs : pc'[q] = "new" <=> pc[q] = "new",
         \A q \in Procs : pc[q] = "new" => blk'[q] = blk[q]
  PROVE  HandsSound' /\ Kept' = Kept
<1>1. InHands' = InHands
  <2>1. InHands = {b \in Blocks : \E q \in Procs : pc[q] = "new" /\ blk[q] = b}
    BY FileOf DEF InHands, CallOk
  <2>2. InHands' = {b \in Blocks : \E q \in Procs : pc'[q] = "new" /\ blk'[q] = b}
    BY FileOf DEF InHands, CallOk
  <2>. QED BY <2>1, <2>2
<1>2. Kept' = Kept
  BY <1>1 DEF Kept
<1>3. HandsSound'
  BY <1>1 DEF HandsSound
<1>. QED BY <1>2, <1>3

LEMMA SameDisk ==
  ASSUME BlocksTyped, NEW lab, BlocksInv(lab), UNCHANGED <<zone, entries, todo, doubled>>, Kept' = Kept,
         \A q \in Procs : op'[q] = "truncate" <=> op[q] = "truncate",
         \A q \in Procs : op[q] = "truncate" => file'[q] = file[q],
         HandsSound', Apart', WritersFit(lab)'
  PROVE  BlocksInv(lab)'
<1>1. \A f \in Files : Truncating(f)' <=> Truncating(f)
  BY DEF Truncating
<1>2. lab \in [Blocks -> Labels]
  BY DEF BlocksInv, Fits
<1>3. InodesFit(lab)'
  BY <1>1 DEF BlocksInv, Fits, InodesFit
<1>4. IndirectFit(lab)'
  BY DEF BlocksInv, Fits, IndirectFit
<1>5. WorkFits(lab)'
  <2>1. \A p \in Procs : Len(todo[p]) > 0 => op[p] = "truncate"
    BY FileOf DEF CallOk
  <2>2. ASSUME NEW p \in Procs, NEW k \in 1..Len(todo[p]) PROVE file'[p] = file[p]
    <3>1. Len(todo[p]) \in Nat /\ Len(todo[p]) > 0
      BY <2>2, FileOf
    <3>. QED BY <2>1, <3>1
  <2>. QED BY <2>2 DEF BlocksInv, Fits, WorkFits
<1>6. ~doubled' => \A b \in Kept' : Owned(lab, b)'
  BY <1>1 DEF BlocksInv, Fits, Owned
<1>. QED BY <1>2, <1>3, <1>4, <1>5, <1>6 DEF BlocksInv, Fits

(* A writer's file is not being truncated, and what it finds is its own.   *)
LEMMA WriterFinds ==
  ASSUME BlocksTyped, NEW lab, BlocksInv(lab), NEW p \in Procs, op[p] = "write", pc[p] \in Following
  PROVE  /\ ~Truncating(file[p])
         /\ Pointer(p) # NoBlock => Belongs(lab, Pointer(p), file[p], Len(path[p]) - 1)
<1>1. ~Truncating(file[p])
  BY DEF Truncating, BlocksInv, Apart
<1>2. /\ Pointer(p) \in Blocks \cup {NoBlock} /\ file[p] \in Files /\ Len(path[p]) \in Nat
      /\ Len(path[p]) > 0
  BY PointerIs
<1>3. ASSUME Pointer(p) # NoBlock, at[p] = Inode PROVE Belongs(lab, Pointer(p), file[p], Len(path[p]) - 1)
  <2>1. PICK s \in Slots : s = path[p][1] /\ Pointer(p) = zone[file[p]][s] /\ Len(path[p]) = 1 + Depth[s]
    BY <1>3, PointerIs
  <2>2. Pointer(p) \in Kept /\ lab[Pointer(p)] = Label(file[p], Depth[s], "inode", NoBlock, s)
    BY <1>1, <1>2, <1>3, <2>1 DEF BlocksInv, Fits, InodesFit
  <2>3. Depth[s] = Len(path[p]) - 1
    BY <2>1, FileBlocksConstants
  <2>. QED BY <2>2, <2>3 DEF Belongs, Label
<1>4. ASSUME Pointer(p) # NoBlock, at[p] # Inode PROVE Belongs(lab, Pointer(p), file[p], Len(path[p]) - 1)
  <2>1. PICK e \in Entries : e = path[p][1] /\ Pointer(p) = entries[at[p]][e]
    BY <1>4, PointerIs
  <2>2. at[p] \in Kept /\ lab[at[p]].file = file[p] /\ lab[at[p]].depth = Len(path[p])
    BY <1>4 DEF BlocksInv, Fits, WritersFit, WriterFits, Belongs
  <2>3. Pointer(p) \in Kept
        /\ lab[Pointer(p)] = Label(lab[at[p]].file, lab[at[p]].depth - 1, "block", at[p], e)
    BY <1>2, <1>4, <2>1, <2>2 DEF BlocksInv, Fits, IndirectFit
  <2>. QED BY <2>2, <2>3 DEF Belongs, Label
<1>. QED BY <1>1, <1>3, <1>4

LEMMA ApartStays ==
  ASSUME Apart, \A q \in Procs : op'[q] \in {"write", "truncate"} => op'[q] = op[q] /\ file'[q] = file[q]
  PROVE  Apart'
BY DEF Apart

\* the others go on with what they have
LEMMA WriterStays ==
  ASSUME NEW lab, NEW new, NEW q \in Procs, WriterFits(lab, q),
         \A b \in Kept : lab[b].file = file[q] =>
            b \in Kept' /\ new[b].file = lab[b].file /\ new[b].depth = lab[b].depth,
         op'[q] = op[q], file'[q] = file[q],
         path'[q] = path[q], at'[q] = at[q], pc'[q] = pc[q], blk'[q] = blk[q]
  PROVE  WriterFits(new, q)'
BY DEF WriterFits, Belongs

(* A call that ends, and those of the others. *)
LEMMA ReturnIs ==
  ASSUME BlocksTyped, NEW p \in Procs, Return(p)
  PROVE  /\ pc'[p] = "user" /\ op'[p] = "none"
         /\ \A q \in Procs \ {p} :
              /\ pc'[q] = pc[q] /\ op'[q] = op[q] /\ file'[q] = file[q] /\ path'[q] = path[q]
              /\ at'[q] = at[q] /\ blk'[q] = blk[q]
BY DEF Return, Goto, BlocksTyped, BlocksTypeOK

LEMMA KeepsReturn ==
  ASSUME BlocksTyped, NEW lab, BlocksInv(lab), NEW p \in Procs, Return(p), pc[p] \notin {"free", "new"},
         UNCHANGED <<zone, entries, zmap, todo, refused, doubled, overlap>>
  PROVE  BlocksInv(lab)'
<1>1. /\ pc'[p] = "user" /\ op'[p] = "none" /\ op[p] # "truncate"
      /\ \A q \in Procs \ {p} :
              /\ pc'[q] = pc[q] /\ op'[q] = op[q] /\ file'[q] = file[q] /\ path'[q] = path[q]
              /\ at'[q] = at[q] /\ blk'[q] = blk[q]
  BY ReturnIs, FileOf DEF CallOk
<1>2. HandsSound' /\ Kept' = Kept
  BY <1>1, HandsStay DEF BlocksInv
<1>3. Apart'
  BY <1>1, ApartStays DEF BlocksInv
<1>4. WritersFit(lab)'
  <2>1. WriterFits(lab, p)'
    BY <1>1 DEF WriterFits
  <2>2. ASSUME NEW q \in Procs \ {p} PROVE WriterFits(lab, q)'
    BY <1>1, <1>2, WriterStays DEF BlocksInv, Fits, WritersFit
  <2>. QED BY <2>1, <2>2 DEF WritersFit
<1>. QED BY <1>1, <1>2, <1>3, <1>4, SameDisk

LEMMA KeepsBegin ==
  ASSUME BlocksTyped, NEW lab, BlocksInv(lab), NEW p \in Procs, NEW f \in Files, NEW w \in Paths,
         NEW c \in {"read", "write"}, Begin(p, f, w, c), ~overlap'
  PROVE  BlocksInv(lab)'
<1>1. /\ pc[p] = "user" /\ op[p] = "none" /\ at[p] = Inode
      /\ pc' = [pc EXCEPT ![p] = "walk"] /\ op' = [op EXCEPT ![p] = c] /\ file' = [file EXCEPT ![p] = f]
      /\ path' = [path EXCEPT ![p] = w]
      /\ c = "write" => ~Meets(p, f, {"truncate"})
      /\ UNCHANGED <<zone, entries, zmap, at, blk, todo, refused, doubled>>
  BY FileOf DEF Begin, At, Goto, CallOk, Following
<1>2. /\ pc'[p] = "walk" /\ op'[p] = c /\ file'[p] = f /\ at'[p] = Inode
      /\ \A q \in Procs \ {p} : /\ pc'[q] = pc[q] /\ op'[q] = op[q] /\ file'[q] = file[q]
                                /\ path'[q] = path[q] /\ at'[q] = at[q] /\ blk'[q] = blk[q]
  BY <1>1 DEF BlocksTyped, BlocksTypeOK
<1>3. HandsSound' /\ Kept' = Kept
  BY <1>1, <1>2, HandsStay DEF BlocksInv
<1>4. Apart'
  BY <1>1, <1>2 DEF Apart, BlocksInv, Meets
<1>5. WritersFit(lab)'
  <2>1. WriterFits(lab, p)'
    BY <1>2 DEF WriterFits
  <2>2. ASSUME NEW q \in Procs \ {p} PROVE WriterFits(lab, q)'
    BY <1>2, <1>3, WriterStays DEF BlocksInv, Fits, WritersFit
  <2>. QED BY <2>1, <2>2 DEF WritersFit
<1>. QED BY <1>1, <1>2, <1>3, <1>4, <1>5, SameDisk

LEMMA KeepsWalk ==
  ASSUME BlocksTyped, NEW lab, BlocksInv(lab), NEW p \in Procs, Walk(p)
  PROVE  BlocksInv(lab)'
<1>1. /\ pc[p] = "walk" /\ p \in Procs /\ pc[p] \in Following
      /\ UNCHANGED <<zone, entries, todo, refused, doubled, overlap>>
  BY DEF Walk, At, Following
<1>2. CASE Return(p) /\ UNCHANGED zmap
  BY <1>1, <1>2, KeepsReturn
<1>3. ASSUME NEW b \in Blocks, blk' = [blk EXCEPT ![p] = b], UNCHANGED <<op, file, path, at>>,
             NEW l \in {"found", "new"}, pc' = [pc EXCEPT ![p] = l], HandsSound', Kept' = Kept,
             l = "found" => Pointer(p) = b
      PROVE  BlocksInv(lab)'
  <2>1. /\ pc'[p] = l /\ blk'[p] = b
        /\ \A q \in Procs \ {p} : pc'[q] = pc[q] /\ blk'[q] = blk[q]
    BY <1>3 DEF BlocksTyped, BlocksTypeOK
  <2>2. Apart'
    BY <1>3, ApartStays DEF BlocksInv
  <2>3. WriterFits(lab, p)'
    <3>1. op[p] = "write" /\ l = "found" => Belongs(lab, b, file[p], Len(path[p]) - 1)
      BY <1>1, <1>3, WriterFinds, FileBlocksConstants
    <3>. QED BY <1>3, <2>1, <3>1 DEF WriterFits, Belongs, BlocksInv, Fits, WritersFit
  <2>4. ASSUME NEW q \in Procs \ {p} PROVE WriterFits(lab, q)'
    BY <1>3, <2>1, WriterStays DEF BlocksInv, Fits, WritersFit
  <2>5. WritersFit(lab)'
    BY <2>3, <2>4 DEF WritersFit
  <2>. QED BY <1>1, <1>3, <2>2, <2>5, SameDisk
<1>4. CASE Pointer(p) # NoBlock /\ blk' = [blk EXCEPT ![p] = Pointer(p)]
           /\ Goto(p, "found") /\ UNCHANGED <<zmap, calls>>
  <2>1. PICK b \in Blocks : b = Pointer(p)
    BY <1>1, <1>4, PointerIs
  <2>2. pc' = [pc EXCEPT ![p] = "found"] /\ UNCHANGED <<op, file, path, at>>
    BY <1>4 DEF Goto, calls
  <2>3. /\ \A q \in Procs : pc'[q] = "new" <=> pc[q] = "new"
        /\ \A q \in Procs : pc[q] = "new" => blk'[q] = blk[q]
    BY <1>1, <1>4, <2>2 DEF BlocksTyped, BlocksTypeOK
  <2>4. HandsSound' /\ Kept' = Kept
    BY <1>1, <1>4, <2>3, HandsStay DEF BlocksInv
  <2>. QED BY <1>3, <1>4, <2>1, <2>2, <2>4
<1>5. ASSUME NEW b \in Blocks \ zmap, Marked(b), blk' = [blk EXCEPT ![p] = b],
             Goto(p, "new"), UNCHANGED calls
      PROVE  BlocksInv(lab)'
  <2>1. /\ pc' = [pc EXCEPT ![p] = "new"] /\ UNCHANGED <<op, file, path, at>>
        /\ zmap' = zmap \cup {b}
    BY <1>5 DEF Goto, calls, Marked
  <2>2. /\ pc'[p] = "new" /\ blk'[p] = b
        /\ \A q \in Procs \ {p} : pc'[q] = pc[q] /\ blk'[q] = blk[q]
    BY <1>5, <2>1 DEF BlocksTyped, BlocksTypeOK
  <2>3. InHands' = InHands \cup {b}
    <3>1. \A x \in InHands' : x \in InHands \cup {b}
      BY <1>1, <2>2 DEF InHands
    <3>2. \A x \in InHands : x \in InHands'
      BY <1>1, <2>2 DEF InHands
    <3>3. b \in InHands'
      BY <2>2 DEF InHands
    <3>. QED BY <3>1, <3>2, <3>3
  <2>4. Kept' = Kept
    BY <1>1, <2>1, <2>3 DEF Kept
  <2>5. HandsSound'
    <3>1. refused' \subseteq zmap' \ InHands'
      BY <1>1, <2>1, <2>3, <1>5 DEF BlocksInv, HandsSound
    <3>2. ASSUME NEW q \in Procs, pc'[q] = "new"
          PROVE  blk'[q] \in zmap' /\ \A r \in Procs : pc'[r] = "new" /\ blk'[r] = blk'[q] => r = q
      BY <1>1, <1>5, <2>1, <2>2, <3>2 DEF BlocksInv, HandsSound
    <3>. QED BY <3>1, <3>2 DEF HandsSound
  <2>. QED BY <1>3, <1>5, <2>1, <2>4, <2>5
<1>. QED BY <1>2, <1>4, <1>5 DEF Walk

LEMMA KeepsFound ==
  ASSUME BlocksTyped, NEW lab, BlocksInv(lab), NEW p \in Procs, Found(p)
  PROVE  BlocksInv(lab)'
<1>1. PICK l \in {"data", "indirect"} : pc' = [pc EXCEPT ![p] = l]
  BY DEF Found, Goto
<1>2. pc[p] = "found" /\ UNCHANGED <<op, file, path, at>>
      /\ UNCHANGED <<zone, entries, zmap, blk, todo, refused, doubled, overlap>>
  BY DEF Found, At, calls
<1>3. pc'[p] = l /\ \A q \in Procs \ {p} : pc'[q] = pc[q]
  BY <1>1 DEF BlocksTyped, BlocksTypeOK
<1>4. HandsSound' /\ Kept' = Kept
  BY <1>2, <1>3, HandsStay DEF BlocksInv
<1>5. Apart'
  BY <1>2, ApartStays DEF BlocksInv
<1>6. WriterFits(lab, p)'
  BY <1>2, <1>3, <1>4 DEF WriterFits, Belongs, BlocksInv, Fits, WritersFit
<1>7. ASSUME NEW q \in Procs \ {p} PROVE WriterFits(lab, q)'
  BY <1>2, <1>3, <1>4, WriterStays DEF BlocksInv, Fits, WritersFit
<1>8. WritersFit(lab)'
  BY <1>6, <1>7 DEF WritersFit
<1>. QED BY <1>2, <1>4, <1>5, <1>8, SameDisk

LEMMA KeepsIndirect ==
  ASSUME BlocksTyped, NEW lab, BlocksInv(lab), NEW p \in Procs, Indirect(p)
  PROVE  BlocksInv(lab)'
<1>1. pc[p] = "indirect" /\ UNCHANGED <<zone, entries, zmap, todo, refused, doubled, overlap>>
  BY DEF Indirect, At
<1>2. CASE Return(p)
  BY <1>1, <1>2, KeepsReturn
<1>3. ASSUME at' = [at EXCEPT ![p] = blk[p]], path' = [path EXCEPT ![p] = Tail(path[p])],
             Goto(p, "walk"), UNCHANGED <<op, file, blk>>
      PROVE  BlocksInv(lab)'
  <2>1. /\ pc'[p] = "walk" /\ at'[p] = blk[p] /\ path'[p] = Tail(path[p])
        /\ \A q \in Procs \ {p} : pc'[q] = pc[q] /\ at'[q] = at[q] /\ path'[q] = path[q]
    BY <1>3 DEF BlocksTyped, BlocksTypeOK, Goto
  <2>2. HandsSound' /\ Kept' = Kept
    BY <1>1, <1>3, <2>1, HandsStay DEF BlocksInv
  <2>3. Apart'
    BY <1>3, ApartStays DEF BlocksInv
  <2>4. WriterFits(lab, p)'
    <3>1. path[p] \in Seq(Nat) /\ PathOk(p)
      BY FileOf
    <3>2. Len(Tail(path[p])) = Len(path[p]) - 1
      BY <1>1, <3>1, Deeper DEF PathOk, Following
    <3>3. op[p] = "write" => Belongs(lab, blk[p], file[p], Len(path[p]) - 1)
      BY <1>1 DEF BlocksInv, Fits, WritersFit, WriterFits
    <3>4. op'[p] = op[p] /\ file'[p] = file[p] /\ Len(path'[p]) = Len(path[p]) - 1
      BY <1>3, <2>1, <3>2
    <3>5. op[p] = "write" => Belongs(lab, at[p], file[p], Len(path[p]))'
      BY <2>1, <2>2, <3>3, <3>4 DEF Belongs
    <3>. QED BY <2>1, <3>4, <3>5 DEF WriterFits
  <2>5. ASSUME NEW q \in Procs \ {p} PROVE WriterFits(lab, q)'
    BY <1>3, <2>1, <2>2, WriterStays DEF BlocksInv, Fits, WritersFit
  <2>6. WritersFit(lab)'
    BY <2>4, <2>5 DEF WritersFit
  <2>. QED BY <1>1, <1>3, <2>2, <2>3, <2>6, SameDisk
<1>. QED BY <1>2, <1>3 DEF Indirect

LEMMA KeepsData ==
  ASSUME BlocksTyped, NEW lab, BlocksInv(lab), NEW p \in Procs, Data(p)
  PROVE  BlocksInv(lab)'
<1>1. pc[p] = "data" /\ Return(p) /\ UNCHANGED <<zone, entries, zmap, todo, refused, doubled, overlap>>
  BY DEF Data, At
<1>. QED BY <1>1, KeepsReturn
-----------------------------------------------------------------------------
(* Steps that give blocks to a place, or take them out of one *)

\* what a label says, field by field
LEMMA LabelFields == \A f, d, n, b, s :
  /\ Label(f, d, n, b, s).file = f /\ Label(f, d, n, b, s).depth = d /\ Label(f, d, n, b, s).in = n
  /\ Label(f, d, n, b, s).of = b /\ Label(f, d, n, b, s).slot = s
BY DEF Label

LEMMA LabelsAre ==
  ASSUME NEW f \in Files \cup {NoFile}, NEW d \in 0..2, NEW n \in {"inode", "block", "todo"},
         NEW b \in Nat, NEW s \in Nat
  PROVE  Label(f, d, n, b, s) \in Labels
BY DEF Label, Labels

LEMMA KeepsNewBlock ==
  ASSUME BlocksTyped, NEW lab, BlocksInv(lab), NEW p \in Procs, NewBlock(p)
  PROVE  \E new : BlocksInv(new)'
<1>0. PICK b, f, s, d, a : b = blk[p] /\ f = file[p] /\ s = path[p][1] /\ d = Len(path[p]) - 1 /\ a = at[p]
  OBVIOUS
<1>1. /\ pc[p] = "new" /\ CallOk(p) /\ op[p] = "write" /\ f \in Files /\ b \in Blocks
      /\ pc[p] \in Following
  <2>1. pc[p] = "new" /\ CallOk(p)
    BY FileOf DEF NewBlock, At
  <2>. QED BY <1>0, <2>1 DEF CallOk, Following
<1>2. /\ Head(path[p]) = s /\ Len(path[p]) \in Nat /\ Len(path[p]) > 0
      /\ a = Inode => s \in Slots /\ Pointer(p) = zone[f][s] /\ Len(path[p]) = 1 + Depth[s]
      /\ a # Inode => a \in Blocks /\ s \in Entries /\ Pointer(p) = entries[a][s]
  BY <1>0, <1>1, PointerIs
<1>3. a # Inode => a \in Kept /\ lab[a].file = f /\ lab[a].depth = Len(path[p]) /\ lab[a].depth > 0
  BY <1>0, <1>1, <1>2 DEF BlocksInv, Fits, WritersFit, WriterFits, Belongs
<1>4. /\ zone' = IF a # Inode THEN zone ELSE [zone EXCEPT ![f][s] = b]
      /\ entries' = IF a = Inode THEN Cleared(b) ELSE [Cleared(b) EXCEPT ![a][s] = b]
      /\ ~doubled' => ~doubled /\ Pointer(p) = NoBlock
      /\ pc' = [pc EXCEPT ![p] = "found"]
      /\ UNCHANGED <<zmap, op, file, path, at, blk, todo, refused, overlap>>
  BY <1>0, <1>2 DEF NewBlock, Goto, calls
<1>5. b \in zmap /\ b \notin refused /\ b \in InHands /\ b \notin Kept
      /\ \A q \in Procs : pc[q] = "new" /\ blk[q] = b => q = p
  BY <1>0, <1>1 DEF BlocksInv, HandsSound, InHands, Kept
<1>6. \A c \in Kept : c \in Blocks /\ c # NoBlock /\ c # b
  BY <1>5, KeptBlocks
<1>7. pc'[p] = "found" /\ \A q \in Procs \ {p} : pc'[q] = pc[q]
  BY <1>4 DEF BlocksTyped, BlocksTypeOK
<1>8. InHands' = InHands \ {b}
  <2>1. \A x \in InHands' : x \in InHands /\ x # b
    BY <1>4, <1>5, <1>7 DEF InHands
  <2>2. \A x \in InHands : x # b => x \in InHands'
    BY <1>0, <1>4, <1>7 DEF InHands
  <2>3. b \notin InHands'
    BY <2>1
  <2>. QED BY <2>1, <2>2, <2>3
<1>9. Kept' = Kept \cup {b}
  BY <1>4, <1>5, <1>8 DEF Kept
<1>10. HandsSound'
  <2>1. refused' \subseteq zmap' \ InHands'
    BY <1>4, <1>8 DEF BlocksInv, HandsSound
  <2>2. ASSUME NEW q \in Procs, pc'[q] = "new"
        PROVE  blk'[q] \in zmap' /\ \A r \in Procs : pc'[r] = "new" /\ blk'[r] = blk'[q] => r = q
    BY <1>4, <1>7, <2>2 DEF BlocksInv, HandsSound
  <2>. QED BY <2>1, <2>2 DEF HandsSound
<1>11. Apart'
  BY <1>4, ApartStays DEF BlocksInv
\* the disk
<1>12. \A g \in Files, t \in Slots : zone'[g][t] = zone[g][t] \/ (a = Inode /\ g = f /\ t = s /\ zone'[g][t] = b)
  BY <1>1, <1>2, <1>4 DEF BlocksTyped, BlocksTypeOK
<1>13. a = Inode => zone'[f][s] = b
  BY <1>1, <1>2, <1>4 DEF BlocksTyped, BlocksTypeOK
<1>14. /\ \A c \in Blocks, e \in Entries : c # b =>
            entries'[c][e] = entries[c][e] \/ (a # Inode /\ c = a /\ e = s /\ entries'[c][e] = b)
       /\ \A e \in Entries : entries'[b][e] = NoBlock
       /\ a # Inode => entries'[a][s] = b
  <2>1. /\ \A c \in Blocks, e \in Entries : c # b => Cleared(b)[c][e] = entries[c][e]
        /\ \A e \in Entries : Cleared(b)[b][e] = NoBlock
        /\ Cleared(b) \in [Blocks -> [Entries -> Blocks \cup {NoBlock}]]
    BY <1>1 DEF Cleared, Zeroes, BlocksTyped, BlocksTypeOK
  <2>2. a # Inode => a # b
    BY <1>3, <1>6
  <2>. QED BY <1>1, <1>2, <1>4, <2>1, <2>2
\* the labels
<1>15. d \in 0..2
  <2>1. a = Inode => d = Depth[s]
    BY <1>0, <1>2, FileBlocksConstants
  <2>2. a # Inode => lab[a].depth \in 0..2 /\ lab[a].depth - 1 = d /\ lab[a].depth > 0
    BY <1>0, <1>2, <1>3 DEF BlocksInv, Fits, Labels
  <2>. QED BY <1>2, <2>1, <2>2, FileBlocksConstants
<1>16. PICK l : l = IF a = Inode THEN Label(f, d, "inode", NoBlock, s) ELSE Label(f, d, "block", a, s)
  OBVIOUS
<1>17. l \in Labels /\ l.file = f /\ l.depth = d
  <2>0. \A t \in Slots : t \in Nat
    BY FileBlocksConstants
  <2>1. s \in Nat /\ NoBlock \in Nat /\ (a # Inode => a \in Nat) /\ f \in Files \cup {NoFile}
    BY <1>1, <1>2, <2>0, FileBlocksConstants
  <2>2. CASE a = Inode
    BY <1>15, <1>16, <2>1, <2>2, LabelsAre, LabelFields
  <2>3. CASE a # Inode
    BY <1>15, <1>16, <2>1, <2>3, LabelsAre, LabelFields, SMTT(60)
  <2>. QED BY <2>2, <2>3
<1>18. PICK new : new = [lab EXCEPT ![b] = l]
  OBVIOUS
<1>19. /\ new \in [Blocks -> Labels] /\ new[b] = l /\ lab \in [Blocks -> Labels]
       /\ \A c \in Kept : new[c] = lab[c]
  BY <1>1, <1>6, <1>17, <1>18 DEF BlocksInv, Fits
<1>20. \A g \in Files : Truncating(g)' <=> Truncating(g)
  BY <1>4 DEF Truncating
<1>21. InodesFit(new)'
  <2>1. SUFFICES ASSUME NEW g \in Files, NEW t \in Slots, ~Truncating(g), zone'[g][t] # NoBlock
                 PROVE  /\ zone'[g][t] \in Kept'
                        /\ new[zone'[g][t]] = Label(g, Depth[t], "inode", NoBlock, t)
    BY <1>20 DEF InodesFit
  <2>2. CASE zone'[g][t] = zone[g][t]
    BY <1>9, <1>19, <2>1, <2>2 DEF BlocksInv, Fits, InodesFit
  <2>3. CASE a = Inode /\ g = f /\ t = s /\ zone'[g][t] = b
    <3>1. d = Depth[s]
      BY <1>0, <1>2, <2>3, FileBlocksConstants
    <3>. QED BY <1>9, <1>16, <1>19, <2>3, <3>1
  <2>. QED BY <1>12, <2>2, <2>3
<1>22. IndirectFit(new)'
  <2>1. SUFFICES ASSUME NEW c \in Kept', NEW e \in Entries, new[c].depth > 0, entries'[c][e] # NoBlock
                 PROVE  /\ entries'[c][e] \in Kept'
                        /\ new[entries'[c][e]] = Label(new[c].file, new[c].depth - 1, "block", c, e)
    BY DEF IndirectFit
  <2>2. c \in Kept /\ c # b /\ c \in Blocks
    BY <1>6, <1>9, <1>14, <2>1
  <2>3. CASE entries'[c][e] = entries[c][e]
    BY <1>9, <1>19, <2>1, <2>2, <2>3 DEF BlocksInv, Fits, IndirectFit
  <2>4. CASE a # Inode /\ c = a /\ e = s /\ entries'[c][e] = b
    BY <1>0, <1>3, <1>9, <1>16, <1>19, <2>2, <2>4
  <2>. QED BY <1>14, <2>2, <2>3, <2>4
<1>23. WorkFits(new)'
  <2>1. SUFFICES ASSUME NEW q \in Procs, NEW k \in 1..Len(todo[q])
                 PROVE  /\ todo[q][k].blk \in Kept'
                        /\ new[todo[q][k].blk] = Label(file[q], todo[q][k].depth, "todo", NoBlock, 0)
                        /\ \A j \in 1..Len(todo[q]) : todo[q][j].blk = todo[q][k].blk => j = k
    BY <1>4 DEF WorkFits
  <2>. QED BY <1>9, <1>19 DEF BlocksInv, Fits, WorkFits
<1>24. WritersFit(new)'
  <2>1. WriterFits(new, p)'
    <3>1. Belongs(new, blk[p], file[p], Len(path[p]) - 1)'
      BY <1>0, <1>4, <1>9, <1>17, <1>19 DEF Belongs
    <3>2. a # Inode => Belongs(new, at[p], file[p], Len(path[p]))'
      BY <1>0, <1>3, <1>4, <1>9, <1>19 DEF Belongs
    <3>. QED BY <1>0, <1>4, <3>1, <3>2 DEF WriterFits
  <2>2. ASSUME NEW q \in Procs \ {p} PROVE WriterFits(new, q)'
    BY <1>4, <1>7, <1>9, <1>19, WriterStays DEF BlocksInv, Fits, WritersFit
  <2>. QED BY <2>1, <2>2 DEF WritersFit
<1>25. ASSUME ~doubled', NEW c \in Kept' PROVE Owned(new, c)'
  <2>1. ~doubled /\ Pointer(p) = NoBlock
    BY <1>4, <1>25
  <2>2. CASE c = b
    <3>1. CASE a = Inode
      BY <1>1, <1>0, <1>2, <1>13, <1>20, <2>2, <3>1, WriterFinds DEF Owned
    <3>2. CASE a # Inode
      <4>1. a \in Kept' /\ new[a].depth > 0 /\ entries'[a][s] = b /\ s \in Entries
        BY <1>2, <1>3, <1>9, <1>14, <1>19, <3>2
      <4>. QED BY <2>2, <4>1 DEF Owned
    <3>. QED BY <3>1, <3>2
  <2>3. CASE c \in Kept
    <3>1. Owned(lab, c)
      BY <2>1, <2>3 DEF BlocksInv, Fits
    <3>2. ASSUME NEW g \in Files, NEW t \in Slots, ~Truncating(g), zone[g][t] = c PROVE Owned(new, c)'
      <4>1. zone'[g][t] = c
        BY <1>2, <1>6, <1>12, <2>1, <2>3, <3>2
      <4>. QED BY <1>20, <3>2, <4>1 DEF Owned
    <3>3. ASSUME NEW g \in Kept, NEW e \in Entries, lab[g].depth > 0, entries[g][e] = c PROVE Owned(new, c)'
      <4>1. entries'[g][e] = c
        BY <1>2, <1>6, <1>14, <2>1, <2>3, <3>3
      <4>2. g \in Kept' /\ new[g].depth > 0
        BY <1>9, <1>19, <3>3
      <4>. QED BY <4>1, <4>2 DEF Owned
    <3>4. ASSUME NEW q \in Procs, NEW k \in 1..Len(todo[q]), todo[q][k].blk = c PROVE Owned(new, c)'
      BY <1>4, <3>4 DEF Owned
    <3>. QED BY <3>1, <3>2, <3>3, <3>4 DEF Owned
  <2>. QED BY <1>9, <2>2, <2>3
<1>26. BlocksInv(new)'
  BY <1>10, <1>11, <1>19, <1>21, <1>22, <1>23, <1>24, <1>25 DEF BlocksInv, Fits
<1>. QED BY <1>26

(* truncate() takes the blocks of the inode over. *)
LEMMA KeepsTruncate ==
  ASSUME BlocksTyped, NEW lab, BlocksInv(lab), NEW p \in Procs, NEW f \in Files, Truncate(p, f), ~overlap'
  PROVE  \E new : BlocksInv(new)'
<1>1. /\ pc[p] = "user" /\ op[p] = "none" /\ todo[p] = <<>>
      /\ pc' = [pc EXCEPT ![p] = "free"] /\ op' = [op EXCEPT ![p] = "truncate"]
      /\ file' = [file EXCEPT ![p] = f] /\ ~Meets(p, f, {"write", "truncate"})
      /\ UNCHANGED <<zone, entries, zmap, path, at, blk, refused, doubled>>
  BY FileOf DEF Truncate, At, Goto, CallOk
<1>2. PICK t \in Seq(Items) :
           /\ t # <<>> /\ todo' = [todo EXCEPT ![p] = t]
           /\ \A k \in 1..Len(t) : \E s \in Slots :
                /\ t[k] = Item(zone[f][s], Depth[s], s) /\ zone[f][s] # NoBlock
                /\ \A j \in 1..Len(t) : t[j].slot = s => j = k
           /\ \A s \in Slots : zone[f][s] # NoBlock => \E k \in 1..Len(t) : t[k].blk = zone[f][s]
  BY TruncateIs
<1>3. /\ pc'[p] = "free" /\ op'[p] = "truncate" /\ file'[p] = f /\ todo'[p] = t
      /\ \A q \in Procs \ {p} : /\ pc'[q] = pc[q] /\ op'[q] = op[q] /\ file'[q] = file[q]
                                /\ path'[q] = path[q] /\ at'[q] = at[q] /\ blk'[q] = blk[q]
                                /\ todo'[q] = todo[q]
  BY <1>1, <1>2 DEF BlocksTyped, BlocksTypeOK
<1>4. \A q \in Procs : (pc'[q] = "new" <=> pc[q] = "new") /\ (pc[q] = "new" => blk'[q] = blk[q])
  BY <1>1, <1>3
<1>5. HandsSound' /\ Kept' = Kept
  BY <1>1, <1>4, HandsStay DEF BlocksInv
<1>6. Apart'
  BY <1>1, <1>3 DEF Apart, BlocksInv, Meets
<1>7. ~Truncating(f) /\ \A g \in Files : ~Truncating(g)' => ~Truncating(g) /\ g # f
  BY <1>1, <1>3 DEF Truncating, Meets
\* the labels
<1>. DEFINE OfInode(b) == \E s \in Slots : zone[f][s] = b
<1>8. PICK new : new = [b \in Blocks |-> IF OfInode(b) THEN Label(f, lab[b].depth, "todo", NoBlock, 0) ELSE lab[b]]
  OBVIOUS
<1>9. \A b \in Kept : b \in Blocks /\ b # NoBlock
  BY KeptBlocks
<1>10. lab \in [Blocks -> Labels] /\ \A b \in Blocks : lab[b].depth \in 0..2
  BY DEF BlocksInv, Fits, Labels
<1>11. \A s \in Slots : zone[f][s] # NoBlock =>
          zone[f][s] \in Kept /\ lab[zone[f][s]] = Label(f, Depth[s], "inode", NoBlock, s)
  BY <1>7 DEF BlocksInv, Fits, InodesFit
<1>12. \A b \in Kept : OfInode(b) => /\ lab[b].file = f /\ lab[b].in = "inode"
                                     /\ new[b] = Label(f, lab[b].depth, "todo", NoBlock, 0)
  BY <1>8, <1>9, <1>11, LabelFields
<1>13. \A b \in Kept : ~OfInode(b) => new[b] = lab[b]
  BY <1>8, <1>9
<1>14. new \in [Blocks -> Labels]
  <2>1. NoBlock \in Nat /\ 0 \in Nat /\ f \in Files \cup {NoFile}
    BY FileBlocksConstants
  <2>2. ASSUME NEW b \in Blocks PROVE Label(f, lab[b].depth, "todo", NoBlock, 0) \in Labels
    BY <1>10, <2>1, LabelsAre
  <2>. QED BY <1>8, <1>10, <2>2
<1>15. \A b \in Kept : new[b].file = lab[b].file /\ new[b].depth = lab[b].depth
  BY <1>12, <1>13, LabelFields
<1>16. \A b \in Kept : lab[b].in # "inode" \/ lab[b].file # f => new[b] = lab[b]
  BY <1>12, <1>13
<1>. HIDE DEF OfInode
<1>17. InodesFit(new)'
  <2>1. SUFFICES ASSUME NEW g \in Files, NEW s \in Slots, ~Truncating(g)', zone[g][s] # NoBlock
                 PROVE  /\ zone[g][s] \in Kept'
                        /\ new[zone[g][s]] = Label(g, Depth[s], "inode", NoBlock, s)
    BY <1>1 DEF InodesFit
  <2>2. zone[g][s] \in Kept /\ lab[zone[g][s]] = Label(g, Depth[s], "inode", NoBlock, s)
    BY <1>7, <2>1 DEF BlocksInv, Fits, InodesFit
  <2>. QED BY <1>5, <1>7, <1>16, <2>1, <2>2, LabelFields
<1>18. IndirectFit(new)'
  <2>1. SUFFICES ASSUME NEW c \in Kept, NEW e \in Entries, new[c].depth > 0, entries[c][e] # NoBlock
                 PROVE  /\ entries[c][e] \in Kept
                        /\ new[entries[c][e]] = Label(new[c].file, new[c].depth - 1, "block", c, e)
    BY <1>1, <1>5 DEF IndirectFit
  <2>2. /\ entries[c][e] \in Kept
        /\ lab[entries[c][e]] = Label(lab[c].file, lab[c].depth - 1, "block", c, e)
    BY <1>15, <2>1 DEF BlocksInv, Fits, IndirectFit
  <2>. QED BY <1>15, <1>16, <2>2, LabelFields
<1>19. WorkFits(new)'
  <2>1. ASSUME NEW q \in Procs \ {p}, NEW k \in 1..Len(todo[q])
        PROVE  /\ todo[q][k].blk \in Kept
               /\ new[todo[q][k].blk] = Label(file[q], todo[q][k].depth, "todo", NoBlock, 0)
               /\ \A j \in 1..Len(todo[q]) : todo[q][j].blk = todo[q][k].blk => j = k
    <3>1. /\ todo[q][k].blk \in Kept
          /\ lab[todo[q][k].blk] = Label(file[q], todo[q][k].depth, "todo", NoBlock, 0)
          /\ \A j \in 1..Len(todo[q]) : todo[q][j].blk = todo[q][k].blk => j = k
      BY DEF BlocksInv, Fits, WorkFits
    <3>. QED BY <1>16, <3>1, LabelFields
  <2>2. ASSUME NEW k \in 1..Len(t)
        PROVE  /\ t[k].blk \in Kept
               /\ new[t[k].blk] = Label(f, t[k].depth, "todo", NoBlock, 0)
               /\ \A j \in 1..Len(t) : t[j].blk = t[k].blk => j = k
    <3>1. PICK s \in Slots : /\ t[k] = Item(zone[f][s], Depth[s], s) /\ zone[f][s] # NoBlock
                             /\ \A j \in 1..Len(t) : t[j].slot = s => j = k
      BY <1>2
    <3>2. t[k].blk = zone[f][s] /\ t[k].depth = Depth[s]
      BY <3>1, ItemFields
    <3>3. zone[f][s] \in Kept /\ lab[zone[f][s]] = Label(f, Depth[s], "inode", NoBlock, s)
      BY <1>11, <3>1
    <3>4. new[zone[f][s]] = Label(f, Depth[s], "todo", NoBlock, 0)
      BY <1>12, <3>3, LabelFields DEF OfInode
    <3>5. ASSUME NEW j \in 1..Len(t), t[j].blk = t[k].blk PROVE j = k
      <4>1. PICK r \in Slots : t[j] = Item(zone[f][r], Depth[r], r) /\ zone[f][r] # NoBlock
        BY <1>2
      <4>2. t[j].slot = r /\ zone[f][r] = zone[f][s]
        BY <3>2, <3>5, <4>1, ItemFields
      <4>3. lab[zone[f][r]] = Label(f, Depth[r], "inode", NoBlock, r)
        BY <1>11, <4>1
      <4>4. r = s
        BY <3>3, <4>2, <4>3, LabelFields
      <4>. QED BY <3>1, <4>2, <4>4
    <3>. QED BY <3>2, <3>3, <3>4, <3>5
  <2>. QED BY <1>3, <1>5, <2>1, <2>2, SMTT(60) DEF WorkFits
<1>20. WritersFit(new)'
  <2>1. WriterFits(new, p)'
    BY <1>3 DEF WriterFits
  <2>2. ASSUME NEW q \in Procs \ {p} PROVE WriterFits(new, q)'
    BY <1>3, <1>5, <1>15, WriterStays DEF BlocksInv, Fits, WritersFit
  <2>. QED BY <2>1, <2>2 DEF WritersFit
<1>21. ASSUME ~doubled', NEW c \in Kept' PROVE Owned(new, c)'
  <2>1. Owned(lab, c) /\ c \in Kept /\ c # NoBlock
    BY <1>1, <1>5, <1>9, <1>21 DEF BlocksInv, Fits
  <2>2. ASSUME NEW g \in Files, NEW s \in Slots, ~Truncating(g), zone[g][s] = c PROVE Owned(new, c)'
    <3>1. CASE g = f
      <4>1. PICK k \in 1..Len(t) : t[k].blk = c
        BY <1>2, <2>1, <2>2, <3>1
      <4>. QED BY <1>3, <4>1 DEF Owned
    <3>2. CASE g # f
      <4>1. ~Truncating(g)'
        BY <1>3, <2>2, <3>2 DEF Truncating
      <4>. QED BY <1>1, <2>2, <4>1 DEF Owned
    <3>. QED BY <3>1, <3>2
  <2>3. ASSUME NEW g \in Kept, NEW e \in Entries, lab[g].depth > 0, entries[g][e] = c PROVE Owned(new, c)'
    <3>1. g \in Kept' /\ new[g].depth > 0 /\ entries'[g][e] = c
      BY <1>1, <1>5, <1>15, <2>3
    <3>. QED BY <3>1 DEF Owned
  <2>4. ASSUME NEW q \in Procs, NEW k \in 1..Len(todo[q]), todo[q][k].blk = c PROVE Owned(new, c)'
    <3>1. q # p
      BY <1>1, <2>4
    <3>2. todo'[q] = todo[q]
      BY <1>3, <3>1
    <3>. QED BY <2>4, <3>2 DEF Owned
  <2>. QED BY <2>1, <2>2, <2>3, <2>4 DEF Owned
<1>22. BlocksInv(new)'
  BY <1>5, <1>6, <1>14, <1>17, <1>18, <1>19, <1>20, <1>21 DEF BlocksInv, Fits
<1>. QED BY <1>22

\* what the others work on has nothing to do with what p gives back
LEMMA OthersApart ==
  ASSUME BlocksTyped, NEW lab, BlocksInv(lab), NEW p \in Procs, op[p] = "truncate", NEW q \in Procs \ {p}
  PROVE  /\ op[q] = "write" => file[q] # file[p]
         /\ \A k \in 1..Len(todo[q]) : /\ todo[q][k].blk \in Kept
                                       /\ lab[todo[q][k].blk].file # file[p]
<1>1. op[q] \in {"write", "truncate"} => file[q] # file[p]
  BY DEF BlocksInv, Apart
<1>2. ASSUME NEW k \in 1..Len(todo[q])
      PROVE  todo[q][k].blk \in Kept /\ lab[todo[q][k].blk].file # file[p]
  <2>1. Len(todo[q]) \in Nat /\ Len(todo[q]) > 0
    BY <1>2, FileOf
  <2>2. op[q] = "truncate"
    BY <2>1, FileOf DEF CallOk
  <2>3. todo[q][k].blk \in Kept
        /\ lab[todo[q][k].blk] = Label(file[q], todo[q][k].depth, "todo", NoBlock, 0)
    BY DEF BlocksInv, Fits, WorkFits
  <2>. QED BY <1>1, <2>2, <2>3, LabelFields
<1>. QED BY <1>1, <1>2

LEMMA KeepsFreeBlock ==
  ASSUME BlocksTyped, NEW lab, BlocksInv(lab), NEW p \in Procs, FreeBlock(p)
  PROVE  BlocksInv(lab)'
<1>0. PICK b, f : b = todo[p][1].blk /\ f = file[p]
  OBVIOUS
<1>1. /\ pc[p] = "free" /\ op[p] = "truncate" /\ todo[p] # <<>> /\ f \in Files
      /\ todo[p][1].depth = 0 /\ b \in Blocks
      /\ Len(todo[p]) \in Nat /\ Len(todo[p]) > 0 /\ 1 \in 1..Len(todo[p])
      /\ \/ zmap' = zmap \ {b} /\ UNCHANGED refused
         \/ refused' = refused \cup {b} /\ UNCHANGED zmap
      /\ UNCHANGED <<entries, doubled, overlap>>
  BY <1>0, FreeBlockIs
<1>2. PICK t \in Seq(Items) :
              /\ todo' = [todo EXCEPT ![p] = t] /\ Len(t) = Len(todo[p]) - 1
              /\ \A k \in 1..Len(t) : k + 1 \in 1..Len(todo[p]) /\ t[k] = todo[p][k + 1]
              /\ t = <<>> => /\ Return(p)
                             /\ zone' = [zone EXCEPT ![f] = [s \in Slots |-> NoBlock]]
              /\ t # <<>> => /\ UNCHANGED <<pc, op, file, path, at, blk>>
                             /\ \/ zone' = zone
                                \/ \E s \in Slots : zone' = [zone EXCEPT ![f][s] = NoBlock]
  BY <1>0, FreeBlockIs
<1>3. /\ todo'[p] = t
      /\ \A q \in Procs \ {p} : /\ pc'[q] = pc[q] /\ op'[q] = op[q] /\ file'[q] = file[q]
                                /\ path'[q] = path[q] /\ at'[q] = at[q] /\ blk'[q] = blk[q]
                                /\ todo'[q] = todo[q]
      /\ pc'[p] # "new" /\ op'[p] # "write"
      /\ t = <<>> => op'[p] = "none"
      /\ t # <<>> => op'[p] = "truncate" /\ file'[p] = f
  <2>1. todo'[p] = t /\ \A q \in Procs \ {p} : todo'[q] = todo[q]
    BY <1>2 DEF BlocksTyped
  <2>2. CASE t = <<>>
    BY <1>2, <2>1, <2>2, ReturnIs
  <2>3. CASE t # <<>>
    BY <1>0, <1>1, <1>2, <2>1, <2>3
  <2>. QED BY <2>1, <2>2, <2>3
<1>4. b \in Kept /\ lab[b] = Label(f, 0, "todo", NoBlock, 0)
      /\ \A j \in 1..Len(todo[p]) : todo[p][j].blk = b => j = 1
  BY <1>0, <1>1 DEF BlocksInv, Fits, WorkFits
<1>5. lab[b].file = f /\ lab[b].in = "todo" /\ lab[b].depth = 0
  BY <1>4, LabelFields
<1>6. InHands' = InHands /\ b \notin InHands /\ b \notin refused /\ b \in zmap
  <2>1. \A x \in InHands' : x \in InHands
    BY <1>3 DEF InHands
  <2>2. \A x \in InHands : x \in InHands'
    BY <1>1, <1>3 DEF InHands
  <2>. QED BY <1>4, <2>1, <2>2 DEF Kept
<1>7. Kept' = Kept \ {b}
  BY <1>1, <1>6 DEF Kept
<1>8. HandsSound'
  <2>1. refused' \subseteq zmap' \ InHands'
    BY <1>1, <1>6 DEF BlocksInv, HandsSound
  <2>2. ASSUME NEW q \in Procs, pc'[q] = "new"
        PROVE  blk'[q] \in zmap' /\ \A r \in Procs : pc'[r] = "new" /\ blk'[r] = blk'[q] => r = q
    <3>1. q # p /\ pc[q] = "new" /\ blk'[q] = blk[q] /\ blk[q] \in zmap /\ blk[q] # b
      BY <1>3, <1>6, <2>2 DEF BlocksInv, HandsSound, InHands
    <3>2. blk'[q] \in zmap'
      BY <1>1, <3>1
    <3>3. \A r \in Procs : pc'[r] = "new" /\ blk'[r] = blk'[q] => r = q
      BY <1>3, <3>1 DEF BlocksInv, HandsSound
    <3>. QED BY <3>2, <3>3
  <2>. QED BY <2>1, <2>2 DEF HandsSound
<1>9. Apart'
  <2>1. \A q \in Procs : op'[q] \in {"write", "truncate"} => op'[q] = op[q] /\ file'[q] = file[q]
    BY <1>0, <1>1, <1>3
  <2>. QED BY <2>1, ApartStays DEF BlocksInv
<1>10. lab \in [Blocks -> Labels]
  BY DEF BlocksInv, Fits
<1>11. /\ Truncating(f)
       /\ \A g \in Files : g # f => (Truncating(g)' <=> Truncating(g)) /\ \A s \in Slots : zone'[g][s] = zone[g][s]
  <2>1. Truncating(f)
    BY <1>0, <1>1 DEF Truncating
  <2>2. \A g \in Files : g # f => (Truncating(g)' <=> Truncating(g))
    BY <1>0, <1>1, <1>3 DEF Truncating
  <2>3. \A g \in Files : g # f => zone'[g] = zone[g]
    BY <1>2 DEF BlocksTyped, BlocksTypeOK
  <2>. QED BY <2>1, <2>2, <2>3
<1>12. ~Truncating(f)' => \A s \in Slots : zone'[f][s] = NoBlock
  <2>1. t # <<>> => Truncating(f)'
    BY <1>3 DEF Truncating
  <2>2. t = <<>> => zone'[f] = [s \in Slots |-> NoBlock]
    BY <1>1, <1>2 DEF BlocksTyped, BlocksTypeOK
  <2>. QED BY <2>1, <2>2
<1>13. InodesFit(lab)'
  <2>1. SUFFICES ASSUME NEW g \in Files, NEW s \in Slots, ~Truncating(g)', zone'[g][s] # NoBlock
                 PROVE  /\ zone'[g][s] \in Kept'
                        /\ lab[zone'[g][s]] = Label(g, Depth[s], "inode", NoBlock, s)
    BY DEF InodesFit
  <2>2. g # f
    BY <1>12, <2>1
  <2>3. zone'[g][s] = zone[g][s] /\ ~Truncating(g)
    BY <1>11, <2>1, <2>2
  <2>4. zone[g][s] \in Kept /\ lab[zone[g][s]] = Label(g, Depth[s], "inode", NoBlock, s)
    BY <2>1, <2>3 DEF BlocksInv, Fits, InodesFit
  <2>. QED BY <1>5, <1>7, <2>3, <2>4, LabelFields
<1>14. IndirectFit(lab)'
  <2>1. SUFFICES ASSUME NEW c \in Kept, NEW e \in Entries, lab[c].depth > 0, entries[c][e] # NoBlock
                 PROVE  /\ entries[c][e] \in Kept'
                        /\ lab[entries[c][e]] = Label(lab[c].file, lab[c].depth - 1, "block", c, e)
    BY <1>1, <1>7 DEF IndirectFit
  <2>2. /\ entries[c][e] \in Kept
        /\ lab[entries[c][e]] = Label(lab[c].file, lab[c].depth - 1, "block", c, e)
    BY <2>1 DEF BlocksInv, Fits, IndirectFit
  <2>. QED BY <1>5, <1>7, <2>2, LabelFields
<1>15. WorkFits(lab)'
  <2>1. ASSUME NEW q \in Procs \ {p}, NEW k \in 1..Len(todo[q])
        PROVE  /\ todo[q][k].blk \in Kept'
               /\ lab[todo[q][k].blk] = Label(file[q], todo[q][k].depth, "todo", NoBlock, 0)
               /\ \A j \in 1..Len(todo[q]) : todo[q][j].blk = todo[q][k].blk => j = k
    <3>1. /\ todo[q][k].blk \in Kept
          /\ lab[todo[q][k].blk] = Label(file[q], todo[q][k].depth, "todo", NoBlock, 0)
          /\ \A j \in 1..Len(todo[q]) : todo[q][j].blk = todo[q][k].blk => j = k
      BY DEF BlocksInv, Fits, WorkFits
    <3>2. lab[todo[q][k].blk].file # f
      BY <1>0, <1>1, OthersApart
    <3>. QED BY <1>5, <1>7, <3>1, <3>2
  <2>2. ASSUME NEW k \in 1..Len(t)
        PROVE  /\ t[k].blk \in Kept'
               /\ lab[t[k].blk] = Label(file'[p], t[k].depth, "todo", NoBlock, 0)
               /\ \A j \in 1..Len(t) : t[j].blk = t[k].blk => j = k
    <3>1. t # <<>> /\ Len(t) \in Nat /\ k \in Nat
      BY <1>2
    <3>2. PICK m : m = k + 1
      OBVIOUS
    <3>3. m \in 1..Len(todo[p]) /\ t[k] = todo[p][m] /\ m # 1
      BY <1>2, <3>1, <3>2
    <3>4. /\ todo[p][m].blk \in Kept
          /\ lab[todo[p][m].blk] = Label(f, todo[p][m].depth, "todo", NoBlock, 0)
          /\ \A j \in 1..Len(todo[p]) : todo[p][j].blk = todo[p][m].blk => j = m
      BY <1>0, <3>3 DEF BlocksInv, Fits, WorkFits
    <3>5. todo[p][m].blk # b
      BY <1>4, <3>3
    <3>6. ASSUME NEW j \in 1..Len(t), t[j].blk = t[k].blk PROVE j = k
      <4>1. j + 1 \in 1..Len(todo[p]) /\ t[j] = todo[p][j + 1]
        BY <1>2
      <4>2. j + 1 = m
        BY <3>3, <3>4, <3>6, <4>1
      <4>. QED BY <3>1, <3>2, <4>2
    <3>. QED BY <1>3, <1>7, <3>1, <3>3, <3>4, <3>5, <3>6
  <2>. QED BY <1>3, <2>1, <2>2, SMTT(60) DEF WorkFits
<1>16. WritersFit(lab)'
  <2>1. WriterFits(lab, p)'
    BY <1>3 DEF WriterFits
  <2>2. ASSUME NEW q \in Procs \ {p} PROVE WriterFits(lab, q)'
    <3>1. CASE op[q] = "write"
      <4>1. file[q] # f
        BY <1>0, <1>1, <3>1, OthersApart
      <4>2. \A c \in Kept : lab[c].file = file[q] => c \in Kept'
        BY <1>5, <1>7, <4>1
      <4>. QED BY <1>3, <4>2, WriterStays DEF BlocksInv, Fits, WritersFit
    <3>2. CASE op[q] # "write"
      BY <1>3, <3>2 DEF WriterFits
    <3>. QED BY <3>1, <3>2
  <2>. QED BY <2>1, <2>2 DEF WritersFit
<1>17. ASSUME ~doubled', NEW c \in Kept' PROVE Owned(lab, c)'
  <2>1. Owned(lab, c) /\ c \in Kept /\ c # b
    BY <1>1, <1>7, <1>17 DEF BlocksInv, Fits
  <2>2. ASSUME NEW g \in Files, NEW s \in Slots, ~Truncating(g), zone[g][s] = c PROVE Owned(lab, c)'
    <3>1. ~Truncating(g)' /\ zone'[g][s] = c
      BY <1>11, <2>2
    <3>. QED BY <3>1 DEF Owned
  <2>3. ASSUME NEW g \in Kept, NEW e \in Entries, lab[g].depth > 0, entries[g][e] = c PROVE Owned(lab, c)'
    <3>1. g \in Kept' /\ entries'[g][e] = c
      BY <1>1, <1>5, <1>7, <2>3
    <3>. QED BY <2>3, <3>1 DEF Owned
  <2>4. ASSUME NEW q \in Procs, NEW k \in 1..Len(todo[q]), todo[q][k].blk = c PROVE Owned(lab, c)'
    <3>1. CASE q # p
      <4>1. todo'[q] = todo[q]
        BY <1>3, <3>1
      <4>. QED BY <2>4, <4>1 DEF Owned
    <3>2. CASE q = p
      <4>1. k # 1
        BY <1>0, <2>1, <2>4, <3>2
      <4>2. PICK m : m = k - 1
        OBVIOUS
      <4>3. m \in 1..Len(t) /\ k = m + 1
        BY <1>1, <1>2, <2>4, <3>2, <4>1, <4>2
      <4>4. t[m].blk = c
        BY <1>2, <2>4, <3>2, <4>3
      <4>. QED BY <1>3, <4>3, <4>4 DEF Owned
    <3>. QED BY <3>1, <3>2
  <2>. QED BY <2>1, <2>2, <2>3, <2>4 DEF Owned
<1>. QED BY <1>8, <1>9, <1>10, <1>13, <1>14, <1>15, <1>16, <1>17 DEF BlocksInv, Fits

(* What is left over with an indirect block that cannot be read: all there *)
(* is below it.                                                            *)
AllBelow(lab, b, B) ==
    /\ \A x \in B : /\ x \in Kept /\ lab[x].file = lab[b].file /\ lab[x].in = "block"
                    /\ lab[x].of = b \/ lab[x].of \in B
    /\ \A c \in {b} \cup B, e \in Entries :
         lab[c].depth > 0 /\ entries[c][e] # NoBlock => entries[c][e] \in B
LEMMA LeftOver ==
  ASSUME BlocksTyped, NEW lab, BlocksInv(lab), NEW h, h.blk \in Kept, h.depth \in 1..2,
         lab[h.blk].depth = h.depth,
         NEW B, B = BlocksBelow(h) \ {NoBlock}
  PROVE  AllBelow(lab, h.blk, B)
<1>. DEFINE Rec(i, e) == [place |-> <<i.blk, e>>, blk |-> entries[i.blk][e], depth |-> i.depth - 1]
            First == Below({h})
            Second == Below(First)
<1>1. h.blk # NoBlock /\ h.depth > 0
  BY KeptBlocks
<1>2. B = {j.blk : j \in First \cup Second} \ {NoBlock}
  BY DEF BlocksBelow
<1>3. ASSUME NEW c \in Kept, NEW e \in Entries, lab[c].depth > 0, entries[c][e] # NoBlock
      PROVE  /\ entries[c][e] \in Kept /\ lab[entries[c][e]].file = lab[c].file
             /\ lab[entries[c][e]].in = "block" /\ lab[entries[c][e]].of = c
             /\ lab[entries[c][e]].depth = lab[c].depth - 1
  <2>1. /\ entries[c][e] \in Kept
        /\ lab[entries[c][e]] = Label(lab[c].file, lab[c].depth - 1, "block", c, e)
    BY <1>3 DEF BlocksInv, Fits, IndirectFit
  <2>. QED BY <2>1, LabelFields
<1>4. ASSUME NEW j \in First, j.blk # NoBlock
      PROVE  /\ j.blk \in Kept /\ lab[j.blk].file = lab[h.blk].file /\ lab[j.blk].in = "block"
             /\ lab[j.blk].of = h.blk /\ lab[j.blk].depth = j.depth /\ j.depth = h.depth - 1
  <2>1. PICK i \in {h}, e \in Entries : j = Rec(i, e)
    BY <1>4 DEF Below
  <2>2. j.blk = entries[h.blk][e] /\ j.depth = h.depth - 1
    BY <2>1
  <2>. QED BY <1>1, <1>3, <1>4, <2>2
<1>5. ASSUME NEW j \in Second, j.blk # NoBlock
      PROVE  /\ j.blk \in Kept /\ lab[j.blk].file = lab[h.blk].file /\ lab[j.blk].in = "block"
             /\ lab[j.blk].of \in B /\ lab[j.blk].depth = h.depth - 2
  <2>1. PICK i \in First, e \in Entries : i.blk # NoBlock /\ i.depth > 0 /\ j = Rec(i, e)
    BY <1>5 DEF Below
  <2>2. j.blk = entries[i.blk][e] /\ i.blk \in B
    BY <1>2, <2>1
  <2>3. /\ i.blk \in Kept /\ lab[i.blk].file = lab[h.blk].file /\ lab[i.blk].depth = i.depth
        /\ i.depth = h.depth - 1
    BY <1>4, <2>1
  <2>4. /\ j.blk \in Kept /\ lab[j.blk].file = lab[i.blk].file /\ lab[j.blk].in = "block"
        /\ lab[j.blk].of = i.blk /\ lab[j.blk].depth = lab[i.blk].depth - 1
    BY <1>3, <1>5, <2>1, <2>2, <2>3
  <2>. QED BY <2>2, <2>3, <2>4
<1>6. ASSUME NEW x \in B
      PROVE  /\ x \in Kept /\ lab[x].file = lab[h.blk].file /\ lab[x].in = "block"
             /\ lab[x].of = h.blk \/ lab[x].of \in B
  <2>1. PICK j \in First \cup Second : x = j.blk /\ j.blk # NoBlock
    BY <1>2
  <2>2. CASE j \in First
    BY <1>4, <2>1, <2>2
  <2>3. CASE j \in Second
    BY <1>5, <2>1, <2>3
  <2>. QED BY <2>1, <2>2, <2>3
<1>7. ASSUME NEW c \in {h.blk} \cup B, NEW e \in Entries, lab[c].depth > 0, entries[c][e] # NoBlock
      PROVE  entries[c][e] \in B
  <2>1. CASE c = h.blk
    <3>1. Rec(h, e) \in First
      BY <1>1, BelowAre
    <3>2. Rec(h, e).blk = entries[c][e]
      BY <2>1
    <3>. HIDE DEF Rec, First, Second
    <3>. QED BY <1>2, <1>7, <3>1, <3>2
  <2>2. CASE c # h.blk
    <3>1. PICK j \in First \cup Second : c = j.blk /\ j.blk # NoBlock
      BY <1>2, <1>7, <2>2
    <3>2. CASE j \in First
      <4>1. j.depth > 0
        BY <1>4, <1>7, <3>1, <3>2
      <4>2. Rec(j, e) \in Second
        BY <3>1, <3>2, <4>1, BelowAre
      <4>3. Rec(j, e).blk = entries[c][e]
        BY <3>1
      <4>. HIDE DEF Rec, First, Second
      <4>. QED BY <1>2, <1>7, <4>2, <4>3
    <3>3. CASE j \in Second
      <4>1. lab[c].depth = h.depth - 2
        BY <1>5, <3>1, <3>3
      <4>. QED BY <1>7, <4>1
    <3>. QED BY <3>1, <3>2, <3>3
  <2>. QED BY <2>1, <2>2
<1>. QED BY <1>6, <1>7 DEF AllBelow

\* an item of the work, as its label has it
Listed(K, new, f, x) == x.blk \in K /\ new[x.blk] = Label(f, x.depth, "todo", NoBlock, 0)
AllListed(K, new, f, s) ==
    \A k \in 1..Len(s) : Listed(K, new, f, s[k])
                         /\ \A j \in 1..Len(s) : s[j].blk = s[k].blk => j = k
Unmixed(K, new, f, A, i, s) ==
    /\ Listed(K, new, f, i)
    /\ \A k \in 1..Len(A) : Listed(K, new, f, A[k]) /\ A[k].blk # i.blk
    /\ \A j, k \in 1..Len(A) : A[j].blk = A[k].blk => j = k
    /\ \A k \in 2..Len(s) : Listed(K, new, f, s[k]) /\ s[k].blk # i.blk
    /\ \A j, k \in 2..Len(s) : s[j].blk = s[k].blk => j = k
    /\ \A j \in 1..Len(A), k \in 2..Len(s) : A[j].blk # s[k].blk
LEMMA JoinedWork ==
  ASSUME NEW A \in Seq(Items), NEW i, NEW s \in Seq(Items), NEW t, Joins(A, i, s, t), s # <<>>,
         NEW K, NEW new, NEW f, Unmixed(K, new, f, A, i, s)
  PROVE  AllListed(K, new, f, t)
<1>1. Len(A) \in Nat /\ Len(s) \in Nat /\ Len(s) > 0 /\ Len(t) = Len(A) + Len(s)
  BY DEF Joins
<1>2. /\ \A k \in 1..Len(t) : k <= Len(A) => k \in 1..Len(A) /\ t[k] = A[k]
      /\ \A k \in 1..Len(t) : k = Len(A) + 1 => t[k] = i
      /\ \A k \in 1..Len(t) : k > Len(A) + 1 => t[k] = s[k - Len(A)]
  BY <1>1 DEF Joins
<1>3. \A k \in 1..Len(t) : k > Len(A) + 1 => k - Len(A) \in 2..Len(s)
  BY <1>1
<1>4. \A k \in 1..Len(t) : k <= Len(A) \/ k = Len(A) + 1 \/ k > Len(A) + 1
  BY <1>1
<1>5. ASSUME NEW k \in 1..Len(t) PROVE Listed(K, new, f, t[k])
  <2>1. CASE k <= Len(A)
    BY <1>2, <2>1 DEF Unmixed
  <2>2. CASE k = Len(A) + 1
    BY <1>2, <2>2 DEF Unmixed
  <2>3. CASE k > Len(A) + 1
    BY <1>2, <1>3, <2>3 DEF Unmixed
  <2>. QED BY <1>4, <2>1, <2>2, <2>3
<1>7. \A j, k \in 1..Len(t) : j <= Len(A) /\ k = Len(A) + 1 => t[j].blk # t[k].blk
  BY <1>2 DEF Unmixed
<1>8. \A j, k \in 1..Len(t) : j <= Len(A) /\ k > Len(A) + 1 => t[j].blk # t[k].blk
  BY <1>2, <1>3 DEF Unmixed
<1>9. \A j, k \in 1..Len(t) : j = Len(A) + 1 /\ k > Len(A) + 1 => t[j].blk # t[k].blk
  BY <1>2, <1>3 DEF Unmixed
<1>6. ASSUME NEW k \in 1..Len(t), NEW j \in 1..Len(t), t[j].blk = t[k].blk PROVE j = k
  <2>1. CASE k <= Len(A)
    <3>1. j <= Len(A)
      BY <1>4, <1>6, <1>7, <1>8, <2>1
    <3>. QED BY <1>2, <1>6, <2>1, <3>1 DEF Unmixed
  <2>2. CASE k = Len(A) + 1
    <3>1. j = Len(A) + 1
      BY <1>4, <1>6, <1>7, <1>9, <2>2
    <3>. QED BY <2>2, <3>1
  <2>3. CASE k > Len(A) + 1
    <3>1. j > Len(A) + 1
      BY <1>4, <1>6, <1>8, <1>9, <2>3
    <3>2. j - Len(A) = k - Len(A)
      BY <1>2, <1>3, <1>6, <2>3, <3>1, ZenonT(60) DEF Unmixed
    <3>. QED BY <1>1, <3>2
  <2>. QED BY <1>4, <2>1, <2>2, <2>3
<1>. QED BY <1>5, <1>6 DEF AllListed

LEMMA JoinedHas ==
  ASSUME NEW A \in Seq(Items), NEW i, NEW s \in Seq(Items), NEW t, Joins(A, i, s, t), s # <<>>
  PROVE  /\ \A k \in 1..Len(A) : \E m \in 1..Len(t) : t[m] = A[k]
         /\ \E m \in 1..Len(t) : t[m] = i
         /\ \A k \in 2..Len(s) : \E m \in 1..Len(t) : t[m] = s[k]
<1>1. Len(A) \in Nat /\ Len(s) \in Nat /\ Len(s) > 0 /\ Len(t) = Len(A) + Len(s)
  BY DEF Joins
<1>2. ASSUME NEW k \in 1..Len(A) PROVE \E m \in 1..Len(t) : t[m] = A[k]
  <2>1. k \in 1..Len(t) /\ k <= Len(A)
    BY <1>1
  <2>. QED BY <2>1 DEF Joins
<1>3. \E m \in 1..Len(t) : t[m] = i
  <2>1. PICK m : m = Len(A) + 1
    OBVIOUS
  <2>2. m \in 1..Len(t)
    BY <1>1, <2>1
  <2>. QED BY <2>1, <2>2 DEF Joins
<1>4. ASSUME NEW k \in 2..Len(s) PROVE \E m \in 1..Len(t) : t[m] = s[k]
  <2>1. PICK m : m = Len(A) + k
    OBVIOUS
  <2>2. m \in 1..Len(t) /\ m > Len(A) + 1 /\ m - Len(A) = k
    BY <1>1, <2>1
  <2>. QED BY <2>2 DEF Joins
<1>. QED BY <1>2, <1>3, <1>4

(* free_ind(), free_dind(): the indirect block is split up. *)
LEMMA KeepsFreeIndirect ==
  ASSUME BlocksTyped, NEW lab, BlocksInv(lab), NEW p \in Procs, FreeIndirect(p)
  PROVE  \E new : BlocksInv(new)'
<1>0. PICK h, f : h = todo[p][1] /\ f = file[p]
  OBVIOUS
<1>1. PICK b, d : b = h.blk /\ d = h.depth
  OBVIOUS
<1>2. /\ pc[p] = "free" /\ op[p] = "truncate" /\ f \in Files /\ todo[p] # <<>> /\ 1 \in 1..Len(todo[p])
      /\ d \in 1..2 /\ b \in Blocks /\ Len(todo[p]) \in Nat /\ todo[p] \in Seq(Items)
      /\ UNCHANGED <<zone, entries, zmap, pc, op, file, path, at, blk, doubled, overlap>>
  <2>1. /\ pc[p] = "free" /\ todo[p] # <<>> /\ 1 \in 1..Len(todo[p])
        /\ d \in 1..2 /\ b \in Blocks /\ Len(todo[p]) \in Nat
        /\ UNCHANGED <<zone, entries, zmap, pc, op, file, path, at, blk, doubled, overlap>>
    BY <1>0, <1>1, FreeIndirectIs DEF calls
  <2>. QED BY <1>0, <2>1, FileOf DEF CallOk
<1>3. PICK A \in Seq(Items), i \in Items, t \in Seq(Items) : NewWork(p, A, i, t)
  BY FreeIndirectIs
<1>4. /\ i.blk = b /\ i.depth = 0 /\ todo' = [todo EXCEPT ![p] = t] /\ Joins(A, i, todo[p], t)
      /\ FromEntries(b, A, d - 1)
      /\ todo'[p] = t /\ \A q \in Procs \ {p} : todo'[q] = todo[q]
  BY <1>0, <1>1, <1>3 DEF NewWork, BlocksTyped
<1>5. b \in Kept /\ lab[b] = Label(f, d, "todo", NoBlock, 0)
      /\ \A j \in 1..Len(todo[p]) : todo[p][j].blk = b => j = 1
  BY <1>0, <1>1, <1>2 DEF BlocksInv, Fits, WorkFits
<1>6. lab[b].file = f /\ lab[b].in = "todo" /\ lab[b].depth = d /\ d > 0
  BY <1>2, <1>5, LabelFields
<1>7. InHands' = InHands
  BY <1>2 DEF InHands
<1>8. Apart'
  BY <1>2, ApartStays DEF BlocksInv
<1>9. lab \in [Blocks -> Labels] /\ \A c \in Kept : c \in Blocks /\ c # NoBlock
  BY KeptBlocks DEF BlocksInv, Fits
<1>10. \A g \in Files : Truncating(g)' <=> Truncating(g)
  BY <1>2 DEF Truncating
<1>11. ASSUME NEW e \in Entries, entries[b][e] # NoBlock
       PROVE  entries[b][e] \in Kept /\ lab[entries[b][e]] = Label(f, d - 1, "block", b, e)
  BY <1>5, <1>6, <1>11 DEF BlocksInv, Fits, IndirectFit
<1>12. \A k \in 2..Len(todo[p]) :
          /\ todo[p][k].blk \in Kept /\ todo[p][k].blk # b
          /\ lab[todo[p][k].blk] = Label(f, todo[p][k].depth, "todo", NoBlock, 0)
          /\ \A j \in 2..Len(todo[p]) : todo[p][j].blk = todo[p][k].blk => j = k
  <2>1. \A k \in 2..Len(todo[p]) : k \in 1..Len(todo[p]) /\ k # 1
    BY <1>2
  <2>2. \A k \in 1..Len(todo[p]) :
          /\ todo[p][k].blk \in Kept
          /\ lab[todo[p][k].blk] = Label(f, todo[p][k].depth, "todo", NoBlock, 0)
          /\ \A j \in 1..Len(todo[p]) : todo[p][j].blk = todo[p][k].blk => j = k
    BY <1>0 DEF BlocksInv, Fits, WorkFits
  <2>. QED BY <1>5, <2>1, <2>2
\* what the other processes have stays as it is, if the labels of other files do
<1>13. ASSUME NEW new,
              \A c \in Kept : lab[c].file # f => c \in Kept' /\ new[c] = lab[c]
       PROVE  /\ WritersFit(new)'
              /\ \A q \in Procs \ {p} : \A k \in 1..Len(todo[q]) :
                   /\ Listed(Kept', new, file[q], todo[q][k])
                   /\ \A j \in 1..Len(todo[q]) : todo[q][j].blk = todo[q][k].blk => j = k
  <2>1. ASSUME NEW q \in Procs PROVE WriterFits(new, q)'
    <3>1. CASE op[q] = "write"
      <4>1. q # p
        BY <1>2, <3>1
      <4>2. file[q] # f
        BY <1>0, <1>2, <3>1, <4>1, OthersApart
      <4>3. \A c \in Kept : lab[c].file = file[q] =>
              c \in Kept' /\ new[c].file = lab[c].file /\ new[c].depth = lab[c].depth
        BY <1>13, <4>2
      <4>. QED BY <1>2, <4>3, WriterStays DEF BlocksInv, Fits, WritersFit
    <3>2. CASE op[q] # "write"
      BY <1>2, <3>2 DEF WriterFits
    <3>. QED BY <3>1, <3>2
  <2>2. ASSUME NEW q \in Procs \ {p}, NEW k \in 1..Len(todo[q])
        PROVE  /\ Listed(Kept', new, file[q], todo[q][k])
               /\ \A j \in 1..Len(todo[q]) : todo[q][j].blk = todo[q][k].blk => j = k
    <3>1. /\ todo[q][k].blk \in Kept
          /\ lab[todo[q][k].blk] = Label(file[q], todo[q][k].depth, "todo", NoBlock, 0)
          /\ \A j \in 1..Len(todo[q]) : todo[q][j].blk = todo[q][k].blk => j = k
      BY DEF BlocksInv, Fits, WorkFits
    <3>2. lab[todo[q][k].blk].file # f
      BY <1>0, <1>2, OthersApart
    <3>. QED BY <1>13, <3>1, <3>2 DEF Listed
  <2>. QED BY <2>1, <2>2 DEF WritersFit
<1>14. ASSUME NEW new,
              \A q \in Procs \ {p} : \A k \in 1..Len(todo[q]) :
                   /\ Listed(Kept', new, file[q], todo[q][k])
                   /\ \A j \in 1..Len(todo[q]) : todo[q][j].blk = todo[q][k].blk => j = k,
              \A k \in 1..Len(t) : Listed(Kept', new, f, t[k])
                                   /\ \A j \in 1..Len(t) : t[j].blk = t[k].blk => j = k
       PROVE  WorkFits(new)'
  <2>1. SUFFICES ASSUME NEW q \in Procs, NEW k \in 1..Len(todo'[q])
                 PROVE  /\ Listed(Kept', new, file[q], todo'[q][k])
                        /\ \A j \in 1..Len(todo'[q]) : todo'[q][j].blk = todo'[q][k].blk => j = k
    BY <1>2 DEF WorkFits, Listed
  <2>2. CASE q = p
    BY <1>0, <1>4, <1>14, <2>2
  <2>3. CASE q # p
    BY <1>4, <1>14, <2>3
  <2>. QED BY <2>2, <2>3
\* what is in the work is there still
<1>15. \A c : \A q \in Procs : c # b /\ (\E k \in 1..Len(todo[q]) : todo[q][k].blk = c) =>
          \E k \in 1..Len(todo'[q]) : todo'[q][k].blk = c
  <2>1. ASSUME NEW q \in Procs, NEW c, c # b, NEW k \in 1..Len(todo[q]), todo[q][k].blk = c
        PROVE  \E m \in 1..Len(todo'[q]) : todo'[q][m].blk = c
    <3>1. CASE q # p
      BY <1>4, <2>1, <3>1
    <3>2. CASE q = p
      <4>1. k # 1
        BY <1>0, <1>1, <2>1, <3>2
      <4>2. k \in 2..Len(todo[p])
        BY <1>2, <2>1, <3>2, <4>1
      <4>3. \E m \in 1..Len(t) : t[m] = todo[p][k]
        BY <1>2, <1>4, <4>2, JoinedHas
      <4>. QED BY <1>4, <2>1, <3>2, <4>3
    <3>. QED BY <3>1, <3>2
  <2>. QED BY <2>1
<1>16. \E k \in 1..Len(todo'[p]) : todo'[p][k].blk = b
  <2>1. \E k \in 1..Len(t) : t[k] = i
    BY <1>2, <1>4, JoinedHas
  <2>. QED BY <1>4, <2>1
<1>17. Label(f, 0, "todo", NoBlock, 0) \in Labels /\ Label(f, d - 1, "todo", NoBlock, 0) \in Labels
  <2>1. NoBlock \in Nat /\ 0 \in Nat /\ f \in Files \cup {NoFile} /\ 0 \in 0..2 /\ d - 1 \in 0..2
    BY <1>2, FileBlocksConstants
  <2>. QED BY <2>1, LabelsAre
\* the block is read, and what it points to comes before it
<1>20. ASSUME refused' = refused,
              \A e \in Entries : entries[b][e] # NoBlock => \E k \in 1..Len(A) : A[k].blk = entries[b][e]
       PROVE  \E new : BlocksInv(new)'
  <2>. DEFINE Child(c) == \E e \in Entries : entries[b][e] = c
  <2>1. PICK new : new = [c \in Blocks |-> IF c = b THEN Label(f, 0, "todo", NoBlock, 0)
                                           ELSE IF Child(c) THEN Label(f, d - 1, "todo", NoBlock, 0)
                                           ELSE lab[c]]
    OBVIOUS
  <2>2. new \in [Blocks -> Labels]
    BY <1>9, <1>17, <2>1
  <2>3. Kept' = Kept
    BY <1>2, <1>7, <1>20 DEF Kept
  <2>4. \A c \in Kept : Child(c) => /\ lab[c].file = f /\ lab[c].in = "block" /\ lab[c].of = b
                                    /\ lab[c].depth = d - 1 /\ c # b
                                    /\ new[c] = Label(f, d - 1, "todo", NoBlock, 0)
    BY <1>6, <1>9, <1>11, <2>1, LabelFields
  <2>5. new[b] = Label(f, 0, "todo", NoBlock, 0) /\ \A c \in Kept : c # b /\ ~Child(c) => new[c] = lab[c]
    BY <1>2, <1>9, <2>1
  <2>6. /\ \A c \in Kept : new[c].file = lab[c].file /\ (c # b => new[c].depth = lab[c].depth)
        /\ new[b].depth = 0
    BY <1>6, <2>4, <2>5, LabelFields
  <2>7. \A c \in Kept : lab[c].in = "inode" \/ lab[c].file # f
                        \/ (lab[c].in = "block" /\ lab[c].of # b) \/ (lab[c].in = "todo" /\ c # b)
                          => new[c] = lab[c]
    BY <1>6, <2>4, <2>5
  <2>. HIDE DEF Child
  <2>8. HandsSound'
    BY <1>2, <1>7, <1>20 DEF BlocksInv, HandsSound
  <2>9. InodesFit(new)'
    <3>1. SUFFICES ASSUME NEW g \in Files, NEW s \in Slots, ~Truncating(g), zone[g][s] # NoBlock
                   PROVE  /\ zone[g][s] \in Kept
                          /\ new[zone[g][s]] = Label(g, Depth[s], "inode", NoBlock, s)
      BY <1>2, <1>10, <2>3 DEF InodesFit
    <3>2. zone[g][s] \in Kept /\ lab[zone[g][s]] = Label(g, Depth[s], "inode", NoBlock, s)
      BY <3>1 DEF BlocksInv, Fits, InodesFit
    <3>. QED BY <2>7, <3>2, LabelFields
  <2>10. IndirectFit(new)'
    <3>1. SUFFICES ASSUME NEW c \in Kept, NEW e \in Entries, new[c].depth > 0, entries[c][e] # NoBlock
                   PROVE  /\ entries[c][e] \in Kept
                          /\ new[entries[c][e]] = Label(new[c].file, new[c].depth - 1, "block", c, e)
      BY <1>2, <2>3 DEF IndirectFit
    <3>2. c # b /\ new[c].file = lab[c].file /\ new[c].depth = lab[c].depth
      BY <2>6, <3>1
    <3>3. /\ entries[c][e] \in Kept
          /\ lab[entries[c][e]] = Label(lab[c].file, lab[c].depth - 1, "block", c, e)
      BY <3>1, <3>2 DEF BlocksInv, Fits, IndirectFit
    <3>. QED BY <2>7, <3>2, <3>3, LabelFields
  <2>11. /\ WritersFit(new)'
         /\ \A q \in Procs \ {p} : \A k \in 1..Len(todo[q]) :
                   /\ Listed(Kept', new, file[q], todo[q][k])
                   /\ \A j \in 1..Len(todo[q]) : todo[q][j].blk = todo[q][k].blk => j = k
    BY <1>13, <2>3, <2>7
  <2>12. WorkFits(new)'
    <3>1. Listed(Kept', new, f, i)
      BY <1>4, <1>5, <2>3, <2>5 DEF Listed
    <3>2. ASSUME NEW k \in 1..Len(A)
          PROVE  /\ Listed(Kept', new, f, A[k]) /\ A[k].blk # b /\ lab[A[k].blk].in = "block"
                 /\ \A j \in 1..Len(A) : A[j].blk = A[k].blk => j = k
      <4>1. PICK e \in Entries :
              /\ A[k].blk = entries[b][e] /\ A[k].blk # NoBlock /\ A[k].depth = d - 1
              /\ \A j \in 1..Len(A) : A[j].blk = A[k].blk =>
                   j = k \/ \E g \in Entries : g # e /\ entries[b][g] = entries[b][e]
        BY <1>4 DEF FromEntries
      <4>2. A[k].blk \in Kept /\ Child(A[k].blk)
        BY <1>11, <4>1 DEF Child
      <4>3. \A g \in Entries : entries[b][g] = entries[b][e] => g = e
        <5>1. ASSUME NEW g \in Entries, entries[b][g] = entries[b][e] PROVE g = e
          <6>1. Label(f, d - 1, "block", b, g) = Label(f, d - 1, "block", b, e)
            BY <1>11, <4>1, <5>1
          <6>2. Label(f, d - 1, "block", b, g).slot = g /\ Label(f, d - 1, "block", b, e).slot = e
            BY LabelFields
          <6>. QED BY <6>1, <6>2
        <5>. QED BY <5>1
      <4>. QED BY <2>3, <2>4, <4>1, <4>2, <4>3 DEF Listed
    <3>3. ASSUME NEW k \in 2..Len(todo[p])
          PROVE  /\ Listed(Kept', new, f, todo[p][k]) /\ todo[p][k].blk # b
                 /\ lab[todo[p][k].blk].in = "todo"
      BY <1>12, <2>3, <2>7, LabelFields DEF Listed
    <3>4. \A k \in 1..Len(A), j \in 2..Len(todo[p]) : A[k].blk # todo[p][j].blk
      BY <3>2, <3>3
    <3>5. \A k \in 1..Len(t) : Listed(Kept', new, f, t[k])
                               /\ \A j \in 1..Len(t) : t[j].blk = t[k].blk => j = k
      <4>1. \A k \in 1..Len(A) : Listed(Kept', new, f, A[k]) /\ A[k].blk # i.blk
        BY <1>4, <3>2
      <4>2. \A j, k \in 1..Len(A) : A[j].blk = A[k].blk => j = k
        BY <3>2
      <4>3. \A k \in 2..Len(todo[p]) : Listed(Kept', new, f, todo[p][k]) /\ todo[p][k].blk # i.blk
        BY <1>4, <3>3
      <4>4. \A j, k \in 2..Len(todo[p]) : todo[p][j].blk = todo[p][k].blk => j = k
        BY <1>12
      <4>5. \A j \in 1..Len(A), k \in 2..Len(todo[p]) : A[j].blk # todo[p][k].blk
        BY <3>4
      <4>6. todo[p] \in Seq(Items) /\ todo[p] # <<>> /\ Joins(A, i, todo[p], t)
        BY <1>2, <1>4
      <4>7. Unmixed(Kept', new, f, A, i, todo[p])
        BY <3>1, <4>1, <4>2, <4>3, <4>4, <4>5 DEF Unmixed
      <4>8. AllListed(Kept', new, f, t)
        BY <4>6, <4>7, JoinedWork
      <4>. QED BY <4>8 DEF AllListed
    <3>. QED BY <1>14, <2>11, <3>5
  <2>13. ASSUME ~doubled', NEW c \in Kept' PROVE Owned(new, c)'
    <3>1. Owned(lab, c) /\ c \in Kept /\ c # NoBlock
      BY <1>2, <1>9, <2>3, <2>13 DEF BlocksInv, Fits
    <3>2. CASE c = b
      BY <1>16, <3>2 DEF Owned
    <3>3. CASE c # b /\ Child(c)
      <4>1. PICK e \in Entries : entries[b][e] = c
        BY <3>3 DEF Child
      <4>2. PICK k \in 1..Len(A) : A[k].blk = c
        BY <1>20, <3>1, <4>1
      <4>3. \E m \in 1..Len(t) : t[m] = A[k]
        BY <1>2, <1>4, JoinedHas
      <4>. QED BY <1>4, <4>2, <4>3 DEF Owned
    <3>4. CASE c # b /\ ~Child(c)
      <4>1. ASSUME NEW g \in Files, NEW s \in Slots, ~Truncating(g), zone[g][s] = c PROVE Owned(new, c)'
        BY <1>2, <1>10, <4>1 DEF Owned
      <4>2. ASSUME NEW g \in Kept, NEW e \in Entries, lab[g].depth > 0, entries[g][e] = c PROVE Owned(new, c)'
        <5>1. g # b
          BY <3>4, <4>2 DEF Child
        <5>2. g \in Kept' /\ new[g].depth > 0 /\ entries'[g][e] = c
          BY <1>2, <2>3, <2>6, <4>2, <5>1
        <5>. QED BY <5>2 DEF Owned
      <4>3. ASSUME NEW q \in Procs, NEW k \in 1..Len(todo[q]), todo[q][k].blk = c PROVE Owned(new, c)'
        BY <1>15, <3>4, <4>3 DEF Owned
      <4>. QED BY <3>1, <4>1, <4>2, <4>3 DEF Owned
    <3>. QED BY <3>2, <3>3, <3>4
  <2>14. BlocksInv(new)'
    BY <1>8, <2>2, <2>8, <2>9, <2>10, <2>11, <2>12, <2>13 DEF BlocksInv, Fits
  <2>. QED BY <2>14
\* the block cannot be read, and what is below it is left over
<1>21. ASSUME A = <<>>, refused' = refused \cup (BlocksBelow(h) \ {NoBlock})
       PROVE  \E new : BlocksInv(new)'
  <2>1. PICK B : B = BlocksBelow(h) \ {NoBlock}
    OBVIOUS
  <2>2. /\ \A x \in B : /\ x \in Kept /\ lab[x].file = f /\ lab[x].in = "block"
                        /\ lab[x].of = b \/ lab[x].of \in B
        /\ \A c \in {b} \cup B, e \in Entries :
             lab[c].depth > 0 /\ entries[c][e] # NoBlock => entries[c][e] \in B
    <3>1. h.blk \in Kept /\ h.depth \in 1..2 /\ lab[h.blk].depth = h.depth
      BY <1>1, <1>2, <1>5, <1>6
    <3>2. AllBelow(lab, h.blk, B)
      BY <2>1, <3>1, LeftOver
    <3>3. AllBelow(lab, b, B)
      BY <1>1, <3>2
    <3>. QED BY <1>6, <3>3 DEF AllBelow
  <2>3. PICK new : new = [lab EXCEPT ![b] = Label(f, 0, "todo", NoBlock, 0)]
    OBVIOUS
  <2>4. new \in [Blocks -> Labels] /\ new[b] = Label(f, 0, "todo", NoBlock, 0)
        /\ \A c \in Kept : c # b => new[c] = lab[c]
    BY <1>2, <1>9, <1>17, <2>3
  <2>5. Kept' = Kept \ B
    BY <1>2, <1>7, <1>21, <2>1 DEF Kept
  <2>6. b \notin B
    BY <1>6, <2>2
  <2>7. new[b].depth = 0 /\ new[b].file = f
    BY <2>4, LabelFields
  <2>8. HandsSound'
    <3>1. B \subseteq zmap \ InHands
      BY <2>2 DEF Kept
    <3>2. refused' \subseteq zmap' \ InHands'
      BY <1>2, <1>7, <1>21, <2>1, <3>1 DEF BlocksInv, HandsSound
    <3>. QED BY <1>2, <3>2 DEF BlocksInv, HandsSound
  <2>9. InodesFit(new)'
    <3>1. SUFFICES ASSUME NEW g \in Files, NEW s \in Slots, ~Truncating(g), zone[g][s] # NoBlock
                   PROVE  /\ zone[g][s] \in Kept'
                          /\ new[zone[g][s]] = Label(g, Depth[s], "inode", NoBlock, s)
      BY <1>2, <1>10 DEF InodesFit
    <3>2. zone[g][s] \in Kept /\ lab[zone[g][s]] = Label(g, Depth[s], "inode", NoBlock, s)
      BY <3>1 DEF BlocksInv, Fits, InodesFit
    <3>3. lab[zone[g][s]].in = "inode"
      BY <3>2, LabelFields
    <3>. QED BY <1>6, <2>2, <2>4, <2>5, <3>2, <3>3
  <2>10. IndirectFit(new)'
    <3>1. SUFFICES ASSUME NEW c \in Kept', NEW e \in Entries, new[c].depth > 0, entries[c][e] # NoBlock
                   PROVE  /\ entries[c][e] \in Kept'
                          /\ new[entries[c][e]] = Label(new[c].file, new[c].depth - 1, "block", c, e)
      BY <1>2 DEF IndirectFit
    <3>2. c \in Kept /\ c \notin B /\ c # b /\ new[c] = lab[c]
      BY <2>4, <2>5, <2>7, <3>1
    <3>3. /\ entries[c][e] \in Kept
          /\ lab[entries[c][e]] = Label(lab[c].file, lab[c].depth - 1, "block", c, e)
      BY <3>1, <3>2 DEF BlocksInv, Fits, IndirectFit
    <3>4. lab[entries[c][e]].in = "block" /\ lab[entries[c][e]].of = c
      BY <3>3, LabelFields
    <3>. QED BY <1>6, <2>2, <2>4, <2>5, <3>2, <3>3, <3>4
  <2>11. /\ WritersFit(new)'
         /\ \A q \in Procs \ {p} : \A k \in 1..Len(todo[q]) :
                   /\ Listed(Kept', new, file[q], todo[q][k])
                   /\ \A j \in 1..Len(todo[q]) : todo[q][j].blk = todo[q][k].blk => j = k
    <3>1. \A c \in Kept : lab[c].file # f => c \in Kept' /\ new[c] = lab[c]
      BY <1>6, <2>2, <2>4, <2>5
    <3>. QED BY <1>13, <3>1
  <2>12. WorkFits(new)'
    <3>1. Listed(Kept', new, f, i)
      BY <1>4, <1>5, <2>4, <2>5, <2>6 DEF Listed
    <3>2. 1..Len(A) = {}
      BY <1>21
    <3>3. ASSUME NEW k \in 2..Len(todo[p])
          PROVE  Listed(Kept', new, f, todo[p][k]) /\ todo[p][k].blk # b
      <4>1. /\ todo[p][k].blk \in Kept /\ todo[p][k].blk # b
            /\ lab[todo[p][k].blk] = Label(f, todo[p][k].depth, "todo", NoBlock, 0)
        BY <1>12
      <4>2. lab[todo[p][k].blk].in = "todo"
        BY <4>1, LabelFields
      <4>. QED BY <2>2, <2>4, <2>5, <4>1, <4>2 DEF Listed
    <3>4. \A k \in 1..Len(t) : Listed(Kept', new, f, t[k])
                               /\ \A j \in 1..Len(t) : t[j].blk = t[k].blk => j = k
      <4>1. \A k \in 1..Len(A) : Listed(Kept', new, f, A[k]) /\ A[k].blk # i.blk
        BY <1>4, <3>2
      <4>2. \A j, k \in 1..Len(A) : A[j].blk = A[k].blk => j = k
        BY <3>2
      <4>3. \A k \in 2..Len(todo[p]) : Listed(Kept', new, f, todo[p][k]) /\ todo[p][k].blk # i.blk
        BY <1>4, <3>3
      <4>4. \A j, k \in 2..Len(todo[p]) : todo[p][j].blk = todo[p][k].blk => j = k
        BY <1>12
      <4>5. \A j \in 1..Len(A), k \in 2..Len(todo[p]) : A[j].blk # todo[p][k].blk
        BY <3>2
      <4>6. todo[p] \in Seq(Items) /\ todo[p] # <<>> /\ Joins(A, i, todo[p], t)
        BY <1>2, <1>4
      <4>7. Unmixed(Kept', new, f, A, i, todo[p])
        BY <3>1, <4>1, <4>2, <4>3, <4>4, <4>5 DEF Unmixed
      <4>8. AllListed(Kept', new, f, t)
        BY <4>6, <4>7, JoinedWork
      <4>. QED BY <4>8 DEF AllListed
    <3>. QED BY <1>14, <2>11, <3>4
  <2>13. ASSUME ~doubled', NEW c \in Kept' PROVE Owned(new, c)'
    <3>1. Owned(lab, c) /\ c \in Kept /\ c \notin B /\ c # NoBlock
      BY <1>2, <1>9, <2>5, <2>13 DEF BlocksInv, Fits
    <3>2. ASSUME NEW g \in Files, NEW s \in Slots, ~Truncating(g), zone[g][s] = c PROVE Owned(new, c)'
      BY <1>2, <1>10, <3>2 DEF Owned
    <3>3. ASSUME NEW g \in Kept, NEW e \in Entries, lab[g].depth > 0, entries[g][e] = c PROVE Owned(new, c)'
      <4>1. g # b /\ g \notin B
        BY <2>2, <3>1, <3>3
      <4>2. g \in Kept' /\ new[g].depth > 0 /\ entries'[g][e] = c
        BY <1>2, <2>4, <2>5, <3>3, <4>1
      <4>. QED BY <4>2 DEF Owned
    <3>4. ASSUME NEW q \in Procs, NEW k \in 1..Len(todo[q]), todo[q][k].blk = c PROVE Owned(new, c)'
      <4>1. CASE c = b
        BY <1>16, <4>1 DEF Owned
      <4>2. CASE c # b
        BY <1>15, <3>4, <4>2 DEF Owned
      <4>. QED BY <4>1, <4>2
    <3>. QED BY <3>1, <3>2, <3>3, <3>4 DEF Owned
  <2>14. BlocksInv(new)'
    BY <1>8, <2>4, <2>8, <2>9, <2>10, <2>11, <2>12, <2>13 DEF BlocksInv, Fits
  <2>. QED BY <2>14
<1>22. \/ refused' = refused
          /\ \A e \in Entries : entries[b][e] # NoBlock => \E k \in 1..Len(A) : A[k].blk = entries[b][e]
       \/ A = <<>> /\ refused' = refused \cup (BlocksBelow(h) \ {NoBlock})
  BY <1>0, <1>3, <1>4 DEF NewWork
<1>. QED BY <1>20, <1>21, <1>22
-----------------------------------------------------------------------------
(* The theorems *)

LEMMA BlocksIInvInit == BlocksInit => BlocksIInv
<1>. SUFFICES ASSUME BlocksInit PROVE BlocksIInv
  OBVIOUS
<1>1. <<>> \in Seq(Nat) /\ <<>> \in Seq(Items) /\ Len(<<>>) = 0
  OBVIOUS
<1>2. BlocksTyped
  <2>1. Zeroes \in [Entries -> Blocks \cup {NoBlock}]
    BY DEF Zeroes
  <2>. HIDE DEF Zeroes
  <2>2. BlocksTypeOK
    BY <2>1 DEF BlocksInit, BlocksTypeOK
  <2>3. path \in [Procs -> Seq(Nat)] /\ todo \in [Procs -> Seq(Items)]
    BY <1>1 DEF BlocksInit
  <2>4. \A p \in Procs : CallOk(p) /\ PathOk(p)
    BY DEF BlocksInit, CallOk, PathOk, Following
  <2>. QED BY <2>2, <2>3, <2>4 DEF BlocksTyped
<1>3. Kept = {} /\ InHands = {}
  BY DEF BlocksInit, Kept, InHands
<1>4. PICK lab : lab = [b \in Blocks |-> Label(NoFile, 0, "inode", 0, 0)]
  OBVIOUS
<1>5. lab \in [Blocks -> Labels]
  <2>1. Label(NoFile, 0, "inode", 0, 0) \in Labels
    BY LabelsAre
  <2>. QED BY <1>4, <2>1
<1>6. InodesFit(lab) /\ IndirectFit(lab) /\ WritersFit(lab)
  BY <1>3 DEF BlocksInit, InodesFit, IndirectFit, WritersFit, WriterFits
<1>7. WorkFits(lab)
  BY <1>1 DEF BlocksInit, WorkFits
<1>8. HandsSound /\ Apart
  BY <1>3 DEF BlocksInit, HandsSound, Apart
<1>9. BlocksInv(lab)
  BY <1>3, <1>5, <1>6, <1>7, <1>8 DEF BlocksInv, Fits
<1>. QED BY <1>2, <1>9 DEF BlocksIInv

LEMMA BlocksIInvNext == BlocksIInv /\ [BlocksNext]_blockVars => BlocksIInv'
<1>. SUFFICES ASSUME BlocksIInv, [BlocksNext]_blockVars PROVE BlocksIInv'
  OBVIOUS
<1>1. BlocksTyped
  BY DEF BlocksIInv
\* a step from where no file is truncated under its writer
<1>2. ASSUME ~overlap, BlocksTyped', \A lab : BlocksInv(lab) /\ ~overlap' => \E new : BlocksInv(new)'
      PROVE  BlocksIInv'
  <2>1. PICK lab : BlocksInv(lab)
    BY <1>2 DEF BlocksIInv
  <2>. QED BY <1>2, <2>1 DEF BlocksIInv
<1>3. CASE UNCHANGED blockVars
  <2>1. BlocksTyped'
    BY <1>1, <1>3 DEF BlocksTyped, BlocksTypeOK, CallOk, PathOk, blockVars, calls
  <2>2. ASSUME NEW lab, BlocksInv(lab) PROVE BlocksInv(lab)'
    <3>1. UNCHANGED <<zone, entries, zmap, pc, op, file, path, at, blk, todo, refused, doubled, overlap>>
      BY <1>3 DEF blockVars, calls
    <3>2. HandsSound' /\ Kept' = Kept
      BY <1>1, <2>2, <3>1, HandsStay DEF BlocksInv
    <3>3. Apart'
      BY <2>2, <3>1, ApartStays DEF BlocksInv
    <3>4. WritersFit(lab)'
      BY <2>2, <3>1, <3>2 DEF BlocksInv, Fits, WritersFit, WriterFits, Belongs
    <3>. QED BY <1>1, <2>2, <3>1, <3>2, <3>3, <3>4, SameDisk
  <2>3. overlap' = overlap
    BY <1>3 DEF blockVars
  <2>. QED BY <2>1, <2>2, <2>3 DEF BlocksIInv
<1>4. ASSUME NEW p \in Procs, Step(p) PROVE BlocksIInv'
  <2>1. CASE Walk(p)
    <3>1. ~overlap /\ BlocksTyped'
      BY <1>1, <2>1, TypedWalk DEF Walk, At
    <3>. QED BY <1>1, <1>2, <2>1, <3>1, KeepsWalk
  <2>2. CASE NewBlock(p)
    <3>1. ~overlap /\ BlocksTyped'
      BY <1>1, <2>2, TypedNewBlock DEF NewBlock, At
    <3>. QED BY <1>1, <1>2, <2>2, <3>1, KeepsNewBlock
  <2>3. CASE Found(p)
    <3>1. ~overlap /\ BlocksTyped'
      BY <1>1, <2>3, TypedFound DEF Found, At
    <3>. QED BY <1>1, <1>2, <2>3, <3>1, KeepsFound
  <2>4. CASE Indirect(p)
    <3>1. ~overlap /\ BlocksTyped'
      BY <1>1, <2>4, TypedIndirect DEF Indirect, At
    <3>. QED BY <1>1, <1>2, <2>4, <3>1, KeepsIndirect
  <2>5. CASE Data(p)
    <3>1. ~overlap /\ BlocksTyped'
      BY <1>1, <2>5, TypedData DEF Data, At
    <3>. QED BY <1>1, <1>2, <2>5, <3>1, KeepsData
  <2>6. CASE FreeIndirect(p)
    <3>1. ~overlap /\ BlocksTyped'
      BY <1>1, <2>6, TypedFreeIndirect DEF FreeIndirect, At
    <3>. QED BY <1>1, <1>2, <2>6, <3>1, KeepsFreeIndirect
  <2>7. CASE FreeBlock(p)
    <3>1. ~overlap /\ BlocksTyped'
      BY <1>1, <2>7, TypedFreeBlock DEF FreeBlock, At
    <3>. QED BY <1>1, <1>2, <2>7, <3>1, KeepsFreeBlock
  <2>. QED BY <1>4, <2>1, <2>2, <2>3, <2>4, <2>5, <2>6, <2>7 DEF Step
<1>5. ASSUME NEW p \in Procs, NEW f \in Files, Truncate(p, f) PROVE BlocksIInv'
  <2>1. ~overlap /\ BlocksTyped'
    BY <1>1, <1>5, TypedTruncate DEF Truncate, At
  <2>. QED BY <1>1, <1>2, <1>5, <2>1, KeepsTruncate
<1>6. ASSUME NEW p \in Procs, NEW f \in Files, NEW w \in Paths, NEW c \in {"read", "write"},
             Begin(p, f, w, c)
      PROVE  BlocksIInv'
  <2>1. ~overlap /\ BlocksTyped'
    BY <1>1, <1>6, TypedBegin DEF Begin, At
  <2>. QED BY <1>1, <1>2, <1>6, <2>1, KeepsBegin
<1>. QED BY <1>3, <1>4, <1>5, <1>6 DEF BlocksNext

LEMMA BlocksIInvAlways == BlocksSpec => []BlocksIInv
<1>. QED BY BlocksIInvInit, BlocksIInvNext, PTL DEF BlocksSpec

(* Whatever the files, the slots of their inodes and the size of an        *)
(* indirect block, and however many processes read, write and truncate, a  *)
(* block belongs to one place of one file and is marked as used; what a    *)
(* process writes goes to a block that no other file has (_bmap(),         *)
(* new_block(), free_block(), truncate()).                                 *)
THEOREM BlocksNotSharedAlways == BlocksSpec => []BlocksNotShared
BY BlocksIInvAlways, BlocksAreNotShared, PTL

(* A block marked as used is found in a file, in the hands of a process    *)
(* that has just got it, or in the work of a truncate(); the only blocks   *)
(* lost are those that two writers got for one place, and those that       *)
(* truncate() found in use or below a block that it could not read.        *)
THEOREM NoBlockLostAlways == BlocksSpec => []NoBlockLost
BY BlocksIInvAlways, NoBlockIsLost, PTL
=============================================================================
