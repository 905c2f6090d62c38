------------------------------- MODULE Memory -------------------------------
(***************************************************************************)
(* Paged memory of the kernel: mm/memory.c, and the parts of fork.c,       *)
(* exit.c, exec.c, pipe.c and inode.c that take or give back page frames.  *)
(*                                                                         *)
(* Frames are shared by fork() and copied when one of the sharers writes.  *)
(* mem_map[f] counts the references to f.  The kernel is not preemptive,   *)
(* so a system call is one action up to the point where it may sleep:      *)
(* execve() sleeps between reading its arguments and replacing the         *)
(* address space, exit() between giving back its pages and becoming a      *)
(* zombie.                                                                 *)
(***************************************************************************)
EXTENDS Naturals, FiniteSets

CONSTANTS Tasks,     \* the slots of task[] above slot 0
          FirstTask, \* the slot of init, forked by main()
          NoTask,    \* father = 0
          Frames,    \* frames above LOW_MEM, counted by mem_map
          LowFrames, \* frames below LOW_MEM, shared with the kernel
          NoFrame,   \* a page-table entry whose present bit is 0
          Dirs,      \* page-directory entries of a task, in address order
          Pages,     \* entries of one page table
          ArgAddrs,  \* top of the data segment, where execve() puts arguments
          PipeAddrs, \* where programs place the array they pass to pipe()
          SharedPipeArray, \* TRUE: and the page may still be shared then
          Values     \* contents of a page

Addr == Dirs \X Pages
AllFrames == Frames \cup LowFrames
Zero == 0

(* execve() puts its arguments in the last MAX_ARG_PAGES pages of the data *)
(* segment, which one page table covers.                                   *)
ASSUME MemoryAssumption ==
    /\ IsFiniteSet(Tasks) /\ FirstTask \in Tasks /\ NoTask \notin Tasks
    /\ IsFiniteSet(Frames) /\ Frames \cap LowFrames = {}
    /\ NoFrame \notin AllFrames \cup Values
    /\ IsFiniteSet(Dirs) /\ Dirs \subseteq Nat /\ 0 \in Dirs
    /\ IsFiniteSet(Pages)
    /\ ArgAddrs \subseteq Addr
    /\ \A a, b \in ArgAddrs : a[1] = b[1]
    /\ PipeAddrs \subseteq Addr /\ SharedPipeArray \in BOOLEAN
    /\ Zero \in Values

VARIABLES
    mem_map,  \* mem_map[f]: how many references to frame f exist
    pg_dir,   \* pg_dir[t][d]: the frame that holds the page table, or NoFrame
    pte,      \* pte[t][a]: page-table entry, its frame and its R/W bit
    content,  \* content[f]: what frame f contains
    task,     \* task[t]: the frame of the task structure, NoFrame: slot free
    state,    \* what the task in slot t is doing
    father,   \* father[t]: the slot of the parent, or NoTask
    args,     \* args[t][a]: execve()'s local page[], argument pages not yet mapped
    pipes,    \* frames that are the buffer of a pipe inode
    lost,     \* frames marked used that nothing refers to (no such variable in the code)
    panic,    \* free_page() called panic()
    stray     \* copy_strings() left page[]; the model stops there

vars == <<mem_map, pg_dir, pte, content, task, state, father, args, pipes,
          lost, panic, stray>>

States == {"free", "running", "exec", "exiting", "zombie"}
Entry == [frame : AllFrames \cup {NoFrame}, rw : BOOLEAN]
NotPresent == [frame |-> NoFrame, rw |-> FALSE]
NoPages == [a \in Addr |-> NotPresent]
NoTables == [d \in Dirs |-> NoFrame]
NoArgs == [a \in ArgAddrs |-> NoFrame]

TypeOK ==
    /\ mem_map \in [Frames -> Nat]
    /\ pg_dir \in [Tasks -> [Dirs -> Frames \cup {NoFrame}]]
    /\ pte \in [Tasks -> [Addr -> Entry]]
    /\ content \in [AllFrames -> Values]
    /\ task \in [Tasks -> Frames \cup {NoFrame}]
    /\ state \in [Tasks -> States]
    /\ father \in [Tasks -> Tasks \cup {NoTask}]
    /\ args \in [Tasks -> [ArgAddrs -> Frames \cup {NoFrame}]]
    /\ pipes \subseteq Frames
    /\ lost \subseteq Frames
    /\ panic \in BOOLEAN /\ stray \in BOOLEAN

-----------------------------------------------------------------------------
(* The allocator. *)

FreeIn(mm) == {f \in Frames : mm[f] = 0}

(* What get_free_page() can return: a free frame, or NoFrame (0) when none *)
(* is left.  It takes the last free frame; here it may take any.           *)
GetFreePage(mm) == IF FreeIn(mm) = {} THEN {NoFrame} ELSE FreeIn(mm)

(* Mark the frames of S used. *)
\* faulty: mem_map is not set
TakeUnmarked(mm, S) == mm
Take(mm, S) == [f \in Frames |-> IF f \in S THEN 1 ELSE mm[f]]

(* free_page() called cnt[f] times for each frame f; it panics when a      *)
(* frame is freed more often than it was taken.                            *)
FreePages(mm, cnt) ==
    [f \in Frames |-> IF cnt[f] <= mm[f] THEN mm[f] - cnt[f] ELSE 0]
Overfreed(mm, cnt) == \E f \in Frames : cnt[f] > mm[f]
Once(g) == [f \in Frames |-> IF f = g THEN 1 ELSE 0]

-----------------------------------------------------------------------------
(* References to a frame. *)

(* The entries of the page tables m, those of task t, that map f, and the  *)
(* directory entries of t whose table is f.                                *)
EntryRefs(m, t, f) == {x \in {t} \X Addr : m[x[2]].frame = f}
TableRefs(t, f) == {x \in {t} \X Dirs : pg_dir[t][x[2]] = f}

(* What free_page_tables() gives back for task t: one reference for every  *)
(* present entry, one for every page table.                                *)
TableCount(t) ==
    [f \in Frames |-> Cardinality(EntryRefs(pte[t], t, f))
                      + Cardinality(TableRefs(t, f))]

(* All references to f: page-table entries, page tables, task structures,  *)
(* execve()'s argument pages, pipe buffers; and the frames lost for good.  *)
PteRefs(f) == {x \in Tasks \X Addr : pte[x[1]][x[2]].frame = f}
DirRefs(f) == {x \in Tasks \X Dirs : pg_dir[x[1]][x[2]] = f}
TaskRefs(f) == {t \in Tasks : task[t] = f}
ArgRefs(f) == {x \in Tasks \X ArgAddrs : args[x[1]][x[2]] = f}
References(f) ==
    Cardinality(PteRefs(f)) + Cardinality(DirRefs(f)) + Cardinality(TaskRefs(f))
    + Cardinality(ArgRefs(f)) + (IF f \in pipes THEN 1 ELSE 0)
    + (IF f \in lost THEN 1 ELSE 0)

-----------------------------------------------------------------------------
Init ==
    /\ \E s \in Frames : \E tab \in Frames \ {s} :
         /\ mem_map = [f \in Frames |-> IF f \in {s, tab} THEN 1 ELSE 0]
         /\ task = [t \in Tasks |-> IF t = FirstTask THEN s ELSE NoFrame]
         /\ pg_dir = [t \in Tasks |-> [d \in Dirs |->
                        IF t = FirstTask /\ d = 0 THEN tab ELSE NoFrame]]
    /\ \E low \in [Addr -> LowFrames] :
         pte = [t \in Tasks |-> [a \in Addr |->
                  IF t = FirstTask /\ a[1] = 0
                  THEN [frame |-> low[a], rw |-> FALSE] ELSE NotPresent]]
    /\ content = [f \in AllFrames |-> Zero]
    /\ state = [t \in Tasks |-> IF t = FirstTask THEN "running" ELSE "free"]
    /\ father = [t \in Tasks |-> NoTask]
    /\ args = [t \in Tasks |-> NoArgs]
    /\ pipes = {} /\ lost = {} /\ panic = FALSE /\ stray = FALSE

Running(t) == state[t] = "running" /\ ~panic

-----------------------------------------------------------------------------
(* do_exit(): give the pages back, orphan the children.  Closing the files *)
(* can then sleep.  mm is mem_map at the point of the call.                *)
DoExit(t, mm) ==
    /\ mem_map' = FreePages(mm, TableCount(t))
    /\ panic' = Overfreed(mm, TableCount(t))
    /\ pg_dir' = [pg_dir EXCEPT ![t] = NoTables]
    /\ pte' = [pte EXCEPT ![t] = NoPages]
    /\ father' = [u \in Tasks |-> IF father[u] = t THEN NoTask ELSE father[u]]
    /\ state' = [state EXCEPT ![t] = "exiting"]
    /\ UNCHANGED <<content, task, args, pipes>>

Exit(t) == Running(t) /\ DoExit(t, mem_map) /\ UNCHANGED lost

(* release(): the slot and its frame are given back. *)
\* faulty: free_page() is not called
ReleaseKeepsFrame(t) ==
    /\ task' = [task EXCEPT ![t] = NoFrame]
    /\ state' = [state EXCEPT ![t] = "free"]
    /\ father' = [father EXCEPT ![t] = NoTask]
    /\ UNCHANGED <<mem_map, panic>>
Release(t) ==
    /\ task' = [task EXCEPT ![t] = NoFrame]
    /\ mem_map' = FreePages(mem_map, Once(task[t]))
    /\ panic' = Overfreed(mem_map, Once(task[t]))
    /\ state' = [state EXCEPT ![t] = "free"]
    /\ father' = [father EXCEPT ![t] = NoTask]

(* The end of do_exit(): wait for the father, or release itself. *)
BecomeZombie(t) ==
    /\ state[t] = "exiting" /\ ~panic
    /\ father[t] # NoTask
    /\ state' = [state EXCEPT ![t] = "zombie"]
    /\ UNCHANGED <<mem_map, pg_dir, pte, content, task, father, args, pipes,
                   lost, panic>>

ReleaseSelf(t) ==
    /\ state[t] = "exiting" /\ ~panic
    /\ father[t] = NoTask
    /\ Release(t)
    /\ UNCHANGED <<pg_dir, pte, content, args, pipes, lost>>

(* sys_waitpid() finds a zombie: the status is stored in the parent's      *)
(* memory, at a page verify_area() has made writable, and the child goes.  *)
Wait(p, c, a, v) ==
    /\ Running(p)
    /\ state[c] = "zombie" /\ father[c] = p
    /\ pte[p][a].rw
    /\ content' = [content EXCEPT ![pte[p][a].frame] = v]
    /\ Release(c)
    /\ UNCHANGED <<pg_dir, pte, args, pipes, lost>>

-----------------------------------------------------------------------------
(* fork() *)

PresentDirs(t) == {d \in Dirs : pg_dir[t][d] # NoFrame}

(* The page tables copy_page_tables() allocates for a child of p: one for  *)
(* each table of p, all different.                                         *)
NewTables(p, free) ==
    {tab \in [Dirs -> free \cup {NoFrame}] :
        /\ \A d \in Dirs : tab[d] = NoFrame <=> pg_dir[p][d] = NoFrame
        /\ \A d, e \in Dirs : tab[d] = tab[e] /\ tab[d] # NoFrame => d = e}

(* Copying an entry clears its R/W bit: in the copy always, in the         *)
(* original when the frame is above LOW_MEM.  D is the set of tables that  *)
(* are copied.                                                             *)
\* faulty: the parent can still write
WriteProtectedNot(p, D) == pte[p]
WriteProtected(p, D) ==
    [a \in Addr |-> IF a[1] \in D /\ pte[p][a].frame \in Frames
                    THEN [pte[p][a] EXCEPT !.rw = FALSE] ELSE pte[p][a]]
CopyOf(p) == [a \in Addr |-> [pte[p][a] EXCEPT !.rw = FALSE]]

(* find_empty_process() and copy_process(). *)
Fork(p, c) ==
    /\ Running(p)
    /\ task[c] = NoFrame
    /\ \E s \in FreeIn(mem_map) :
       \E tab \in NewTables(p, FreeIn(mem_map) \ {s}) :
         /\ mem_map' =
              [f \in Frames |->
                 Take(mem_map, {s} \cup {tab[d] : d \in Dirs})[f]
                 + Cardinality(EntryRefs(CopyOf(p), c, f))]
         /\ task' = [task EXCEPT ![c] = s]
         /\ pg_dir' = [pg_dir EXCEPT ![c] = tab]
    /\ pte' = [pte EXCEPT ![p] = WriteProtected(p, PresentDirs(p)),
                          ![c] = CopyOf(p)]
    /\ state' = [state EXCEPT ![c] = "running"]
    /\ father' = [father EXCEPT ![c] = p]
    /\ UNCHANGED <<content, args, pipes, lost, panic>>

(* The tables of p that are copied when only k frames are left for them. *)
FirstDirs(p, k) ==
    {d \in PresentDirs(p) :
        Cardinality({e \in PresentDirs(p) : e < d}) < k}

(* copy_page_tables() runs out of frames: copy_mem() frees what it built   *)
(* for the child, copy_process() frees the task structure, and the only    *)
(* trace is that the parent's copied tables are write-protected.           *)
ForkFails(p) ==
    /\ Running(p)
    /\ \E c \in Tasks : task[c] = NoFrame
    /\ LET left == Cardinality(FreeIn(mem_map)) IN
         /\ left > 1 /\ left < 1 + Cardinality(PresentDirs(p))
         /\ pte' = [pte EXCEPT ![p] =
                      WriteProtected(p, FirstDirs(p, left - 1))]
    /\ UNCHANGED <<mem_map, pg_dir, content, task, state, father, args, pipes,
                   lost, panic>>

-----------------------------------------------------------------------------
(* Page faults. *)

(* put_page(): the page table for entry d, allocated when there is none. *)
PageTable(t, d, mm) ==
    IF pg_dir[t][d] # NoFrame THEN {pg_dir[t][d]} ELSE GetFreePage(mm)

(* do_no_page() finds a frame, and put_page() a page table. *)
DemandPage(t, a) ==
    /\ Running(t)
    /\ pte[t][a].frame = NoFrame
    /\ \E n \in FreeIn(mem_map) :
       \E tab \in PageTable(t, a[1], Take(mem_map, {n})) \ {NoFrame} :
         /\ mem_map' = Take(mem_map, {n, tab} \ {pg_dir[t][a[1]]})
         /\ pg_dir' = [pg_dir EXCEPT ![t][a[1]] = tab]
         /\ pte' = [pte EXCEPT ![t][a] = [frame |-> n, rw |-> TRUE]]
         /\ content' = [content EXCEPT ![n] = Zero]
    /\ UNCHANGED <<task, state, father, args, pipes, lost, panic>>

(* do_no_page() finds no frame, or finds one and no page table for it:     *)
(* then the frame it found is not given back.  The task dies.              *)
DemandPageFails(t, a) ==
    /\ Running(t)
    /\ pte[t][a].frame = NoFrame
    /\ \/ /\ FreeIn(mem_map) = {}
          /\ DoExit(t, mem_map)
          /\ UNCHANGED lost
       \/ \E n \in FreeIn(mem_map) :
            /\ NoFrame \in PageTable(t, a[1], Take(mem_map, {n}))
            /\ DoExit(t, Take(mem_map, {n}))
            /\ lost' = lost \cup {n}

(* un_wp_page(), called by do_wp_page() when a program writes to a         *)
(* protected page and by write_verify() before the kernel does.            *)
\* faulty: off by one
SoleOwnerOfTwo(f) == f \in Frames /\ mem_map[f] <= 2
SoleOwner(f) == f \in Frames /\ mem_map[f] = 1

UnWriteProtect(t, a) ==
    /\ Running(t)
    /\ pte[t][a].frame # NoFrame /\ ~pte[t][a].rw
    /\ SoleOwner(pte[t][a].frame)
    /\ pte' = [pte EXCEPT ![t][a].rw = TRUE]
    /\ UNCHANGED <<mem_map, pg_dir, content, task, state, father, args, pipes,
                   lost, panic>>

CopyOnWrite(t, a) ==
    /\ Running(t)
    /\ pte[t][a].frame # NoFrame /\ ~pte[t][a].rw
    /\ ~SoleOwner(pte[t][a].frame)
    /\ \E n \in FreeIn(mem_map) :
         LET old == pte[t][a].frame IN
         /\ mem_map' = [f \in Frames |->
                          IF f = n THEN 1
                          ELSE IF f = old THEN mem_map[f] - 1 ELSE mem_map[f]]
         /\ pte' = [pte EXCEPT ![t][a] = [frame |-> n, rw |-> TRUE]]
         /\ content' = [content EXCEPT ![n] = content[old]]
    /\ UNCHANGED <<pg_dir, task, state, father, args, pipes, lost, panic>>

CopyOnWriteFails(t, a) ==
    /\ Running(t)
    /\ pte[t][a].frame # NoFrame /\ ~pte[t][a].rw
    /\ ~SoleOwner(pte[t][a].frame)
    /\ FreeIn(mem_map) = {}
    /\ DoExit(t, mem_map)
    /\ UNCHANGED lost

(* A store by the program, or by the kernel after verify_area(). *)
Store(t, a, v) ==
    /\ Running(t)
    /\ pte[t][a].rw
    /\ content' = [content EXCEPT ![pte[t][a].frame] = v]
    /\ UNCHANGED <<mem_map, pg_dir, pte, task, state, father, args, pipes,
                   lost, panic>>

-----------------------------------------------------------------------------
(* execve() *)

(* copy_strings(): the arguments are copied into fresh frames, which only  *)
(* the local array page[] of do_execve() knows.                            *)
ArgPages == {page \in [ArgAddrs -> FreeIn(mem_map) \cup {NoFrame}] :
               \A a, b \in ArgAddrs : page[a] = page[b] /\ page[a] # NoFrame => a = b}
Filled(page) == {page[a] : a \in ArgAddrs} \ {NoFrame}
CopyStrings(t, page) ==
    /\ \E string \in [ArgAddrs -> Values] :
         content' = [f \in AllFrames |->
                       IF \E a \in ArgAddrs : page[a] = f
                       THEN string[CHOOSE a \in ArgAddrs : page[a] = f]
                       ELSE content[f]]
    /\ mem_map' = Take(mem_map, Filled(page))
    /\ args' = [args EXCEPT ![t] = page]
    /\ state' = [state EXCEPT ![t] = "exec"]
    /\ UNCHANGED <<pg_dir, pte, task, father, pipes, lost, panic>>

(* All strings are copied.  When the last call of copy_strings() lacks a   *)
(* frame, do_execve() frees those it has and fails: nothing has changed.   *)
ExecArgs(t) ==
    /\ Running(t)
    /\ \E page \in ArgPages : Filled(page) # {} /\ CopyStrings(t, page)

(* No frame is left for the environment, and p = 0 is handed on to the     *)
(* second call; or the strings are longer than page[].  The test for that  *)
(* compares an unsigned number with 0.                                     *)
Wraps(F) == \/ F = FreeIn(mem_map) /\ Cardinality(F) < Cardinality(ArgAddrs)
            \/ Cardinality(F) = Cardinality(ArgAddrs)

(* Then page[0xFFFFF] is looked at.  What is there is taken for a frame    *)
(* and written to, or is 0 and panic() is called.                          *)
ExecStray(t) ==
    /\ Running(t)
    /\ \E page \in ArgPages : Wraps(Filled(page)) /\ CopyStrings(t, page)
    /\ stray' = TRUE

(* Or it is beyond the limit of the kernel's segment, and the task dies    *)
(* inside copy_strings().  So it does when a string is on a page not yet   *)
(* there and do_no_page() finds no frame, or no page table and loses the   *)
(* frame.  do_exit() knows nothing of page[]: its frames F are lost.       *)
ExecDies(t) ==
    /\ Running(t)
    /\ \E F \in SUBSET FreeIn(mem_map) :
         /\ \/ Wraps(F)
            \/ /\ F = FreeIn(mem_map) /\ Cardinality(F) = Cardinality(ArgAddrs) + 1
               /\ \E d \in Dirs : pg_dir[t][d] = NoFrame
         /\ DoExit(t, Take(mem_map, F))
         /\ lost' = lost \cup F

(* mem_map when do_execve() has freed the old address space. *)
\* faulty: the old address space is freed only afterwards
NotYetFreed(t) == mem_map
FreedByExec(t) == FreePages(mem_map, TableCount(t))

(* The old address space goes, change_ldt() maps the argument pages.  It   *)
(* ignores the result of put_page(): without a page table they are lost.   *)
ExecReplace(t) ==
    /\ state[t] = "exec" /\ ~panic
    /\ LET mm == FreedByExec(t)
       IN \E tab \in GetFreePage(mm) :
            /\ mem_map' = Take(mm, {tab})
            /\ pg_dir' = [pg_dir EXCEPT ![t] = [d \in Dirs |->
                            IF \E a \in ArgAddrs : a[1] = d
                            THEN tab ELSE NoFrame]]
            /\ pte' = [pte EXCEPT ![t] = [a \in Addr |->
                         IF tab # NoFrame /\ a \in ArgAddrs
                            /\ args[t][a] # NoFrame
                         THEN [frame |-> args[t][a], rw |-> TRUE]
                         ELSE NotPresent]]
            /\ lost' = IF tab = NoFrame THEN lost \cup Filled(args[t]) ELSE lost
    /\ panic' = Overfreed(mem_map, TableCount(t))
    /\ args' = [args EXCEPT ![t] = NoArgs]
    /\ state' = [state EXCEPT ![t] = "running"]
    /\ UNCHANGED <<content, task, father, pipes>>

-----------------------------------------------------------------------------
(* Pipes: one frame each. *)

(* sys_pipe() stores the descriptors in the caller's memory without        *)
(* verify_area().  A store by the kernel ignores the R/W bit.              *)
Pipe(t, a, v) ==
    /\ Running(t)
    /\ a \in PipeAddrs
    /\ pte[t][a].frame # NoFrame
    /\ pte[t][a].rw \/ SharedPipeArray
    /\ \E n \in FreeIn(mem_map) :
         /\ mem_map' = Take(mem_map, {n})
         /\ pipes' = pipes \cup {n}
    /\ content' = [content EXCEPT ![pte[t][a].frame] = v]
    /\ UNCHANGED <<pg_dir, pte, task, state, father, args, lost, panic>>

(* iput() of the last user of the pipe. *)
ClosePipe(n) ==
    /\ ~panic
    /\ n \in pipes
    /\ pipes' = pipes \ {n}
    /\ mem_map' = FreePages(mem_map, Once(n))
    /\ panic' = Overfreed(mem_map, Once(n))
    /\ UNCHANGED <<pg_dir, pte, content, task, state, father, args, lost>>

-----------------------------------------------------------------------------
Steps ==
    \/ \E t \in Tasks :
         \/ Exit(t)
         \/ BecomeZombie(t)
         \/ ReleaseSelf(t)
         \/ ForkFails(t)
         \/ ExecArgs(t)
         \/ ExecDies(t)
         \/ ExecReplace(t)
         \/ \E c \in Tasks : Fork(t, c)
         \/ \E a \in Addr :
              \/ DemandPage(t, a)
              \/ DemandPageFails(t, a)
              \/ UnWriteProtect(t, a)
              \/ CopyOnWrite(t, a)
              \/ CopyOnWriteFails(t, a)
              \/ \E v \in Values :
                   \/ Store(t, a, v)
                   \/ Pipe(t, a, v)
                   \/ \E c \in Tasks : Wait(t, c, a, v)
    \/ \E n \in Frames : ClosePipe(n)

Next ==
    /\ ~stray
    /\ \/ Steps /\ UNCHANGED stray
       \/ \E t \in Tasks : ExecStray(t)

Spec == Init /\ [][Next]_vars

-----------------------------------------------------------------------------
(* Properties *)

(* mem_map counts exactly the references that exist: no frame is freed     *)
(* while something still points to it, and none is kept that nothing       *)
(* points to except those that a task lost when it died in do_no_page() or *)
(* in the middle of execve(), or that change_ldt() could not map           *)
(* (get_free_page, free_page, copy_page_tables, un_wp_page).               *)
RefCount == \A f \in Frames : mem_map[f] = References(f)

(* A writable page-table entry is the only reference to its frame, and the *)
(* frame is one mem_map counts (copy_page_tables, un_wp_page).             *)
WritableIsUnshared ==
    \A t \in Tasks, a \in Addr :
        pte[t][a].rw => /\ pte[t][a].frame \in Frames
                        /\ mem_map[pte[t][a].frame] = 1

(* A frame that holds a page table, a task structure, an argument page or  *)
(* a pipe buffer is referred to once: no program can reach it.             *)
KernelFrames(t) ==
    {task[t]} \cup {pg_dir[t][d] : d \in Dirs} \cup {args[t][a] : a \in ArgAddrs}
KernelFramesUnshared ==
    \A f \in Frames :
        (f \in pipes \cup lost \/ \E t \in Tasks : f \in KernelFrames(t))
            => mem_map[f] = 1

(* "trying to free free page" is never reached (free_page). *)
NoPanic == ~panic

(* execve() finds a page table for its arguments, although change_ldt()    *)
(* ignores the failure of put_page(): it has just freed one.               *)
ExecKeepsArguments ==
    [][\A t \in Tasks : state[t] = "exec" /\ state'[t] = "running"
                            => lost' = lost]_vars

(* What task t reads at a. *)
View == [t \in Tasks |-> [a \in Addr |->
           IF pte[t][a].frame = NoFrame THEN NoFrame
           ELSE content[pte[t][a].frame]]]

(* Sharing frames is invisible: every task has a memory of its own         *)
(* (copy_page_tables, un_wp_page, do_no_page).  It needs programs that     *)
(* call pipe() only on a page of their own: SharedPipeArray = FALSE.       *)
Private == INSTANCE PrivateMemory WITH view <- View, Absent <- NoFrame
Isolation == Private!Spec
=============================================================================
