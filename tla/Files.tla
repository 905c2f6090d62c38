------------------------------- MODULE Files -------------------------------
(***************************************************************************)
(* Open files, descriptors and pipes: fs/open.c, fs/fcntl.c,               *)
(* fs/read_write.c, fs/pipe.c, and what fork(), exit() and execve() do     *)
(* with descriptors.                                                       *)
(*                                                                         *)
(* A descriptor points to an entry of file_table, shared after dup() and   *)
(* fork(); the two ends of a pipe are two entries with one inode, whose    *)
(* i_count says how many of them are open, and whose zones are the head    *)
(* and the tail of the ring in its page.  Readers and writers sleep in one *)
(* queue; both wake it before they go to sleep, so nobody is ever chained  *)
(* behind another there.                                                   *)
(*                                                                         *)
(* What an unused entry or inode still holds is never looked at; here it   *)
(* is empty.                                                               *)
(* Ordinary files have the inode File here: what they hold and their       *)
(* counts are FileBlocks and Inodes.                                       *)
(***************************************************************************)
EXTENDS Integers, FiniteSets

CONSTANTS Procs,
          First,      \* the process there is at the start
          NR_OPEN,    \* descriptors of a process
          NR_FILE,    \* entries of file_table
          PAGE_SIZE,  \* bytes of the ring, one of which is never used
          Pipes,      \* the inodes there are pages for
          Sizes       \* how many bytes a call reads or writes

None == 0     \* no entry of file_table
Nothing == "nothing"
Fds == 1..NR_OPEN
FileTable == 1..NR_FILE
File == "file"
Read == "read"
Write == "write"

ASSUME FilesAssumption ==
    /\ IsFiniteSet(Procs) /\ First \in Procs
    /\ NR_OPEN \in Nat /\ NR_FILE \in Nat /\ PAGE_SIZE \in Nat \ {0, 1}
    /\ Pipes \cap {Nothing, File} = {} /\ Sizes \subseteq Nat \ {0}

VARIABLES
    filp,          \* filp[p][fd]: the entry of file_table, or None
    file,          \* file[f]: f_count, f_inode and f_mode
    pipe,          \* pipe[x]: i_count, head, tail, the page and i_wait; and,
                   \* for the properties, how many bytes went in and came out
    at             \* at[p]: where process p is

vars == <<filp, file, pipe, at>>

(* The bytes of a pipe are numbered as they are written, modulo this.      *)
Numbers == 2 * PAGE_SIZE

Unborn == [pc |-> "unborn", asleep |-> FALSE]
AtUser == [pc |-> "user", asleep |-> FALSE]
NewFile == [f_count |-> 0, f_inode |-> Nothing, f_mode |-> Nothing]
NewPipe == [i_count |-> 0, head |-> 0, tail |-> 0, page |-> [i \in 0..PAGE_SIZE - 1 |-> 0],
            i_wait |-> Nothing, sent |-> 0, got |-> 0]

Init ==
    /\ filp = [p \in Procs |-> [fd \in Fds |-> None]]
    /\ file = [f \in FileTable |-> NewFile]
    /\ pipe = [x \in Pipes |-> NewPipe]
    /\ at = [p \in Procs |-> IF p = First THEN AtUser ELSE Unborn]

At(p, l) == at[p].pc = l
Runs(p, l) == At(p, l) /\ ~at[p].asleep
Goto(p, me) == at' = [at EXCEPT ![p] = me]

(* The first k free descriptors of p and free entries of file_table. *)
Lowest(S, k) == {x \in S : Cardinality({y \in S : y < x}) < k}
FreeFds(p, k) == Lowest({fd \in Fds : filp[p][fd] = None}, k)
FreeFiles(k) == Lowest({f \in FileTable : file[f].f_count = 0}, k)
Open(p) == {fd \in Fds : filp[p][fd] # None}

(* p goes on to me; wake_up() of the queue of a pipe unless q is still in it. *)
WakesUp(p, x, me) ==
    at' = [q \in Procs |-> IF q = p THEN me
                           ELSE IF q = pipe[x].i_wait /\ pipe'[x].i_wait # q
                                THEN [at[q] EXCEPT !.asleep = FALSE]
                           ELSE at[q]]

-----------------------------------------------------------------------------
(* sys_open(): the entry is taken before open_namei() sleeps. *)
OpenBegin(p) ==
    /\ Runs(p, "user")
    /\ \E fd \in FreeFds(p, 1), f \in FreeFiles(1) :
         /\ filp' = [filp EXCEPT ![p][fd] = f]
         /\ file' = [file EXCEPT ![f].f_count = @ + 1]
         /\ Goto(p, [pc |-> "open", asleep |-> FALSE, fd |-> fd])
    /\ UNCHANGED pipe

OpenDone(p) ==
    LET f == filp[p][at[p].fd] IN
    /\ Runs(p, "open")
    /\ file' = [file EXCEPT ![f] = [f_count |-> 1, f_inode |-> File, f_mode |-> Read]]
    /\ Goto(p, AtUser)
    /\ UNCHANGED <<filp, pipe>>

(* open_namei() fails, or the file is /dev/tty and p has no terminal. *)
OpenFails(p) ==
    LET f == filp[p][at[p].fd] IN
    /\ Runs(p, "open")
    /\ filp' = [filp EXCEPT ![p][at[p].fd] = None]
    /\ file' = [file EXCEPT ![f] = NewFile]
    /\ Goto(p, AtUser)
    /\ UNCHANGED pipe

\* faulty: nobody is told that an end is gone
PutQuietly(x) == [pipe EXCEPT ![x].i_count = @ - 1]
(* iput() of the inode of a pipe; its page goes with the last end. *)
PutPipe(x) == IF pipe[x].i_count = 1 THEN [pipe EXCEPT ![x] = NewPipe]
              ELSE [pipe EXCEPT ![x].i_count = @ - 1, ![x].i_wait = Nothing]

\* faulty: the inode is put by every close(), shared entry or not
LastAlways(f) == TRUE
LastUser(f) == file[f].f_count = 1

(* sys_close() of an open descriptor, as p goes on to me.  iput() of an    *)
(* ordinary inode may sleep, but nothing here is changed after it.         *)
CloseThen(p, fd, me) ==
    LET f == filp[p][fd]
        x == file[f].f_inode
    IN  /\ filp' = [filp EXCEPT ![p][fd] = None]
        /\ file' = IF file[f].f_count = 1 THEN [file EXCEPT ![f] = NewFile]
                   ELSE [file EXCEPT ![f].f_count = @ - 1]
        /\ \/ /\ LastUser(f) /\ x \in Pipes
              /\ pipe' = PutPipe(x) /\ WakesUp(p, x, me)
           \/ /\ ~(LastUser(f) /\ x \in Pipes)
              /\ Goto(p, me) /\ UNCHANGED pipe

Close(p) == Runs(p, "user") /\ \E fd \in Open(p) : CloseThen(p, fd, AtUser)

(* dupfd(), for dup(), for F_DUPFD and for dup2(), which closes the new    *)
(* descriptor before anything is known of the old one.                     *)
Dup(p) ==
    /\ Runs(p, "user")
    /\ \E fd \in Open(p), arg \in Fds :
       \E new \in Lowest({n \in Fds : n >= arg /\ filp[p][n] = None}, 1) :
         /\ filp' = [filp EXCEPT ![p][new] = filp[p][fd]]
         /\ file' = [file EXCEPT ![filp[p][fd]].f_count = @ + 1]
    /\ UNCHANGED <<pipe, at>>
Dup2(p) ==
    /\ Runs(p, "user")
    /\ \E fd \in Fds, new \in Open(p) : CloseThen(p, new, [pc |-> "dup2", asleep |-> FALSE,
                                                             fd |-> fd, arg |-> new])
Dup2Done(p) ==
    LET fd == at[p].fd
        new == at[p].arg
        f == filp[p][fd]
    IN  /\ Runs(p, "dup2") /\ Goto(p, AtUser) /\ UNCHANGED pipe
        /\ \/ f = None /\ UNCHANGED <<filp, file>>
           \/ /\ f # None
              /\ filp' = [filp EXCEPT ![p][new] = f]
              /\ file' = [file EXCEPT ![f].f_count = @ + 1]

-----------------------------------------------------------------------------
(* sys_pipe(): two entries and two descriptors, or nothing; then the inode, *)
(* for which get_empty_inode() may sleep.                                  *)
PipeBegin(p) ==
    /\ Runs(p, "user")
    /\ LET F == FreeFiles(2)
           D == FreeFds(p, 2)
       IN  /\ Cardinality(F) = 2 /\ Cardinality(D) = 2
           /\ \E r, w \in D, f, g \in F :
                /\ r < w /\ f < g
                /\ filp' = [filp EXCEPT ![p][r] = f, ![p][w] = g]
                /\ file' = [file EXCEPT ![f].f_count = 1, ![g].f_count = 1]
                /\ Goto(p, [pc |-> "pipe", asleep |-> FALSE, r |-> r, w |-> w])
    /\ UNCHANGED pipe

(* get_pipe_inode() *)
PipeDone(p) ==
    LET r == filp[p][at[p].r]
        w == filp[p][at[p].w]
    IN  /\ Runs(p, "pipe")
        /\ \E x \in {y \in Pipes : pipe[y].i_count = 0} :
             /\ pipe' = [pipe EXCEPT ![x] = [NewPipe EXCEPT !.i_count = 2]]
             /\ file' = [file EXCEPT ![r] = [f_count |-> 1, f_inode |-> x, f_mode |-> Read],
                                     ![w] = [f_count |-> 1, f_inode |-> x, f_mode |-> Write]]
        /\ Goto(p, AtUser)
        /\ UNCHANGED filp

EntriesFreed(r, w) == [file EXCEPT ![r] = NewFile, ![w] = NewFile]
(* There is no page, as may happen at any time. *)
PipeFails(p) ==
    LET r == filp[p][at[p].r]
        w == filp[p][at[p].w]
    IN  /\ Runs(p, "pipe")
        /\ filp' = [filp EXCEPT ![p][at[p].r] = None, ![p][at[p].w] = None]
        /\ file' = EntriesFreed(r, w)
        /\ Goto(p, AtUser)
        /\ UNCHANGED pipe

PIPE_SIZE(x) == (pipe[x].head - pipe[x].tail) % PAGE_SIZE
PIPE_EMPTY(x) == PIPE_SIZE(x) = 0
\* faulty: the ring is used to the last byte
RoomLate(x) == PAGE_SIZE - PIPE_SIZE(x)
(* Until PIPE_FULL. *)
Room(x) == PAGE_SIZE - 1 - PIPE_SIZE(x)
AtMost(m, n) == IF m < n THEN m ELSE n

(* sys_read() and sys_write() of the proper end of a pipe. *)
PipeCall(p) ==
    /\ Runs(p, "user")
    /\ \E fd \in Open(p), n \in Sizes :
         /\ file[filp[p][fd]].f_inode \in Pipes
         /\ Goto(p, [pc |-> file[filp[p][fd]].f_mode, asleep |-> FALSE,
                     x |-> file[filp[p][fd]].f_inode, count |-> n, fresh |-> TRUE])
    /\ UNCHANGED <<filp, file, pipe>>

HungUp(x) == pipe[x].i_count # 2
(* The queue is woken, then p ends its call or sleeps, r being the pipe.   *)
Ends(p, r) ==
    /\ pipe' = [pipe EXCEPT ![at[p].x] = [r EXCEPT !.i_wait = Nothing]]
    /\ WakesUp(p, at[p].x, AtUser)
    /\ UNCHANGED <<filp, file>>
Sleeps(p, r, count) ==
    /\ pipe' = [pipe EXCEPT ![at[p].x] = [r EXCEPT !.i_wait = p]]
    /\ WakesUp(p, at[p].x, [at[p] EXCEPT !.asleep = TRUE, !.count = count, !.fresh = FALSE])
    /\ UNCHANGED <<filp, file>>

(* read_pipe() *)
Taken(x, k) == [pipe[x] EXCEPT !.tail = (@ + k) % PAGE_SIZE, !.got = (@ + k) % Numbers]
ReadSome(p) ==
    LET x == at[p].x IN
    /\ Runs(p, Read) /\ ~PIPE_EMPTY(x)
    /\ Ends(p, Taken(x, AtMost(at[p].count, PIPE_SIZE(x))))
ReadEnds(p) ==
    Runs(p, Read) /\ PIPE_EMPTY(at[p].x) /\ HungUp(at[p].x) /\ Ends(p, pipe[at[p].x])
ReadSleeps(p) ==
    /\ Runs(p, Read) /\ PIPE_EMPTY(at[p].x) /\ ~HungUp(at[p].x)
    /\ Sleeps(p, pipe[at[p].x], at[p].count)

(* write_pipe(): the other end is looked at when it begins and whenever    *)
(* the ring is full; SIGPIPE is sent when it is gone.                      *)
Added(x, k) ==
    LET slot(i) == (pipe[x].head + i) % PAGE_SIZE IN
    [pipe[x] EXCEPT !.head = slot(k), !.sent = (@ + k) % Numbers,
        !.page = [b \in DOMAIN @ |-> IF \E i \in 0..k - 1 : slot(i) = b
                                     THEN (pipe[x].sent + CHOOSE i \in 0..k - 1 : slot(i) = b)
                                          % Numbers
                                     ELSE @[b]]]
Refused(p) == at[p].fresh /\ HungUp(at[p].x)
Fits(p) == at[p].count <= Room(at[p].x)
WriteAll(p) ==
    /\ Runs(p, Write) /\ ~Refused(p) /\ Fits(p)
    /\ Ends(p, Added(at[p].x, at[p].count))
WriteSleeps(p) ==
    LET x == at[p].x IN
    /\ Runs(p, Write) /\ ~HungUp(x) /\ ~Fits(p)
    /\ Sleeps(p, Added(x, Room(x)), at[p].count - Room(x))
WriteEnds(p) ==
    LET x == at[p].x IN
    /\ Runs(p, Write) /\ HungUp(x)
    /\ \/ Refused(p) /\ Ends(p, pipe[x])
       \/ ~Refused(p) /\ ~Fits(p) /\ Ends(p, Added(x, Room(x)))

-----------------------------------------------------------------------------
Descriptors(f) == {d \in Procs \X Fds : filp[d[1]][d[2]] = f}

\* faulty: the child's descriptors are not counted
NotShared(p, f) == file[f].f_count
Shared(p, f) == file[f].f_count + Cardinality({fd \in Fds : filp[p][fd] = f})
(* copy_process(): the child c has everything open that p has. *)
Fork(p) ==
    /\ Runs(p, "user")
    /\ \E c \in {q \in Procs : At(q, "unborn")} :
         /\ filp' = [filp EXCEPT ![c] = filp[p]]
         /\ file' = [f \in FileTable |-> [file[f] EXCEPT !.f_count = Shared(p, f)]]
         /\ Goto(c, AtUser)
    /\ UNCHANGED pipe

(* do_exit(): one close() after the other.  What execve() closes it closes *)
(* in the same way.                                                        *)
Exit(p) ==
    /\ Runs(p, "user") /\ Goto(p, [AtUser EXCEPT !.pc = "exit"])
    /\ UNCHANGED <<filp, file, pipe>>
CloseNext(p) == Runs(p, "exit") /\ \E fd \in Lowest(Open(p), 1) : CloseThen(p, fd, at[p])
Closed(p) ==
    /\ Runs(p, "exit") /\ Open(p) = {} /\ Goto(p, Unborn)
    /\ UNCHANGED <<filp, file, pipe>>

Kernel(p) ==
    \/ OpenDone(p) \/ OpenFails(p) \/ Dup2Done(p) \/ PipeDone(p) \/ PipeFails(p)
    \/ ReadSome(p) \/ ReadEnds(p) \/ ReadSleeps(p)
    \/ WriteAll(p) \/ WriteSleeps(p) \/ WriteEnds(p)
    \/ CloseNext(p) \/ Closed(p)
User(p) ==
    \/ OpenBegin(p) \/ Close(p) \/ Dup(p) \/ Dup2(p) \/ PipeBegin(p)
    \/ PipeCall(p) \/ Fork(p) \/ Exit(p)

Next == \E p \in Procs : Kernel(p) \/ User(p)

(* A process in the kernel that is not asleep is scheduled in time.        *)
Spec == Init /\ [][Next]_vars /\ \A p \in Procs : WF_vars(Kernel(p))

-----------------------------------------------------------------------------
(* Every entry of file_table counts the descriptors that point to it, in   *)
(* whatever process: it is neither given away while it is in use nor lost. *)
FilesCounted == \A f \in FileTable : file[f].f_count = Cardinality(Descriptors(f))

(* The count of a pipe says which of its ends are open, to whoever reads   *)
(* or writes it: no end of file while somebody may still write, no SIGPIPE *)
(* while somebody may still read.                                          *)
OpenEnds(x, m) == {f \in FileTable : file[f].f_inode = x /\ file[f].f_mode = m}
EndsCounted ==
    \A x \in Pipes :
        pipe[x].i_count = Cardinality(OpenEnds(x, Read)) + Cardinality(OpenEnds(x, Write))

(* What is in the page is what was written and not read yet, in order.     *)
BytesInOrder ==
    \A x \in Pipes :
      /\ (pipe[x].got + PIPE_SIZE(x)) % Numbers = pipe[x].sent
      /\ \A i \in 0..PIPE_SIZE(x) - 1 :
           pipe[x].page[(pipe[x].tail + i) % PAGE_SIZE] = (pipe[x].got + i) % Numbers

(* A process that reads or writes a pipe whose other end has been closed   *)
(* comes back from the call.                                               *)
InPipe(p) == At(p, Read) \/ At(p, Write)
HangupNoticed ==
    \A p \in Procs : (InPipe(p) /\ HungUp(at[p].x)) ~> ~InPipe(p)
=============================================================================
