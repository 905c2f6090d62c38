------------------------------- MODULE HdQueue -------------------------------
(***************************************************************************)
(* The hard-disk driver: kernel/hd.c and hd_interrupt of system_call.s.    *)
(*                                                                         *)
(* A process takes a slot of request[], links it into the list that starts *)
(* at this_request and sleeps until its buffer is unlocked.  The interrupt *)
(* handler do_hd() serves the first request of the list and starts the     *)
(* next.  Processes are not preempted in the kernel, but interrupts are    *)
(* not disabled: the handler can run between any two steps of a process.   *)
(* The flag `sorting' is all that add_request() has against it.            *)
(*                                                                         *)
(* Each process reads and writes the block of its own buffer: the buffer   *)
(* cache starts no second transfer on a locked buffer.  One drive.         *)
(***************************************************************************)
EXTENDS Integers, FiniteSets

CONSTANTS Procs,       \* processes, each with a buffer of its own
          Position,    \* Position[p]: where on the disk the block of p lies
          NR_REQUEST,
          MAX_ERRORS,
          Values,      \* contents of a sector
          Contents,    \* what programs write into the two sectors of a block
          Faults       \* what the drive can do wrong, see FaultKinds

NULL == 0
Block == [{0, 1} -> Values]
Requests == 1..NR_REQUEST
FaultKinds == {"first",  \* the first sector of a transfer fails
               "second", \* the second one fails
               "drq"}    \* the drive does not ask for the data of a write

ASSUME HdAssumption ==
    /\ NULL \notin Procs /\ Position \in [Procs -> Nat]
    /\ NR_REQUEST \in Nat \ {0} /\ MAX_ERRORS \in Nat
    /\ Contents \subseteq Block /\ Faults \subseteq FaultKinds

VARIABLES
    request,          \* request[r]: the fields of struct hd_request
    this_request,     \* the request being served, or NULL
    sorting,
    do_hd,            \* the handler of the next interrupt, or NULL
    wait_for_request, \* the process that sleeps for a free request
    pc,               \* where in rw_abs_hd() each process is
    req,              \* req[p]: the local variable req
    tmp,              \* tmp[p]: tmp of add_request(), and of sleep_on()
    runnable,         \* runnable[p]: woken up in sleep_on()
    buf,              \* buf[p]: the buffer head and its data
    drive,            \* the command the controller executes
    disk,             \* disk[p]: both sectors of the block of p
    cut               \* history: the requests that add_request() has linked
                      \* behind one that was answered meanwhile

vars == <<request, this_request, sorting, do_hd, wait_for_request, pc, req,
          tmp, runnable, buf, drive, disk, cut>>
procVars == <<pc, req, tmp>>

Idle == [cmd |-> "idle", bh |-> NULL, at |-> 0, left |-> 0]
Specify == [Idle EXCEPT !.cmd = "specify"]

FreeRequest(b, n) == [hd |-> -1, bh |-> b, cmd |-> "read", nsector |-> 0,
                      errors |-> 0, next |-> n]

TypeOK ==
    /\ request \in [Requests -> [hd : {-1, 0}, bh : Procs \cup {NULL},
                                 cmd : {"read", "write"}, nsector : 0..2,
                                 errors : 0..MAX_ERRORS + 1,
                                 next : Requests \cup {NULL}]]
    /\ this_request \in Requests \cup {NULL}
    /\ sorting \in BOOLEAN
    /\ do_hd \in {"NULL", "read_intr", "write_intr", "do_request"}
    /\ wait_for_request \in Procs \cup {NULL}
    /\ pc \in [Procs -> {"idle", "slot", "full", "asleep", "add", "linked", "wait"}]
    /\ req \in [Procs -> Requests \cup {NULL}]
    /\ tmp \in [Procs -> Requests \cup Procs \cup {NULL}]
    /\ runnable \in [Procs -> BOOLEAN]
    /\ buf \in [Procs -> [lock : BOOLEAN, uptodate : BOOLEAN, dirt : BOOLEAN,
                          data : Block, cmd : {"read", "write"}]]
    /\ drive \in [cmd : {"idle", "read", "write", "specify"},
                  bh : Procs \cup {NULL}, at : {0, 1}, left : 0..2]
    /\ disk \in [Procs -> Block]
    /\ cut \subseteq Requests

Init ==
    /\ request = [r \in Requests |-> FreeRequest(NULL, NULL)]
    /\ this_request = NULL /\ sorting = FALSE /\ do_hd = "NULL"
    /\ wait_for_request = NULL
    /\ pc = [p \in Procs |-> "idle"]
    /\ req = [p \in Procs |-> NULL] /\ tmp = [p \in Procs |-> NULL]
    /\ runnable = [p \in Procs |-> TRUE]
    /\ disk \in [Procs -> Contents]
    /\ \E junk \in Contents :
         buf = [p \in Procs |-> [lock |-> FALSE, uptodate |-> FALSE,
                                 dirt |-> FALSE, data |-> junk, cmd |-> "read"]]
    /\ drive = Idle
    /\ cut = {}

-----------------------------------------------------------------------------
(* do_request() starts the request tr of the list rq, unless a process is  *)
(* changing the list.  bf are the buffers.  The handler it leaves in do_hd *)
(* is the one it found when it returns early.                              *)
Command(rq, tr) == [cmd |-> rq[tr].cmd, bh |-> rq[tr].bh, at |-> 0,
                    left |-> rq[tr].nsector]

\* faulty: the handler stays when the list is empty
DoRequestKeeps(tr, rq, busy) ==
    \/ (busy \/ tr = NULL) /\ drive' = Idle /\ UNCHANGED do_hd
    \/ /\ ~busy /\ tr # NULL
       /\ drive' = Command(rq, tr)
       /\ do_hd' = IF rq[tr].cmd = "read" THEN "read_intr" ELSE "write_intr"
DoRequest(tr, rq, busy) ==
    \/ busy /\ drive' = Idle /\ UNCHANGED do_hd
    \/ ~busy /\ tr = NULL /\ drive' = Idle /\ do_hd' = "NULL"
    \/ /\ ~busy /\ tr # NULL
       /\ drive' = Command(rq, tr)
       /\ do_hd' = IF rq[tr].cmd = "read" THEN "read_intr" ELSE "write_intr"
    \/ /\ ~busy /\ tr # NULL /\ rq[tr].cmd = "write" /\ "drq" \in Faults
       /\ drive' = Specify /\ do_hd' = "do_request"

ResetHd == drive' = Specify /\ do_hd' = "do_request"

-----------------------------------------------------------------------------
(* Processes *)

InKernel(p) == pc[p] \in {"slot", "full", "add", "linked"}
MayRun(p) == \A q \in Procs \ {p} : ~InKernel(q)
At(p, l) == pc[p] = l /\ MayRun(p)
Goto(p, l) == pc' = [pc EXCEPT ![p] = l]

(* A program changes the data of its buffer; the buffer is dirty then. *)
Modify(p, d) ==
    /\ At(p, "idle")
    /\ d # buf[p].data
    /\ buf' = [buf EXCEPT ![p].data = d, ![p].dirt = TRUE, ![p].uptodate = TRUE]
    /\ UNCHANGED <<request, this_request, sorting, do_hd, wait_for_request,
                   procVars, runnable, drive, disk, cut>>

(* ll_rw_block() on a dirty buffer, or on one that getblk() has just given *)
(* to the block of p and that is not up to date: lock_buffer().            *)
Issue(p, rw) ==
    /\ At(p, "idle")
    /\ buf[p].dirt <=> rw = "write"
    /\ buf' = [buf EXCEPT ![p].lock = TRUE, ![p].cmd = rw,
                          ![p].uptodate = rw = "write" /\ @]
    /\ Goto(p, "slot")
    /\ UNCHANGED <<request, this_request, sorting, do_hd, wait_for_request,
                   req, tmp, runnable, drive, disk, cut>>

Free == {r \in Requests : request[r].hd = -1}

(* rw_abs_hd() takes the first free request; add_request() begins. *)
TakeRequest(p) ==
    /\ At(p, "slot")
    /\ \E r \in Free :
         /\ \A s \in Free : r <= s
         /\ request' = [request EXCEPT ![r] =
                          [hd |-> 0, bh |-> p, cmd |-> buf[p].cmd, nsector |-> 2,
                           errors |-> 0, next |-> NULL]]
         /\ req' = [req EXCEPT ![p] = r]
    /\ sorting' = TRUE
    /\ tmp' = [tmp EXCEPT ![p] = this_request]
    /\ Goto(p, "add")
    /\ UNCHANGED <<this_request, do_hd, wait_for_request, runnable, buf, drive,
                   disk, cut>>

NoRequest(p) ==
    /\ At(p, "slot")
    /\ Free = {}
    /\ Goto(p, "full")
    /\ UNCHANGED <<request, this_request, sorting, do_hd, wait_for_request,
                   req, tmp, runnable, buf, drive, disk, cut>>

(* sleep_on(&wait_for_request): push, sleep; when woken, wake the one below. *)
SleepOn(p) ==
    /\ At(p, "full")
    /\ tmp' = [tmp EXCEPT ![p] = wait_for_request]
    /\ wait_for_request' = p
    /\ runnable' = [runnable EXCEPT ![p] = FALSE]
    /\ Goto(p, "asleep")
    /\ UNCHANGED <<request, this_request, sorting, do_hd, req, buf, drive, disk,
                   cut>>

\* faulty: the sleeper below is not woken
WokenAlone(p) ==
    /\ runnable' = runnable
    /\ tmp' = [tmp EXCEPT ![p] = NULL]
Woken(p) ==
    /\ runnable' = IF tmp[p] = NULL THEN runnable
                   ELSE [runnable EXCEPT ![tmp[p]] = TRUE]
    /\ tmp' = [tmp EXCEPT ![p] = NULL]

WakeFromSleep(p) ==
    /\ At(p, "asleep") /\ runnable[p]
    /\ Woken(p)
    /\ Goto(p, "slot")
    /\ UNCHANGED <<request, this_request, sorting, do_hd, wait_for_request,
                   req, buf, drive, disk, cut>>

(* IN_ORDER *)
InOrder(r, s) == Position[request[r].bh] < Position[request[s].bh]

(* Where add_request() links r: behind the first entry after the second    *)
(* one where it is in order, or at the end.  The loop begins at `from' and *)
(* goes on to next until r fits.                                           *)
Fits(r, b) == LET n == request[b].next IN
              n = NULL \/ ((InOrder(b, r) \/ ~InOrder(b, n)) /\ InOrder(r, n))
Visited(r, from) ==
    {b \in Requests :
        \A S \in SUBSET Requests :
            from \in S /\ (\A c \in S : Fits(r, c) \/ request[c].next \in S) => b \in S}
Behind(r, first) ==
    IF request[first].next = NULL THEN first
    ELSE CHOOSE b \in Visited(r, request[first].next) : Fits(r, b)

\* faulty: the rest of the list is cut off
InsertedShort(r, b) == [request EXCEPT ![b].next = r]
Inserted(r, b) == [request EXCEPT ![r].next = request[b].next, ![b].next = r]

(* The entry that was first when add_request() read this_request may have  *)
(* been answered by now.  If it was the only one, r is linked behind it    *)
(* and this_request is NULL: nothing leads to r any more.                  *)
Link(p) ==
    /\ At(p, "add")
    /\ IF tmp[p] = NULL
       THEN this_request' = req[p] /\ UNCHANGED <<request, cut>>
       ELSE LET b == Behind(req[p], tmp[p]) IN
            /\ request' = Inserted(req[p], b)
            /\ cut' = IF request[b].hd = -1 THEN cut \cup {req[p]} ELSE cut
            /\ UNCHANGED this_request
    /\ tmp' = [tmp EXCEPT ![p] = NULL]
    /\ Goto(p, "linked")
    /\ UNCHANGED <<sorting, do_hd, wait_for_request, req, runnable, buf, drive,
                   disk>>

(* sorting = 0; "we restart them if necessary" *)
\* faulty: nothing is restarted
RestartNever == UNCHANGED <<do_hd, drive>>
RestartIfIdle ==
    IF do_hd = "NULL" THEN DoRequest(this_request, request, FALSE)
                      ELSE UNCHANGED <<do_hd, drive>>

Restart(p) ==
    /\ At(p, "linked")
    /\ sorting' = FALSE
    /\ RestartIfIdle
    /\ Goto(p, "wait")
    /\ UNCHANGED <<request, this_request, wait_for_request, req, tmp, runnable,
                   buf, disk, cut>>

(* wait_on_buffer() returns. *)
Return(p) ==
    /\ At(p, "wait")
    /\ ~buf[p].lock
    /\ Goto(p, "idle")
    /\ req' = [req EXCEPT ![p] = NULL]
    /\ UNCHANGED <<request, this_request, sorting, do_hd, wait_for_request,
                   tmp, runnable, buf, drive, disk, cut>>

-----------------------------------------------------------------------------
(* Interrupts *)

(* Nothing disables interrupts: they come while sorting is set, and between *)
(* the search for a free request and sleep_on().                           *)
Interrupt(h) == do_hd = h /\ drive # Idle

(* wake_up(&wait_for_request) *)
WakeUp ==
    /\ wait_for_request' = NULL
    /\ runnable' = IF wait_for_request = NULL THEN runnable
                   ELSE [runnable EXCEPT ![wait_for_request] = TRUE]

(* The request is answered: its slot is free, the next one is first.  Of   *)
(* the fields of a free slot only bh and next are read again, by an        *)
(* add_request() that the interrupt has interrupted.                       *)
Answered(rq, tr) ==
    [rq EXCEPT ![tr] = IF sorting THEN FreeRequest(rq[tr].bh, rq[tr].next)
                                  ELSE FreeRequest(NULL, NULL)]
Answer(rq, b) ==
    /\ request' = Answered(rq, this_request)
    /\ this_request' = rq[this_request].next
    /\ buf' = b
    /\ WakeUp

(* The sector at which the drive failed. *)
Failing == IF drive.left = 2 THEN "first" ELSE "second"

(* bad_rw_intr() *)
BadRwIntr ==
    LET r == request[this_request]
        counted == [request EXCEPT ![this_request].errors = @ + 1]
    IN /\ IF r.errors >= MAX_ERRORS
          THEN Answer(counted, [buf EXCEPT ![r.bh].uptodate = FALSE,
                                           ![r.bh].lock = FALSE])
          ELSE request' = counted /\ UNCHANGED <<this_request, buf,
                                                 wait_for_request, runnable>>
       /\ ResetHd
       /\ UNCHANGED disk

\* faulty: the buffer is not unlocked
TransferredLocked(b) == [b EXCEPT !.uptodate = TRUE, !.dirt = FALSE]
Transferred(b) == [b EXCEPT !.uptodate = TRUE, !.dirt = FALSE, !.lock = FALSE]
\* faulty: the count of sectors left is not lowered
NextSectorAgain == [drive EXCEPT !.at = 1]
NextSector == [drive EXCEPT !.at = 1, !.left = 1]

(* The half of the buffer that read_intr() and do_request() use.           *)
\* faulty: the other half
HalfOther(n) == 1 - (n % 2)
Half(n) == n % 2

ReadIntr ==
    /\ Interrupt("read_intr")
    /\ \/ Failing \in Faults /\ BadRwIntr
       \/ LET r == request[this_request]
              rq == [request EXCEPT ![this_request].errors = 0,
                                    ![this_request].nsector = @ - 1]
              b == [buf EXCEPT ![r.bh].data[Half(r.nsector)] =
                                      disk[drive.bh][drive.at]]
          IN /\ IF r.nsector > 1
                THEN /\ request' = rq /\ buf' = b /\ drive' = NextSector
                     /\ UNCHANGED <<this_request, wait_for_request, runnable, do_hd>>
                ELSE /\ Answer(rq, [b EXCEPT ![r.bh] = Transferred(@)])
                     /\ DoRequest(r.next, rq, sorting)
             /\ UNCHANGED disk
    /\ UNCHANGED <<procVars, sorting, cut>>

(* The data of a sector was taken from the buffer when it was asked for:   *)
(* the first one at Half(nsector), any later one at 512.  Nobody changes   *)
(* a locked buffer, so the model takes it when the sector is written.      *)
WriteIntr ==
    /\ Interrupt("write_intr")
    /\ \/ Failing \in Faults /\ BadRwIntr
       \/ LET r == request[this_request]
              rq == [request EXCEPT ![this_request].nsector = @ - 1]
              half == IF drive.at = 0 THEN Half(r.nsector) ELSE 1
          IN /\ disk' = [disk EXCEPT ![drive.bh][drive.at] = buf[r.bh].data[half]]
             /\ IF r.nsector > 1
                THEN /\ request' = rq /\ drive' = NextSector
                     /\ UNCHANGED <<this_request, buf, wait_for_request, runnable, do_hd>>
                ELSE /\ Answer(rq, [buf EXCEPT ![r.bh] = Transferred(@)])
                     /\ DoRequest(r.next, rq, sorting)
    /\ UNCHANGED <<procVars, sorting, cut>>

(* The interrupt of WIN_SPECIFY: the reset is over, the request is tried   *)
(* again or the next one started.                                          *)
ResetIntr ==
    /\ Interrupt("do_request")
    /\ DoRequest(this_request, request, sorting)
    /\ UNCHANGED <<request, this_request, sorting, wait_for_request, procVars,
                   runnable, buf, disk, cut>>

-----------------------------------------------------------------------------
Step(p) ==
    \/ TakeRequest(p) \/ NoRequest(p) \/ SleepOn(p) \/ WakeFromSleep(p)
    \/ Link(p) \/ Restart(p) \/ Return(p)
Drive == ReadIntr \/ WriteIntr \/ ResetIntr

Next ==
    \/ \E p \in Procs : \/ Step(p)
                        \/ \E rw \in {"read", "write"} : Issue(p, rw)
                        \/ \E d \in Contents : Modify(p, d)
    \/ Drive

(* The drive answers every command, and its interrupt stays pending while  *)
(* it cannot be taken.  schedule() runs every runnable process in the end, *)
(* however often another one is in the kernel.                             *)
Fairness == SF_vars(Drive) /\ \A p \in Procs : SF_vars(Step(p))
Spec == Init /\ [][Next]_vars
FairSpec == Spec /\ Fairness

-----------------------------------------------------------------------------
(* Properties *)

Linked == {r \in Requests : /\ request[r].hd = 0
                            /\ pc[request[r].bh] \in {"linked", "wait"}}
Kept == Linked \ cut
(* Sets of requests that the list does not lead out of. *)
Closed(S) == \A r \in S : request[r].next \in S \cup {NULL}

(* The list that starts at this_request leads once to each request that    *)
(* was linked, and to nothing else, whatever interrupts arrive while       *)
(* add_request() sorts.  The one exception are requests linked behind an   *)
(* entry that was answered meanwhile: nothing ever leads to those.         *)
QueueSound ==
    /\ TypeOK
    /\ this_request \in Kept \cup {NULL} /\ Closed(Kept)
    /\ \A S \in SUBSET Kept : Closed(S) /\ (this_request = NULL \/ this_request \in S) => S = Kept
    /\ \A S \in SUBSET Kept : S = {} \/ \E r \in S : request[r].next \notin S

(* add_request() keeps every entry in the list: "not to mess up the linked *)
(* lists, we never touch the two first entries [...] the ability of not    *)
(* disabling interrupts" (hd.c:334-338).  The code does not: a list of one *)
(* entry loses what is linked behind it when its entry is answered.        *)
NothingCut == cut = {}

(* An interrupt finds the handler, and this_request the request, of the    *)
(* command the controller has executed (hd_out, read_intr, write_intr): no *)
(* unexpected interrupt, no sector for the wrong buffer.                   *)
HeadIsServed ==
    /\ drive.cmd \in {"read", "write"} =>
         /\ this_request # NULL
         /\ LET r == request[this_request] IN
              /\ r.hd = 0 /\ r.bh = drive.bh /\ r.cmd = drive.cmd
              /\ r.nsector = drive.left
              /\ do_hd = IF r.cmd = "read" THEN "read_intr" ELSE "write_intr"
    /\ drive.cmd = "specify" => do_hd = "do_request"

(* A buffer is locked from lock_buffer() to the answer of its one request. *)
LockedUntilAnswered ==
    \A p \in Procs :
       LET mine == {r \in Requests : request[r].hd = 0 /\ request[r].bh = p} IN
       /\ Cardinality(mine) <= 1
       /\ buf[p].lock <=> pc[p] \in {"slot", "full", "asleep"} \/ mine # {}

(* A clean buffer that is up to date has the contents of its block         *)
(* (read_intr, write_intr, bad_rw_intr; what bread() promises).            *)
CleanMatchesDisk ==
    \A p \in Procs :
       buf[p].uptodate /\ ~buf[p].dirt /\ ~buf[p].lock => buf[p].data = disk[p]

(* The drive has answered and do_request() has not given it the next       *)
(* command, because of `sorting'; do_hd still names the old handler, so    *)
(* add_request() takes the drive for busy, now and for ever.               *)
Stalled == do_hd # "NULL" /\ drive = Idle /\ ~sorting

(* Every queued request is answered unless the drive stalls: add_request() *)
(* starves none by putting later ones in front of it, and it starts a      *)
(* drive that has nothing to do.                                           *)
Served == \A p \in Procs : pc[p] = "wait" ~> pc[p] = "idle" \/ Stalled

(* Only the end of a sorting can leave the drive stalled: wherever else it *)
(* goes idle, do_hd is cleared and the next request starts it again        *)
(* (do_request, add_request).                                              *)
StallsOnlyBySorting == [][Stalled' => Stalled \/ sorting]_vars

(* "The interrupts may have died down, as they aren't redone due to        *)
(* locking with sorting=1 [...] so we restart them if necessary"           *)
(* (hd.c:359-362): every queued request is answered.                       *)
Restarted == \A p \in Procs : pc[p] = "wait" ~> pc[p] = "idle"

(* Whoever sleeps for a free request will be woken: wake_up() wakes the    *)
(* last sleeper only, and each sleeper the one it found before it          *)
(* (sleep_on, wake_up, rw_abs_hd).                                         *)
Sleepers == {p \in Procs : pc[p] = "asleep"}
Chained(S) == \A p \in S : tmp[p] \in S \cup {NULL}
SleepersChained ==
    \A S \in SUBSET Procs :
        /\ Chained(S) /\ wait_for_request \in S \cup {NULL}
        /\ \A p \in Sleepers : runnable[p] => p \in S
        => Sleepers \subseteq S
=============================================================================
