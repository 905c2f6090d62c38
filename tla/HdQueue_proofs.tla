---------------------------- MODULE HdQueue_proofs ----------------------------
(***************************************************************************)
(* The hard-disk driver serves what it should: each locked buffer has one  *)
(* request, the command of the drive is that of the first request, and a   *)
(* transfer leaves the buffer as its block.  All of this holds whenever    *)
(* interrupts arrive.  The list leads to every request that add_request()  *)
(* has not linked behind an answered one.                                  *)
(***************************************************************************)
EXTENDS HdQueue, FiniteSetTheorems, TLAPS

(* The driver works off the requests of S: from this_request the list      *)
(* stays in S, passes no entry twice and comes to an end.                  *)
NoLoop(S) == \A T \in SUBSET S : T = {} \/ \E r \in T : request[r].next \notin T
ListOf(S) ==
    /\ S \subseteq Requests /\ this_request \in S \cup {NULL} /\ Closed(S)
    /\ \A r \in S : request[r].next # NULL =>
         /\ request[r].next # this_request
         /\ \A s \in S : s # r => request[s].next # request[r].next
    /\ NoLoop(S)

(* A request in use belongs to the process that waits for it, and a buffer *)
(* is locked as long as it has one.                                        *)
Mine(p) == {r \in Requests : request[r].hd = 0 /\ request[r].bh = p}
RequestsOwned ==
    \A r \in Requests : request[r].hd = 0 =>
        /\ request[r].bh \in Procs /\ req[request[r].bh] = r
        /\ pc[request[r].bh] \in {"add", "linked", "wait"}
BuffersLocked ==
    \A p \in Procs : buf[p].lock <=> pc[p] \in {"slot", "full", "asleep"} \/ Mine(p) # {}

(* One process at a time is in the driver.  The one in add_request() has a *)
(* request that no list leads to, and a list to link it into, some of      *)
(* whose entries may have been answered.                                   *)
OneInKernel == \A p, q \in Procs : InKernel(p) /\ InKernel(q) => p = q
Sorting == sorting <=> \E p \in Procs : pc[p] \in {"add", "linked"}
AddSound(p) ==
    pc[p] = "add" =>
        /\ req[p] \in Requests /\ request[req[p]].hd = 0 /\ request[req[p]].bh = p
        /\ request[req[p]].next = NULL
        /\ tmp[p] = NULL => this_request = NULL
        /\ tmp[p] # NULL =>
             \E W \in SUBSET (Requests \ {req[p]}) :
                tmp[p] \in W /\ Closed(W) /\ NoLoop(W)

(* The sleepers for a request, each of which knows the one before it: none *)
(* is known to two, and none that has been woken to any.                   *)
WaitSound ==
    /\ wait_for_request \in Sleepers \cup {NULL}
    /\ \A p \in Sleepers : tmp[p] \in Sleepers \cup {NULL}
    /\ wait_for_request # NULL => ~runnable[wait_for_request]
    /\ \A p \in Sleepers : tmp[p] # NULL =>
        /\ ~runnable[tmp[p]]
        /\ tmp[p] # wait_for_request
        /\ \A q \in Sleepers : q # p => tmp[q] # tmp[p]
    /\ \A S \in SUBSET Sleepers :
        /\ Chained(S) /\ wait_for_request \in S \cup {NULL}
        /\ \A p \in Sleepers : runnable[p] => p \in S
        => S = Sleepers

DriveSound ==
    /\ HeadIsServed
    /\ drive.cmd = "idle" => drive = Idle
    /\ \A r \in Requests : request[r].hd = 0 => request[r].nsector \in {1, 2}

IInv ==
    /\ TypeOK
    /\ RequestsOwned
    /\ BuffersLocked
    /\ OneInKernel
    /\ Sorting
    /\ \A p \in Procs : AddSound(p)
    /\ WaitSound
    /\ DriveSound
    /\ \E S \in SUBSET Linked : ListOf(S)

(* When no sector of a transfer fails after the first one, the drive has   *)
(* done as much as the request says, and the halves that are done agree.   *)
HalfDone(r) ==
    this_request = r /\ drive.cmd \in {"read", "write"} /\ drive.at = 1
TransfersSound ==
    /\ drive.cmd \in {"read", "write"} => drive.left = 2 - drive.at
    /\ \A r \in Requests : request[r].hd = 0 =>
         IF HalfDone(r)
         THEN buf[request[r].bh].data[0] = disk[request[r].bh][0]
         ELSE request[r].nsector = 2
    /\ CleanMatchesDisk

(* The list leads to every request that was not linked behind an answered  *)
(* one.  An interrupt can answer one request while add_request() sorts,    *)
(* the one that was first when it began: the drive then gets no command.   *)
NoneLeftOut ==
    \A S \in SUBSET Kept : Closed(S) /\ (this_request = NULL \/ this_request \in S) => S = Kept
FirstKnown(p) ==
    pc[p] = "add" /\ tmp[p] # this_request =>
        /\ tmp[p] \in Requests /\ request[tmp[p]].hd = -1
        /\ request[tmp[p]].next = this_request
        /\ drive.cmd \notin {"read", "write"}
QueueWhole ==
    /\ ListOf(Kept) /\ NoneLeftOut /\ cut \subseteq Linked
    /\ \A p \in Procs : FirstKnown(p)

-----------------------------------------------------------------------------
(* The list *)

Records == [hd : {-1, 0}, bh : Procs \cup {NULL}, cmd : {"read", "write"},
            nsector : 0..2, errors : 0..MAX_ERRORS + 1, next : Requests \cup {NULL}]
Buffers == [lock : BOOLEAN, uptodate : BOOLEAN, dirt : BOOLEAN, data : Block,
            cmd : {"read", "write"}]
Commands == [cmd : {"idle", "read", "write", "specify"}, bh : Procs \cup {NULL},
             at : {0, 1}, left : 0..2]

(* No process and no request is NULL. *)
LEMMA NoNull == NULL \notin Procs /\ NULL \notin Requests
  BY HdAssumption DEF NULL, Requests

(* The types of the variables the driver and its interrupts share. *)
LEMMA Types ==
  ASSUME TypeOK
  PROVE  /\ request \in [Requests -> Records] /\ buf \in [Procs -> Buffers]
         /\ drive \in Commands
  BY DEF TypeOK, Records, Buffers, Commands

(* Requests outside the list may change as they like. *)
LEMMA ListKept ==
  ASSUME NEW S \in SUBSET Requests, ListOf(S), this_request' = this_request,
         \A q \in S : request'[q].next = request[q].next
  PROVE  ListOf(S)'
<1>1. NoLoop(S)'
  <2>. SUFFICES ASSUME NEW T \in SUBSET S, T # {}
                PROVE  \E r \in T : request'[r].next \notin T
    BY DEF NoLoop
  <2>. QED BY DEF ListOf, NoLoop
<1>2. Closed(S)'
  BY DEF ListOf, Closed
<1>. QED BY <1>1, <1>2 DEF ListOf

(* The first entry is taken off. *)
LEMMA ListRemoved ==
  ASSUME TypeOK, NEW S \in SUBSET Requests, ListOf(S), NEW h \in S,
         h = this_request, this_request' = request[h].next,
         \A q \in S \ {h} : request'[q].next = request[q].next
  PROVE  ListOf(S \ {h})'
<1>. DEFINE R == S \ {h}
<1>1. \A q \in R : request'[q].next = request[q].next /\ request[q].next # h
  <2>. TAKE q \in R
  <2>1. h # NULL /\ q \in S
    BY NoNull
  <2>. QED BY <2>1, NoNull DEF ListOf
<1>2. this_request' \in R \cup {NULL}
  <2>1. request[h].next \in S \cup {NULL}
    BY DEF ListOf, Closed
  <2>2. request[h].next # h
    BY NoNull DEF ListOf
  <2>. QED BY <2>1, <2>2
<1>3. \A r \in R : request[r].next # NULL => request[r].next # request[h].next
  BY DEF ListOf
<1>4. NoLoop(R)'
  <2>. SUFFICES ASSUME NEW T \in SUBSET R, T # {}
                PROVE  \E r \in T : request'[r].next \notin T
    BY DEF NoLoop
  <2>1. \E r \in T : request[r].next \notin T
    BY DEF ListOf, NoLoop
  <2>. QED BY <2>1, <1>1
<1>5. Closed(R)'
  <2>. SUFFICES ASSUME NEW q \in R PROVE request'[q].next \in R \cup {NULL}
    BY DEF Closed
  <2>1. request[q].next \in S \cup {NULL}
    BY DEF ListOf, Closed
  <2>. QED BY <2>1, <1>1
<1>6. \A r \in R : request'[r].next # NULL =>
         /\ request'[r].next # this_request'
         /\ \A s \in R : s # r => request'[s].next # request'[r].next
  <2>. SUFFICES ASSUME NEW r \in R, request'[r].next # NULL
                PROVE  /\ request'[r].next # this_request'
                       /\ \A s \in R : s # r => request'[s].next # request'[r].next
    OBVIOUS
  <2>1. request'[r].next = request[r].next
    BY <1>1
  <2>2. request'[r].next # this_request'
    BY <2>1, <1>3
  <2>3. \A s \in R : s # r => request[s].next # request[r].next
    BY <2>1 DEF ListOf
  <2>. QED BY <2>1, <2>2, <2>3, <1>1
<1>. QED BY <1>2, <1>4, <1>5, <1>6 DEF ListOf

(* r is linked behind b: the list gets longer if b is on it, and stays as  *)
(* it is if not.                                                           *)
LinkedBehind(r, b) ==
    \A q \in Requests :
       request'[q].next = IF q = r THEN request[b].next
                          ELSE IF q = b THEN r ELSE request[q].next
LEMMA LoopNotMade ==
  ASSUME NEW S \in SUBSET Requests, Closed(S), NoLoop(S),
         NEW r \in Requests \ S, NEW b \in S, LinkedBehind(r, b)
  PROVE  NoLoop(S \cup {r})'
<1>. SUFFICES ASSUME NEW T \in SUBSET (S \cup {r}), T # {}
              PROVE  \E q \in T : request'[q].next \notin T
  BY DEF NoLoop
<1>0. b # r /\ request'[b].next = r /\ request'[r].next = request[b].next
  BY DEF LinkedBehind
<1>1. \A q \in S \ {b} : request'[q].next = request[q].next
  BY DEF LinkedBehind
<1>2. \A q \in S : request[q].next # r
  BY NoNull DEF Closed
<1>3. CASE T \ {r} = {}
  <2>1. T = {r}
    BY <1>3
  <2>. QED BY <2>1, <1>0, <1>2
<1>4. CASE T \ {r} # {}
  <2>1. PICK q \in T \ {r} : request[q].next \notin T \ {r}
    BY <1>4 DEF NoLoop
  <2>2. q \in S /\ request[q].next \notin T
    BY <2>1, <1>2
  <2>3. CASE q # b
    BY <2>2, <2>3, <2>1, <1>1
  <2>4. CASE q = b
    BY <2>2, <2>4, <2>1, <1>0
  <2>. QED BY <2>3, <2>4
<1>. QED BY <1>3, <1>4

LEMMA ListInserted ==
  ASSUME TypeOK, NEW S \in SUBSET Requests, ListOf(S),
         NEW r \in Requests \ S, NEW b \in S, LinkedBehind(r, b),
         this_request' = this_request
  PROVE  ListOf(S \cup {r})'
<1>0. b # r /\ request'[b].next = r /\ request'[r].next = request[b].next
  BY DEF LinkedBehind
<1>1. \A q \in S \ {b} : request'[q].next = request[q].next
  BY DEF LinkedBehind
<1>2. \A q \in S : request[q].next \in S \cup {NULL} /\ request[q].next # r
  BY NoNull DEF ListOf, Closed
<1>3. NoLoop(S \cup {r})'
  BY LoopNotMade DEF ListOf
<1>4. Closed(S \cup {r})'
  BY <1>0, <1>1, <1>2 DEF Closed
<1>5. this_request # r
  BY NoNull DEF ListOf
<1>6. ASSUME NEW q \in S \cup {r}, request'[q].next # NULL
      PROVE  /\ request'[q].next # this_request
             /\ \A s \in S \cup {r} : s # q => request'[s].next # request'[q].next
  <2>. DEFINE old == IF q = r THEN b ELSE q
  <2>1. CASE q = b
    BY <2>1, <1>0, <1>1, <1>2, <1>5
  <2>2. CASE q # b
    <3>1. old \in S /\ request'[q].next = request[old].next
      BY <2>2, <1>0, <1>1
    <3>2. /\ request[old].next # this_request
          /\ \A s \in S : s # old => request[s].next # request[old].next
      BY <3>1, <1>6 DEF ListOf
    <3>. HIDE DEF old
    <3>3. ASSUME NEW s \in S \cup {r}, s # q PROVE request'[s].next # request'[q].next
      <4>1. CASE s = b
        BY <4>1, <3>1, <1>0, <1>2
      <4>2. CASE s = r
        <5>1. old = q
          BY <4>2, <3>3 DEF old
        <5>. QED BY <4>2, <5>1, <3>1, <3>2, <2>2, <1>0
      <4>3. CASE s # b /\ s # r
        <5>1. s # old
          BY <4>3, <3>3 DEF old
        <5>. QED BY <4>3, <5>1, <3>1, <3>2, <1>1
      <4>. QED BY <4>1, <4>2, <4>3
    <3>. QED BY <3>1, <3>2, <3>3
  <2>. QED BY <2>1, <2>2
<1>. QED BY <1>3, <1>4, <1>6 DEF ListOf

(* add_request() finds the place for r among entries that were on the list *)
(* when it began.                                                          *)
LEMMA BehindInList ==
  ASSUME NEW W \in SUBSET Requests, Closed(W), NoLoop(W), NEW r, NEW first,
         first \in W \/ request[first].next \in W
  PROVE  Behind(r, first) \in W
<1>1. CASE request[first].next = NULL
  BY <1>1, NoNull DEF Behind
<1>2. CASE request[first].next # NULL
  <2>. PICK from : from = request[first].next
    OBVIOUS
  <2>. PICK V : V = Visited(r, from)
    OBVIOUS
  <2>0. from \in W
    BY <1>2 DEF Closed
  <2>1. \A c \in W : Fits(r, c) \/ request[c].next \in W
    BY DEF Closed, Fits
  <2>2. V \subseteq W
    BY <2>0, <2>1 DEF Visited
  <2>3. from \in V
    BY <2>0 DEF Visited
  <2>4. \A c \in V : Fits(r, c) \/ request[c].next \in V
    <3>. SUFFICES ASSUME NEW c \in V, ~Fits(r, c) PROVE request[c].next \in V
      OBVIOUS
    <3>1. request[c].next \in W
      BY <2>1, <2>2
    <3>2. ASSUME NEW S \in SUBSET Requests, from \in S,
                 \A d \in S : Fits(r, d) \/ request[d].next \in S
          PROVE  request[c].next \in S
      BY <3>2 DEF Visited
    <3>. QED BY <3>1, <3>2 DEF Visited
  <2>5. \E c \in V : request[c].next \notin V
    BY <2>2, <2>3 DEF NoLoop
  <2>6. \E c \in V : Fits(r, c)
    BY <2>4, <2>5
  <2>. QED BY <2>2, <2>6, <1>2 DEF Behind
<1>. QED BY <1>1, <1>2

-----------------------------------------------------------------------------
(* What the steps of the processes and of the interrupts have in common *)

InList == \E S \in SUBSET Linked : ListOf(S)
Queued ==
    /\ RequestsOwned /\ BuffersLocked /\ OneInKernel /\ Sorting
    /\ \A p \in Procs : AddSound(p)
    /\ InList

LEMMA Parts ==
  ASSUME TypeOK, Queued, WaitSound, DriveSound
  PROVE  IInv
  BY DEF IInv, Queued, InList
LEMMA HasParts ==
  ASSUME IInv
  PROVE  TypeOK /\ Queued /\ WaitSound /\ DriveSound
  BY DEF IInv, Queued, InList

(* A process that does not wait for a request has none. *)
LEMMA NoneMine ==
  ASSUME RequestsOwned, NEW p \in Procs, pc[p] \in {"idle", "slot", "full", "asleep"}
  PROVE  Mine(p) = {}
  BY DEF RequestsOwned, Mine

(* What nobody does to the sleepers leaves them as they are. *)
LEMMA WaitKept ==
  ASSUME WaitSound, wait_for_request' = wait_for_request, runnable' = runnable,
         Sleepers' = Sleepers, \A p \in Sleepers : tmp'[p] = tmp[p]
  PROVE  WaitSound'
<1>. PICK W : W = Sleepers
  OBVIOUS
<1>1. Sleepers' = W /\ \A p \in W : tmp'[p] = tmp[p]
  OBVIOUS
<1>2. ASSUME NEW S \in SUBSET W, Chained(S)',
             wait_for_request' \in S \cup {NULL}, \A p \in W : runnable'[p] => p \in S
      PROVE  S = W
  <2>1. Chained(S)
    BY <1>1, <1>2 DEF Chained
  <2>. QED BY <2>1, <1>2 DEF WaitSound
<1>3. \A p \in W : /\ tmp[p] \in W \cup {NULL}
                   /\ tmp[p] # NULL =>
                        /\ ~runnable[tmp[p]] /\ tmp[p] # wait_for_request
                        /\ \A q \in W : q # p => tmp[q] # tmp[p]
  BY DEF WaitSound
<1>4. /\ wait_for_request \in W \cup {NULL}
      /\ wait_for_request # NULL => ~runnable[wait_for_request]
  BY DEF WaitSound
<1>. QED BY <1>1, <1>2, <1>3, <1>4 DEF WaitSound

(* Nor does a step that leaves the places, owners and order of the requests *)
(* as they are.                                                            *)
LEMMA QueuedKept ==
  ASSUME TypeOK, Queued,
         \A r \in Requests : /\ request'[r].hd = request[r].hd
                             /\ request'[r].bh = request[r].bh
                             /\ request'[r].next = request[r].next,
         \A p \in Procs : buf'[p].lock <=> buf[p].lock,
         pc' = pc, req' = req, tmp' = tmp, sorting' = sorting,
         this_request' = this_request
  PROVE  Queued'
<1>1. RequestsOwned' /\ OneInKernel' /\ Sorting'
  BY DEF Queued, RequestsOwned, OneInKernel, InKernel, Sorting
<1>2. BuffersLocked'
  BY DEF Queued, BuffersLocked, Mine
<1>3. ASSUME NEW p \in Procs PROVE AddSound(p)'
  <2>1. AddSound(p)
    BY DEF Queued
  <2>. QED BY <2>1 DEF AddSound, Closed, NoLoop
<1>4. InList'
  <2>1. PICK S \in SUBSET Linked : ListOf(S)
    BY DEF Queued, InList
  <2>2. S \in SUBSET Requests /\ S \subseteq Linked'
    BY DEF Linked
  <2>3. ListOf(S)'
    BY <2>1, <2>2, ListKept
  <2>. QED BY <2>2, <2>3 DEF InList
<1>. QED BY <1>1, <1>2, <1>3, <1>4 DEF Queued

(* A process without a request goes from one place before add_request() to *)
(* another, or returns.                                                    *)
LEMMA OutsideQueue ==
  ASSUME TypeOK, Queued, NEW p \in Procs, MayRun(p), Mine(p) = {},
         NEW l \in {"idle", "slot", "full", "asleep"},
         pc[p] \notin {"add", "linked"}, pc' = [pc EXCEPT ![p] = l],
         request' = request, this_request' = this_request, sorting' = sorting,
         \A q \in Procs \ {p} : /\ req'[q] = req[q] /\ tmp'[q] = tmp[q]
                                /\ buf'[q].lock <=> buf[q].lock,
         buf'[p].lock <=> l \in {"slot", "full", "asleep"}
  PROVE  Queued'
<1>0. pc'[p] = l /\ \A q \in Procs \ {p} : pc'[q] = pc[q]
  BY DEF TypeOK
<1>1. \A r \in Requests : request[r].hd = 0 => request[r].bh \in Procs \ {p}
  BY DEF Queued, RequestsOwned, Mine
<1>2. RequestsOwned'
  <2>. SUFFICES ASSUME NEW r \in Requests, request[r].hd = 0
                PROVE  /\ request[r].bh \in Procs /\ req'[request[r].bh] = r
                       /\ pc'[request[r].bh] \in {"add", "linked", "wait"}
    BY DEF RequestsOwned
  <2>. QED BY <1>0, <1>1 DEF Queued, RequestsOwned
<1>3. BuffersLocked'
  <2>. SUFFICES ASSUME NEW q \in Procs
                PROVE  buf'[q].lock <=> \/ pc'[q] \in {"slot", "full", "asleep"}
                                        \/ Mine(q) # {}
    BY DEF BuffersLocked, Mine
  <2>. QED BY <1>0 DEF Queued, BuffersLocked
<1>4. OneInKernel'
  BY <1>0 DEF Queued, OneInKernel, InKernel, MayRun
<1>5. Sorting'
  BY <1>0 DEF Queued, Sorting
<1>6. ASSUME NEW q \in Procs PROVE AddSound(q)'
  <2>1. AddSound(q)
    BY DEF Queued
  <2>2. CASE q = p
    BY <2>2, <1>0 DEF AddSound
  <2>3. CASE q # p
    <3>. USE <2>3
    <3>1. pc'[q] = pc[q] /\ req'[q] = req[q] /\ tmp'[q] = tmp[q]
      BY <1>0
    <3>. QED BY <2>1, <3>1 DEF AddSound, Closed, NoLoop
  <2>. QED BY <2>2, <2>3
<1>7. InList'
  <2>1. PICK S \in SUBSET Linked : ListOf(S)
    BY DEF Queued, InList
  <2>2. S \in SUBSET Requests
    BY DEF Linked
  <2>3. S \subseteq Linked'
    BY <1>0, <1>1 DEF Linked
  <2>4. ListOf(S)'
    BY <2>1, <2>2, ListKept
  <2>. QED BY <2>3, <2>4 DEF InList
<1>. QED BY <1>2, <1>3, <1>4, <1>5, <1>6, <1>7 DEF Queued

(* The command of the drive and its handler stay with the first request. *)
LEMMA DriveKept ==
  ASSUME DriveSound, drive' = drive, do_hd' = do_hd,
         this_request # NULL => /\ this_request' = this_request
                                /\ request'[this_request] = request[this_request],
         \A r \in Requests : request'[r].hd = 0 => request'[r].nsector \in {1, 2}
  PROVE  DriveSound'
  BY DEF DriveSound, HeadIsServed

-----------------------------------------------------------------------------
(* The steps of the processes *)

LEMMA ModifyStep ==
  ASSUME IInv, NEW p \in Procs, NEW d \in Contents, Modify(p, d)
  PROVE  IInv'
<1>. USE HasParts
<1>1. buf' = [buf EXCEPT ![p] = [buf[p] EXCEPT !.data = d, !.dirt = TRUE, !.uptodate = TRUE]]
  <2>1. buf' = [buf EXCEPT ![p].data = d, ![p].dirt = TRUE, ![p].uptodate = TRUE]
    BY DEF Modify
  <2>. QED BY <2>1, Types DEF Buffers
<1>2. buf[p] \in Buffers /\ d \in Block
  BY Types, HdAssumption
<1>3. buf' \in [Procs -> Buffers]
  <2>1. [buf[p] EXCEPT !.data = d, !.dirt = TRUE, !.uptodate = TRUE] \in Buffers
    BY <1>2 DEF Buffers
  <2>. QED BY <2>1, <1>1, Types
<1>4. TypeOK'
  BY <1>3 DEF TypeOK, Buffers, Modify, procVars
<1>5. \A q \in Procs : buf'[q].lock <=> buf[q].lock
  BY <1>1, <1>2, Types DEF Buffers
<1>6. Queued'
  BY <1>5, QueuedKept DEF Modify, procVars
<1>7. WaitSound'
  <2>1. Sleepers' = Sleepers
    BY DEF Modify, procVars, Sleepers
  <2>. QED BY <2>1, WaitKept DEF Modify, procVars
<1>8. DriveSound'
  BY DriveKept DEF Modify, DriveSound
<1>. QED BY <1>4, <1>6, <1>7, <1>8, Parts DEF IInv, Queued, InList

LEMMA IssueStep ==
  ASSUME IInv, NEW p \in Procs, NEW rw \in {"read", "write"}, Issue(p, rw)
  PROVE  IInv'
<1>. USE HasParts
<1>0. pc[p] = "idle" /\ MayRun(p) /\ pc' = [pc EXCEPT ![p] = "slot"]
  BY DEF Issue, At, Goto
<1>1. PICK u \in BOOLEAN :
         buf' = [buf EXCEPT ![p] = [buf[p] EXCEPT !.lock = TRUE, !.cmd = rw, !.uptodate = u]]
  <2>1. buf' = [buf EXCEPT ![p].lock = TRUE, ![p].cmd = rw,
                           ![p].uptodate = rw = "write" /\ buf[p].uptodate]
    BY Types DEF Issue, Buffers
  <2>. QED BY <2>1, Types DEF Buffers
<1>2. buf[p] \in Buffers
  BY Types
<1>3. buf' \in [Procs -> Buffers]
  <2>1. [buf[p] EXCEPT !.lock = TRUE, !.cmd = rw, !.uptodate = u] \in Buffers
    BY <1>2 DEF Buffers
  <2>. QED BY <2>1, <1>1, Types
<1>4. TypeOK'
  BY <1>0, <1>3 DEF TypeOK, Buffers, Issue
<1>5. Queued'
  <2>1. Mine(p) = {}
    BY <1>0, NoneMine DEF Queued
  <2>2. buf'[p].lock /\ \A q \in Procs \ {p} : buf'[q].lock <=> buf[q].lock
    BY <1>1, <1>2, Types DEF Buffers
  <2>. QED BY <2>1, <2>2, <1>0, OutsideQueue DEF Issue
<1>6. WaitSound'
  <2>1. Sleepers' = Sleepers
    BY <1>0 DEF Sleepers, TypeOK
  <2>. QED BY <2>1, WaitKept DEF Issue
<1>7. DriveSound'
  BY DriveKept DEF Issue, DriveSound
<1>. QED BY <1>4, <1>5, <1>6, <1>7, Parts DEF IInv, Queued, InList

LEMMA NoRequestStep ==
  ASSUME IInv, NEW p \in Procs, NoRequest(p)
  PROVE  IInv'
<1>. USE HasParts
<1>0. pc[p] = "slot" /\ MayRun(p) /\ pc' = [pc EXCEPT ![p] = "full"]
  BY DEF NoRequest, At, Goto
<1>1. TypeOK'
  BY <1>0 DEF TypeOK, NoRequest
<1>2. Queued'
  <2>1. Mine(p) = {}
    BY <1>0, NoneMine DEF Queued
  <2>2. buf'[p].lock
    BY <1>0 DEF NoRequest, Queued, BuffersLocked
  <2>. QED BY <2>1, <2>2, <1>0, OutsideQueue DEF NoRequest
<1>3. WaitSound'
  <2>1. Sleepers' = Sleepers
    BY <1>0 DEF Sleepers, TypeOK
  <2>. QED BY <2>1, WaitKept DEF NoRequest
<1>4. DriveSound'
  BY DriveKept DEF NoRequest, DriveSound
<1>. QED BY <1>1, <1>2, <1>3, <1>4, Parts DEF IInv, Queued, InList

LEMMA ReturnStep ==
  ASSUME IInv, NEW p \in Procs, Return(p)
  PROVE  IInv'
<1>. USE HasParts
<1>0. pc[p] = "wait" /\ MayRun(p) /\ pc' = [pc EXCEPT ![p] = "idle"]
  BY DEF Return, At, Goto
<1>1. TypeOK'
  BY <1>0 DEF TypeOK, Return
<1>2. Queued'
  <2>1. ~buf[p].lock
    BY DEF Return
  <2>2. Mine(p) = {}
    BY <2>1 DEF Queued, BuffersLocked
  <2>3. \A q \in Procs \ {p} : req'[q] = req[q]
    BY DEF Return, TypeOK
  <2>. QED BY <2>1, <2>2, <2>3, <1>0, OutsideQueue DEF Return
<1>3. WaitSound'
  <2>1. Sleepers' = Sleepers
    BY <1>0 DEF Sleepers, TypeOK
  <2>. QED BY <2>1, WaitKept DEF Return
<1>4. DriveSound'
  BY DriveKept DEF Return, DriveSound
<1>. QED BY <1>1, <1>2, <1>3, <1>4, Parts DEF IInv, Queued, InList

LEMMA SleepOnStep ==
  ASSUME IInv, NEW p \in Procs, SleepOn(p)
  PROVE  IInv'
<1>. USE HasParts
<1>0. /\ pc[p] = "full" /\ MayRun(p) /\ pc' = [pc EXCEPT ![p] = "asleep"]
      /\ tmp' = [tmp EXCEPT ![p] = wait_for_request] /\ wait_for_request' = p
      /\ runnable' = [runnable EXCEPT ![p] = FALSE]
  BY DEF SleepOn, At, Goto
<1>1. TypeOK'
  BY <1>0 DEF TypeOK, SleepOn
<1>2. Queued'
  <2>1. Mine(p) = {}
    BY <1>0, NoneMine DEF Queued
  <2>2. buf'[p].lock
    BY <1>0 DEF SleepOn, Queued, BuffersLocked
  <2>3. \A q \in Procs \ {p} : tmp'[q] = tmp[q]
    BY <1>0 DEF TypeOK
  <2>. QED BY <2>1, <2>2, <2>3, <1>0, OutsideQueue DEF SleepOn
<1>3. WaitSound'
  <2>. PICK W : W = Sleepers
    OBVIOUS
  <2>0. p \in Procs \ W /\ p # NULL /\ W \subseteq Procs
    BY <1>0, NoNull DEF Sleepers
  <2>1. Sleepers' = W \cup {p}
    BY <1>0 DEF Sleepers, TypeOK
  <2>2. /\ tmp'[p] = wait_for_request /\ \A q \in W : tmp'[q] = tmp[q]
        /\ ~runnable'[p] /\ \A q \in W : runnable'[q] = runnable[q]
    BY <1>0, <2>0 DEF TypeOK
  <2>3. wait_for_request \in W \cup {NULL} /\ \A q \in W : tmp[q] \in W \cup {NULL}
    BY DEF WaitSound
  <2>4. ASSUME NEW q \in W \cup {p}, tmp'[q] # NULL
        PROVE  /\ tmp'[q] \in W /\ ~runnable'[tmp'[q]]
               /\ \A s \in W \cup {p} : s # q => tmp'[s] # tmp'[q]
    <3>1. CASE q = p
      BY <3>1, <2>4, <2>2, <2>3 DEF WaitSound
    <3>2. CASE q # p
      BY <3>2, <2>4, <2>2, <2>3 DEF WaitSound
    <3>. QED BY <3>1, <3>2
  <2>5. ASSUME NEW S \in SUBSET (W \cup {p}), Chained(S)',
               p \in S \cup {NULL}, \A q \in W \cup {p} : runnable'[q] => q \in S
        PROVE  S = W \cup {p}
    <3>1. p \in S
      BY <2>5, <2>0
    <3>2. Chained(S \ {p})
      BY <2>5, <2>2, <2>3, <2>0 DEF Chained
    <3>3. wait_for_request \in (S \ {p}) \cup {NULL}
      BY <3>1, <2>5, <2>2, <2>3, <2>0 DEF Chained
    <3>4. \A q \in W : runnable[q] => q \in S \ {p}
      BY <2>5, <2>2, <2>0
    <3>5. S \ {p} = W
      BY <3>2, <3>3, <3>4 DEF WaitSound
    <3>. QED BY <3>1, <3>5
  <2>6. \A q \in W \cup {p} : tmp'[q] \in W \cup {NULL}
    BY <2>2, <2>3
  <2>. QED BY <2>0, <2>1, <2>2, <2>4, <2>5, <2>6, <1>0 DEF WaitSound
<1>4. DriveSound'
  BY DriveKept DEF SleepOn, DriveSound
<1>. QED BY <1>1, <1>2, <1>3, <1>4, Parts DEF IInv, Queued, InList

LEMMA WakeFromSleepStep ==
  ASSUME IInv, NEW p \in Procs, WakeFromSleep(p)
  PROVE  IInv'
<1>. USE HasParts
<1>0. /\ pc[p] = "asleep" /\ runnable[p] /\ MayRun(p) /\ pc' = [pc EXCEPT ![p] = "slot"]
      /\ tmp' = [tmp EXCEPT ![p] = NULL] /\ wait_for_request' = wait_for_request
      /\ runnable' = IF tmp[p] = NULL THEN runnable ELSE [runnable EXCEPT ![tmp[p]] = TRUE]
  BY DEF WakeFromSleep, Woken, At, Goto
<1>1. TypeOK'
  BY <1>0 DEF TypeOK, WakeFromSleep
<1>2. Queued'
  <2>1. Mine(p) = {}
    BY <1>0, NoneMine DEF Queued
  <2>2. buf'[p].lock
    BY <1>0 DEF WakeFromSleep, Queued, BuffersLocked
  <2>3. \A q \in Procs \ {p} : tmp'[q] = tmp[q]
    BY <1>0 DEF TypeOK
  <2>. QED BY <2>1, <2>2, <2>3, <1>0, OutsideQueue DEF WakeFromSleep
<1>3. WaitSound'
  <2>. PICK W : W = Sleepers
    OBVIOUS
  <2>. PICK t : t = tmp[p]
    OBVIOUS
  <2>0. p \in W /\ p # NULL /\ W \subseteq Procs
    BY <1>0, NoNull DEF Sleepers
  <2>1. Sleepers' = W \ {p}
    BY <1>0 DEF Sleepers, TypeOK
  <2>2. /\ \A q \in W \ {p} : tmp'[q] = tmp[q]
        /\ \A q \in W : q # t => runnable'[q] = runnable[q]
        /\ t # NULL => runnable'[t]
    <3>1. t # NULL => t \in Procs
      BY <2>0 DEF WaitSound
    <3>. QED BY <1>0, <2>0, <3>1 DEF TypeOK
  <2>3. /\ wait_for_request \in W \cup {NULL}
        /\ \A q \in W : tmp[q] \in W \cup {NULL} /\ tmp[q] # p
        /\ wait_for_request # p /\ (t # NULL => wait_for_request # t)
    BY <1>0, <2>0 DEF WaitSound
  <2>4. ASSUME NEW q \in W \ {p}, tmp[q] # NULL
        PROVE  /\ tmp[q] \in W \ {p} /\ ~runnable'[tmp[q]] /\ tmp[q] # wait_for_request
               /\ \A s \in W \ {p} : s # q => tmp[s] # tmp[q]
    <3>1. /\ tmp[q] \in W \ {p} /\ tmp[q] # t /\ ~runnable[tmp[q]]
          /\ tmp[q] # wait_for_request
          /\ \A s \in W : s # q => tmp[s] # tmp[q]
      BY <2>4, <2>0, <2>3 DEF WaitSound
    <3>. QED BY <3>1, <2>2
  <2>5. ASSUME NEW S \in SUBSET (W \ {p}), Chained(S)',
               wait_for_request \in S \cup {NULL},
               \A q \in W \ {p} : runnable'[q] => q \in S
        PROVE  S = W \ {p}
    <3>1. t \in S \cup {NULL}
      BY <2>5, <2>2, <2>3, <2>0
    <3>2. Chained(S \cup {p})
      BY <2>5, <2>2, <2>0, <3>1 DEF Chained
    <3>3. \A q \in W : runnable[q] => q \in S \cup {p}
      BY <2>5, <2>2, <2>0, <3>1, NoNull
    <3>4. S \cup {p} = W
      BY <3>2, <3>3, <2>5, <2>0 DEF WaitSound
    <3>. QED BY <3>4
  <2>6. wait_for_request \in (W \ {p}) \cup {NULL}
    BY <2>3
  <2>7. wait_for_request # NULL => ~runnable'[wait_for_request]
    BY <2>2, <2>3 DEF WaitSound
  <2>8. \A q \in W \ {p} : tmp[q] \in (W \ {p}) \cup {NULL}
    BY <2>3
  <2>. QED BY <2>1, <2>2, <2>4, <2>5, <2>6, <2>7, <2>8, <1>0 DEF WaitSound
<1>4. DriveSound'
  BY DriveKept DEF WakeFromSleep, DriveSound
<1>. QED BY <1>1, <1>2, <1>3, <1>4, Parts DEF IInv, Queued, InList

LEMMA TakeRequestStep ==
  ASSUME IInv, NEW p \in Procs, TakeRequest(p)
  PROVE  IInv'
<1>. USE HasParts
<1>0. /\ pc[p] = "slot" /\ MayRun(p) /\ pc' = [pc EXCEPT ![p] = "add"]
      /\ tmp' = [tmp EXCEPT ![p] = this_request] /\ sorting' = TRUE
      /\ UNCHANGED <<this_request, do_hd, wait_for_request, runnable, buf, drive, disk, cut>>
  BY DEF TakeRequest, At, Goto
<1>1. PICK r \in Free :
        /\ request' = [request EXCEPT ![r] =
                         [hd |-> 0, bh |-> p, cmd |-> buf[p].cmd, nsector |-> 2,
                          errors |-> 0, next |-> NULL]]
        /\ req' = [req EXCEPT ![p] = r]
  BY DEF TakeRequest
<1>2. /\ r \in Requests /\ request[r].hd = -1
      /\ Mine(p) = {} /\ buf[p].lock
  BY <1>0, NoneMine DEF Free, Queued, BuffersLocked
<1>3. /\ request'[r].hd = 0 /\ request'[r].bh = p /\ request'[r].next = NULL
      /\ request'[r].nsector = 2
      /\ \A s \in Requests \ {r} : request'[s] = request[s]
      /\ pc'[p] = "add" /\ tmp'[p] = this_request /\ req'[p] = r
      /\ \A q \in Procs \ {p} : pc'[q] = pc[q] /\ tmp'[q] = tmp[q] /\ req'[q] = req[q]
  BY <1>0, <1>1, <1>2 DEF TypeOK
<1>4. TypeOK'
  <2>1. [hd |-> 0, bh |-> p, cmd |-> buf[p].cmd, nsector |-> 2,
         errors |-> 0, next |-> NULL] \in Records
    <3>1. buf[p].cmd \in {"read", "write"}
      BY Types DEF Buffers
    <3>2. 0 \in 0..MAX_ERRORS + 1
      BY HdAssumption
    <3>. QED BY <3>1, <3>2 DEF Records
  <2>2. request' \in [Requests -> Records]
    BY <2>1, <1>1, Types
  <2>. QED BY <2>2, <1>0, <1>1, <1>2 DEF TypeOK, Records
<1>5. \A s \in Requests : request[s].hd = 0 => s # r /\ request[s].bh \in Procs \ {p}
  BY <1>2 DEF Queued, RequestsOwned, Mine
<1>6. RequestsOwned'
  <2>. SUFFICES ASSUME NEW s \in Requests, request'[s].hd = 0
                PROVE  /\ request'[s].bh \in Procs /\ req'[request'[s].bh] = s
                       /\ pc'[request'[s].bh] \in {"add", "linked", "wait"}
    BY DEF RequestsOwned
  <2>. QED BY <1>3, <1>5 DEF Queued, RequestsOwned
<1>7. BuffersLocked'
  <2>. SUFFICES ASSUME NEW q \in Procs
                PROVE  buf'[q].lock <=> pc'[q] \in {"slot", "full", "asleep"} \/ Mine(q)' # {}
    BY DEF BuffersLocked
  <2>1. CASE q = p
    BY <2>1, <1>0, <1>2, <1>3 DEF Mine
  <2>2. CASE q # p
    <3>1. Mine(q)' = Mine(q)
      BY <2>2, <1>2, <1>3 DEF Mine
    <3>. QED BY <2>2, <3>1, <1>0, <1>3 DEF Queued, BuffersLocked
  <2>. QED BY <2>1, <2>2
<1>8. OneInKernel' /\ Sorting'
  <2>1. \A q \in Procs \ {p} : ~InKernel(q)'
    BY <1>0, <1>3 DEF MayRun, InKernel
  <2>. QED BY <2>1, <1>0, <1>3 DEF OneInKernel, Sorting
<1>9. \E S \in SUBSET Linked : ListOf(S) /\ r \notin S /\ S \subseteq Linked' /\ ListOf(S)'
  <2>1. PICK S \in SUBSET Linked : ListOf(S)
    BY DEF Queued, InList
  <2>2. S \in SUBSET Requests /\ r \notin S
    BY <1>5 DEF Linked
  <2>3. S \subseteq Linked'
    BY <2>2, <1>3, <1>5 DEF Linked
  <2>4. ListOf(S)'
    BY <2>1, <2>2, <1>0, <1>3, ListKept
  <2>. QED BY <2>1, <2>2, <2>3, <2>4
<1>10. ASSUME NEW q \in Procs PROVE AddSound(q)'
  <2>1. CASE q = p
    <3>1. PICK S \in SUBSET Linked : ListOf(S)' /\ r \notin S
      BY <1>9
    <3>2. S \in SUBSET (Requests \ {r})
      BY <3>1 DEF Linked
    <3>3. this_request # NULL => this_request \in S
      BY <3>1, <1>0 DEF ListOf
    <3>4. Closed(S)' /\ NoLoop(S)'
      BY <3>1 DEF ListOf
    <3>. QED BY <2>1, <3>2, <3>3, <3>4, <1>0, <1>2, <1>3 DEF AddSound
  <2>2. CASE q # p
    BY <2>2, <1>0, <1>3 DEF AddSound, MayRun, InKernel
  <2>. QED BY <2>1, <2>2
<1>11. InList'
  BY <1>9 DEF InList
<1>12. WaitSound'
  <2>1. Sleepers' = Sleepers /\ p \notin Sleepers
    BY <1>0, <1>3 DEF Sleepers
  <2>2. \A q \in Sleepers : tmp'[q] = tmp[q]
    BY <2>1, <1>3 DEF Sleepers
  <2>. QED BY <2>1, <2>2, <1>0, WaitKept
<1>13. DriveSound'
  <2>1. this_request # NULL => this_request # r /\ this_request \in Requests
    BY <1>9, <1>2 DEF ListOf, Linked
  <2>2. \A s \in Requests : request'[s].hd = 0 => request'[s].nsector \in {1, 2}
    BY <1>3 DEF DriveSound
  <2>. QED BY <2>1, <2>2, <1>0, <1>3, DriveKept
<1>. QED BY <1>4, <1>6, <1>7, <1>8, <1>10, <1>11, <1>12, <1>13, Parts
         DEF IInv, Queued, InList

(* What Link() does: r is the request of p, W what the list has been since *)
(* add_request() began, and b the entry r is linked behind.                *)
LEMMA LinkBehind ==
  ASSUME IInv, NEW p \in Procs, Link(p), NEW r \in Requests, r = req[p], tmp[p] # NULL
  PROVE  \E b \in Requests \ {r} :
            /\ b = Behind(r, tmp[p]) /\ request' = Inserted(r, b)
            /\ LinkedBehind(r, b) /\ this_request' = this_request
            /\ request' \in [Requests -> Records]
            /\ \A s \in Requests : /\ request'[s].hd = request[s].hd
                                   /\ request'[s].bh = request[s].bh
                                   /\ request'[s].cmd = request[s].cmd
                                   /\ request'[s].nsector = request[s].nsector
<1>. USE HasParts
<1>1. PICK W \in SUBSET (Requests \ {r}) : tmp[p] \in W /\ Closed(W) /\ NoLoop(W)
  BY DEF Link, At, Queued, AddSound
<1>2. PICK b \in Requests \ {r} : b = Behind(r, tmp[p])
  BY <1>1, BehindInList
<1>3. request' = Inserted(r, b) /\ this_request' = this_request
  BY <1>2 DEF Link
<1>4. /\ request \in [Requests -> Records]
      /\ request[b] \in Records /\ request[r] \in Records
  BY Types
<1>5. request' = [request EXCEPT ![r] = [request[r] EXCEPT !.next = request[b].next],
                                 ![b] = [request[b] EXCEPT !.next = r]]
  BY <1>3, <1>4 DEF Inserted, Records
<1>6. /\ [request[r] EXCEPT !.next = request[b].next] \in Records
      /\ [request[b] EXCEPT !.next = r] \in Records
  BY <1>4 DEF Records
<1>7. request' \in [Requests -> Records]
  BY <1>4, <1>5, <1>6
<1>8. /\ request'[r] = [request[r] EXCEPT !.next = request[b].next]
      /\ request'[b] = [request[b] EXCEPT !.next = r]
      /\ \A s \in Requests \ {r, b} : request'[s] = request[s]
  BY <1>4, <1>5
<1>9. \A s \in Requests : /\ request'[s].hd = request[s].hd
                          /\ request'[s].bh = request[s].bh
                          /\ request'[s].cmd = request[s].cmd
                          /\ request'[s].nsector = request[s].nsector
  <2>. TAKE s \in Requests
  <2>1. CASE s = r
    BY <2>1, <1>4, <1>8 DEF Records
  <2>2. CASE s = b
    BY <2>2, <1>4, <1>8 DEF Records
  <2>3. CASE s # r /\ s # b
    BY <2>3, <1>8
  <2>. QED BY <2>1, <2>2, <2>3
<1>10. LinkedBehind(r, b)
  <2>. SUFFICES ASSUME NEW s \in Requests
                PROVE  request'[s].next = IF s = r THEN request[b].next
                                          ELSE IF s = b THEN r ELSE request[s].next
    BY DEF LinkedBehind
  <2>1. CASE s = r
    BY <2>1, <1>4, <1>8 DEF Records
  <2>2. CASE s = b
    BY <2>2, <1>4, <1>8 DEF Records
  <2>3. CASE s # r /\ s # b
    BY <2>3, <1>8
  <2>. QED BY <2>1, <2>2, <2>3
<1>. QED BY <1>2, <1>3, <1>7, <1>9, <1>10

(* In both cases of Link() the owners stay. *)
LEMMA LinkOwners ==
  ASSUME IInv, NEW p \in Procs, Link(p)
  PROVE  /\ request' \in [Requests -> Records] /\ this_request' \in Requests \cup {NULL}
         /\ \A s \in Requests : /\ request'[s].hd = request[s].hd
                                /\ request'[s].bh = request[s].bh
                                /\ request'[s].cmd = request[s].cmd
                                /\ request'[s].nsector = request[s].nsector
<1>. USE HasParts
<1>0. req[p] \in Requests /\ this_request \in Requests \cup {NULL}
  BY DEF Link, At, Queued, AddSound, TypeOK
<1>1. CASE tmp[p] = NULL
  BY <1>0, <1>1, Types DEF Link
<1>2. CASE tmp[p] # NULL
  BY <1>0, <1>2, LinkBehind
<1>. QED BY <1>1, <1>2

LEMMA LinkStep ==
  ASSUME IInv, NEW p \in Procs, Link(p)
  PROVE  IInv'
<1>. USE HasParts
<1>. PICK r : r = req[p]
  OBVIOUS
<1>0. /\ pc[p] = "add" /\ MayRun(p) /\ pc' = [pc EXCEPT ![p] = "linked"]
      /\ tmp' = [tmp EXCEPT ![p] = NULL]
      /\ UNCHANGED <<sorting, do_hd, wait_for_request, req, runnable, buf, drive, disk>>
      /\ cut' \subseteq cut \cup {r}
  BY DEF Link, At, Goto
<1>1. /\ r \in Requests /\ request[r].hd = 0 /\ request[r].bh = p /\ request[r].next = NULL
      /\ tmp[p] = NULL => this_request = NULL
  BY <1>0 DEF Queued, AddSound
<1>2. /\ request' \in [Requests -> Records] /\ this_request' \in Requests \cup {NULL}
      /\ \A s \in Requests : /\ request'[s].hd = request[s].hd
                             /\ request'[s].bh = request[s].bh
                             /\ request'[s].cmd = request[s].cmd
                             /\ request'[s].nsector = request[s].nsector
  BY LinkOwners
<1>3. /\ pc'[p] = "linked" /\ tmp'[p] = NULL
      /\ \A q \in Procs \ {p} : pc'[q] = pc[q] /\ tmp'[q] = tmp[q]
  BY <1>0 DEF TypeOK
<1>4. TypeOK'
  BY <1>0, <1>1, <1>2 DEF TypeOK, Records
<1>5. RequestsOwned'
  <2>. SUFFICES ASSUME NEW s \in Requests, request[s].hd = 0
                PROVE  /\ request[s].bh \in Procs /\ req'[request[s].bh] = s
                       /\ pc'[request[s].bh] \in {"add", "linked", "wait"}
    BY <1>2 DEF RequestsOwned
  <2>. QED BY <1>0, <1>3 DEF Queued, RequestsOwned
<1>6. BuffersLocked'
  <2>. SUFFICES ASSUME NEW q \in Procs
                PROVE  buf'[q].lock <=> pc'[q] \in {"slot", "full", "asleep"} \/ Mine(q)' # {}
    BY DEF BuffersLocked
  <2>1. Mine(q)' = Mine(q)
    BY <1>2 DEF Mine
  <2>. QED BY <2>1, <1>0, <1>3 DEF Queued, BuffersLocked
<1>7. \A q \in Procs \ {p} : ~InKernel(q) /\ ~InKernel(q)'
  BY <1>0, <1>3 DEF MayRun, InKernel
<1>8. OneInKernel' /\ Sorting'
  BY <1>7, <1>0, <1>3 DEF OneInKernel, Sorting, Queued
<1>9. ASSUME NEW q \in Procs PROVE AddSound(q)'
  BY <1>3, <1>7 DEF AddSound, InKernel
<1>10. PICK S \in SUBSET Linked : ListOf(S)
  BY DEF Queued, InList
<1>11. S \in SUBSET Requests /\ S \cup {r} \subseteq Linked' /\ r \notin S
  BY <1>0, <1>1, <1>2, <1>3, <1>10 DEF Linked, Queued, RequestsOwned
<1>12. InList'
  <2>1. CASE tmp[p] = NULL
    <3>1. this_request' = r /\ request' = request
      BY <2>1 DEF Link
    <3>2. ListOf({r})'
      BY <3>1, <1>1, NoNull DEF ListOf, Closed, NoLoop
    <3>. QED BY <3>2, <1>11 DEF InList
  <2>2. CASE tmp[p] # NULL
    <3>1. PICK b \in Requests \ {r} : LinkedBehind(r, b) /\ this_request' = this_request
      BY <2>2, <1>1, LinkBehind
    <3>2. CASE b \in S
      <4>1. ListOf(S \cup {r})'
        BY <3>1, <3>2, <1>1, <1>10, <1>11, ListInserted
      <4>. QED BY <4>1, <1>11 DEF InList
    <3>3. CASE b \notin S
      <4>1. \A q \in S : request'[q].next = request[q].next
        BY <3>1, <3>3, <1>11 DEF LinkedBehind
      <4>2. ListOf(S)'
        BY <4>1, <3>1, <1>10, <1>11, ListKept
      <4>. QED BY <4>2, <1>11 DEF InList
    <3>. QED BY <3>2, <3>3
  <2>. QED BY <2>1, <2>2
<1>13. WaitSound'
  <2>1. Sleepers' = Sleepers /\ p \notin Sleepers
    BY <1>0, <1>3 DEF Sleepers
  <2>2. \A q \in Sleepers : tmp'[q] = tmp[q]
    BY <2>1, <1>3 DEF Sleepers
  <2>. QED BY <2>1, <2>2, <1>0, WaitKept
<1>14. DriveSound'
  <2>1. this_request # NULL => this_request' = this_request /\ this_request \in Requests
    <3>1. CASE tmp[p] = NULL
      BY <3>1, <1>1
    <3>2. CASE tmp[p] # NULL
      BY <3>2, <1>1, LinkBehind DEF TypeOK
    <3>. QED BY <3>1, <3>2
  <2>2. HeadIsServed'
    BY <2>1, <1>0, <1>2 DEF DriveSound, HeadIsServed
  <2>. QED BY <2>2, <1>0, <1>2 DEF DriveSound
<1>. QED BY <1>4, <1>5, <1>6, <1>8, <1>9, <1>12, <1>13, <1>14, Parts
         DEF IInv, Queued, InList

(* do_request() gives the drive the command of the request it is given. *)
LEMMA DoRequestSound ==
  ASSUME NEW rq, NEW tr \in Requests \cup {NULL}, NEW busy \in BOOLEAN,
         DoRequest(tr, rq, busy), this_request' = tr,
         do_hd \in {"NULL", "read_intr", "write_intr", "do_request"},
         tr # NULL => /\ request'[tr] = rq[tr] /\ rq[tr] \in Records
                      /\ rq[tr].hd = 0,
         \A r \in Requests : request'[r].hd = 0 => request'[r].nsector \in {1, 2}
  PROVE  /\ DriveSound' /\ drive' \in Commands
         /\ do_hd' \in {"NULL", "read_intr", "write_intr", "do_request"}
         /\ drive'.at = 0 \/ drive'.cmd \notin {"read", "write"}
<1>1. CASE drive' = Idle
  <2>1. Idle \in Commands /\ Idle.cmd = "idle"
    BY DEF Idle, Commands
  <2>2. do_hd' \in {"NULL", "read_intr", "write_intr", "do_request"}
    <3>1. CASE do_hd' = do_hd
      BY <3>1
    <3>2. CASE do_hd' = "NULL"
      BY <3>2
    <3>3. CASE tr # NULL /\ drive' = Command(rq, tr)
      BY <3>3 DEF DoRequest
    <3>4. CASE do_hd' = "do_request"
      BY <3>4
    <3>. QED BY <3>1, <3>2, <3>3, <3>4 DEF DoRequest
  <2>. QED BY <1>1, <2>1, <2>2 DEF DriveSound, HeadIsServed
<1>2. CASE drive' = Specify /\ do_hd' = "do_request"
  <2>1. Specify \in Commands /\ Specify.cmd = "specify"
    BY DEF Specify, Idle, Commands
  <2>. QED BY <1>2, <2>1 DEF DriveSound, HeadIsServed
<1>3. CASE /\ tr # NULL /\ drive' = Command(rq, tr)
           /\ do_hd' = IF rq[tr].cmd = "read" THEN "read_intr" ELSE "write_intr"
  <2>1. /\ drive'.cmd = rq[tr].cmd /\ drive'.bh = rq[tr].bh /\ drive'.at = 0
        /\ drive'.left = rq[tr].nsector
    BY <1>3 DEF Command
  <2>2. drive' \in Commands
    BY <1>3 DEF Command, Commands, Records
  <2>3. rq[tr].cmd \in {"read", "write"}
    BY <1>3 DEF Records
  <2>. QED BY <1>3, <2>1, <2>2, <2>3 DEF DriveSound, HeadIsServed
<1>. QED BY <1>1, <1>2, <1>3 DEF DoRequest

LEMMA RestartStep ==
  ASSUME IInv, NEW p \in Procs, Restart(p)
  PROVE  IInv'
<1>. USE HasParts
<1>0. /\ pc[p] = "linked" /\ MayRun(p) /\ pc' = [pc EXCEPT ![p] = "wait"]
      /\ sorting' = FALSE
      /\ UNCHANGED <<request, this_request, wait_for_request, req, tmp, runnable, buf, disk, cut>>
  BY DEF Restart, At, Goto
<1>1. pc'[p] = "wait" /\ \A q \in Procs \ {p} : pc'[q] = pc[q]
  BY <1>0 DEF TypeOK
<1>2. PICK S \in SUBSET Linked : ListOf(S)
  BY DEF Queued, InList
<1>3. /\ DriveSound' /\ drive' \in Commands
      /\ do_hd' \in {"NULL", "read_intr", "write_intr", "do_request"}
  <2>1. CASE do_hd = "NULL"
    <3>1. DoRequest(this_request, request, FALSE)
      BY <2>1 DEF Restart, RestartIfIdle
    <3>2. this_request # NULL => /\ request[this_request] \in Records
                                 /\ request[this_request].hd = 0
      BY <1>2, Types DEF ListOf, Linked
    <3>3. \A r \in Requests : request[r].hd = 0 => request[r].nsector \in {1, 2}
      BY DEF DriveSound
    <3>4. /\ this_request \in Requests \cup {NULL}
          /\ do_hd \in {"NULL", "read_intr", "write_intr", "do_request"}
      BY DEF TypeOK
    <3>. QED BY <3>1, <3>2, <3>3, <3>4, <1>0, DoRequestSound
  <2>2. CASE do_hd # "NULL"
    <3>1. UNCHANGED <<do_hd, drive>>
      BY <2>2 DEF Restart, RestartIfIdle
    <3>. QED BY <3>1, <1>0, Types, DriveKept DEF TypeOK, DriveSound
  <2>. QED BY <2>1, <2>2
<1>4. TypeOK'
  BY <1>0, <1>3 DEF TypeOK, Commands
<1>5. RequestsOwned'
  BY <1>0, <1>1 DEF Queued, RequestsOwned
<1>6. BuffersLocked'
  BY <1>0, <1>1 DEF Queued, BuffersLocked, Mine
<1>7. \A q \in Procs \ {p} : ~InKernel(q) /\ ~InKernel(q)'
  BY <1>0, <1>1 DEF MayRun, InKernel
<1>8. OneInKernel' /\ Sorting'
  BY <1>7, <1>0, <1>1 DEF OneInKernel, Sorting, InKernel
<1>9. ASSUME NEW q \in Procs PROVE AddSound(q)'
  BY <1>1, <1>7 DEF AddSound, InKernel
<1>10. InList'
  <2>1. S \in SUBSET Requests /\ S \subseteq Linked'
    BY <1>0, <1>1 DEF Linked, Queued, RequestsOwned
  <2>2. ListOf(S)'
    BY <2>1, <1>0, <1>2, ListKept
  <2>. QED BY <2>1, <2>2 DEF InList
<1>11. WaitSound'
  <2>1. Sleepers' = Sleepers
    BY <1>0, <1>1 DEF Sleepers
  <2>. QED BY <2>1, <1>0, WaitKept
<1>. QED BY <1>3, <1>4, <1>5, <1>6, <1>8, <1>9, <1>10, <1>11, Parts
         DEF IInv, Queued, InList

-----------------------------------------------------------------------------
(* The interrupts *)

(* There is a first request, it is in use, and its process waits for it. *)
LEMMA HeadInUse ==
  ASSUME IInv, this_request # NULL
  PROVE  /\ this_request \in Requests /\ request[this_request].hd = 0
         /\ request[this_request].bh \in Procs
         /\ buf[request[this_request].bh].lock
         /\ request[this_request].nsector \in {1, 2}
         /\ request[this_request].next \in Requests \cup {NULL}
         /\ \A q \in Requests : /\ request[q].hd = 0
                                /\ request[q].bh = request[this_request].bh
                                => q = this_request
         /\ request[this_request].next # NULL =>
               /\ request[this_request].next # this_request
               /\ request[request[this_request].next].hd = 0
<1>. USE HasParts
<1>. PICK h : h = this_request
  OBVIOUS
<1>1. PICK S \in SUBSET Linked : ListOf(S)
  BY DEF Queued, InList
<1>2. h \in S /\ h \in Requests /\ request[h].hd = 0
  BY <1>1 DEF ListOf, Linked
<1>3. request[h].bh \in Procs /\ req[request[h].bh] = h
  BY <1>2 DEF Queued, RequestsOwned
<1>4. \A q \in Requests : request[q].hd = 0 /\ request[q].bh = request[h].bh => q = h
  BY <1>3 DEF Queued, RequestsOwned
<1>5. buf[request[h].bh].lock
  BY <1>2, <1>3 DEF Queued, BuffersLocked, Mine
<1>6. request[h].next \in S \cup {NULL} /\ (request[h].next # NULL => request[h].next # h)
  BY <1>1, <1>2 DEF ListOf, Closed
<1>7. S \subseteq {q \in Requests : request[q].hd = 0}
  BY DEF Linked
<1>8. request[h].nsector \in {1, 2}
  BY <1>2 DEF DriveSound
<1>. QED BY <1>2, <1>3, <1>4, <1>5, <1>6, <1>7, <1>8

(* An answer forgets how often the request failed and what is left of it. *)
LEMMA AnsweredSame ==
  ASSUME TypeOK, NEW h \in Requests, NEW x, x.bh = request[h].bh, x.next = request[h].next,
         NEW rq, rq = [request EXCEPT ![h] = x]
  PROVE  Answered(rq, h) = Answered(request, h)
<1>1. rq[h] = x
  BY Types
<1>. PICK gone : gone = IF sorting THEN FreeRequest(request[h].bh, request[h].next)
                                   ELSE FreeRequest(NULL, NULL)
  OBVIOUS
<1>2. Answered(rq, h) = [rq EXCEPT ![h] = gone]
  BY <1>1 DEF Answered
<1>3. Answered(request, h) = [request EXCEPT ![h] = gone]
  BY DEF Answered
<1>. QED BY <1>2, <1>3, Types

(* The first request is answered. *)
LEMMA AnswerSound ==
  ASSUME IInv, NEW h \in Requests, h = this_request,
         request' = Answered(request, h), this_request' = request[h].next,
         ~buf'[request[h].bh].lock,
         \A p \in Procs : p # request[h].bh => (buf'[p].lock <=> buf[p].lock),
         WakeUp, UNCHANGED procVars, sorting' = sorting
  PROVE  /\ Queued' /\ WaitSound' /\ request' \in [Requests -> Records]
         /\ wait_for_request' \in Procs \cup {NULL} /\ runnable' \in [Procs -> BOOLEAN]
         /\ request'[h].hd = -1
         /\ \A q \in Requests \ {h} : request'[q] = request[q]
<1>. USE HasParts
<1>. PICK o : o = request[h].bh
  OBVIOUS
<1>. PICK gone : gone = IF sorting THEN FreeRequest(o, request[h].next)
                                   ELSE FreeRequest(NULL, NULL)
  OBVIOUS
<1>0. pc' = pc /\ req' = req /\ tmp' = tmp
  BY DEF procVars
<1>1. /\ o \in Procs /\ request[h].hd = 0
      /\ \A q \in Requests : request[q].hd = 0 /\ request[q].bh = o => q = h
      /\ request[h].next \in Requests \cup {NULL}
  BY NoNull, HeadInUse
<1>2. request' = [request EXCEPT ![h] = gone]
  BY DEF Answered
<1>3. /\ gone.hd = -1 /\ gone \in Records
      /\ sorting => gone.bh = o /\ gone.next = request[h].next
  <2>1. ASSUME NEW b \in Procs \cup {NULL}, NEW n \in Requests \cup {NULL}
        PROVE  /\ FreeRequest(b, n) \in Records /\ FreeRequest(b, n).hd = -1
               /\ FreeRequest(b, n).bh = b /\ FreeRequest(b, n).next = n
    <3>1. 0 \in 0..MAX_ERRORS + 1
      BY HdAssumption
    <3>. QED BY <3>1 DEF FreeRequest, Records
  <2>2. CASE sorting
    BY <2>1, <2>2, <1>1
  <2>3. CASE ~sorting
    BY <2>1, <2>3
  <2>. QED BY <2>2, <2>3
<1>4. /\ request' \in [Requests -> Records]
      /\ request'[h] = gone /\ request'[h].hd = -1
      /\ \A q \in Requests \ {h} : request'[q] = request[q]
  BY <1>2, <1>3, Types
<1>5. sorting => \A q \in Requests : request'[q].next = request[q].next
  BY <1>3, <1>4
<1>6. RequestsOwned'
  <2>. SUFFICES ASSUME NEW q \in Requests, request'[q].hd = 0
                PROVE  /\ request'[q].bh \in Procs /\ req'[request'[q].bh] = q
                       /\ pc'[request'[q].bh] \in {"add", "linked", "wait"}
    BY DEF RequestsOwned
  <2>1. q # h
    BY <1>4
  <2>. QED BY <2>1, <1>0, <1>4 DEF Queued, RequestsOwned
<1>7. BuffersLocked'
  <2>. SUFFICES ASSUME NEW p \in Procs
                PROVE  buf'[p].lock <=> pc'[p] \in {"slot", "full", "asleep"} \/ Mine(p)' # {}
    BY DEF BuffersLocked
  <2>1. CASE p = o
    <3>1. Mine(p)' = {}
      BY <2>1, <1>1, <1>4 DEF Mine
    <3>2. pc[p] \notin {"slot", "full", "asleep"}
      BY <2>1, <1>1 DEF Queued, RequestsOwned
    <3>. QED BY <2>1, <3>1, <3>2, <1>0
  <2>2. CASE p # o
    <3>1. Mine(p)' = Mine(p)
      BY <2>2, <1>1, <1>4 DEF Mine
    <3>. QED BY <2>2, <3>1, <1>0 DEF Queued, BuffersLocked
  <2>. QED BY <2>1, <2>2
<1>8. OneInKernel' /\ Sorting'
  BY <1>0 DEF Queued, OneInKernel, InKernel, Sorting
<1>9. PICK S \in SUBSET Linked : ListOf(S)
  BY DEF Queued, InList
<1>10. S \in SUBSET Requests /\ h \in S
  BY <1>9, NoNull DEF Linked, ListOf
<1>11. ASSUME NEW p \in Procs PROVE AddSound(p)'
  <2>. SUFFICES ASSUME pc[p] = "add"
                PROVE  AddSound(p)'
    BY <1>0 DEF AddSound
  <2>1. sorting /\ AddSound(p)
    BY DEF Queued, Sorting
  <2>2. req[p] # h
    <3>1. h \in Linked
      BY <1>9, <1>10
    <3>. QED BY <3>1, <2>1 DEF AddSound, Linked
  <2>3. tmp[p] # NULL
    BY <2>1, NoNull DEF AddSound
  <2>4. PICK W \in SUBSET (Requests \ {req[p]}) : tmp[p] \in W /\ Closed(W) /\ NoLoop(W)
    BY <2>1, <2>3 DEF AddSound
  <2>5. Closed(W)' /\ NoLoop(W)'
    BY <2>1, <2>4, <1>5 DEF Closed, NoLoop
  <2>6. request'[req[p]] = request[req[p]] /\ req[p] \in Requests
    BY <2>1, <2>2, <1>4 DEF AddSound
  <2>. QED BY <2>1, <2>3, <2>4, <2>5, <2>6, <1>0 DEF AddSound
<1>12. InList'
  <2>1. \A q \in S \ {h} : request'[q].next = request[q].next
    BY <1>4, <1>10
  <2>2. ListOf(S \ {h})'
    BY <2>1, <1>9, <1>10, ListRemoved
  <2>3. S \ {h} \subseteq Linked'
    BY <1>0, <1>4, <1>10 DEF Linked
  <2>. QED BY <2>2, <2>3 DEF InList
<1>13. WaitSound' /\ wait_for_request' \in Procs \cup {NULL} /\ runnable' \in [Procs -> BOOLEAN]
  <2>. PICK W : W = Sleepers
    OBVIOUS
  <2>. PICK w : w = wait_for_request
    OBVIOUS
  <2>0. Sleepers' = W /\ W \subseteq Procs /\ w \in W \cup {NULL}
    BY <1>0 DEF Sleepers, WaitSound
  <2>1. /\ wait_for_request' = NULL
        /\ runnable' = IF w = NULL THEN runnable ELSE [runnable EXCEPT ![w] = TRUE]
    BY DEF WakeUp
  <2>2. /\ \A q \in W : q # w => runnable'[q] = runnable[q]
        /\ w # NULL => runnable'[w]
        /\ runnable' \in [Procs -> BOOLEAN]
    BY <2>0, <2>1 DEF TypeOK
  <2>3. ASSUME NEW q \in W, tmp[q] # NULL
        PROVE  ~runnable'[tmp[q]] /\ \A s \in W : s # q => tmp[s] # tmp[q]
    <3>1. /\ tmp[q] \in W \cup {NULL} /\ ~runnable[tmp[q]] /\ tmp[q] # w
          /\ \A s \in W : s # q => tmp[s] # tmp[q]
      BY <2>3 DEF WaitSound
    <3>. QED BY <3>1, <2>2, <2>3
  <2>4. ASSUME NEW S2 \in SUBSET W, Chained(S2)', \A q \in W : runnable'[q] => q \in S2
        PROVE  S2 = W
    <3>1. Chained(S2)
      BY <2>4, <1>0 DEF Chained
    <3>2. w \in S2 \cup {NULL} /\ \A q \in W : runnable[q] => q \in S2
      BY <2>4, <2>2, <2>0, NoNull
    <3>. QED BY <3>1, <3>2 DEF WaitSound
  <2>5. \A q \in W : tmp'[q] \in W \cup {NULL} /\ tmp'[q] = tmp[q]
    BY <1>0 DEF WaitSound
  <2>6. WaitSound'
    BY <2>0, <2>1, <2>3, <2>4, <2>5 DEF WaitSound
  <2>. QED BY <2>1, <2>2, <2>6
<1>. QED BY <1>4, <1>6, <1>7, <1>8, <1>11, <1>12, <1>13 DEF Queued

(* An interrupt of a transfer finds the request it is for. *)
LEMMA Interrupted ==
  ASSUME IInv, NEW h \in {"read_intr", "write_intr"}, Interrupt(h)
  PROVE  /\ this_request \in Requests
         /\ drive.cmd = (IF h = "read_intr" THEN "read" ELSE "write")
         /\ request[this_request].cmd = drive.cmd
         /\ request[this_request].bh = drive.bh
         /\ request[this_request].nsector = drive.left
         /\ drive.left \in {1, 2}
         /\ do_hd = h
<1>. USE HasParts
<1>1. drive # Idle /\ do_hd = h
  BY DEF Interrupt
<1>2. drive.cmd \in {"read", "write"}
  <2>1. drive.cmd \in {"idle", "read", "write", "specify"}
    BY Types DEF Commands
  <2>. QED BY <2>1, <1>1 DEF DriveSound, HeadIsServed
<1>3. /\ this_request # NULL
      /\ request[this_request].hd = 0 /\ request[this_request].bh = drive.bh
      /\ request[this_request].cmd = drive.cmd
      /\ request[this_request].nsector = drive.left
      /\ do_hd = IF request[this_request].cmd = "read" THEN "read_intr" ELSE "write_intr"
  BY <1>2 DEF DriveSound, HeadIsServed
<1>4. this_request \in Requests /\ drive.left \in {1, 2}
  BY <1>3, HeadInUse
<1>. QED BY <1>1, <1>2, <1>3, <1>4

(* bad_rw_intr() *)
LEMMA BadStep ==
  ASSUME IInv, this_request \in Requests, BadRwIntr, UNCHANGED <<procVars, sorting, cut>>
  PROVE  /\ IInv' /\ drive'.at = 0 /\ disk' = disk
         /\ \A q \in Requests : request'[q].hd = 0 =>
               request[q].hd = 0 /\ request'[q].nsector = request[q].nsector
         /\ \A p \in Procs : buf'[p] = buf[p] \/ ~buf'[p].uptodate
         /\ \/ /\ this_request' = this_request
               /\ \A q \in Requests : /\ request'[q].hd = request[q].hd
                                       /\ request'[q].bh = request[q].bh
                                       /\ request'[q].next = request[q].next
            \/ \E h \in Requests : /\ h = this_request
                                   /\ this_request' = request[h].next
                                   /\ request'[h].hd = -1
                                   /\ \A q \in Requests \ {h} : request'[q] = request[q]
<1>. USE HasParts
<1>. PICK h \in Requests : h = this_request
  OBVIOUS
<1>. PICK o : o = request[h].bh
  OBVIOUS
<1>. PICK counted : counted = [request EXCEPT ![h].errors = @ + 1]
  OBVIOUS
<1>. PICK one : one = [request[h] EXCEPT !.errors = request[h].errors + 1]
  OBVIOUS
<1>0. pc' = pc /\ req' = req /\ tmp' = tmp /\ sorting' = sorting
  BY DEF procVars
<1>1. /\ request[h].hd = 0 /\ o \in Procs /\ request[h].nsector \in {1, 2}
      /\ h # NULL
  BY NoNull, HeadInUse
<1>2. /\ request \in [Requests -> Records] /\ request[h] \in Records
      /\ buf \in [Procs -> Buffers] /\ buf[o] \in Buffers
      /\ MAX_ERRORS \in Nat
  BY <1>1, Types, HdAssumption
<1>3. counted = [request EXCEPT ![h] = one]
  BY <1>2 DEF Records
<1>4. /\ one.hd = request[h].hd /\ one.bh = o /\ one.next = request[h].next
      /\ one.nsector = request[h].nsector
      /\ one.errors = request[h].errors + 1
  BY <1>2 DEF Records
<1>5. /\ drive' = Specify /\ do_hd' = "do_request" /\ disk' = disk
      /\ drive' \in Commands /\ drive'.cmd = "specify" /\ drive'.at = 0
  BY DEF BadRwIntr, ResetHd, Specify, Idle, Commands
<1>6. CASE request[h].errors < MAX_ERRORS
  <2>1. /\ request' = counted
        /\ UNCHANGED <<this_request, buf, wait_for_request, runnable>>
    <3>1. ~(request[h].errors >= MAX_ERRORS)
      BY <1>6, <1>2 DEF Records
    <3>. QED BY <3>1 DEF BadRwIntr
  <2>2. one \in Records
    BY <1>2, <1>6 DEF Records
  <2>3. request' \in [Requests -> Records]
    BY <2>1, <2>2, <1>2, <1>3
  <2>4. /\ request'[h] = one
        /\ \A q \in Requests \ {h} : request'[q] = request[q]
    BY <2>1, <1>2, <1>3
  <2>5. \A q \in Requests : /\ request'[q].hd = request[q].hd
                            /\ request'[q].bh = request[q].bh
                            /\ request'[q].next = request[q].next
                            /\ request'[q].nsector = request[q].nsector
    BY <2>4, <1>4
  <2>6. Queued'
    BY <2>1, <2>5, <1>0, QueuedKept
  <2>7. WaitSound'
    BY <2>1, <1>0, WaitKept DEF Sleepers
  <2>8. DriveSound'
    BY <2>5, <1>5 DEF DriveSound, HeadIsServed
  <2>9. TypeOK'
    BY <2>1, <2>3, <1>0, <1>5 DEF TypeOK, Records, Commands
  <2>10. IInv'
    BY <2>6, <2>7, <2>8, <2>9, Parts DEF IInv, Queued, InList
  <2>. QED BY <2>1, <2>5, <2>10, <1>5
<1>7. CASE request[h].errors >= MAX_ERRORS
  <2>1. /\ request' = Answered(counted, h) /\ this_request' = counted[h].next
        /\ buf' = [buf EXCEPT ![o].uptodate = FALSE, ![o].lock = FALSE]
        /\ WakeUp
    BY <1>7 DEF BadRwIntr, Answer
  <2>3. counted[h].next = request[h].next
    BY <1>2, <1>3, <1>4
  <2>4. Answered(counted, h) = Answered(request, h)
    BY <1>3, <1>4, AnsweredSame
  <2>5. buf' = [buf EXCEPT ![o] = [buf[o] EXCEPT !.uptodate = FALSE, !.lock = FALSE]]
    BY <2>1, <1>2 DEF Buffers
  <2>6. [buf[o] EXCEPT !.uptodate = FALSE, !.lock = FALSE] \in Buffers
    BY <1>2 DEF Buffers
  <2>7. /\ buf' \in [Procs -> Buffers] /\ ~buf'[o].lock
        /\ \A p \in Procs : p # o => buf'[p] = buf[p]
    BY <2>5, <2>6, <1>1, <1>2 DEF Buffers
  <2>8. /\ Queued' /\ WaitSound' /\ request' \in [Requests -> Records]
        /\ wait_for_request' \in Procs \cup {NULL} /\ runnable' \in [Procs -> BOOLEAN]
        /\ request'[h].hd = -1
        /\ \A q \in Requests \ {h} : request'[q] = request[q]
    BY <2>1, <2>3, <2>4, <2>7, <1>0, AnswerSound DEF procVars
  <2>9. DriveSound'
    <3>1. \A q \in Requests : request'[q].hd = 0 => request'[q].nsector \in {1, 2}
      BY <2>3, <2>8 DEF DriveSound
    <3>. QED BY <3>1, <1>5 DEF DriveSound, HeadIsServed
  <2>10. this_request' \in Requests \cup {NULL}
    BY <2>1, <2>3, <1>2 DEF Records
  <2>11. TypeOK'
    BY <2>7, <2>8, <2>10, <1>0, <1>5 DEF TypeOK, Records, Buffers, Commands
  <2>12. IInv'
    BY <2>8, <2>9, <2>11, Parts DEF IInv, Queued, InList
  <2>13. \A p \in Procs : buf'[p] = buf[p] \/ ~buf'[p].uptodate
    BY <2>5, <1>2 DEF Buffers
  <2>14. \A q \in Requests : request'[q].hd = 0 =>
            request[q].hd = 0 /\ request'[q].nsector = request[q].nsector
    BY <2>8
  <2>. QED BY <2>1, <2>3, <2>8, <2>12, <2>13, <2>14, <1>5
<1>8. request[h].errors < MAX_ERRORS \/ request[h].errors >= MAX_ERRORS
  BY <1>2 DEF Records
<1>. QED BY <1>6, <1>7, <1>8

(* A sector is transferred, and there is one more to come. *)
LEMMA SectorStep ==
  ASSUME IInv, NEW h \in Requests, h = this_request, drive.cmd \in {"read", "write"},
         NEW x \in Records, x.nsector = 1, x.hd = request[h].hd, x.bh = request[h].bh,
         x.next = request[h].next, x.cmd = request[h].cmd,
         request' = [request EXCEPT ![h] = x], drive' = NextSector,
         buf' \in [Procs -> Buffers], \A p \in Procs : buf'[p].lock <=> buf[p].lock,
         disk' \in [Procs -> Block],
         UNCHANGED <<this_request, wait_for_request, runnable, do_hd, procVars, sorting, cut>>
  PROVE  IInv'
<1>. USE HasParts
<1>0. /\ pc' = pc /\ req' = req /\ tmp' = tmp /\ sorting' = sorting
      /\ this_request' = this_request /\ wait_for_request' = wait_for_request
      /\ runnable' = runnable /\ do_hd' = do_hd
  BY DEF procVars
<1>1. request'[h] = x /\ \A q \in Requests \ {h} : request'[q] = request[q]
  BY Types
<1>2. request' \in [Requests -> Records]
  BY Types
<1>3. /\ drive' \in Commands /\ drive'.left = 1 /\ drive'.cmd = drive.cmd
      /\ drive'.bh = drive.bh
  <2>1. drive \in Commands /\ drive' = [drive EXCEPT !.at = 1, !.left = 1]
    BY Types DEF NextSector
  <2>2. drive' = [cmd |-> drive.cmd, bh |-> drive.bh, at |-> 1, left |-> 1]
    BY <2>1 DEF Commands
  <2>. QED BY <2>1, <2>2 DEF Commands
<1>4. TypeOK'
  BY <1>0, <1>2, <1>3 DEF TypeOK, Records, Buffers, Commands
<1>5. Queued'
  <2>1. \A q \in Requests : /\ request'[q].hd = request[q].hd
                            /\ request'[q].bh = request[q].bh
                            /\ request'[q].next = request[q].next
    BY <1>1
  <2>. QED BY <2>1, <1>0, QueuedKept
<1>6. WaitSound'
  BY <1>0, WaitKept DEF Sleepers
<1>7. DriveSound'
  BY <1>0, <1>1, <1>3 DEF DriveSound, HeadIsServed
<1>. QED BY <1>4, <1>5, <1>6, <1>7, Parts DEF IInv, Queued, InList

(* The last sector is transferred, and the next request is started. *)
LEMMA LastSectorStep ==
  ASSUME IInv, NEW h \in Requests, h = this_request,
         NEW x \in Records, x.bh = request[h].bh, x.next = request[h].next,
         NEW rq, rq = [request EXCEPT ![h] = x],
         request' = Answered(rq, h), this_request' = rq[h].next,
         DoRequest(request[h].next, rq, sorting),
         buf' \in [Procs -> Buffers], ~buf'[request[h].bh].lock,
         \A p \in Procs : p # request[h].bh => (buf'[p].lock <=> buf[p].lock),
         disk' \in [Procs -> Block], WakeUp, UNCHANGED <<procVars, sorting, cut>>
  PROVE  /\ IInv'
         /\ request'[h].hd = -1
         /\ \A q \in Requests \ {h} : request'[q] = request[q]
         /\ drive'.at = 0 \/ drive'.cmd \notin {"read", "write"}
<1>. USE HasParts
<1>. PICK tr : tr = request[h].next
  OBVIOUS
<1>0. pc' = pc /\ req' = req /\ tmp' = tmp /\ sorting' = sorting
  BY DEF procVars
<1>1. /\ request' = Answered(request, h) /\ this_request' = tr
      /\ rq \in [Requests -> Records]
      /\ \A q \in Requests \ {h} : rq[q] = request[q]
  BY AnsweredSame, Types
<1>2. /\ Queued' /\ WaitSound' /\ request' \in [Requests -> Records]
      /\ wait_for_request' \in Procs \cup {NULL} /\ runnable' \in [Procs -> BOOLEAN]
      /\ request'[h].hd = -1
      /\ \A q \in Requests \ {h} : request'[q] = request[q]
  BY <1>0, <1>1, AnswerSound DEF procVars
<1>3. /\ tr \in Requests \cup {NULL}
      /\ tr # NULL => tr # h /\ request[tr].hd = 0
  BY NoNull, HeadInUse
<1>4. /\ DriveSound' /\ drive' \in Commands
      /\ do_hd' \in {"NULL", "read_intr", "write_intr", "do_request"}
      /\ drive'.at = 0 \/ drive'.cmd \notin {"read", "write"}
  <2>1. \A q \in Requests : request'[q].hd = 0 => request'[q].nsector \in {1, 2}
    <3>. SUFFICES ASSUME NEW q \in Requests, request'[q].hd = 0
                  PROVE  request'[q].nsector \in {1, 2}
      OBVIOUS
    <3>1. q # h
      BY <1>2
    <3>. QED BY <3>1, <1>2, ZenonT(60) DEF DriveSound
  <2>2. tr # NULL => /\ request'[tr] = rq[tr] /\ rq[tr] \in Records /\ rq[tr].hd = 0
    BY <1>1, <1>2, <1>3
  <2>3. /\ do_hd \in {"NULL", "read_intr", "write_intr", "do_request"}
        /\ sorting \in BOOLEAN
    BY DEF TypeOK
  <2>4. DoRequest(tr, rq, sorting) /\ this_request' = tr
    BY <1>1
  <2>. QED BY <2>1, <2>2, <2>3, <2>4, <1>3, DoRequestSound
<1>5. TypeOK'
  <2>1. this_request' \in Requests \cup {NULL}
    BY <1>1, <1>3
  <2>. QED BY <2>1, <1>0, <1>2, <1>4 DEF TypeOK, Records, Buffers, Commands
<1>. QED BY <1>2, <1>4, <1>5, Parts DEF IInv, Queued, InList

(* What read_intr() does when its sector is read: h is the request, x the  *)
(* request and b the buffer after it.                                      *)
SectorIn(h, x, b) ==
    LET o == request[h].bh
        n == request[h].nsector
        rq == [request EXCEPT ![h] = x] IN
    /\ h = this_request /\ n \in {1, 2} /\ drive.cmd = "read"
    /\ drive.bh = o /\ drive.left = n /\ disk' = disk
    /\ x.nsector = n - 1 /\ x.hd = request[h].hd /\ x.bh = o
    /\ x.next = request[h].next /\ x.cmd = request[h].cmd
    /\ b.lock = buf[o].lock /\ b.uptodate = buf[o].uptodate /\ b.dirt = buf[o].dirt
    /\ b.data[Half(n)] = disk[o][drive.at]
    /\ b.data[1 - Half(n)] = buf[o].data[1 - Half(n)]
    /\ n = 2 => /\ request' = rq /\ buf' = [buf EXCEPT ![o] = b] /\ drive' = NextSector
                /\ UNCHANGED <<this_request, wait_for_request, runnable, do_hd>>
    /\ n = 1 => /\ request' = Answered(rq, h) /\ this_request' = rq[h].next
                /\ buf' = [buf EXCEPT ![o] = Transferred(b)] /\ WakeUp
                /\ DoRequest(request[h].next, rq, sorting)
LEMMA SectorRead ==
  ASSUME IInv, ReadIntr, ~(Failing \in Faults /\ BadRwIntr)
  PROVE  \E h \in Requests, x \in Records, b \in Buffers : SectorIn(h, x, b)
<1>. USE HasParts
<1>. PICK h : h = this_request
  OBVIOUS
<1>. PICK o : o = request[h].bh
  OBVIOUS
<1>. PICK n : n = request[h].nsector
  OBVIOUS
<1>1. /\ h \in Requests /\ drive.cmd = "read" /\ drive.bh = o
      /\ drive.left = n /\ n \in {1, 2}
  BY Interrupted DEF ReadIntr
<1>2. o \in Procs
  BY <1>1, NoNull, HeadInUse
<1>3. /\ request \in [Requests -> Records] /\ request[h] \in Records
      /\ buf \in [Procs -> Buffers] /\ buf[o] \in Buffers /\ drive.at \in {0, 1}
      /\ disk[o] \in Block /\ buf[o].data \in Block
  BY <1>1, <1>2, Types DEF TypeOK, Commands, Buffers
<1>4. Half(n) \in {0, 1}
  BY <1>1 DEF Half
<1>. PICK v : v = disk[o][drive.at]
  OBVIOUS
<1>5. v \in Values
  BY <1>3 DEF Block
<1>. PICK data : data = [buf[o].data EXCEPT ![Half(n)] = v]
  OBVIOUS
<1>6. /\ data \in Block /\ data[Half(n)] = v
      /\ data[1 - Half(n)] = buf[o].data[1 - Half(n)]
  BY <1>3, <1>4, <1>5 DEF Block
<1>. PICK b : b = [buf[o] EXCEPT !.data = data]
  OBVIOUS
<1>7. /\ b \in Buffers /\ b.data = data
      /\ b.lock = buf[o].lock /\ b.uptodate = buf[o].uptodate /\ b.dirt = buf[o].dirt
  BY <1>3, <1>6 DEF Buffers
<1>. PICK x : x = [request[h] EXCEPT !.errors = 0, !.nsector = n - 1]
  OBVIOUS
<1>8. /\ x \in Records /\ x.nsector = n - 1 /\ x.hd = request[h].hd
      /\ x.bh = o /\ x.next = request[h].next /\ x.cmd = request[h].cmd
  <2>1. 0 \in 0..MAX_ERRORS + 1
    BY HdAssumption
  <2>2. n - 1 \in 0..2
    BY <1>1
  <2>3. x \in Records
    BY <2>1, <2>2, <1>3 DEF Records
  <2>. QED BY <2>3, <1>3 DEF Records
<1>. PICK rq : rq = [request EXCEPT ![h] = x]
  OBVIOUS
<1>. PICK bf : bf = [buf EXCEPT ![o] = b]
  OBVIOUS
<1>9. rq = [request EXCEPT ![h].errors = 0, ![h].nsector = @ - 1]
  BY <1>1, <1>3 DEF Records
<1>10. bf = [buf EXCEPT ![o].data[Half(n)] = v]
  BY <1>2, <1>3 DEF Buffers
<1>11. /\ IF n > 1
          THEN /\ request' = rq /\ buf' = bf /\ drive' = NextSector
               /\ UNCHANGED <<this_request, wait_for_request, runnable, do_hd>>
          ELSE /\ Answer(rq, [bf EXCEPT ![o] = Transferred(@)])
               /\ DoRequest(request[h].next, rq, sorting)
       /\ UNCHANGED disk
  BY <1>1, <1>9, <1>10 DEF ReadIntr
<1>12. [bf EXCEPT ![o] = Transferred(@)] = [buf EXCEPT ![o] = Transferred(b)]
  BY <1>2, <1>3 DEF Transferred
<1>13. /\ n = 2 => /\ request' = rq /\ buf' = bf /\ drive' = NextSector
                   /\ UNCHANGED <<this_request, wait_for_request, runnable, do_hd>>
       /\ n = 1 => /\ request' = Answered(rq, h) /\ this_request' = rq[h].next
                   /\ buf' = [buf EXCEPT ![o] = Transferred(b)] /\ WakeUp
                   /\ DoRequest(request[h].next, rq, sorting)
  <2>1. CASE n = 2
    BY <1>1, <1>11, <2>1
  <2>2. CASE n = 1
    <3>1. ~(n > 1) /\ n # 2
      BY <2>2
    <3>2. /\ Answer(rq, [bf EXCEPT ![o] = Transferred(@)])
          /\ DoRequest(request[h].next, rq, sorting)
      BY <1>11, <3>1, ZenonT(60)
    <3>3. Answer(rq, [buf EXCEPT ![o] = Transferred(b)])
      BY <1>12, <3>2, ZenonT(60)
    <3>. QED BY <3>1, <3>2, <3>3 DEF Answer
  <2>. QED BY <1>1, <2>1, <2>2
<1>. x \in Records /\ b \in Buffers /\ h \in Requests
  BY <1>1, <1>7, <1>8
<1>. WITNESS h \in Requests, x \in Records, b \in Buffers
<1>. QED BY <1>1, <1>6, <1>7, <1>8, <1>11, <1>13 DEF SectorIn

(* What write_intr() does when its sector is written. *)
SectorOut(h, x) ==
    LET o == request[h].bh
        n == request[h].nsector
        rq == [request EXCEPT ![h] = x] IN
    /\ h = this_request /\ n \in {1, 2} /\ drive.cmd = "write"
    /\ drive.bh = o /\ drive.left = n
    /\ x.nsector = n - 1 /\ x.hd = request[h].hd /\ x.bh = o
    /\ x.next = request[h].next /\ x.cmd = request[h].cmd
    /\ disk' = [disk EXCEPT ![o][drive.at] =
                   buf[o].data[IF drive.at = 0 THEN Half(n) ELSE 1]]
    /\ n = 2 => /\ request' = rq /\ drive' = NextSector
                /\ UNCHANGED <<this_request, buf, wait_for_request, runnable, do_hd>>
    /\ n = 1 => /\ request' = Answered(rq, h) /\ this_request' = rq[h].next
                /\ buf' = [buf EXCEPT ![o] = Transferred(buf[o])] /\ WakeUp
                /\ DoRequest(request[h].next, rq, sorting)
LEMMA SectorWritten ==
  ASSUME IInv, WriteIntr, ~(Failing \in Faults /\ BadRwIntr)
  PROVE  \E h \in Requests, x \in Records : SectorOut(h, x)
<1>. USE HasParts
<1>. PICK h : h = this_request
  OBVIOUS
<1>. PICK o : o = request[h].bh
  OBVIOUS
<1>. PICK n : n = request[h].nsector
  OBVIOUS
<1>1. /\ h \in Requests /\ drive.cmd = "write" /\ drive.bh = o
      /\ drive.left = n /\ n \in {1, 2}
  BY Interrupted DEF WriteIntr
<1>2. request \in [Requests -> Records] /\ request[h] \in Records
  BY <1>1, Types
<1>. PICK x : x = [request[h] EXCEPT !.nsector = n - 1]
  OBVIOUS
<1>3. /\ x \in Records /\ x.nsector = n - 1 /\ x.hd = request[h].hd
      /\ x.bh = o /\ x.next = request[h].next /\ x.cmd = request[h].cmd
  BY <1>1, <1>2 DEF Records
<1>. PICK rq : rq = [request EXCEPT ![h] = x]
  OBVIOUS
<1>4. rq = [request EXCEPT ![h].nsector = @ - 1]
  BY <1>1, <1>2 DEF Records
<1>5. [buf EXCEPT ![o] = Transferred(@)] = [buf EXCEPT ![o] = Transferred(buf[o])]
  OBVIOUS
<1>6. /\ disk' = [disk EXCEPT ![o][drive.at] =
                     buf[o].data[IF drive.at = 0 THEN Half(n) ELSE 1]]
      /\ IF n > 1
         THEN /\ request' = rq /\ drive' = NextSector
              /\ UNCHANGED <<this_request, buf, wait_for_request, runnable, do_hd>>
         ELSE /\ Answer(rq, [buf EXCEPT ![o] = Transferred(@)])
              /\ DoRequest(request[h].next, rq, sorting)
  BY <1>1, <1>4 DEF WriteIntr
<1>7. /\ n = 2 => /\ request' = rq /\ drive' = NextSector
                  /\ UNCHANGED <<this_request, buf, wait_for_request, runnable, do_hd>>
      /\ n = 1 => /\ request' = Answered(rq, h) /\ this_request' = rq[h].next
                  /\ buf' = [buf EXCEPT ![o] = Transferred(buf[o])] /\ WakeUp
                  /\ DoRequest(request[h].next, rq, sorting)
  BY <1>1, <1>5, <1>6 DEF Answer
<1>. x \in Records /\ h \in Requests
  BY <1>1, <1>3
<1>. WITNESS h \in Requests, x \in Records
<1>. QED BY <1>1, <1>3, <1>6, <1>7 DEF SectorOut

(* A buffer whose transfer is over. *)
LEMMA TransferredBuffer ==
  ASSUME NEW b \in Buffers
  PROVE  /\ Transferred(b) \in Buffers /\ ~Transferred(b).lock
         /\ Transferred(b).data = b.data
  BY DEF Transferred, Buffers

LEMMA ReadStep ==
  ASSUME IInv, ReadIntr
  PROVE  IInv'
<1>. USE HasParts
<1>0. this_request \in Requests
  BY Interrupted DEF ReadIntr
<1>1. UNCHANGED <<procVars, sorting, cut>>
  BY DEF ReadIntr
<1>2. CASE Failing \in Faults /\ BadRwIntr
  BY <1>0, <1>1, <1>2, BadStep
<1>3. CASE ~(Failing \in Faults /\ BadRwIntr)
  <2>1. PICK h \in Requests, x \in Records, b \in Buffers : SectorIn(h, x, b)
    BY <1>3, SectorRead
  <2>. PICK o : o = request[h].bh
    OBVIOUS
  <2>2. o \in Procs /\ buf \in [Procs -> Buffers] /\ disk' \in [Procs -> Block]
    BY <2>1, NoNull, HeadInUse, Types DEF TypeOK, SectorIn
  <2>3. CASE request[h].nsector = 2
    <3>1. /\ buf' \in [Procs -> Buffers]
          /\ \A p \in Procs : buf'[p].lock <=> buf[p].lock
      BY <2>1, <2>2, <2>3 DEF SectorIn
    <3>2. x.nsector = 1
      BY <2>1, <2>3 DEF SectorIn
    <3>. QED BY <2>1, <2>2, <2>3, <3>1, <3>2, <1>1, SectorStep DEF SectorIn
  <2>4. CASE request[h].nsector = 1
    <3>1. /\ buf' \in [Procs -> Buffers] /\ ~buf'[o].lock
          /\ \A p \in Procs : p # o => (buf'[p].lock <=> buf[p].lock)
      BY <2>1, <2>2, <2>4, TransferredBuffer DEF SectorIn
    <3>. PICK rq : rq = [request EXCEPT ![h] = x]
      OBVIOUS
    <3>2. /\ request' = Answered(rq, h) /\ this_request' = rq[h].next
          /\ DoRequest(request[h].next, rq, sorting) /\ WakeUp
          /\ h = this_request /\ x.bh = request[h].bh /\ x.next = request[h].next
      BY <2>1, <2>4 DEF SectorIn
    <3>. QED BY <2>2, <3>1, <3>2, <1>1, LastSectorStep
  <2>. QED BY <2>1, <2>3, <2>4 DEF SectorIn
<1>. QED BY <1>2, <1>3

LEMMA WriteStep ==
  ASSUME IInv, WriteIntr
  PROVE  IInv'
<1>. USE HasParts
<1>0. this_request \in Requests /\ drive.at \in {0, 1}
  BY Interrupted, Types DEF WriteIntr, Commands
<1>1. UNCHANGED <<procVars, sorting, cut>>
  BY DEF WriteIntr
<1>2. CASE Failing \in Faults /\ BadRwIntr
  BY <1>0, <1>1, <1>2, BadStep
<1>3. CASE ~(Failing \in Faults /\ BadRwIntr)
  <2>1. PICK h \in Requests, x \in Records : SectorOut(h, x)
    BY <1>3, SectorWritten
  <2>. PICK o : o = request[h].bh
    OBVIOUS
  <2>2. o \in Procs /\ buf \in [Procs -> Buffers] /\ buf[o] \in Buffers
    BY <2>1, NoNull, HeadInUse, Types DEF SectorOut
  <2>3. disk' \in [Procs -> Block]
    <3>. PICK half : half = IF drive.at = 0 THEN Half(request[h].nsector) ELSE 1
      OBVIOUS
    <3>1. half \in {0, 1}
      BY <2>1 DEF Half, SectorOut
    <3>2. buf[o].data[half] \in Values
      BY <2>2, <3>1 DEF Buffers, Block
    <3>3. disk' = [disk EXCEPT ![o] = [disk[o] EXCEPT ![drive.at] = buf[o].data[half]]]
      BY <2>1, <2>2 DEF TypeOK, SectorOut
    <3>. QED BY <3>2, <3>3, <2>2, <1>0 DEF TypeOK, Block
  <2>4. CASE request[h].nsector = 2
    <3>1. buf' = buf
      BY <2>1, <2>4 DEF SectorOut
    <3>2. x.nsector = 1
      BY <2>1, <2>4 DEF SectorOut
    <3>. QED BY <2>1, <2>2, <2>3, <2>4, <3>1, <3>2, <1>1, SectorStep DEF SectorOut
  <2>5. CASE request[h].nsector = 1
    <3>1. /\ buf' \in [Procs -> Buffers] /\ ~buf'[o].lock
          /\ \A p \in Procs : p # o => (buf'[p].lock <=> buf[p].lock)
      BY <2>1, <2>2, <2>5, TransferredBuffer DEF SectorOut
    <3>. PICK rq : rq = [request EXCEPT ![h] = x]
      OBVIOUS
    <3>2. /\ request' = Answered(rq, h) /\ this_request' = rq[h].next
          /\ DoRequest(request[h].next, rq, sorting) /\ WakeUp
          /\ h = this_request /\ x.bh = request[h].bh /\ x.next = request[h].next
      BY <2>1, <2>5 DEF SectorOut
    <3>. QED BY <2>2, <2>3, <3>1, <3>2, <1>1, LastSectorStep
  <2>. QED BY <2>1, <2>4, <2>5 DEF SectorOut
<1>. QED BY <1>2, <1>3

LEMMA ResetStep ==
  ASSUME IInv, ResetIntr
  PROVE  IInv' /\ (drive'.at = 0 \/ drive'.cmd \notin {"read", "write"})
<1>. USE HasParts
<1>0. /\ request' = request /\ this_request' = this_request /\ sorting' = sorting
      /\ pc' = pc /\ req' = req /\ tmp' = tmp /\ buf' = buf /\ disk' = disk
      /\ wait_for_request' = wait_for_request /\ runnable' = runnable
      /\ DoRequest(this_request, request, sorting) /\ cut' = cut
  BY DEF ResetIntr, procVars
<1>1. /\ DriveSound' /\ drive' \in Commands
      /\ do_hd' \in {"NULL", "read_intr", "write_intr", "do_request"}
      /\ drive'.at = 0 \/ drive'.cmd \notin {"read", "write"}
  <2>1. this_request # NULL => /\ request[this_request] \in Records
                               /\ request[this_request].hd = 0
    BY HeadInUse, Types
  <2>2. /\ this_request \in Requests \cup {NULL} /\ sorting \in BOOLEAN
        /\ do_hd \in {"NULL", "read_intr", "write_intr", "do_request"}
    BY DEF TypeOK
  <2>3. \A q \in Requests : request'[q].hd = 0 => request'[q].nsector \in {1, 2}
    BY <1>0 DEF DriveSound
  <2>. QED BY <2>1, <2>2, <2>3, <1>0, DoRequestSound
<1>2. TypeOK'
  BY <1>0, <1>1 DEF TypeOK, Commands
<1>3. Queued'
  BY <1>0, QueuedKept
<1>4. WaitSound'
  BY <1>0, WaitKept DEF Sleepers
<1>. QED BY <1>1, <1>2, <1>3, <1>4, Parts DEF IInv, Queued, InList

-----------------------------------------------------------------------------
(* IInv is inductive *)

LEMMA InitIInv == Init => IInv
<1>. SUFFICES ASSUME Init PROVE IInv
  OBVIOUS
<1>0. /\ request = [r \in Requests |-> FreeRequest(NULL, NULL)]
      /\ this_request = NULL /\ sorting = FALSE /\ do_hd = "NULL" /\ drive = Idle
      /\ pc = [p \in Procs |-> "idle"] /\ wait_for_request = NULL
      /\ req = [p \in Procs |-> NULL] /\ tmp = [p \in Procs |-> NULL]
      /\ runnable = [p \in Procs |-> TRUE]
      /\ disk \in [Procs -> Block] /\ cut = {}
  BY HdAssumption DEF Init
<1>1. PICK junk \in Block :
         buf = [p \in Procs |-> [lock |-> FALSE, uptodate |-> FALSE,
                                 dirt |-> FALSE, data |-> junk, cmd |-> "read"]]
  BY HdAssumption DEF Init
<1>2. FreeRequest(NULL, NULL) \in Records
  <2>1. 0 \in 0..MAX_ERRORS + 1
    BY HdAssumption
  <2>. QED BY <2>1 DEF FreeRequest, Records
<1>3. \A r \in Requests : request[r].hd = -1
  BY <1>0 DEF FreeRequest
<1>4. TypeOK
  <2>1. request \in [Requests -> Records]
    BY <1>0, <1>2
  <2>2. drive \in Commands
    BY <1>0 DEF Idle, Commands
  <2>3. buf \in [Procs -> Buffers]
    BY <1>1 DEF Buffers
  <2>. QED BY <1>0, <2>1, <2>2, <2>3 DEF TypeOK, Records, Buffers, Commands
<1>5. \A r \in Requests : request[r].hd # 0
  BY <1>3
<1>6. RequestsOwned /\ OneInKernel /\ Sorting /\ \A p \in Procs : AddSound(p)
  BY <1>0, <1>5 DEF RequestsOwned, OneInKernel, InKernel, Sorting, AddSound
<1>7. BuffersLocked
  <2>. SUFFICES ASSUME NEW p \in Procs
                PROVE  buf[p].lock <=> pc[p] \in {"slot", "full", "asleep"} \/ Mine(p) # {}
    BY DEF BuffersLocked
  <2>1. Mine(p) = {}
    BY <1>5 DEF Mine
  <2>. QED BY <2>1, <1>0, <1>1
<1>8. InList
  <2>1. ListOf({})
    BY <1>0 DEF ListOf, Closed, NoLoop
  <2>. QED BY <2>1 DEF InList
<1>9. WaitSound
  <2>1. Sleepers = {}
    BY <1>0 DEF Sleepers
  <2>. QED BY <2>1, <1>0 DEF WaitSound
<1>10. DriveSound
  BY <1>0, <1>5 DEF DriveSound, HeadIsServed, Idle
<1>. QED BY <1>4, <1>6, <1>7, <1>8, <1>9, <1>10 DEF IInv, InList

LEMMA StutterStep ==
  ASSUME IInv, UNCHANGED vars
  PROVE  IInv'
<1>. USE HasParts
<1>0. /\ request' = request /\ this_request' = this_request /\ sorting' = sorting
      /\ do_hd' = do_hd /\ wait_for_request' = wait_for_request /\ pc' = pc
      /\ req' = req /\ tmp' = tmp /\ runnable' = runnable /\ buf' = buf
      /\ drive' = drive /\ disk' = disk /\ cut' = cut
  BY DEF vars
<1>1. TypeOK'
  BY <1>0 DEF TypeOK
<1>2. Queued'
  BY <1>0, QueuedKept
<1>3. WaitSound'
  BY <1>0, WaitKept DEF Sleepers
<1>4. DriveSound'
  BY <1>0 DEF DriveSound, HeadIsServed
<1>. QED BY <1>1, <1>2, <1>3, <1>4, Parts DEF IInv, Queued, InList

LEMMA NextIInv ==
  ASSUME IInv, [Next]_vars
  PROVE  IInv'
<1>1. ASSUME NEW p \in Procs, NEW d \in Contents, Modify(p, d) PROVE IInv'
  BY <1>1, ModifyStep
<1>2. ASSUME NEW p \in Procs, NEW rw \in {"read", "write"}, Issue(p, rw) PROVE IInv'
  BY <1>2, IssueStep
<1>3. ASSUME NEW p \in Procs, TakeRequest(p) PROVE IInv'
  BY <1>3, TakeRequestStep
<1>4. ASSUME NEW p \in Procs, NoRequest(p) PROVE IInv'
  BY <1>4, NoRequestStep
<1>5. ASSUME NEW p \in Procs, SleepOn(p) PROVE IInv'
  BY <1>5, SleepOnStep
<1>6. ASSUME NEW p \in Procs, WakeFromSleep(p) PROVE IInv'
  BY <1>6, WakeFromSleepStep
<1>7. ASSUME NEW p \in Procs, Link(p) PROVE IInv'
  BY <1>7, LinkStep
<1>8. ASSUME NEW p \in Procs, Restart(p) PROVE IInv'
  BY <1>8, RestartStep
<1>9. ASSUME NEW p \in Procs, Return(p) PROVE IInv'
  BY <1>9, ReturnStep
<1>10. CASE ReadIntr
  BY <1>10, ReadStep
<1>11. CASE WriteIntr
  BY <1>11, WriteStep
<1>12. CASE ResetIntr
  BY <1>12, ResetStep
<1>13. CASE UNCHANGED vars
  BY <1>13, StutterStep
<1>. QED BY <1>1, <1>2, <1>3, <1>4, <1>5, <1>6, <1>7, <1>8, <1>9, <1>10, <1>11, <1>12,
            <1>13 DEF Next, Step, Drive

(* However interrupts fall, each locked buffer has one request, the drive  *)
(* works on the first one and every sleeper is known to another.           *)
THEOREM Inductive == Spec => []IInv
<1>1. Init => IInv
  BY InitIInv
<1>2. IInv /\ [Next]_vars => IInv'
  BY NextIInv
<1>. QED BY <1>1, <1>2, PTL DEF Spec

-----------------------------------------------------------------------------
(* The theorems *)

(* Every interrupt finds the handler and the request of the command that   *)
(* the controller has executed (hd_out, do_request, read_intr, write_intr, *)
(* bad_rw_intr), also when it comes in the midst of add_request().         *)
THEOREM HeadServed == Spec => []HeadIsServed
<1>1. IInv => HeadIsServed
  BY DEF IInv, DriveSound
<1>. QED BY <1>1, Inductive, PTL

(* A buffer stays locked until its one request is answered (lock_buffer,   *)
(* rw_abs_hd, unlock_buffer in the handlers).                              *)
THEOREM LockedWhileAnswered == Spec => []LockedUntilAnswered
<1>1. ASSUME IInv PROVE LockedUntilAnswered
  <2>. SUFFICES ASSUME NEW p \in Procs
                PROVE  /\ Cardinality(Mine(p)) <= 1
                       /\ buf[p].lock <=> pc[p] \in {"slot", "full", "asleep"} \/ Mine(p) # {}
    BY DEF LockedUntilAnswered, Mine
  <2>1. Mine(p) \subseteq {req[p]}
    BY <1>1 DEF IInv, RequestsOwned, Mine
  <2>2. Cardinality(Mine(p)) <= 1
    <3>1. CASE Mine(p) = {}
      BY <3>1, FS_EmptySet
    <3>2. CASE Mine(p) = {req[p]}
      BY <3>2, FS_Singleton, SMTT(60)
    <3>. QED BY <2>1, <3>1, <3>2
  <2>. QED BY <2>2, <1>1 DEF IInv, BuffersLocked
<1>. QED BY <1>1, Inductive, PTL

(* Whoever sleeps for a free request is woken or can be reached from       *)
(* wait_for_request or from one who is (sleep_on, wake_up, rw_abs_hd).     *)
THEOREM NoSleeperLost == Spec => []SleepersChained
<1>1. ASSUME IInv PROVE SleepersChained
  <2>. SUFFICES ASSUME NEW S \in SUBSET Procs, Chained(S),
                       wait_for_request \in S \cup {NULL},
                       \A p \in Sleepers : runnable[p] => p \in S
                PROVE  Sleepers \subseteq S
    BY DEF SleepersChained
  <2>1. WaitSound
    BY <1>1 DEF IInv
  <2>. DEFINE T == S \cap Sleepers
  <2>2. Chained(T) /\ wait_for_request \in T \cup {NULL}
    BY <2>1 DEF WaitSound, Chained
  <2>3. T = Sleepers
    BY <2>1, <2>2 DEF WaitSound
  <2>. QED BY <2>3
<1>. QED BY <1>1, Inductive, PTL

-----------------------------------------------------------------------------
(* Transfers *)

LEMMA DoRequestAt ==
  ASSUME NEW rq, NEW tr, NEW busy, DoRequest(tr, rq, busy)
  PROVE  drive'.at = 0
  BY DEF DoRequest, Idle, Specify, Command

(* A step that leaves the drive, the first request and its data alone. *)
LEMMA TransfersKept ==
  ASSUME IInv, TransfersSound, drive' = drive, disk' = disk,
         this_request # NULL => this_request' = this_request,
         \A r \in Requests : request'[r].hd = 0 =>
            \/ /\ request[r].hd = 0 /\ request'[r].bh = request[r].bh
               /\ request'[r].nsector = request[r].nsector
               /\ buf'[request[r].bh].data = buf[request[r].bh].data
            \/ request[r].hd # 0 /\ request'[r].nsector = 2,
         CleanMatchesDisk'
  PROVE  TransfersSound'
<1>1. drive.cmd \in {"read", "write"} =>
        /\ this_request # NULL /\ this_request' = this_request
        /\ request[this_request].hd = 0
  BY DEF IInv, DriveSound, HeadIsServed
<1>2. ASSUME NEW r \in Requests, request'[r].hd = 0
      PROVE  IF HalfDone(r)'
             THEN buf'[request'[r].bh].data[0] = disk'[request'[r].bh][0]
             ELSE request'[r].nsector = 2
  <2>1. HalfDone(r)' <=> HalfDone(r)
    BY <1>1 DEF HalfDone
  <2>2. CASE request[r].hd # 0
    <3>1. ~HalfDone(r)
      BY <2>2, <1>1 DEF HalfDone
    <3>. QED BY <2>1, <2>2, <3>1, <1>2
  <2>3. CASE request[r].hd = 0
    BY <2>1, <2>3, <1>2 DEF TransfersSound
  <2>. QED BY <2>2, <2>3
<1>3. drive'.cmd \in {"read", "write"} => drive'.left = 2 - drive'.at
  BY DEF TransfersSound
<1>. QED BY <1>2, <1>3 DEF TransfersSound

(* A step after which no transfer has begun. *)
LEMMA TransfersBegin ==
  ASSUME IInv', drive'.at = 0,
         \A r \in Requests : request'[r].hd = 0 => request'[r].nsector = 2,
         CleanMatchesDisk'
  PROVE  TransfersSound'
<1>1. drive'.cmd \in {"read", "write"} =>
        /\ this_request' \in Requests /\ request'[this_request'].hd = 0
        /\ drive'.left = request'[this_request'].nsector
  BY DEF IInv, TypeOK, DriveSound, HeadIsServed
<1>2. \A r \in Requests : ~HalfDone(r)'
  BY DEF HalfDone
<1>. QED BY <1>1, <1>2 DEF TransfersSound

(* Only the request of the command that is executed can be half done. *)
LEMMA NotHalf ==
  ASSUME TransfersSound, NEW r \in Requests, request[r].hd = 0, ~HalfDone(r)
  PROVE  request[r].nsector = 2
  BY DEF TransfersSound

LEMMA ModifyTransfers ==
  ASSUME IInv, TransfersSound, NEW p \in Procs, NEW d \in Contents, Modify(p, d)
  PROVE  TransfersSound'
<1>. USE HasParts
<1>0. /\ request' = request /\ this_request' = this_request /\ drive' = drive
      /\ disk' = disk
  BY DEF Modify
<1>1. Mine(p) = {}
  BY NoneMine DEF Modify, At, Queued
<1>2. buf'[p].dirt /\ \A q \in Procs \ {p} : buf'[q] = buf[q]
  BY Types DEF Modify, Buffers
<1>3. \A r \in Requests : request[r].hd = 0 => request[r].bh \in Procs \ {p}
  BY <1>1 DEF Queued, RequestsOwned, Mine
<1>4. CleanMatchesDisk'
  BY <1>0, <1>2 DEF CleanMatchesDisk, TransfersSound
<1>. QED BY <1>0, <1>2, <1>3, <1>4, TransfersKept

LEMMA IssueTransfers ==
  ASSUME IInv, TransfersSound, NEW p \in Procs, NEW rw \in {"read", "write"}, Issue(p, rw)
  PROVE  TransfersSound'
<1>. USE HasParts
<1>0. /\ request' = request /\ this_request' = this_request /\ drive' = drive
      /\ disk' = disk
  BY DEF Issue
<1>1. /\ \A q \in Procs : buf'[q].data = buf[q].data
      /\ buf'[p].lock /\ \A q \in Procs \ {p} : buf'[q] = buf[q]
  BY Types DEF Issue, Buffers
<1>2. \A r \in Requests : request[r].hd = 0 => request[r].bh \in Procs
  BY DEF Queued, RequestsOwned
<1>3. CleanMatchesDisk'
  BY <1>0, <1>1 DEF CleanMatchesDisk, TransfersSound
<1>. QED BY <1>0, <1>1, <1>2, <1>3, TransfersKept

LEMMA ProcTransfers ==
  ASSUME IInv, TransfersSound, NEW p \in Procs, Step(p)
  PROVE  TransfersSound'
<1>. USE HasParts
<1>0. buf' = buf /\ disk' = disk
  BY DEF Step, TakeRequest, NoRequest, SleepOn, WakeFromSleep, Link, Restart, Return
<1>1. CleanMatchesDisk'
  BY <1>0 DEF CleanMatchesDisk, TransfersSound
<1>2. CASE TakeRequest(p)
  <2>1. PICK r \in Free :
          request' = [request EXCEPT ![r] =
                        [hd |-> 0, bh |-> p, cmd |-> buf[p].cmd, nsector |-> 2,
                         errors |-> 0, next |-> NULL]]
    BY <1>2 DEF TakeRequest
  <2>2. r \in Requests /\ request[r].hd = -1
    BY DEF Free
  <2>3. /\ request'[r].nsector = 2
        /\ \A q \in Requests \ {r} : request'[q] = request[q]
    BY <2>1, <2>2, Types
  <2>4. request[r].hd # 0
    BY <2>2
  <2>5. drive' = drive /\ this_request' = this_request
    BY <1>2 DEF TakeRequest
  <2>. QED BY <2>3, <2>4, <2>5, <1>0, <1>1, TransfersKept
<1>3. CASE Link(p)
  <2>1. drive' = drive
    BY <1>3 DEF Link
  <2>2. this_request # NULL => this_request' = this_request
    <3>1. tmp[p] = NULL => this_request = NULL
      BY <1>3 DEF Link, At, Queued, AddSound
    <3>. QED BY <3>1, <1>3 DEF Link
  <2>. QED BY <2>1, <2>2, <1>0, <1>1, <1>3, LinkOwners, TransfersKept
<1>4. CASE Restart(p)
  <2>1. request' = request /\ this_request' = this_request
    BY <1>4 DEF Restart
  <2>2. CASE do_hd = "NULL"
    <3>1. drive'.at = 0
      BY <2>2, <1>4, DoRequestAt DEF Restart, RestartIfIdle
    <3>2. drive.cmd \notin {"read", "write"}
      BY <2>2 DEF DriveSound, HeadIsServed
    <3>3. \A r \in Requests : request'[r].hd = 0 => request'[r].nsector = 2
      BY <2>1, <3>2, NotHalf DEF HalfDone
    <3>. QED BY <3>1, <3>3, <1>1, <1>4, RestartStep, TransfersBegin
  <2>3. CASE do_hd # "NULL"
    <3>1. drive' = drive
      BY <2>3, <1>4 DEF Restart, RestartIfIdle
    <3>. QED BY <2>1, <3>1, <1>0, <1>1, TransfersKept
  <2>. QED BY <2>2, <2>3
<1>5. CASE NoRequest(p) \/ SleepOn(p) \/ WakeFromSleep(p) \/ Return(p)
  <2>1. request' = request /\ this_request' = this_request /\ drive' = drive
    BY <1>5 DEF NoRequest, SleepOn, WakeFromSleep, Return
  <2>. QED BY <2>1, <1>0, <1>1, TransfersKept
<1>. QED BY <1>2, <1>3, <1>4, <1>5 DEF Step

(* The drive fails at a sector of the request, which can only be the first. *)
LEMMA BadTransfers ==
  ASSUME IInv, TransfersSound, "second" \notin Faults, this_request \in Requests,
         drive.cmd \in {"read", "write"}, drive.left \in {1, 2},
         Failing \in Faults, BadRwIntr, UNCHANGED <<procVars, sorting, cut>>
  PROVE  TransfersSound'
<1>1. drive.left = 2 /\ drive.at = 0
  <2>1. drive.left = 2
    BY DEF Failing
  <2>2. drive.left = 2 - drive.at /\ drive.at \in {0, 1}
    BY HasParts, Types DEF TransfersSound, Commands
  <2>. QED BY <2>1, <2>2
<1>2. \A r \in Requests : request[r].hd = 0 => request[r].nsector = 2
  BY <1>1, NotHalf DEF HalfDone
<1>3. CleanMatchesDisk'
  BY BadStep DEF CleanMatchesDisk, TransfersSound
<1>. QED BY <1>2, <1>3, BadStep, TransfersBegin

(* The fields of the command after the first sector. *)
LEMMA NextFields ==
  ASSUME TypeOK, drive' = NextSector
  PROVE  drive'.cmd = drive.cmd /\ drive'.at = 1 /\ drive'.left = 1
<1>1. drive \in Commands /\ drive' = [drive EXCEPT !.at = 1, !.left = 1]
  BY Types DEF NextSector
<1>. QED BY <1>1 DEF Commands

(* Which sector the drive is at follows from the count of those left. *)
LEMMA SectorAt ==
  ASSUME NEW a \in {0, 1}, NEW n, n = 2 - a
  PROVE  (n = 2 => a = 0) /\ (n = 1 => a = 1)
  OBVIOUS
LEMMA Halves == Half(2) = 0 /\ Half(1) = 1 /\ 1 - Half(1) = 0
  BY DEF Half

LEMMA ReadTransfers ==
  ASSUME IInv, TransfersSound, "second" \notin Faults, ReadIntr
  PROVE  TransfersSound'
<1>. USE HasParts
<1>1. CASE Failing \in Faults /\ BadRwIntr
  <2>1. /\ this_request \in Requests /\ drive.cmd \in {"read", "write"}
        /\ drive.left \in {1, 2}
    BY Interrupted DEF ReadIntr
  <2>2. UNCHANGED <<procVars, sorting, cut>>
    BY DEF ReadIntr
  <2>. QED BY <2>1, <2>2, <1>1, BadTransfers
<1>2. CASE ~(Failing \in Faults /\ BadRwIntr)
  <2>1. PICK h \in Requests, x \in Records, b \in Buffers : SectorIn(h, x, b)
    BY <1>2, SectorRead
  <2>. PICK o : o = request[h].bh
    OBVIOUS
  <2>2. /\ h = this_request /\ drive.cmd = "read" /\ disk' = disk
        /\ request[h].nsector \in {1, 2} /\ drive.left = request[h].nsector
        /\ b.lock = buf[o].lock
        /\ x.bh = o /\ x.nsector = request[h].nsector - 1 /\ x.hd = request[h].hd
        /\ x.next = request[h].next
    BY <2>1 DEF SectorIn
  <2>3. /\ o \in Procs /\ buf \in [Procs -> Buffers] /\ buf[o].lock
        /\ request[h].hd = 0 /\ drive.at \in {0, 1}
        /\ drive.left = 2 - drive.at
        /\ disk \in [Procs -> Block]
        /\ \A q \in Requests : request[q].hd = 0 /\ request[q].bh = o => q = h
    BY <2>2, NoNull, HeadInUse, Types DEF TransfersSound, TypeOK, Commands
  <2>4. \A q \in Requests \ {h} : request[q].hd = 0 => request[q].nsector = 2
    BY <2>2, NotHalf DEF HalfDone
  <2>5. CASE request[h].nsector = 2
    <3>1. /\ request' = [request EXCEPT ![h] = x] /\ buf' = [buf EXCEPT ![o] = b]
          /\ drive' = NextSector /\ this_request' = h
      BY <2>1, <2>2, <2>5 DEF SectorIn
    <3>2. b.data[0] = disk[o][0]
      <4>1. drive.at = 0 /\ Half(2) = 0
        BY <2>2, <2>3, <2>5, SectorAt, Halves, ZenonT(60)
      <4>. QED BY <2>1, <2>5, <4>1 DEF SectorIn
    <3>3. /\ request'[h] = x /\ \A q \in Requests \ {h} : request'[q] = request[q]
          /\ buf'[o] = b /\ \A p \in Procs \ {o} : buf'[p] = buf[p]
      BY <3>1, <2>3, Types
    <3>4. HalfDone(h)' /\ \A q \in Requests \ {h} : ~HalfDone(q)'
      BY <3>1, <2>2, NextFields DEF HalfDone
    <3>5. drive'.left = 2 - drive'.at
      BY <3>1, NextFields
    <3>6. CleanMatchesDisk'
      BY <3>3, <2>2, <2>3 DEF CleanMatchesDisk, TransfersSound
    <3>7. \A q \in Requests : request'[q].hd = 0 =>
             IF HalfDone(q)' THEN buf'[request'[q].bh].data[0] = disk'[request'[q].bh][0]
             ELSE request'[q].nsector = 2
      BY <3>2, <3>3, <3>4, <2>2, <2>4
    <3>. QED BY <3>5, <3>6, <3>7 DEF TransfersSound
  <2>6. CASE request[h].nsector = 1
    <3>1. drive.at = 1 /\ HalfDone(h)
      <4>1. drive.at = 1
        BY <2>2, <2>3, <2>6, SectorAt
      <4>. QED BY <2>2, <4>1 DEF HalfDone
    <3>2. buf[o].data[0] = disk[o][0]
      BY <3>1, <2>3 DEF TransfersSound
    <3>4. b.data[1] = disk[o][1] /\ b.data[0] = buf[o].data[0]
      BY <2>1, <2>6, <3>1, Halves DEF SectorIn
    <3>5. b.data = disk[o]
      <4>1. b.data \in Block /\ disk[o] \in Block
        BY <2>3 DEF Buffers
      <4>. QED BY <3>2, <3>4, <4>1 DEF Block
    <3>. PICK rq : rq = [request EXCEPT ![h] = x]
      OBVIOUS
    <3>6. /\ request' = Answered(rq, h) /\ this_request' = rq[h].next
          /\ buf' = [buf EXCEPT ![o] = Transferred(b)] /\ WakeUp
          /\ DoRequest(request[h].next, rq, sorting)
      BY <2>1, <2>6 DEF SectorIn
    <3>7. /\ buf'[o].data = disk[o] /\ ~buf'[o].lock
          /\ buf' \in [Procs -> Buffers]
          /\ \A p \in Procs \ {o} : buf'[p] = buf[p]
      BY <3>5, <3>6, <2>3, TransferredBuffer
    <3>8. UNCHANGED <<procVars, sorting, cut>>
      BY DEF ReadIntr
    <3>9. /\ IInv' /\ request'[h].hd = -1
          /\ \A q \in Requests \ {h} : request'[q] = request[q]
      <4>1. /\ disk' \in [Procs -> Block] /\ ~buf'[request[h].bh].lock
            /\ \A p \in Procs : p # request[h].bh => (buf'[p].lock <=> buf[p].lock)
            /\ x.bh = request[h].bh
        BY <3>7, <2>2, <2>3
      <4>. QED BY <3>6, <3>7, <3>8, <4>1, <2>2, LastSectorStep
    <3>10. \A q \in Requests : request'[q].hd = 0 => request'[q].nsector = 2
      <4>. SUFFICES ASSUME NEW q \in Requests, request'[q].hd = 0
                    PROVE  request'[q].nsector = 2
        OBVIOUS
      <4>1. q # h
        BY <3>9
      <4>. QED BY <4>1, <3>9, <2>4
    <3>11. CleanMatchesDisk'
      BY <3>7, <2>2 DEF CleanMatchesDisk, TransfersSound
    <3>12. drive'.at = 0
      BY <3>6, DoRequestAt
    <3>. QED BY <3>9, <3>10, <3>11, <3>12, TransfersBegin
  <2>. QED BY <2>2, <2>5, <2>6
<1>. QED BY <1>1, <1>2

LEMMA WriteTransfers ==
  ASSUME IInv, TransfersSound, "second" \notin Faults, WriteIntr
  PROVE  TransfersSound'
<1>. USE HasParts
<1>1. CASE Failing \in Faults /\ BadRwIntr
  <2>1. /\ this_request \in Requests /\ drive.cmd \in {"read", "write"}
        /\ drive.left \in {1, 2}
    BY Interrupted DEF WriteIntr
  <2>2. UNCHANGED <<procVars, sorting, cut>>
    BY DEF WriteIntr
  <2>. QED BY <2>1, <2>2, <1>1, BadTransfers
<1>2. CASE ~(Failing \in Faults /\ BadRwIntr)
  <2>1. PICK h \in Requests, x \in Records : SectorOut(h, x)
    BY <1>2, SectorWritten
  <2>. PICK o : o = request[h].bh
    OBVIOUS
  <2>2. /\ h = this_request /\ drive.cmd = "write"
        /\ request[h].nsector \in {1, 2} /\ drive.left = request[h].nsector
        /\ x.bh = o /\ x.nsector = request[h].nsector - 1 /\ x.hd = request[h].hd
        /\ x.next = request[h].next
    BY <2>1 DEF SectorOut
  <2>3. /\ o \in Procs /\ buf \in [Procs -> Buffers] /\ buf[o] \in Buffers /\ buf[o].lock
        /\ request[h].hd = 0 /\ drive.at \in {0, 1}
        /\ drive.left = 2 - drive.at
        /\ disk \in [Procs -> Block] /\ disk[o] \in Block /\ buf[o].data \in Block
        /\ \A q \in Requests : request[q].hd = 0 /\ request[q].bh = o => q = h
    BY <2>2, NoNull, HeadInUse, Types DEF TransfersSound, TypeOK, Commands, Buffers
  <2>4. \A q \in Requests \ {h} : request[q].hd = 0 => request[q].nsector = 2
    BY <2>2, NotHalf DEF HalfDone
  <2>5. CASE request[h].nsector = 2
    <3>1. /\ request' = [request EXCEPT ![h] = x] /\ buf' = buf
          /\ drive' = NextSector /\ this_request' = h
      BY <2>1, <2>2, <2>5 DEF SectorOut
    <3>2. /\ disk'[o][0] = buf[o].data[0]
          /\ \A p \in Procs \ {o} : disk'[p] = disk[p]
      <4>1. drive.at = 0 /\ Half(2) = 0
        BY <2>2, <2>3, <2>5, SectorAt, Halves, ZenonT(60)
      <4>2. disk' = [disk EXCEPT ![o] = [disk[o] EXCEPT ![0] = buf[o].data[0]]]
        BY <2>1, <2>3, <2>5, <4>1 DEF SectorOut
      <4>. QED BY <4>2, <2>3 DEF Block
    <3>3. request'[h] = x /\ \A q \in Requests \ {h} : request'[q] = request[q]
      BY <3>1, Types
    <3>4. HalfDone(h)' /\ \A q \in Requests \ {h} : ~HalfDone(q)'
      BY <3>1, <2>2, NextFields DEF HalfDone
    <3>5. drive'.left = 2 - drive'.at
      BY <3>1, NextFields
    <3>6. CleanMatchesDisk'
      BY <3>1, <3>2, <2>3 DEF CleanMatchesDisk, TransfersSound
    <3>7. \A q \in Requests : request'[q].hd = 0 =>
             IF HalfDone(q)' THEN buf'[request'[q].bh].data[0] = disk'[request'[q].bh][0]
             ELSE request'[q].nsector = 2
      BY <3>1, <3>2, <3>3, <3>4, <2>2, <2>4
    <3>. QED BY <3>5, <3>6, <3>7 DEF TransfersSound
  <2>6. CASE request[h].nsector = 1
    <3>1. drive.at = 1 /\ HalfDone(h)
      <4>1. drive.at = 1
        BY <2>2, <2>3, <2>6, SectorAt
      <4>. QED BY <2>2, <4>1 DEF HalfDone
    <3>2. buf[o].data[0] = disk[o][0]
      BY <3>1, <2>3 DEF TransfersSound
    <3>3. disk' = [disk EXCEPT ![o] = [disk[o] EXCEPT ![1] = buf[o].data[1]]]
      BY <2>1, <2>3, <3>1 DEF SectorOut
    <3>4. /\ disk' \in [Procs -> Block]
          /\ disk'[o][0] = disk[o][0] /\ disk'[o][1] = buf[o].data[1]
          /\ \A p \in Procs \ {o} : disk'[p] = disk[p]
      BY <3>3, <2>3 DEF Block
    <3>5. buf[o].data = disk'[o]
      <4>1. disk'[o] \in [{0, 1} -> Values] /\ buf[o].data \in [{0, 1} -> Values]
        BY <3>4, <2>3 DEF Block
      <4>2. \A i \in {0, 1} : disk'[o][i] = buf[o].data[i]
        BY <3>2, <3>4
      <4>. QED BY <4>1, <4>2
    <3>. PICK rq : rq = [request EXCEPT ![h] = x]
      OBVIOUS
    <3>6. /\ request' = Answered(rq, h) /\ this_request' = rq[h].next
          /\ buf' = [buf EXCEPT ![o] = Transferred(buf[o])] /\ WakeUp
          /\ DoRequest(request[h].next, rq, sorting)
      BY <2>1, <2>6 DEF SectorOut
    <3>7. /\ buf'[o].data = disk'[o] /\ ~buf'[o].lock
          /\ buf' \in [Procs -> Buffers]
          /\ \A p \in Procs \ {o} : buf'[p] = buf[p]
      BY <3>5, <3>6, <2>3, TransferredBuffer
    <3>8. UNCHANGED <<procVars, sorting, cut>>
      BY DEF WriteIntr
    <3>9. /\ IInv' /\ request'[h].hd = -1
          /\ \A q \in Requests \ {h} : request'[q] = request[q]
      <4>1. /\ disk' \in [Procs -> Block] /\ ~buf'[request[h].bh].lock
            /\ \A p \in Procs : p # request[h].bh => (buf'[p].lock <=> buf[p].lock)
            /\ x.bh = request[h].bh
        BY <3>4, <3>7, <2>2, <2>3
      <4>. QED BY <3>6, <3>7, <3>8, <4>1, <2>2, LastSectorStep
    <3>10. \A q \in Requests : request'[q].hd = 0 => request'[q].nsector = 2
      <4>. SUFFICES ASSUME NEW q \in Requests, request'[q].hd = 0
                    PROVE  request'[q].nsector = 2
        OBVIOUS
      <4>1. q # h
        BY <3>9
      <4>. QED BY <4>1, <3>9, <2>4
    <3>11. CleanMatchesDisk'
      BY <3>4, <3>7 DEF CleanMatchesDisk, TransfersSound
    <3>12. drive'.at = 0
      BY <3>6, DoRequestAt
    <3>. QED BY <3>9, <3>10, <3>11, <3>12, TransfersBegin
  <2>. QED BY <2>2, <2>5, <2>6
<1>. QED BY <1>1, <1>2

LEMMA ResetTransfers ==
  ASSUME IInv, TransfersSound, ResetIntr
  PROVE  TransfersSound'
<1>1. drive.cmd \notin {"read", "write"}
  BY HasParts DEF ResetIntr, Interrupt, DriveSound, HeadIsServed
<1>2. request' = request /\ buf' = buf /\ disk' = disk
  BY DEF ResetIntr
<1>3. \A r \in Requests : request'[r].hd = 0 => request'[r].nsector = 2
  BY <1>1, <1>2, NotHalf DEF HalfDone
<1>4. CleanMatchesDisk'
  BY <1>2 DEF CleanMatchesDisk, TransfersSound
<1>5. drive'.at = 0
  BY DoRequestAt DEF ResetIntr
<1>. QED BY <1>3, <1>4, <1>5, ResetStep, TransfersBegin

(* If no sector of a transfer fails after the first one, a clean buffer    *)
(* that is up to date has the contents of its block: each sector went to   *)
(* its own half, also when the transfer was tried again (read_intr,        *)
(* write_intr, bad_rw_intr, do_request).                                   *)
THEOREM CleanBuffers ==
  ASSUME "second" \notin Faults
  PROVE  Spec => []CleanMatchesDisk
<1>1. Init => TransfersSound
  <2>. SUFFICES ASSUME Init PROVE TransfersSound
    OBVIOUS
  <2>1. \A r \in Requests : request[r].hd # 0
    BY DEF Init, FreeRequest
  <2>2. drive.cmd = "idle" /\ \A p \in Procs : ~buf[p].uptodate
    BY DEF Init, Idle
  <2>. QED BY <2>1, <2>2 DEF TransfersSound, CleanMatchesDisk
<1>2. IInv /\ TransfersSound /\ [Next]_vars => TransfersSound'
  <2>. SUFFICES ASSUME IInv, TransfersSound, [Next]_vars PROVE TransfersSound'
    OBVIOUS
  <2>1. CASE UNCHANGED vars
    <3>1. /\ request' = request /\ this_request' = this_request /\ drive' = drive
          /\ disk' = disk /\ buf' = buf
      BY <2>1 DEF vars
    <3>2. CleanMatchesDisk'
      BY <3>1 DEF CleanMatchesDisk, TransfersSound
    <3>. QED BY <3>1, <3>2, TransfersKept
  <2>2. CASE Drive
    BY <2>2, ReadTransfers, WriteTransfers, ResetTransfers DEF Drive
  <2>. QED BY <2>1, <2>2, ProcTransfers, IssueTransfers, ModifyTransfers DEF Next
<1>3. TransfersSound => CleanMatchesDisk
  BY DEF TransfersSound
<1>. QED BY <1>1, <1>2, <1>3, Inductive, PTL DEF Spec

-----------------------------------------------------------------------------
(* The whole list *)

(* A step that leaves the linked requests and their order as they are. *)
LEMMA WholeKept ==
  ASSUME QueueWhole, this_request' = this_request, Kept' = Kept,
         \A q \in Kept : request'[q].next = request[q].next,
         (cut \subseteq Linked)', \A p \in Procs : FirstKnown(p)'
  PROVE  QueueWhole'
<1>. PICK L \in SUBSET Requests : L = Kept
  BY DEF Kept, Linked
<1>1. ListOf(L)'
  BY ListKept DEF QueueWhole
<1>2. ASSUME NEW S \in SUBSET L, Closed(S)', this_request = NULL \/ this_request \in S
      PROVE  S = L
  <2>1. Closed(S)
    BY <1>2 DEF Closed
  <2>. QED BY <2>1, <1>2 DEF QueueWhole, NoneLeftOut
<1>3. L = Kept'
  OBVIOUS
<1>4. ListOf(Kept)' /\ NoneLeftOut'
  BY <1>1, <1>2, <1>3 DEF NoneLeftOut
<1>. QED BY <1>4 DEF QueueWhole

(* The first request is answered, and the next one is the first. *)
LEMMA WholeAnswered ==
  ASSUME IInv, QueueWhole, NEW h \in Requests, h = this_request,
         this_request' = request[h].next, request'[h].hd = -1,
         \A q \in Requests \ {h} : request'[q] = request[q],
         pc' = pc, cut' = cut, \A p \in Procs : FirstKnown(p)'
  PROVE  QueueWhole'
<1>. USE HasParts
<1>. PICK L \in SUBSET Requests : L = Kept
  BY DEF Kept, Linked
<1>1. ListOf(L) /\ h \in L
  BY NoNull DEF QueueWhole, ListOf
<1>2. Linked' = Linked \ {h}
  <2>1. request'[h].hd # 0
    OBVIOUS
  <2>. QED BY <2>1 DEF Linked
<1>3. Kept' = L \ {h} /\ (cut \subseteq Linked)'
  BY <1>1, <1>2 DEF Kept, QueueWhole
<1>4. ListOf(L \ {h})'
  BY <1>1, ListRemoved
<1>5. ASSUME NEW S \in SUBSET (L \ {h}), Closed(S)', this_request' = NULL \/ this_request' \in S
      PROVE  S = L \ {h}
  <2>1. Closed(S \cup {h})
    BY <1>5 DEF Closed
  <2>2. S \cup {h} = L
    BY <2>1, <1>1, <1>5 DEF QueueWhole, NoneLeftOut
  <2>. QED BY <2>2
<1>. QED BY <1>3, <1>4, <1>5 DEF QueueWhole, NoneLeftOut

(* What an interrupt does to the list: nothing, or h is answered. *)
NothingAnswered ==
    /\ this_request' = this_request
    /\ \A q \in Requests : /\ request'[q].hd = request[q].hd
                           /\ request'[q].bh = request[q].bh
                           /\ request'[q].next = request[q].next
    /\ sorting /\ drive.cmd \notin {"read", "write"} => drive'.cmd \notin {"read", "write"}
HeadAnswered(h) ==
    /\ h = this_request /\ this_request' = request[h].next
    /\ request'[h].hd = -1
    /\ \A q \in Requests \ {h} : request'[q] = request[q]
    /\ drive.cmd \in {"read", "write"}
    /\ sorting => /\ request'[h].next = request[h].next
                  /\ drive'.cmd \notin {"read", "write"}

LEMMA DriveQuiet ==
  ASSUME NEW rq, NEW tr, DoRequest(tr, rq, sorting), sorting
  PROVE  drive'.cmd = "idle"
  BY DEF DoRequest, Idle

LEMMA DriveList ==
  ASSUME IInv, Drive
  PROVE  /\ pc' = pc /\ tmp' = tmp /\ cut' = cut
         /\ NothingAnswered \/ \E h \in Requests : HeadAnswered(h)
<1>. USE HasParts
<1>0. pc' = pc /\ tmp' = tmp /\ cut' = cut /\ UNCHANGED <<procVars, sorting, cut>>
  BY DEF Drive, ReadIntr, WriteIntr, ResetIntr, procVars
<1>1. ASSUME NEW h \in Requests, NEW x \in Records, this_request' = this_request,
             drive.cmd \in {"read", "write"},
             x.hd = request[h].hd, x.bh = request[h].bh, x.next = request[h].next,
             request' = [request EXCEPT ![h] = x]
      PROVE  NothingAnswered
  BY <1>1, Types DEF NothingAnswered
<1>2. ASSUME NEW h \in Requests, h = this_request, NEW x \in Records,
             x.bh = request[h].bh, x.next = request[h].next,
             NEW rq, rq = [request EXCEPT ![h] = x],
             request' = Answered(rq, h), this_request' = rq[h].next,
             drive.cmd \in {"read", "write"}, sorting => drive'.cmd \notin {"read", "write"}
      PROVE  HeadAnswered(h)
  <2>1. request' = Answered(request, h) /\ this_request' = request[h].next
    BY <1>2, AnsweredSame, Types
  <2>2. \A b, n : FreeRequest(b, n).hd = -1 /\ FreeRequest(b, n).next = n
    BY DEF FreeRequest
  <2>3. /\ \A q \in Requests \ {h} : request'[q] = request[q]
        /\ request'[h].hd = -1
        /\ sorting => request'[h].next = request[h].next
    BY <2>1, <2>2, Types DEF Answered
  <2>. QED BY <2>1, <2>3, <1>2 DEF HeadAnswered
<1>3. ASSUME this_request \in Requests, drive.cmd \in {"read", "write"}, BadRwIntr
      PROVE  NothingAnswered \/ \E h \in Requests : HeadAnswered(h)
  <2>. PICK h \in Requests : h = this_request
    BY <1>3
  <2>. PICK x : x = [request[h] EXCEPT !.errors = request[h].errors + 1]
    OBVIOUS
  <2>. PICK rq : rq = [request EXCEPT ![h] = x]
    OBVIOUS
  <2>1. /\ request \in [Requests -> Records] /\ request[h] \in Records
        /\ x.hd = request[h].hd /\ x.bh = request[h].bh /\ x.next = request[h].next
    BY Types DEF Records
  <2>2. drive' = Specify /\ drive'.cmd \notin {"read", "write"}
    BY <1>3 DEF BadRwIntr, ResetHd, Specify, Idle
  <2>3. rq = [request EXCEPT ![this_request].errors = @ + 1] /\ rq[h] = x
    BY <2>1
  <2>4. CASE request[h].errors >= MAX_ERRORS
    <3>1. request' = Answered(rq, h) /\ this_request' = rq[h].next
      BY <2>3, <2>4, <1>3 DEF BadRwIntr, Answer
    <3>2. rq[h].next = request[h].next
      BY <2>1, <2>3
    <3>3. request' = Answered(request, h)
      BY <2>1, <3>1, AnsweredSame
    <3>4. \A b, n : FreeRequest(b, n).hd = -1 /\ FreeRequest(b, n).next = n
      BY DEF FreeRequest
    <3>5. /\ \A q \in Requests \ {h} : request'[q] = request[q]
          /\ request'[h].hd = -1
          /\ sorting => request'[h].next = request[h].next
      BY <3>3, <3>4, Types DEF Answered
    <3>. QED BY <3>1, <3>2, <3>5, <2>2, <1>3 DEF HeadAnswered
  <2>5. CASE ~(request[h].errors >= MAX_ERRORS)
    <3>1. request' = rq /\ this_request' = this_request
      BY <2>3, <2>5, <1>3 DEF BadRwIntr
    <3>. QED BY <3>1, <2>1, <2>2 DEF NothingAnswered
  <2>. QED BY <2>4, <2>5
<1>4. CASE ReadIntr
  <2>1. this_request \in Requests /\ drive.cmd \in {"read", "write"}
    BY <1>4, Interrupted DEF ReadIntr
  <2>2. CASE BadRwIntr
    BY <2>1, <2>2, <1>0, <1>3
  <2>3. CASE ~(Failing \in Faults /\ BadRwIntr)
    <3>1. PICK h \in Requests, x \in Records, b \in Buffers : SectorIn(h, x, b)
      BY <1>4, <2>3, SectorRead
    <3>. PICK rq : rq = [request EXCEPT ![h] = x]
      OBVIOUS
    <3>2. /\ h = this_request /\ request[h].nsector \in {1, 2}
          /\ x.hd = request[h].hd /\ x.bh = request[h].bh /\ x.next = request[h].next
          /\ request[h].nsector = 2 => request' = rq /\ this_request' = this_request
          /\ request[h].nsector = 1 => /\ request' = Answered(rq, h)
                                       /\ this_request' = rq[h].next
                                       /\ DoRequest(request[h].next, rq, sorting)
      BY <3>1 DEF SectorIn
    <3>3. CASE request[h].nsector = 2
      BY <3>2, <3>3, <2>1, <1>0, <1>1
    <3>4. CASE request[h].nsector = 1
      <4>1. sorting => drive'.cmd \notin {"read", "write"}
        BY <3>2, <3>4, DriveQuiet
      <4>. QED BY <3>2, <3>4, <4>1, <2>1, <1>0, <1>2
    <3>. QED BY <3>2, <3>3, <3>4
  <2>. QED BY <2>2, <2>3
<1>5. CASE WriteIntr
  <2>1. this_request \in Requests /\ drive.cmd \in {"read", "write"}
    BY <1>5, Interrupted DEF WriteIntr
  <2>2. CASE BadRwIntr
    BY <2>1, <2>2, <1>0, <1>3
  <2>3. CASE ~(Failing \in Faults /\ BadRwIntr)
    <3>1. PICK h \in Requests, x \in Records : SectorOut(h, x)
      BY <1>5, <2>3, SectorWritten
    <3>. PICK rq : rq = [request EXCEPT ![h] = x]
      OBVIOUS
    <3>2. /\ h = this_request /\ request[h].nsector \in {1, 2}
          /\ x.hd = request[h].hd /\ x.bh = request[h].bh /\ x.next = request[h].next
          /\ request[h].nsector = 2 => request' = rq /\ this_request' = this_request
          /\ request[h].nsector = 1 => /\ request' = Answered(rq, h)
                                       /\ this_request' = rq[h].next
                                       /\ DoRequest(request[h].next, rq, sorting)
      BY <3>1 DEF SectorOut
    <3>3. CASE request[h].nsector = 2
      BY <3>2, <3>3, <2>1, <1>0, <1>1
    <3>4. CASE request[h].nsector = 1
      <4>1. sorting => drive'.cmd \notin {"read", "write"}
        BY <3>2, <3>4, DriveQuiet
      <4>. QED BY <3>2, <3>4, <4>1, <2>1, <1>0, <1>2
    <3>. QED BY <3>2, <3>3, <3>4
  <2>. QED BY <2>2, <2>3
<1>6. CASE ResetIntr
  <2>1. request' = request /\ this_request' = this_request
    BY <1>6 DEF ResetIntr
  <2>2. sorting => drive'.cmd \notin {"read", "write"}
    BY <1>6, DriveQuiet DEF ResetIntr
  <2>. QED BY <2>1, <2>2, <1>0 DEF NothingAnswered
<1>. QED BY <1>0, <1>4, <1>5, <1>6 DEF Drive

(* The interrupts that come while a request is being linked answer at most *)
(* one other, the one that was first when add_request() began.             *)
LEMMA WholeDrive ==
  ASSUME IInv, QueueWhole, Drive
  PROVE  QueueWhole'
<1>. USE HasParts
<1>0. pc' = pc /\ tmp' = tmp /\ cut' = cut
  BY DriveList
<1>1. \A p \in Procs : pc[p] = "add" => sorting
  BY DEF Queued, Sorting
<1>2. CASE NothingAnswered
  <2>1. Linked' = Linked /\ Linked \subseteq Requests
    BY <1>0, <1>2 DEF Linked, NothingAnswered
  <2>2. ASSUME NEW p \in Procs PROVE FirstKnown(p)'
    BY <1>0, <1>1, <1>2 DEF FirstKnown, QueueWhole, NothingAnswered
  <2>3. Kept' = Kept /\ (cut \subseteq Linked)'
    BY <2>1, <1>0 DEF Kept, QueueWhole
  <2>4. this_request' = this_request /\ \A q \in Kept : request'[q].next = request[q].next
    BY <2>1, <1>2 DEF Kept, NothingAnswered
  <2>. QED BY <2>2, <2>3, <2>4, WholeKept
<1>3. ASSUME NEW h \in Requests, HeadAnswered(h) PROVE QueueWhole'
  <2>1. ASSUME NEW p \in Procs PROVE FirstKnown(p)'
    <3>. SUFFICES ASSUME pc[p] = "add"
                  PROVE  /\ tmp[p] \in Requests /\ request'[tmp[p]].hd = -1
                         /\ request'[tmp[p]].next = this_request'
                         /\ drive'.cmd \notin {"read", "write"}
      BY <1>0 DEF FirstKnown
    <3>1. tmp[p] = h
      BY <1>3 DEF FirstKnown, QueueWhole, HeadAnswered
    <3>. QED BY <3>1, <1>1, <1>3 DEF HeadAnswered
  <2>. QED BY <2>1, <1>0, <1>3, WholeAnswered DEF HeadAnswered
<1>. QED BY <1>2, <1>3, DriveList

(* A request is linked: its place is found on the list, or there is only   *)
(* an answered request to link it behind.                                  *)
LEMMA WholeLink ==
  ASSUME IInv, QueueWhole, NEW p \in Procs, Link(p)
  PROVE  QueueWhole'
<1>. USE HasParts
<1>. PICK L \in SUBSET Requests : L = Kept
  BY DEF Kept, Linked
<1>. PICK r : r = req[p]
  OBVIOUS
<1>0. /\ pc[p] = "add" /\ MayRun(p) /\ pc' = [pc EXCEPT ![p] = "linked"]
      /\ ListOf(L) /\ FirstKnown(p) /\ cut \subseteq Linked
  BY DEF Link, At, Goto, QueueWhole
<1>1. /\ r \in Requests /\ request[r].hd = 0 /\ request[r].bh = p /\ request[r].next = NULL
      /\ tmp[p] = NULL => this_request = NULL
  BY <1>0 DEF Queued, AddSound
<1>2. pc'[p] = "linked" /\ \A q \in Procs \ {p} : pc'[q] = pc[q] /\ pc[q] # "add"
  BY <1>0 DEF TypeOK, MayRun, InKernel
<1>3. r \notin Linked /\ \A s \in Requests : request[s].hd = 0 /\ s # r => request[s].bh \in Procs \ {p}
  BY <1>0, <1>1 DEF Linked, Queued, RequestsOwned
<1>4. Linked' = Linked \cup {r}
  <2>1. \A s \in Requests : request'[s].hd = request[s].hd /\ request'[s].bh = request[s].bh
    BY LinkOwners
  <2>. QED BY <2>1, <1>1, <1>2, <1>3 DEF Linked
<1>5. \A q \in Procs : FirstKnown(q)'
  BY <1>2 DEF FirstKnown
<1>6. r \notin L /\ L \subseteq Linked /\ \A s \in L : request[s].hd = 0
  BY <1>3 DEF Kept, Linked
<1>7. CASE tmp[p] = NULL
  <2>1. L = {}
    <3>1. Closed({})
      BY DEF Closed
    <3>2. {} \in SUBSET Kept
      OBVIOUS
    <3>. QED BY <3>1, <3>2, <1>1, <1>7 DEF QueueWhole, NoneLeftOut
  <2>2. this_request' = r /\ request' = request /\ cut' = cut
    BY <1>7 DEF Link
  <2>3. ListOf({r})'
    BY <2>2, <1>1, NoNull DEF ListOf, Closed, NoLoop
  <2>4. Kept' = {r} /\ (cut \subseteq Linked)'
    BY <2>1, <2>2, <1>0, <1>3, <1>4 DEF Kept
  <2>. QED BY <2>2, <2>3, <2>4, <1>1, <1>5, NoNull DEF QueueWhole, NoneLeftOut
<1>8. CASE tmp[p] # NULL
  <2>1. PICK b \in Requests \ {r} : /\ b = Behind(r, tmp[p]) /\ LinkedBehind(r, b)
                                    /\ this_request' = this_request
    BY <1>1, <1>8, LinkBehind
  <2>2. cut' = IF request[b].hd = -1 THEN cut \cup {r} ELSE cut
    BY <2>1, <1>8 DEF Link
  <2>3. CASE this_request = NULL
    <3>1. /\ tmp[p] \in Requests /\ request[tmp[p]].hd = -1
          /\ request[tmp[p]].next = NULL
      BY <2>3, <1>0, <1>8 DEF FirstKnown
    <3>2. b = tmp[p] /\ cut' = cut \cup {r}
      BY <3>1, <2>1, <2>2 DEF Behind
    <3>3. Kept' = Kept /\ (cut \subseteq Linked)'
      BY <3>2, <1>0, <1>3, <1>4 DEF Kept
    <3>4. \A q \in L : request'[q].next = request[q].next
      BY <3>1, <3>2, <2>1, <1>6 DEF LinkedBehind
    <3>. QED BY <3>3, <3>4, <2>1, <1>5, WholeKept
  <2>4. CASE this_request # NULL
    <3>1. this_request \in L /\ Closed(L) /\ NoLoop(L)
      BY <2>4, <1>0 DEF ListOf
    <3>2. tmp[p] \in L \/ request[tmp[p]].next \in L
      BY <3>1, <1>0 DEF FirstKnown
    <3>3. b \in L
      BY <2>1, <3>1, <3>2, BehindInList
    <3>4. Kept' = L \cup {r} /\ (cut \subseteq Linked)'
      <4>1. cut' = cut
        BY <3>3, <2>2, <1>6
      <4>. QED BY <4>1, <1>0, <1>3, <1>4 DEF Kept
    <3>5. ListOf(L \cup {r})'
      BY <2>1, <3>3, <1>0, <1>1, <1>6, ListInserted
    <3>6. /\ request'[r].next = request[b].next /\ request'[b].next = r
          /\ \A s \in L \ {b} : request'[s].next = request[s].next
          /\ \A s \in L : request[s].next # r
      BY <2>1, <3>1, <3>3, <1>1, <1>6, NoNull DEF LinkedBehind, Closed
    <3>7. ASSUME NEW S \in SUBSET (L \cup {r}), Closed(S)', this_request \in S
          PROVE  S = L \cup {r}
      <4>1. Closed(S \ {r})
        <5>. SUFFICES ASSUME NEW s \in S \ {r}
                      PROVE  request[s].next \in (S \ {r}) \cup {NULL}
          BY DEF Closed
        <5>1. request'[s].next \in S \cup {NULL}
          BY <3>7 DEF Closed
        <5>2. CASE s # b
          BY <5>1, <5>2, <3>6
        <5>3. CASE s = b
          <6>1. r \in S
            BY <5>1, <5>3, <3>6, <1>1, NoNull
          <6>2. request'[r].next \in S \cup {NULL}
            BY <6>1, <3>7 DEF Closed
          <6>. QED BY <5>3, <6>2, <3>6, <3>3
        <5>. QED BY <5>2, <5>3
      <4>2. S \ {r} = L
        BY <4>1, <3>7, <3>1, <1>6 DEF QueueWhole, NoneLeftOut
      <4>3. r \in S
        BY <4>2, <3>3, <3>6, <3>7, <1>1, NoNull DEF Closed
      <4>. QED BY <4>2, <4>3
    <3>. QED BY <2>1, <2>4, <3>4, <3>5, <3>7, <1>5 DEF QueueWhole, NoneLeftOut
  <2>. QED BY <2>3, <2>4
<1>. QED BY <1>7, <1>8

(* The other steps of the processes. *)
LEMMA WholeProcs ==
  ASSUME IInv, QueueWhole, NEW p \in Procs,
         \/ Step(p) /\ ~Link(p)
         \/ \E rw \in {"read", "write"} : Issue(p, rw)
         \/ \E d \in Contents : Modify(p, d)
  PROVE  QueueWhole'
<1>. USE HasParts
<1>0. this_request' = this_request /\ cut' = cut
  BY DEF Step, TakeRequest, NoRequest, SleepOn, WakeFromSleep, Restart, Return, Issue, Modify
<1>1. MayRun(p)
  BY DEF Step, TakeRequest, NoRequest, SleepOn, WakeFromSleep, Restart, Return, Issue,
         Modify, At
<1>2. \A q \in Procs \ {p} : pc[q] # "add"
  BY <1>1 DEF MayRun, InKernel
<1>3. CASE TakeRequest(p)
  <2>1. PICK r \in Free :
          /\ request' = [request EXCEPT ![r] =
                           [hd |-> 0, bh |-> p, cmd |-> buf[p].cmd, nsector |-> 2,
                            errors |-> 0, next |-> NULL]]
    BY <1>3 DEF TakeRequest
  <2>2. /\ pc[p] = "slot" /\ pc' = [pc EXCEPT ![p] = "add"]
        /\ tmp' = [tmp EXCEPT ![p] = this_request]
    BY <1>3 DEF TakeRequest, At, Goto
  <2>3. r \in Requests /\ request[r].hd # 0 /\ Mine(p) = {}
    BY <2>2, NoneMine DEF Free, Queued
  <2>4. /\ request'[r].hd = 0 /\ request'[r].bh = p
        /\ \A q \in Requests \ {r} : request'[q] = request[q]
        /\ pc'[p] = "add" /\ tmp'[p] = this_request
        /\ \A q \in Procs \ {p} : pc'[q] = pc[q]
    BY <2>1, <2>2, <2>3 DEF TypeOK
  <2>5. Linked' = Linked /\ r \notin Linked
    <3>1. \A q \in Requests : request[q].hd = 0 => request[q].bh \in Procs \ {p}
      BY <2>3 DEF Queued, RequestsOwned, Mine
    <3>. QED BY <3>1, <2>3, <2>4 DEF Linked
  <2>6. \A q \in Kept : request'[q].next = request[q].next
    BY <2>4, <2>5 DEF Kept, Linked
  <2>7. \A q \in Procs : FirstKnown(q)'
    BY <2>4, <1>0, <1>2 DEF FirstKnown
  <2>8. Kept' = Kept /\ (cut \subseteq Linked)'
    BY <2>5, <1>0 DEF Kept, QueueWhole
  <2>. QED BY <2>6, <2>7, <2>8, <1>0, WholeKept
<1>4. CASE ~TakeRequest(p)
  <2>1. request' = request
    BY <1>4 DEF Step, NoRequest, SleepOn, WakeFromSleep, Restart, Return, Issue, Modify
  <2>2. \/ pc' = pc
        \/ pc[p] \in {"idle", "slot", "full", "asleep"} /\ pc' = [pc EXCEPT ![p] = "slot"]
        \/ pc[p] = "slot" /\ pc' = [pc EXCEPT ![p] = "full"]
        \/ pc[p] = "full" /\ pc' = [pc EXCEPT ![p] = "asleep"]
        \/ pc[p] = "linked" /\ pc' = [pc EXCEPT ![p] = "wait"]
        \/ pc[p] = "wait" /\ ~buf[p].lock /\ pc' = [pc EXCEPT ![p] = "idle"]
    BY <1>4 DEF Step, NoRequest, SleepOn, WakeFromSleep, Restart, Return, Issue, Modify,
                At, Goto, procVars
  <2>3. CASE pc' = pc
    <3>1. Linked' = Linked
      BY <2>1, <2>3 DEF Linked
    <3>2. pc[p] # "add"
      BY <2>3, <1>4 DEF Step, NoRequest, SleepOn, WakeFromSleep, Restart, Return, Issue,
                        Modify, At
    <3>3. \A q \in Procs : FirstKnown(q)'
      BY <2>3, <3>2, <1>2 DEF FirstKnown
    <3>. QED BY <2>1, <3>1, <3>3, <1>0, WholeKept DEF Kept, QueueWhole
  <2>4. CASE pc' # pc
    <3>1. pc'[p] # "add" /\ \A q \in Procs \ {p} : pc'[q] = pc[q]
      BY <2>2, <2>4 DEF TypeOK
    <3>2. Linked' = Linked
      <4>1. CASE pc[p] = "linked" /\ pc'[p] = "wait"
        BY <2>1, <3>1, <4>1 DEF Linked, Queued, RequestsOwned
      <4>2. CASE Mine(p) = {}
        <5>1. \A q \in Requests : request[q].hd = 0 => request[q].bh \in Procs \ {p}
          BY <4>2 DEF Queued, RequestsOwned, Mine
        <5>. QED BY <5>1, <2>1, <3>1 DEF Linked
      <4>3. (pc[p] = "linked" /\ pc'[p] = "wait") \/ Mine(p) = {}
        BY <2>2, <2>4, NoneMine DEF TypeOK, Queued, BuffersLocked
      <4>. QED BY <4>1, <4>2, <4>3
    <3>3. \A q \in Procs : FirstKnown(q)'
      BY <3>1, <1>2 DEF FirstKnown
    <3>. QED BY <2>1, <3>2, <3>3, <1>0, WholeKept DEF Kept, QueueWhole
  <2>. QED BY <2>3, <2>4
<1>. QED BY <1>3, <1>4

(* Whenever interrupts arrive, the list leads once to every request that   *)
(* add_request() did not link behind an answered one, and to nothing else. *)
THEOREM QueueIsSound == Spec => []QueueSound
<1>1. Init => QueueWhole
  <2>. SUFFICES ASSUME Init PROVE QueueWhole
    OBVIOUS
  <2>1. Linked = {} /\ Kept = {} /\ cut = {}
    BY DEF Init, Linked, Kept, FreeRequest
  <2>2. this_request = NULL /\ \A p \in Procs : pc[p] = "idle"
    BY DEF Init
  <2>. QED BY <2>1, <2>2 DEF QueueWhole, FirstKnown, NoneLeftOut, ListOf, Closed, NoLoop
<1>2. IInv /\ QueueWhole /\ [Next]_vars => QueueWhole'
  <2>. SUFFICES ASSUME IInv, QueueWhole, [Next]_vars PROVE QueueWhole'
    OBVIOUS
  <2>1. CASE UNCHANGED vars
    <3>1. /\ request' = request /\ this_request' = this_request /\ pc' = pc /\ tmp' = tmp
          /\ drive' = drive /\ cut' = cut
      BY <2>1 DEF vars
    <3>2. Linked' = Linked
      BY <3>1 DEF Linked
    <3>3. \A p \in Procs : FirstKnown(p)'
      BY <3>1 DEF FirstKnown, QueueWhole
    <3>. QED BY <3>1, <3>2, <3>3, WholeKept DEF Kept, QueueWhole
  <2>2. CASE Drive
    BY <2>2, WholeDrive
  <2>3. ASSUME NEW p \in Procs, Link(p) PROVE QueueWhole'
    BY <2>3, WholeLink
  <2>. QED BY <2>1, <2>2, <2>3, WholeProcs DEF Next
<1>3. IInv /\ QueueWhole => QueueSound
  <2>. SUFFICES ASSUME IInv, QueueWhole PROVE QueueSound
    OBVIOUS
  <2>1. ListOf(Kept) /\ NoneLeftOut /\ TypeOK
    BY DEF QueueWhole, IInv
  <2>. QED BY <2>1 DEF ListOf, NoLoop, NoneLeftOut, QueueSound
<1>. QED BY <1>1, <1>2, <1>3, Inductive, PTL DEF Spec

-----------------------------------------------------------------------------
(* The drive *)

(* After do_request() the drive has a command, or there is no handler, or  *)
(* a process is sorting.                                                   *)
LEMMA StallsNot ==
  ASSUME NEW rq \in [Requests -> Records], NEW tr \in Requests \cup {NULL},
         DoRequest(tr, rq, sorting), ~sorting
  PROVE  do_hd' = "NULL" \/ drive' # Idle
<1>1. tr # NULL => rq[tr].cmd \in {"read", "write"}
  BY DEF Records
<1>2. tr # NULL => Command(rq, tr).cmd # Idle.cmd
  BY <1>1 DEF Command, Idle
<1>3. Specify.cmd # Idle.cmd
  BY DEF Specify, Idle
<1>. QED BY <1>2, <1>3 DEF DoRequest

(* The drive stalls only when an interrupt has come while add_request()    *)
(* sorted: whenever interrupts arrive, whatever the drive does wrong.      *)
THEOREM StallsOnly == Spec => StallsOnlyBySorting
<1>1. IInv /\ [Next]_vars => [Stalled' => Stalled \/ sorting]_vars
  <2>. SUFFICES ASSUME IInv, Next, Stalled', ~sorting PROVE Stalled
    OBVIOUS
  <2>. USE HasParts
  <2>0. request \in [Requests -> Records]
    BY Types
  <2>1. ASSUME NEW p \in Procs, Step(p) PROVE Stalled
    <3>1. ~Link(p) /\ ~Restart(p)
      BY DEF Link, Restart, At, Queued, Sorting
    <3>2. do_hd' = do_hd /\ drive' = drive
      BY <2>1, <3>1 DEF Step, TakeRequest, NoRequest, SleepOn, WakeFromSleep, Return
    <3>. QED BY <3>2 DEF Stalled
  <2>2. ASSUME NEW p \in Procs, NEW rw, Issue(p, rw) PROVE Stalled
    BY <2>2 DEF Issue, Stalled
  <2>3. ASSUME NEW p \in Procs, NEW d, Modify(p, d) PROVE Stalled
    BY <2>3 DEF Modify, Stalled
  <2>4. CASE Drive
    <3>. SUFFICES do_hd' = "NULL" \/ drive' # Idle
      BY DEF Stalled
    <3>1. CASE BadRwIntr
      BY <3>1 DEF BadRwIntr, ResetHd, Specify, Idle
    <3>2. NextSector # Idle
      <4>1. drive \in Commands
        BY Types
      <4>2. NextSector.left = 1 /\ Idle.left = 0
        BY <4>1 DEF NextSector, Idle, Commands
      <4>. QED BY <4>2
    <3>3. CASE ReadIntr /\ ~BadRwIntr
      <4>1. PICK h \in Requests, x \in Records, b \in Buffers : SectorIn(h, x, b)
        BY <3>3, SectorRead
      <4>. PICK rq : rq = [request EXCEPT ![h] = x]
        OBVIOUS
      <4>2. /\ request[h].nsector \in {1, 2} /\ h = this_request
            /\ request[h].nsector = 2 => drive' = NextSector
            /\ request[h].nsector = 1 => DoRequest(request[h].next, rq, sorting)
        BY <4>1 DEF SectorIn
      <4>3. rq \in [Requests -> Records]
        BY <2>0
      <4>4. request[h].next \in Requests \cup {NULL}
        BY <2>0 DEF Records
      <4>. QED BY <4>2, <4>3, <4>4, <3>2, StallsNot
    <3>4. CASE WriteIntr /\ ~BadRwIntr
      <4>1. PICK h \in Requests, x \in Records : SectorOut(h, x)
        BY <3>4, SectorWritten
      <4>. PICK rq : rq = [request EXCEPT ![h] = x]
        OBVIOUS
      <4>2. /\ request[h].nsector \in {1, 2} /\ h = this_request
            /\ request[h].nsector = 2 => drive' = NextSector
            /\ request[h].nsector = 1 => DoRequest(request[h].next, rq, sorting)
        BY <4>1 DEF SectorOut
      <4>3. rq \in [Requests -> Records]
        BY <2>0
      <4>4. request[h].next \in Requests \cup {NULL}
        BY <2>0 DEF Records
      <4>. QED BY <4>2, <4>3, <4>4, <3>2, StallsNot
    <3>5. CASE ResetIntr
      <4>1. DoRequest(this_request, request, sorting)
        BY <3>5 DEF ResetIntr
      <4>2. this_request \in Requests \cup {NULL}
        BY DEF TypeOK
      <4>. QED BY <4>1, <4>2, <2>0, StallsNot
    <3>. QED BY <2>4, <3>1, <3>3, <3>4, <3>5 DEF Drive
  <2>. QED BY <2>1, <2>2, <2>3, <2>4 DEF Next
<1>. QED BY <1>1, Inductive, PTL DEF Spec, StallsOnlyBySorting
=============================================================================
