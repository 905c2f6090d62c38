----------------------------- MODULE VideoChat -----------------------------
(***************************************************************************)
(* The video chat of HW05, p2p_video_chat/app.py: the session of one peer. *)
(*                                                                         *)
(* The routes / , /join, /switch_room and /leave are served by threads of  *)
(* their own.  They start and stop the background threads and keep         *)
(* my_info; config_lock is held by all that do so, but not around all that *)
(* they look at.  Of the background threads, discovery listens to the      *)
(* other peers, and blocks until one of them is heard: the timeout is set  *)
(* on the other socket.  The publisher stands for the three that look at   *)
(* shutdown_flag all the time.                                             *)
(*                                                                         *)
(* Frames and the events for the browser are not in the model; nor is      *)
(* time: a thread that waits for a peer can always be waited for longer    *)
(* than join() does, and any peer that was not just heard can be too old.  *)
(***************************************************************************)
EXTENDS Integers, FiniteSets

CONSTANTS Requests,   \* threads that serve requests
          Rooms,
          Peers,      \* the other peers
          MaxStarts   \* how often the background threads are started

None == "none"

ASSUME VideoChatAssumption ==
    /\ IsFiniteSet(Requests) /\ MaxStarts \in Nat
    /\ None \notin Rooms \cup Peers \cup Requests

VARIABLES
    my_info,         \* the room, and whether address and port are there
    threads_started, shutdown_flag,
    config_lock,     \* the request that holds it
    threads,         \* the start whose threads are listed, 0 when none is
    starts,          \* the number of starts
    discovery,       \* discovery[g]: the discovery thread of start g
    publisher,       \* publisher[g]: its publisher
    peers,           \* the peers known, with the room they announced
    frame_queues,    \* the peers that have one
    req,             \* req[q]: what request q does
    outlived         \* the kinds of threads that were once still there after join()

flags == <<threads_started, shutdown_flag>>
background == <<threads, starts, discovery, publisher>>
vars == <<my_info, flags, config_lock, background, peers, frame_queues, req, outlived>>

Starts == 1..MaxStarts
NoInfo == [room |-> None, whole |-> FALSE]
Idle == [pc |-> "idle", route |-> None, room |-> None]
NotStarted == [pc |-> None, room |-> None, peer |-> None]
Dead == [NotStarted EXCEPT !.pc = "dead"]

Init ==
    /\ my_info = NoInfo /\ threads_started = FALSE /\ shutdown_flag = FALSE
    /\ config_lock = None /\ threads = 0 /\ starts = 0
    /\ discovery = [g \in Starts |-> NotStarted] /\ publisher = [g \in Starts |-> None]
    /\ peers = {} /\ frame_queues = {}
    /\ req = [q \in Requests |-> Idle] /\ outlived = {}

At(q, l) == req[q].pc = l
Goto(q, l) == req' = [req EXCEPT ![q].pc = l]
Answer(q) == req' = [req EXCEPT ![q] = Idle]
(* A step of a request that changes only where it is, or my_info too.      *)
Stays == UNCHANGED <<flags, config_lock, background, peers, frame_queues, outlived>>
Looks == Stays /\ UNCHANGED my_info
(* A step under the lock, and the end of it.                               *)
Release(q) == config_lock' = None /\ Answer(q)
GoesOn(q, l) == Goto(q, l) /\ UNCHANGED config_lock

-----------------------------------------------------------------------------
(* The requests *)

(* A switch whose body is no JSON raises an exception; the handler of that  *)
(* ends the session.                                                       *)
Routes == {"main", "join", "switch", "bad switch", "leave"}
Waiting == Cardinality({q \in Requests : req[q].route \in {"join", "switch"}})
Request(q) ==
    /\ At(q, "idle")
    /\ \E route \in Routes, room \in Rooms \cup {None} :
         /\ IF route \in {"join", "switch"} THEN room # None /\ starts + Waiting < MaxStarts
                                            ELSE room = None
         /\ req' = [req EXCEPT ![q] = [pc |-> CASE route = "main" -> "look"
                                              [] route \in {"switch", "bad switch"} -> "check"
                                              [] OTHER -> "lock",
                                       route |-> route, room |-> room]]
    /\ Looks

(* main_page(): without the lock it looks whether there is a session, and  *)
(* clears my_info when there is none.                                      *)
MainLooks(q) ==
    /\ At(q, "look") /\ Goto(q, IF my_info = NoInfo THEN "setup" ELSE "started?") /\ Looks
MainShowsChat(q) ==
    /\ At(q, "started?") /\ Looks
    /\ \/ threads_started /\ Answer(q)
       \/ ~threads_started /\ Goto(q, "setup")
MainShowsSetup(q) ==
    /\ At(q, "setup") /\ Looks /\ Goto(q, IF threads_started THEN "lock" ELSE "clear")
MainClears(q) ==
    /\ At(q, "clear") /\ my_info' = NoInfo /\ Answer(q) /\ Stays

(* switch_room() looks before it takes the lock. *)
SwitchChecks(q) ==
    /\ At(q, "check") /\ Looks
    /\ IF threads_started /\ my_info # NoInfo THEN Goto(q, "lock") ELSE Answer(q)

\* faulty: nobody waits for the lock
LockIgnored == TRUE
LockFree == config_lock = None
(* The lock is taken.  A switch to the same room with the same name ends   *)
(* here; leave_chat() clears my_info first.                                *)
Locked(q) ==
    /\ At(q, "lock") /\ LockFree
    /\ \/ /\ req[q].route = "switch" /\ my_info.room = req[q].room
          /\ Answer(q) /\ UNCHANGED <<my_info, config_lock>>
       \/ /\ config_lock' = q
          /\ Goto(q, IF req[q].route = "join" /\ ~threads_started THEN "configure" ELSE "stop")
          /\ my_info' = IF req[q].route = "leave" THEN NoInfo ELSE my_info
    /\ UNCHANGED <<flags, background, peers, frame_queues, outlived>>

(* stop_background_threads(): join() waits for two seconds, enough for a   *)
(* thread that is told and looks at the flag, but not for discovery in     *)
(* recvfrom() nor for a publisher in VideoCapture() or read(), both of     *)
(* which can take as long as they like; then it goes on without them.      *)
AfterStop(q) ==
    CASE req[q].route \in {"main", "bad switch"} -> GoesOn(q, "forget")
      [] req[q].route = "leave" -> Release(q)
      [] OTHER -> GoesOn(q, "configure")
StopBegins(q) ==
    /\ At(q, "stop")
    /\ \/ ~threads_started /\ AfterStop(q) /\ UNCHANGED shutdown_flag
       \/ threads_started /\ GoesOn(q, "join") /\ shutdown_flag' = TRUE
    /\ UNCHANGED <<my_info, threads_started, background, peers, frame_queues, outlived>>

Ended(g) == publisher[g] \in {"dead", "refused"}
\* faulty: join() without a timeout
Joined(g) == discovery[g].pc = "dead" /\ Ended(g)
JoinReturns(g) == discovery[g].pc \in {"dead", "recv"} /\ publisher[g] # "wait"
(* Those of the threads of start g that join() has not seen the end of.    *)
Survivors(g) ==
    (IF discovery[g].pc # "dead" THEN {"discovery"} ELSE {})
    \cup (IF ~Ended(g) THEN {"publisher"} ELSE {})
StopJoins(q) ==
    /\ At(q, "join")
    /\ threads = 0 \/ JoinReturns(threads)
    /\ outlived' = IF threads = 0 THEN outlived ELSE outlived \cup Survivors(threads)
    /\ threads_started' = FALSE /\ threads' = 0 /\ GoesOn(q, "clear peers")
    /\ UNCHANGED <<my_info, shutdown_flag, starts, discovery, publisher, peers, frame_queues>>
\* faulty: the peers of the session are kept
PeersStay == UNCHANGED peers
PeersCleared == peers' = {}
StopClearsPeers(q) ==
    /\ At(q, "clear peers") /\ GoesOn(q, "clear queues") /\ PeersCleared
    /\ UNCHANGED <<my_info, flags, background, frame_queues, outlived>>
QueuesCleared == frame_queues' = {}
StopClearsQueues(q) ==
    /\ At(q, "clear queues") /\ AfterStop(q) /\ QueuesCleared
    /\ UNCHANGED <<my_info, flags, background, peers, outlived>>
(* The page for the setup is shown. *)
MainForgets(q) ==
    /\ At(q, "forget") /\ my_info' = NoInfo /\ Release(q)
    /\ UNCHANGED <<flags, background, peers, frame_queues, outlived>>

(* join_chat() fills in all of my_info, switch_room() room and name.       *)
Configure(q) ==
    /\ At(q, "configure") /\ GoesOn(q, "start")
    /\ my_info' = [room |-> req[q].room,
                   whole |-> req[q].route = "join" \/ my_info.whole]
    /\ UNCHANGED <<flags, background, peers, frame_queues, outlived>>

(* start_background_threads() *)
Start(q) ==
    /\ At(q, "start")
    /\ \/ /\ my_info = NoInfo /\ Release(q)
          /\ UNCHANGED <<shutdown_flag, background>>
       \/ /\ my_info # NoInfo /\ GoesOn(q, "set")
          /\ shutdown_flag' = FALSE
          /\ starts' = starts + 1 /\ threads' = starts'
          /\ discovery' = [discovery EXCEPT ![starts'].pc = "wait"]
          /\ publisher' = [publisher EXCEPT ![starts'] = "wait"]
    /\ UNCHANGED <<my_info, threads_started, peers, frame_queues, outlived>>
StartEnds(q) ==
    /\ At(q, "set") /\ threads_started' = TRUE /\ Release(q)
    /\ UNCHANGED <<my_info, shutdown_flag, background, peers, frame_queues, outlived>>

-----------------------------------------------------------------------------
(* The threads of start g *)

CanRun == ~shutdown_flag /\ my_info.whole
UnchangedByThreads ==
    UNCHANGED <<my_info, flags, config_lock, threads, starts, req, outlived>>

(* The publisher binds its port, opens the camera and publishes.           *)
Publish(g) ==
    /\ publisher[g] = "wait" /\ threads_started
    /\ publisher' = [publisher EXCEPT ![g] =
           IF ~CanRun THEN "dead"
           ELSE IF \E h \in Starts : publisher[h] = "run" THEN "refused" ELSE "run"]
    /\ UnchangedByThreads /\ UNCHANGED <<discovery, peers, frame_queues>>

(* It ends and gives the port back when it sees the flag, which it does    *)
(* only between two frames, or when the camera fails.                      *)
PublisherEnds(g) ==
    /\ publisher[g] = "run" /\ publisher' = [publisher EXCEPT ![g] = "dead"]
    /\ UnchangedByThreads /\ UNCHANGED <<discovery, peers, frame_queues>>

Thread(g, l) == discovery[g].pc = l
ThreadGoto(g, l) == discovery' = [discovery EXCEPT ![g].pc = l]
DiscoveryBegins(g) ==
    /\ Thread(g, "wait") /\ threads_started
    /\ discovery' = [discovery EXCEPT ![g] =
           IF CanRun THEN [pc |-> "loop", room |-> my_info.room, peer |-> None]
           ELSE Dead]
    /\ UnchangedByThreads /\ UNCHANGED <<publisher, peers, frame_queues>>
DiscoveryLoop(g) ==
    /\ Thread(g, "loop")
    /\ discovery' = [discovery EXCEPT ![g] =
           IF shutdown_flag THEN Dead ELSE [@ EXCEPT !.pc = "recv"]]
    /\ UnchangedByThreads /\ UNCHANGED <<publisher, peers, frame_queues>>

(* A message of its own, or with a wrong id, is ignored at once. *)
HearsItself(g) ==
    /\ Thread(g, "recv") /\ ThreadGoto(g, "loop")
    /\ UnchangedByThreads /\ UNCHANGED <<publisher, peers, frame_queues>>
Known(p) == \E e \in peers : e.id = p
(* Peer p is heard, in its room r; messages for other rooms are ignored.   *)
Hears(g) ==
    /\ Thread(g, "recv")
    /\ \E p \in Peers, r \in Rooms :
         \/ /\ r # discovery[g].room
            /\ discovery' = [discovery EXCEPT ![g].pc = "expire", ![g].peer = None]
            /\ UNCHANGED peers
         \/ /\ r = discovery[g].room
            /\ peers' = {e \in peers : e.id # p} \cup {[id |-> p, room |-> r]}
            /\ discovery' = [discovery EXCEPT ![g].pc = IF Known(p) THEN "expire" ELSE "new",
                                              ![g].peer = p]
    /\ UnchangedByThreads /\ UNCHANGED <<publisher, frame_queues>>
AddsQueue(g) ==
    /\ Thread(g, "new") /\ ThreadGoto(g, "expire")
    /\ frame_queues' = frame_queues \cup {discovery[g].peer}
    /\ UnchangedByThreads /\ UNCHANGED <<publisher, peers>>
(* The peers in Old have not been heard for long. *)
Expires(g) ==
    /\ Thread(g, "expire")
    /\ discovery' = [discovery EXCEPT ![g].pc = "loop", ![g].peer = None]
    /\ \E Old \in SUBSET ({e.id : e \in peers} \ {discovery[g].peer}) :
         /\ peers' = {e \in peers : e.id \notin Old}
         /\ frame_queues' = frame_queues \ Old
    /\ UnchangedByThreads /\ UNCHANGED publisher

-----------------------------------------------------------------------------
Serve(q) ==
    \/ MainLooks(q) \/ MainShowsChat(q) \/ MainShowsSetup(q) \/ MainClears(q)
    \/ SwitchChecks(q) \/ Locked(q)
    \/ StopBegins(q) \/ StopJoins(q) \/ StopClearsPeers(q) \/ StopClearsQueues(q) \/ MainForgets(q)
    \/ Configure(q) \/ Start(q) \/ StartEnds(q)
Discover(g) == DiscoveryBegins(g) \/ DiscoveryLoop(g) \/ AddsQueue(g) \/ Expires(g)

Next ==
    \/ \E q \in Requests : Request(q) \/ Serve(q)
    \/ \E g \in Starts : Publish(g) \/ PublisherEnds(g) \/ Discover(g) \/ HearsItself(g) \/ Hears(g)

(* Threads that can go on do; nobody need ever be heard, make a request or *)
(* get the lock that another one wants too, and no camera need ever answer. *)
Spec ==
    /\ Init /\ [][Next]_vars
    /\ \A q \in Requests : WF_vars(Serve(q))
    /\ \A g \in Starts : WF_vars(Publish(g)) /\ WF_vars(Discover(g))

-----------------------------------------------------------------------------
Session == threads_started /\ config_lock = None /\ my_info # NoInfo

(* As long as no discovery thread outlives its session, the peers known    *)
(* are those of the room that one has joined, and every one of them has a  *)
(* queue for its frames or is just getting it, and nobody else has         *)
(* (discovery_thread, stop_background_threads).                            *)
SessionIsClean ==
    "discovery" \notin outlived =>
        /\ Session => \A e \in peers : e.room = my_info.room
        /\ (\A q \in Requests : req[q].pc # "clear queues") =>
             {e.id : e \in peers}
             = frame_queues \cup {discovery[g].peer : g \in {h \in Starts : Thread(h, "new")}}

(* The port is not asked for while a publisher has it, whoever joins,      *)
(* switches, leaves or opens the page at the same time (config_lock), as   *)
(* long as no publisher that the camera keeps outlives its session.        *)
PortIsFree ==
    "publisher" \notin outlived => \A g \in Starts : publisher[g] # "refused"

(* Whoever holds the lock gives it back, though the threads that are to be *)
(* stopped wait for a message or a picture that need not come              *)
(* (stop_background_threads).                                              *)
LockReleased == config_lock # None ~> config_lock = None

(* "Signals all background threads to stop and waits for them, clearing    *)
(* state" (app.py:610): then a session knows nobody of an earlier one.     *)
(* The code gives up waiting after two seconds.                            *)
StateCleared == Session => \A e \in peers : e.room = my_info.room

(* "Ensure user is already in a session before allowing switch"            *)
(* (app.py:735): then what a switch leaves in my_info has the address and  *)
(* the port of that session.  The code looks before it has the lock.       *)
SwitchesInSession == my_info # NoInfo => my_info.whole
=============================================================================
