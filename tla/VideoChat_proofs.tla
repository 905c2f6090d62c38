-------------------------- MODULE VideoChat_proofs --------------------------
(***************************************************************************)
(* However requests interleave, there is one publisher unless the camera   *)
(* has kept one for too long, and a session that no discovery thread of an *)
(* earlier one has outlived knows the peers of its own room.  IInv says which request is where while the threads of a  *)
(* session are being stopped or started: the flags alone do not tell.      *)
(***************************************************************************)
EXTENDS VideoChat, FiniteSetTheorems, TLAPS

(* Where a request and a discovery thread can be. *)
Inside == {"stop", "join", "clear peers", "clear queues", "forget", "configure", "start", "set"}
Stopped == Inside \ {"stop", "join"}
Running == {"loop", "recv", "new", "expire"}
Infos == [room : Rooms \cup {None}, whole : BOOLEAN]
Reqs == [pc : {"idle", "look", "started?", "setup", "clear", "check", "lock"} \cup Inside,
         route : Routes \cup {None}, room : Rooms \cup {None}]
Threads == [pc : {None, "dead", "wait"} \cup Running, room : Rooms \cup {None},
            peer : Peers \cup {None}]
Typed ==
    /\ my_info \in Infos
    /\ threads_started \in BOOLEAN /\ shutdown_flag \in BOOLEAN
    /\ outlived \subseteq {"discovery", "publisher"}
    /\ config_lock \in Requests \cup {None}
    /\ threads \in Nat /\ starts \in Nat
    /\ discovery \in [Starts -> Threads]
    /\ publisher \in [Starts -> {None, "wait", "run", "dead", "refused"}]
    /\ peers \subseteq [id : Peers, room : Rooms]
    /\ frame_queues \subseteq Peers \cup {None}
    /\ req \in [Requests -> Reqs]

(* A request knows its route, and there are starts left for those that may *)
(* start the threads.                                                      *)
Starters == {q \in Requests : req[q].route \in {"join", "switch"} /\ ~At(q, "set")}
StartsLeft ==
    /\ starts + Cardinality(Starters) <= MaxStarts
    /\ \A q \in Requests : /\ ~At(q, "idle") => req[q].route \in Routes
                           /\ req[q].pc \in {"configure", "start"} => q \in Starters

(* The lock is held by the one request that starts or stops threads. *)
LockSound == \A q \in Requests : req[q].pc \in Inside <=> config_lock = q

(* The threads listed are those of the last start; there are some from the *)
(* start on until they have been joined.                                   *)
ListSound ==
    /\ threads # 0 => threads = starts
    /\ threads # 0 <=> threads_started \/ \E q \in Requests : At(q, "set")
    /\ \A q \in Requests : /\ req[q].pc \in Stopped => ~threads_started
                           /\ At(q, "join") => threads_started /\ shutdown_flag

(* Only the publisher of the last start is still to begin, and unless one  *)
(* has outlived its session no other one is there.                         *)
OnePublisher ==
    \A g \in Starts : /\ g > starts => publisher[g] = None
                      /\ publisher[g] = "wait" => g = threads
                      /\ "publisher" \notin outlived /\ publisher[g] = "run" => g = threads

(* That is so for discovery threads too, and the one there is listens in   *)
(* the room of the session.                                                *)
OneDiscovery ==
    \A g \in Starts : /\ discovery[g].pc \in Running \cup {"wait"} => g = threads
                      /\ discovery[g].pc \in Running =>
                           /\ threads_started
                           /\ my_info = NoInfo \/ discovery[g].room = my_info.room

(* What a session knows of its peers is gone when the next one begins. *)
PeersSound ==
    /\ \A e \in peers : my_info = NoInfo \/ e.room = my_info.room
    /\ ~threads_started /\ (\A q \in Requests : ~At(q, "clear peers")) => peers = {}

Ids == {e.id : e \in peers}
Coming == {discovery[g].peer : g \in {h \in Starts : Thread(h, "new")}}
QueuesSound == (\A q \in Requests : ~At(q, "clear queues")) => Ids = frame_queues \cup Coming

IInv ==
    /\ Typed
    /\ StartsLeft
    /\ LockSound
    /\ ListSound
    /\ OnePublisher
    /\ PortIsFree
    /\ "discovery" \notin outlived => OneDiscovery /\ PeersSound /\ QueuesSound
-----------------------------------------------------------------------------
(* Requests *)

LEMMA Names ==
    /\ None \notin Requests /\ None \notin Peers /\ None \notin Rooms
    /\ MaxStarts \in Nat /\ IsFiniteSet(Requests)
BY VideoChatAssumption

(* q goes on to l; nobody else moves. *)
Moves(q, l) ==
    /\ req' \in [Requests -> Reqs] /\ req'[q].pc = l
    /\ \A x \in Requests \ {q} : req'[x] = req[x]

LEMMA GotoMoves ==
    ASSUME IInv, NEW q \in Requests,
           NEW l \in {"idle", "look", "started?", "setup", "clear", "check", "lock"} \cup Inside,
           Goto(q, l)
    PROVE  Moves(q, l) /\ req'[q].route = req[q].route
<1>1. req \in [Requests -> Reqs]
  BY DEF IInv, Typed
<1>2. req'[q] = [req[q] EXCEPT !.pc = l]
  BY <1>1 DEF Goto
<1>3. req'[q] \in Reqs /\ req'[q].pc = l /\ req'[q].route = req[q].route
  BY <1>1, <1>2 DEF Reqs
<1>4. \A x \in Requests \ {q} : req'[x] = req[x]
  BY <1>1 DEF Goto
<1>5. req' = [x \in Requests |-> req'[x]]
  BY <1>1 DEF Goto
<1>6. req' \in [Requests -> Reqs]
  BY <1>1, <1>3, <1>4, <1>5
<1> QED
  BY <1>3, <1>4, <1>6 DEF Moves

LEMMA AnswerMoves ==
    ASSUME IInv, NEW q \in Requests, Answer(q)
    PROVE  Moves(q, "idle") /\ req'[q].route = None
BY DEF IInv, Typed, Answer, Moves, Idle, Reqs

LEMMA StartersKept ==
    ASSUME IInv, NEW q \in Requests, NEW l, Moves(q, l), starts' = starts,
           q \in Starters' => q \in Starters
    PROVE  starts' + Cardinality(Starters') <= MaxStarts
<1>1. Starters' \subseteq Starters
  BY DEF Starters, Moves, At
<1>2. IsFiniteSet(Starters)
  BY Names, FS_Subset DEF Starters
<1>3. /\ Cardinality(Starters') \in Nat /\ Cardinality(Starters) \in Nat
      /\ Cardinality(Starters') <= Cardinality(Starters)
  BY <1>1, <1>2, FS_Subset, FS_CardinalityType
<1> QED
  BY <1>3, Names DEF IInv, Typed, StartsLeft

LEMMA Alone ==
    ASSUME IInv, NEW q \in Requests, req[q].pc \in Inside
    PROVE  config_lock = q /\ \A x \in Requests \ {q} : req[x].pc \notin Inside
BY Names DEF IInv, LockSound

(* A step of a request without the lock. *)
LEMMA OutsideIInv ==
    ASSUME IInv, NEW q \in Requests, NEW l, Moves(q, l), req[q].pc \notin Inside, l \notin Inside,
           starts' + Cardinality(Starters') <= MaxStarts,
           l # "idle" => req'[q].route \in Routes,
           my_info' \in {my_info, NoInfo},
           UNCHANGED <<flags, config_lock, background, peers, frame_queues, outlived>>
    PROVE  IInv'
<1>1. /\ flags' = flags /\ config_lock' = config_lock /\ background' = background
      /\ peers' = peers /\ frame_queues' = frame_queues /\ outlived' = outlived
      /\ threads_started' = threads_started /\ shutdown_flag' = shutdown_flag
      /\ threads' = threads /\ starts' = starts
      /\ discovery' = discovery /\ publisher' = publisher
  BY DEF flags, background
<1>2. Typed'
  <2>1. NoInfo \in Infos
    BY DEF NoInfo, Infos
  <2> QED
    BY <1>1, <2>1 DEF IInv, Typed, Moves
<1>3. LockSound'
  BY <1>1 DEF IInv, LockSound, Moves
<1>4. StartsLeft'
  <2>1. \A x \in Requests : req'[x].pc \in {"configure", "start"} => x # q
    BY DEF Moves, Inside
  <2> QED
    BY <2>1 DEF IInv, StartsLeft, Starters, At, Moves
<1>5. \A x \in Requests, m \in Inside : At(x, m)' <=> At(x, m)
  BY DEF At, Moves
<1>6. ListSound'
  BY <1>1, <1>5 DEF IInv, ListSound, Inside, Stopped, At
<1>7. OnePublisher' /\ PortIsFree'
  BY <1>1 DEF IInv, OnePublisher, PortIsFree
<1>8. ASSUME "discovery" \notin outlived
      PROVE  OneDiscovery' /\ PeersSound' /\ QueuesSound'
  <2>1. OneDiscovery'
    BY <1>1, <1>8 DEF IInv, OneDiscovery
  <2>2. PeersSound'
    BY <1>1, <1>5, <1>8 DEF IInv, PeersSound, Inside
  <2>3. QueuesSound'
    BY <1>1, <1>5, <1>8 DEF IInv, QueuesSound, Ids, Coming, Thread, Inside
  <2> QED
    BY <2>1, <2>2, <2>3
<1> QED
  BY <1>1, <1>2, <1>3, <1>4, <1>6, <1>7, <1>8 DEF IInv

LEMMA LooksIInv ==
    ASSUME IInv, NEW q \in Requests,
           MainLooks(q) \/ MainShowsChat(q) \/ MainShowsSetup(q) \/ MainClears(q) \/ SwitchChecks(q)
    PROVE  IInv'
<1>1. req[q].pc \notin Inside
  BY DEF MainLooks, MainShowsChat, MainShowsSetup, MainClears, SwitchChecks, At, Inside
<1>2. Stays /\ my_info' \in {my_info, NoInfo}
  BY DEF MainLooks, MainShowsChat, MainShowsSetup, MainClears, SwitchChecks, Looks
<1>3. PICK l \in {"idle", "started?", "setup", "clear", "lock"} :
         /\ Moves(q, l) /\ req'[q].route \in {req[q].route, None}
         /\ l # "idle" => req'[q].route \in Routes
  <2>1. Answer(q) \/ \E l \in {"started?", "setup", "clear", "lock"} : Goto(q, l)
    BY DEF MainLooks, MainShowsChat, MainShowsSetup, MainClears, SwitchChecks
  <2>2. req[q].route \in Routes
    BY DEF MainLooks, MainShowsChat, MainShowsSetup, MainClears, SwitchChecks, At,
           IInv, StartsLeft
  <2> QED
    BY <2>1, <2>2, AnswerMoves, GotoMoves
<1>4. starts' = starts
  BY <1>2 DEF Stays, background
<1>5. q \in Starters' => q \in Starters
  BY <1>1, <1>3 DEF Starters, At, Inside, Moves, None
<1>6. l \notin Inside
  BY DEF Inside
<1>7. starts' + Cardinality(Starters') <= MaxStarts
  BY <1>3, <1>4, <1>5, StartersKept
<1> QED
  BY <1>1, <1>2, <1>3, <1>6, <1>7, OutsideIInv DEF Stays

LEMMA RequestIInv ==
    ASSUME IInv, NEW q \in Requests, Request(q)
    PROVE  IInv'
<1>1. PICK route \in Routes, room \in Rooms \cup {None} :
         /\ IF route \in {"join", "switch"} THEN room # None /\ starts + Waiting < MaxStarts
                                            ELSE room = None
         /\ req' = [req EXCEPT ![q] = [pc |-> CASE route = "main" -> "look"
                                              [] route \in {"switch", "bad switch"} -> "check"
                                              [] OTHER -> "lock",
                                       route |-> route, room |-> room]]
  BY DEF Request
<1>2. PICK l \in {"look", "check", "lock"} :
         req' = [req EXCEPT ![q] = [pc |-> l, route |-> route, room |-> room]]
  BY <1>1
<1>3. Moves(q, l) /\ req'[q].route = route
  BY <1>2 DEF IInv, Typed, Moves, Reqs
<1>4. req[q].pc \notin Inside /\ l \notin Inside /\ Looks
  BY DEF Request, At, Inside
<1>5. starts' = starts
  BY <1>4 DEF Looks, Stays, background
<1>6. CASE route \notin {"join", "switch"}
  <2>1. starts' + Cardinality(Starters') <= MaxStarts
    BY <1>3, <1>5, <1>6, StartersKept DEF Starters
  <2> QED
    BY <1>3, <1>4, <2>1, OutsideIInv DEF Looks, Stays
<1>7. CASE route \in {"join", "switch"}
  <2> DEFINE W == {x \in Requests : req[x].route \in {"join", "switch"}}
  <2>1. IsFiniteSet(W) /\ Cardinality(W) \in Nat /\ starts + Cardinality(W) < MaxStarts
    BY <1>1, <1>7, Names, FS_Subset, FS_CardinalityType DEF Waiting
  <2>2. Starters' \subseteq W \cup {q}
    BY <1>3 DEF Starters, Moves
  <2>3. IsFiniteSet(W \cup {q}) /\ Cardinality(W \cup {q}) <= Cardinality(W) + 1
        /\ Cardinality(W \cup {q}) \in Nat
    <3> HIDE DEF W
    <3>1. /\ IsFiniteSet(W \cup {q})
          /\ Cardinality(W \cup {q}) = IF q \in W THEN Cardinality(W) ELSE Cardinality(W) + 1
      BY <2>1, FS_AddElement
    <3> QED
      BY <2>1, <3>1
  <2>4. Cardinality(Starters') \in Nat /\ Cardinality(Starters') <= Cardinality(W \cup {q})
    BY <2>2, <2>3, FS_Subset, FS_CardinalityType
  <2>5. starts' + Cardinality(Starters') <= MaxStarts
    <3> HIDE DEF W
    <3> QED
      BY <1>5, <2>1, <2>3, <2>4, Names DEF IInv, Typed
  <2> QED
    BY <1>3, <1>4, <2>5, OutsideIInv DEF Looks, Stays
<1> QED
  BY <1>6, <1>7

-----------------------------------------------------------------------------
(* Requests that hold the lock *)

LEMMA LockedIInv ==
    ASSUME IInv, NEW q \in Requests, Locked(q)
    PROVE  IInv'
<1>1. /\ req[q].pc = "lock" /\ config_lock = None
      /\ UNCHANGED <<flags, background, peers, frame_queues, outlived>>
  BY DEF Locked, LockFree, At
<1>2. \A x \in Requests : req[x].pc \notin Inside
  BY <1>1, Names DEF IInv, LockSound
<1>3. starts' = starts
  BY <1>1 DEF background
<1>4. CASE config_lock' = config_lock
  <2>1. /\ Answer(q) /\ my_info' = my_info
    BY <1>1, <1>4, Names DEF Locked, LockFree
  <2>2. Moves(q, "idle") /\ req'[q].route = None
    BY <2>1, AnswerMoves
  <2>3. starts' + Cardinality(Starters') <= MaxStarts
    BY <1>3, <2>2, StartersKept DEF Starters, None
  <2> QED
    BY <1>1, <1>2, <1>4, <2>1, <2>2, <2>3, OutsideIInv DEF Inside, Moves, At
<1>5. CASE config_lock' # config_lock
  <2>1. /\ config_lock' = q
        /\ Goto(q, IF req[q].route = "join" /\ ~threads_started THEN "configure" ELSE "stop")
        /\ my_info' = IF req[q].route = "leave" THEN NoInfo ELSE my_info
    BY <1>1, <1>5 DEF Locked, LockFree
  <2>2. PICK l \in {"configure", "stop"} :
           /\ Goto(q, l)
           /\ l = "configure" => ~threads_started /\ req[q].route = "join"
    BY <2>1
  <2>3. Moves(q, l) /\ req'[q].route = req[q].route
    BY <2>2, GotoMoves DEF Inside, Moves, At
  <2>4. /\ threads_started' = threads_started /\ shutdown_flag' = shutdown_flag
        /\ threads' = threads /\ discovery' = discovery /\ publisher' = publisher
        /\ peers' = peers /\ frame_queues' = frame_queues /\ outlived' = outlived
    BY <1>1 DEF flags, background
  <2>5. my_info' \in {my_info, NoInfo}
    BY <2>1
  <2>6. Typed'
    <3>1. NoInfo \in Infos
      BY DEF NoInfo, Infos
    <3> QED
      BY <1>3, <2>1, <2>3, <2>4, <2>5, <3>1 DEF IInv, Typed, Moves
  <2>7. StartsLeft'
    <3>1. starts' + Cardinality(Starters') <= MaxStarts
      BY <1>1, <1>3, <2>3, StartersKept DEF Starters, At
    <3>2. \A x \in Requests : req'[x].pc \in {"configure", "start"} => x = q /\ l = "configure"
      BY <1>2, <2>3 DEF Moves, Inside
    <3>3. l = "configure" => q \in Starters'
      BY <2>2, <2>3 DEF Starters, At, Moves
    <3>4. \A x \in Requests : ~At(x, "idle")' => req'[x].route \in Routes
      BY <1>1, <2>3 DEF IInv, StartsLeft, At, Moves
    <3> QED
      BY <3>1, <3>2, <3>3, <3>4 DEF StartsLeft
  <2>8. LockSound'
    BY <1>2, <2>1, <2>3 DEF LockSound, Moves, Inside
  <2>9. \A x \in Requests : req'[x].pc \in Inside \ {"configure", "stop"} => FALSE
    BY <1>2, <2>3 DEF Moves, Inside
  <2>10. ListSound'
    <3>1. \A x \in Requests : ~At(x, "set") /\ ~At(x, "set")' /\ ~At(x, "join")'
      BY <1>2, <2>9 DEF At, Inside
    <3>2. \A x \in Requests : req'[x].pc \in Stopped => l = "configure"
      BY <1>2, <2>3, <2>9 DEF Stopped, Inside, Moves
    <3> QED
      BY <1>3, <2>2, <2>4, <3>1, <3>2 DEF IInv, ListSound
  <2>11. OnePublisher' /\ PortIsFree'
    BY <1>3, <2>4 DEF IInv, OnePublisher, PortIsFree
  <2>12. ASSUME "discovery" \notin outlived
         PROVE  OneDiscovery' /\ PeersSound' /\ QueuesSound'
    <3>1. OneDiscovery'
      BY <2>4, <2>5, <2>12 DEF IInv, OneDiscovery
    <3>2. \A x \in Requests : ~At(x, "clear peers") /\ ~At(x, "clear queues")
      BY <1>2 DEF At, Inside
    <3>3. \A x \in Requests : ~At(x, "clear peers")' /\ ~At(x, "clear queues")'
      BY <2>9 DEF At, Inside
    <3>4. PeersSound'
      BY <2>4, <2>5, <2>12, <3>2, <3>3 DEF IInv, PeersSound
    <3>5. QueuesSound'
      BY <2>4, <2>12, <3>2, <3>3 DEF IInv, QueuesSound, Ids, Coming, Thread
    <3> QED
      BY <3>1, <3>4, <3>5
  <2> QED
    BY <2>4, <2>6, <2>7, <2>8, <2>10, <2>11, <2>12 DEF IInv
<1> QED
  BY <1>4, <1>5

(* What all steps under the lock have in common: q goes on to l, or lets   *)
(* go.                                                                     *)
Steps(q, l) == \/ l \in Inside /\ GoesOn(q, l)
               \/ l = "idle" /\ Release(q)
LEMMA InsideMoves ==
    ASSUME IInv, NEW q \in Requests, req[q].pc \in Inside, NEW l, Steps(q, l)
    PROVE  /\ Moves(q, l) /\ LockSound' /\ config_lock' \in Requests \cup {None}
           /\ req'[q].route = IF l = "idle" THEN None ELSE req[q].route
           /\ \A x \in Requests \ {q} : req[x].pc \notin Inside /\ req'[x].pc \notin Inside
<1>1. config_lock = q /\ \A x \in Requests \ {q} : req[x].pc \notin Inside
  BY Alone
<1>2. CASE l \in Inside /\ GoesOn(q, l)
  <2>1. Moves(q, l) /\ req'[q].route = req[q].route /\ config_lock' = q
    BY <1>1, <1>2, GotoMoves DEF GoesOn
  <2>2. LockSound'
    BY <1>1, <1>2, <2>1 DEF LockSound, Moves
  <2> QED
    BY <1>1, <1>2, <2>1, <2>2 DEF Moves, Inside, At
<1>3. CASE l = "idle" /\ Release(q)
  <2>1. Moves(q, l) /\ req'[q].route = None /\ config_lock' = None
    BY <1>3, AnswerMoves DEF Release
  <2>2. LockSound'
    BY <1>1, <1>3, <2>1, Names DEF LockSound, Moves, Inside
  <2> QED
    BY <1>1, <1>3, <2>1, <2>2 DEF Moves, Inside, At
<1> QED
  BY <1>2, <1>3 DEF Steps

LEMMA InsideStarts ==
    ASSUME IInv, NEW q \in Requests, req[q].pc \in Inside, NEW l, Steps(q, l),
           starts' = starts, req[q].pc # "set" \/ l = "idle",
           l \in {"configure", "start"} => req[q].route \in {"join", "switch"}
    PROVE  StartsLeft'
<1>1. /\ Moves(q, l) /\ req'[q].route = IF l = "idle" THEN None ELSE req[q].route
      /\ \A x \in Requests \ {q} : req'[x].pc \notin Inside
  BY InsideMoves
<1>2. starts' + Cardinality(Starters') <= MaxStarts
  BY <1>1, StartersKept DEF Starters, None, At
<1>3. \A x \in Requests : ~At(x, "idle")' => req'[x].route \in Routes
  <2>1. \A x \in Requests : ~At(x, "idle") => req[x].route \in Routes
    BY DEF IInv, StartsLeft
  <2>2. ~At(q, "idle")
    BY DEF At, Inside
  <2>3. ~At(q, "idle")' => req'[q].route \in Routes
    BY <1>1, <2>1, <2>2 DEF Moves, At
  <2> QED
    BY <1>1, <2>1, <2>3 DEF Moves, At
<1>4. \A x \in Requests : req'[x].pc \in {"configure", "start"} => x \in Starters'
  BY <1>1 DEF Moves, At, Inside, Starters
<1> QED
  BY <1>2, <1>3, <1>4 DEF StartsLeft

LEMMA StopBeginsIInv ==
    ASSUME IInv, NEW q \in Requests, StopBegins(q)
    PROVE  IInv'
<1>1. /\ req[q].pc = "stop" /\ threads_started' = threads_started
      /\ my_info' = my_info /\ threads' = threads /\ starts' = starts
      /\ discovery' = discovery /\ publisher' = publisher
      /\ peers' = peers /\ frame_queues' = frame_queues /\ outlived' = outlived
  BY DEF StopBegins, At, background
<1>2. PICK l \in {"join", "forget", "configure", "idle"} :
         /\ Steps(q, l)
         /\ l = "join" => threads_started /\ shutdown_flag'
         /\ l # "join" => ~threads_started
         /\ l = "configure" => req[q].route \in {"join", "switch"}
         /\ shutdown_flag' \in BOOLEAN
  <2>1. CASE threads_started /\ GoesOn(q, "join") /\ shutdown_flag' = TRUE
    BY <2>1 DEF Steps, Inside
  <2>2. CASE ~threads_started /\ AfterStop(q) /\ UNCHANGED shutdown_flag
    <3>1. CASE req[q].route \in {"main", "bad switch"}
      BY <2>2, <3>1 DEF AfterStop, Steps, Inside, IInv, Typed
    <3>2. CASE req[q].route = "leave"
      BY <2>2, <3>2 DEF AfterStop, Steps, IInv, Typed
    <3>3. CASE req[q].route \notin {"main", "bad switch", "leave"}
      <4>1. req[q].route \in {"join", "switch"}
        BY <1>1, <3>3 DEF IInv, StartsLeft, At, Routes
      <4>2. GoesOn(q, "configure")
        BY <2>2, <4>1 DEF AfterStop
      <4> QED
        BY <2>2, <4>1, <4>2 DEF Steps, Inside, IInv, Typed
    <3> QED
      BY <3>1, <3>2, <3>3
  <2> QED
    BY <2>1, <2>2 DEF StopBegins
<1>3. /\ Moves(q, l) /\ LockSound' /\ config_lock' \in Requests \cup {None}
      /\ \A x \in Requests \ {q} : req[x].pc \notin Inside /\ req'[x].pc \notin Inside
  <2>1. req[q].pc \in Inside
    BY <1>1 DEF Inside, Moves, At
  <2> QED
    BY <1>2, <2>1, InsideMoves
<1>4. Typed'
  BY <1>1, <1>2, <1>3 DEF IInv, Typed, Moves
<1>5. StartsLeft'
  BY <1>1, <1>2, InsideStarts DEF Inside, Moves, At
<1>6. ListSound'
  <2>1. \A x \in Requests : ~At(x, "set") /\ ~At(x, "set")'
    BY <1>1, <1>2, <1>3 DEF Inside, Moves, At
  <2>2. \A x \in Requests : req'[x].pc \in Stopped => ~threads_started'
    BY <1>1, <1>2, <1>3 DEF Stopped, Moves, Inside
  <2>3. \A x \in Requests : At(x, "join")' => threads_started' /\ shutdown_flag'
    BY <1>1, <1>2, <1>3 DEF Inside, Moves, At
  <2> QED
    BY <1>1, <2>1, <2>2, <2>3 DEF IInv, ListSound
<1>7. OnePublisher' /\ PortIsFree'
  BY <1>1 DEF IInv, OnePublisher, PortIsFree
<1>8. ASSUME "discovery" \notin outlived
      PROVE  OneDiscovery' /\ PeersSound' /\ QueuesSound'
  <2>1. OneDiscovery'
    BY <1>1, <1>8 DEF IInv, OneDiscovery
  <2>2. \A x \in Requests : ~At(x, "clear peers") /\ ~At(x, "clear queues")
    BY <1>1, <1>3 DEF Inside, Moves, At
  <2>3. PeersSound'
    BY <1>1, <1>8, <2>2 DEF IInv, PeersSound
  <2>4. QueuesSound'
    BY <1>1, <1>8, <2>2 DEF IInv, QueuesSound, Ids, Coming, Thread
  <2> QED
    BY <2>1, <2>3, <2>4
<1> QED
  BY <1>1, <1>3, <1>4, <1>5, <1>6, <1>7, <1>8 DEF IInv

LEMMA StopJoinsIInv ==
    ASSUME IInv, NEW q \in Requests, StopJoins(q)
    PROVE  IInv'
<1>1. /\ req[q].pc = "join" /\ Steps(q, "clear peers")
      /\ threads_started' = FALSE /\ threads' = 0
      /\ outlived' = IF threads = 0 THEN outlived ELSE outlived \cup Survivors(threads)
      /\ threads # 0 /\ shutdown_flag => publisher[threads] # "wait"
      /\ my_info' = my_info /\ shutdown_flag' = shutdown_flag /\ starts' = starts
      /\ discovery' = discovery /\ publisher' = publisher
      /\ peers' = peers /\ frame_queues' = frame_queues
  BY DEF StopJoins, JoinReturns, At, Steps, Inside
<1>2. /\ Moves(q, "clear peers") /\ LockSound' /\ config_lock' \in Requests \cup {None}
      /\ \A x \in Requests \ {q} : req[x].pc \notin Inside /\ req'[x].pc \notin Inside
  <2>1. req[q].pc \in Inside
    BY <1>1 DEF Inside, Moves, At
  <2> QED
    BY <1>1, <2>1, InsideMoves
<1>3. shutdown_flag /\ threads # 0 /\ threads = starts /\ threads_started
  BY <1>1 DEF IInv, ListSound, At
<1>9. outlived \subseteq outlived' /\ outlived' = outlived \cup Survivors(threads)
  BY <1>1, <1>3
<1>4. Typed'
  <2>1. outlived' \subseteq {"discovery", "publisher"}
    BY <1>9 DEF IInv, Typed, Survivors
  <2> QED
    BY <1>1, <1>2, <2>1 DEF IInv, Typed, Moves
<1>5. StartsLeft'
  BY <1>1, InsideStarts DEF Inside, Moves, At
<1>6. ListSound'
  <2>1. \A x \in Requests : ~At(x, "set")' /\ ~At(x, "join")'
    BY <1>2 DEF Inside, Moves, At
  <2> QED
    BY <1>1, <2>1 DEF ListSound
<1>7. OnePublisher' /\ PortIsFree'
  <2>1. "publisher" \notin outlived' => publisher[threads] # "run"
    BY <1>9 DEF Survivors, Ended
  <2> QED
    BY <1>1, <1>3, <1>9, <2>1 DEF IInv, OnePublisher, PortIsFree
<1>8. ASSUME "discovery" \notin outlived'
      PROVE  OneDiscovery' /\ PeersSound' /\ QueuesSound'
  <2>1. "discovery" \notin outlived /\ discovery[threads].pc = "dead"
    BY <1>8, <1>9 DEF Survivors
  <2>2. OneDiscovery'
    BY <1>1, <2>1 DEF IInv, OneDiscovery, Running
  <2>3. (\E x \in Requests : At(x, "clear peers")') /\ \A x \in Requests : ~At(x, "clear queues")
    BY <1>1, <1>2 DEF Inside, Moves, At
  <2>4. PeersSound'
    BY <1>1, <2>1, <2>3 DEF IInv, PeersSound
  <2>5. QueuesSound'
    BY <1>1, <2>1, <2>3 DEF IInv, QueuesSound, Ids, Coming, Thread
  <2> QED
    BY <2>2, <2>4, <2>5
<1> QED
  BY <1>2, <1>4, <1>5, <1>6, <1>7, <1>8 DEF IInv


LEMMA StopClearsPeersIInv ==
    ASSUME IInv, NEW q \in Requests, StopClearsPeers(q)
    PROVE  IInv'
<1>1. /\ req[q].pc = "clear peers" /\ Steps(q, "clear queues") /\ peers' = {}
      /\ my_info' = my_info /\ frame_queues' = frame_queues /\ outlived' = outlived
      /\ threads_started' = threads_started /\ shutdown_flag' = shutdown_flag
      /\ threads' = threads /\ starts' = starts
      /\ discovery' = discovery /\ publisher' = publisher
  BY DEF StopClearsPeers, PeersCleared, At, Steps, Inside, flags, background
<1>2. /\ Moves(q, "clear queues") /\ LockSound' /\ config_lock' \in Requests \cup {None}
      /\ \A x \in Requests \ {q} : req[x].pc \notin Inside /\ req'[x].pc \notin Inside
  <2>1. req[q].pc \in Inside
    BY <1>1 DEF Inside, Moves, At
  <2> QED
    BY <1>1, <2>1, InsideMoves
<1>3. ~threads_started
  BY <1>1 DEF IInv, ListSound, Stopped, Inside
<1>4. Typed'
  BY <1>1, <1>2 DEF IInv, Typed, Moves
<1>5. StartsLeft'
  BY <1>1, InsideStarts DEF Inside, Moves, At
<1>6. ListSound'
  <2>1. \A x \in Requests : ~At(x, "set")' /\ ~At(x, "join")' /\ ~At(x, "set")
    BY <1>1, <1>2 DEF Inside, Moves, At
  <2> QED
    BY <1>1, <1>3, <2>1 DEF IInv, ListSound
<1>7. OnePublisher' /\ PortIsFree'
  BY <1>1 DEF IInv, OnePublisher, PortIsFree
<1>8. ASSUME "discovery" \notin outlived
      PROVE  OneDiscovery' /\ PeersSound' /\ QueuesSound'
  <2>1. OneDiscovery' /\ PeersSound'
    BY <1>1, <1>8 DEF IInv, OneDiscovery, PeersSound
  <2>2. \E x \in Requests : At(x, "clear queues")'
    BY <1>2 DEF Inside, Moves, At
  <2>3. QueuesSound'
    BY <1>1, <1>8, <2>2 DEF IInv, QueuesSound, Thread
  <2> QED
    BY <2>1, <2>3
<1> QED
  BY <1>1, <1>2, <1>4, <1>5, <1>6, <1>7, <1>8 DEF IInv

LEMMA StopClearsQueuesIInv ==
    ASSUME IInv, NEW q \in Requests, StopClearsQueues(q)
    PROVE  IInv'
<1>1. /\ req[q].pc = "clear queues" /\ AfterStop(q) /\ frame_queues' = {}
      /\ my_info' = my_info /\ peers' = peers /\ outlived' = outlived
      /\ threads_started' = threads_started /\ shutdown_flag' = shutdown_flag
      /\ threads' = threads /\ starts' = starts
      /\ discovery' = discovery /\ publisher' = publisher
  BY DEF StopClearsQueues, QueuesCleared, At, flags, background
<1>2. PICK l \in {"forget", "configure", "idle"} :
         Steps(q, l) /\ (l = "configure" => req[q].route \in {"join", "switch"})
  <2>1. CASE req[q].route \in {"main", "bad switch"}
    BY <1>1, <2>1 DEF AfterStop, Steps, Inside
  <2>2. CASE req[q].route = "leave"
    BY <1>1, <2>2 DEF AfterStop, Steps
  <2>3. CASE req[q].route \notin {"main", "bad switch", "leave"}
    <3>1. req[q].route \in {"join", "switch"}
      BY <1>1, <2>3 DEF IInv, StartsLeft, At, Routes
    <3>2. GoesOn(q, "configure")
      BY <1>1, <3>1 DEF AfterStop
    <3> QED
      BY <3>1, <3>2 DEF Steps, Inside
  <2> QED
    BY <2>1, <2>2, <2>3
<1>3. /\ Moves(q, l) /\ LockSound' /\ config_lock' \in Requests \cup {None}
      /\ \A x \in Requests \ {q} : req[x].pc \notin Inside /\ req'[x].pc \notin Inside
  <2>1. req[q].pc \in Inside
    BY <1>1 DEF Inside, Moves, At
  <2> QED
    BY <1>2, <2>1, InsideMoves
<1>4. ~threads_started
  BY <1>1 DEF IInv, ListSound, Stopped, Inside
<1>5. Typed'
  BY <1>1, <1>3 DEF IInv, Typed, Moves
<1>6. StartsLeft'
  BY <1>1, <1>2, InsideStarts DEF Inside, Moves, At
<1>7. ListSound'
  <2>1. \A x \in Requests : ~At(x, "set")' /\ ~At(x, "join")' /\ ~At(x, "set")
    BY <1>1, <1>3 DEF Inside, Moves, At
  <2> QED
    BY <1>1, <1>4, <2>1 DEF IInv, ListSound
<1>8. OnePublisher' /\ PortIsFree'
  BY <1>1 DEF IInv, OnePublisher, PortIsFree
<1>9. ASSUME "discovery" \notin outlived
      PROVE  OneDiscovery' /\ PeersSound' /\ QueuesSound'
  <2>1. OneDiscovery'
    BY <1>1, <1>9 DEF IInv, OneDiscovery
  <2>2. \A x \in Requests : ~At(x, "clear peers")
    BY <1>1, <1>3 DEF Inside, Moves, At
  <2>3. peers = {}
    BY <1>4, <1>9, <2>2 DEF IInv, PeersSound
  <2>4. \A g \in Starts : ~Thread(g, "new") /\ ~Thread(g, "new")'
    BY <1>1, <1>4, <1>9 DEF IInv, OneDiscovery, Running, Thread
  <2>5. PeersSound'
    BY <1>1, <2>3 DEF PeersSound
  <2>6. Ids' = {} /\ Coming' = {}
    BY <1>1, <2>3, <2>4 DEF Ids, Coming, Thread
  <2>7. QueuesSound'
    BY <1>1, <2>4, <2>6 DEF QueuesSound
  <2> QED
    BY <2>1, <2>5, <2>7
<1> QED
  BY <1>1, <1>3, <1>5, <1>6, <1>7, <1>8, <1>9 DEF IInv

(* Before the threads are started nobody listens. *)
LEMMA Quiet ==
    ASSUME IInv, "discovery" \notin outlived, NEW q \in Requests, req[q].pc \in {"forget", "configure", "start"}
    PROVE  /\ peers = {} /\ ~threads_started /\ threads = 0
           /\ \A g \in Starts : discovery[g].pc \notin Running \cup {"wait"}
<1>1. \A x \in Requests : ~At(x, "clear peers") /\ ~At(x, "set")
  BY Alone DEF Inside, At
<1>2. ~threads_started /\ threads = 0
  BY <1>1 DEF IInv, ListSound, Stopped, Inside
<1>3. peers = {}
  BY <1>1, <1>2 DEF IInv, PeersSound
<1>4. \A g \in Starts : discovery[g].pc \notin Running \cup {"wait"}
  BY <1>2 DEF IInv, OneDiscovery, Starts
<1> QED
  BY <1>2, <1>3, <1>4

(* The session forgotten or configured. *)
LEMMA InfoIInv ==
    ASSUME IInv, NEW q \in Requests, MainForgets(q) \/ Configure(q)
    PROVE  IInv'
<1>1. PICK l \in {"idle", "start"} :
         /\ Steps(q, l) /\ (l = "start" => req[q].pc = "configure")
         /\ req[q].pc \in {"forget", "configure"} /\ my_info' \in Infos
         /\ UNCHANGED <<flags, background, peers, frame_queues, outlived>>
  <2>1. CASE MainForgets(q)
    BY <2>1 DEF MainForgets, Steps, At, NoInfo, Infos
  <2>2. CASE Configure(q)
    <3>1. req[q].room \in Rooms \cup {None} /\ my_info.whole \in BOOLEAN
      BY DEF IInv, Typed, Reqs, Infos
    <3>2. my_info' \in Infos
      BY <2>2, <3>1 DEF Configure, Infos
    <3> QED
      BY <2>2, <3>2 DEF Configure, Steps, At, Inside
  <2> QED
    BY <2>1, <2>2
<1>2. /\ frame_queues' = frame_queues /\ peers' = peers /\ outlived' = outlived
      /\ threads_started' = threads_started /\ shutdown_flag' = shutdown_flag
      /\ threads' = threads /\ starts' = starts
      /\ discovery' = discovery /\ publisher' = publisher
  BY <1>1 DEF flags, background
<1>3. /\ Moves(q, l) /\ LockSound' /\ config_lock' \in Requests \cup {None}
      /\ \A x \in Requests \ {q} : req[x].pc \notin Inside /\ req'[x].pc \notin Inside
  <2>1. req[q].pc \in Inside
    BY <1>1 DEF Inside, Moves, At
  <2> QED
    BY <1>1, <2>1, InsideMoves
<1>4. ~threads_started
  BY <1>1 DEF IInv, ListSound, Stopped, Inside
<1>5. Typed'
  BY <1>1, <1>2, <1>3 DEF IInv, Typed, Moves
<1>6. StartsLeft'
  <2>1. req[q].pc = "configure" => req[q].route \in {"join", "switch"}
    BY DEF IInv, StartsLeft, Starters
  <2> QED
    BY <1>1, <1>2, <2>1, InsideStarts DEF Inside, Moves, At
<1>7. ListSound'
  <2>1. \A x \in Requests : ~At(x, "set")' /\ ~At(x, "join")' /\ ~At(x, "set")
    BY <1>1, <1>3 DEF Inside, Moves, At
  <2> QED
    BY <1>2, <1>4, <2>1 DEF IInv, ListSound
<1>8. OnePublisher' /\ PortIsFree'
  BY <1>2 DEF IInv, OnePublisher, PortIsFree
<1>9. ASSUME "discovery" \notin outlived
      PROVE  OneDiscovery' /\ PeersSound' /\ QueuesSound'
  <2>1. peers = {} /\ \A g \in Starts : discovery[g].pc \notin Running \cup {"wait"}
    BY <1>1, <1>9, Quiet
  <2>2. OneDiscovery' /\ PeersSound'
    BY <1>2, <2>1 DEF OneDiscovery, PeersSound
  <2>3. \A x \in Requests : ~At(x, "clear queues")
    BY <1>1, <1>3 DEF Inside, Moves, At
  <2>4. QueuesSound'
    BY <1>2, <1>9, <2>3 DEF IInv, QueuesSound, Ids, Coming, Thread
  <2> QED
    BY <2>2, <2>4
<1> QED
  BY <1>2, <1>3, <1>5, <1>6, <1>7, <1>8, <1>9 DEF IInv

LEMMA StartIInv ==
    ASSUME IInv, NEW q \in Requests, Start(q)
    PROVE  IInv'
<1>1. /\ req[q].pc = "start"
      /\ my_info' = my_info /\ threads_started' = threads_started
      /\ peers' = peers /\ frame_queues' = frame_queues /\ outlived' = outlived
  BY DEF Start, At
<1>2. /\ ~threads_started /\ threads = 0
      /\ \A x \in Requests \ {q} : req[x].pc \notin Inside
  BY <1>1, Alone DEF IInv, ListSound, Stopped, Inside, At
<1>3. req[q].pc \in Inside
  BY <1>1 DEF Inside, Moves, At
<1>4. \A x \in Requests : ~At(x, "clear peers") /\ ~At(x, "clear queues")
  BY <1>1, <1>2 DEF At, Inside
<1>5. CASE Release(q) /\ UNCHANGED <<shutdown_flag, background>>
  <2>1. Steps(q, "idle") /\ shutdown_flag' = shutdown_flag /\ threads' = threads
        /\ starts' = starts /\ discovery' = discovery /\ publisher' = publisher
    BY <1>5 DEF Steps, background
  <2>2. /\ Moves(q, "idle") /\ LockSound' /\ config_lock' \in Requests \cup {None}
        /\ \A x \in Requests \ {q} : req[x].pc \notin Inside /\ req'[x].pc \notin Inside
    BY <1>3, <2>1, InsideMoves
  <2>3. Typed'
    BY <1>1, <2>1, <2>2 DEF IInv, Typed, Moves
  <2>4. StartsLeft'
    BY <1>3, <2>1, InsideStarts
  <2>5. ListSound'
    <3>1. \A x \in Requests : ~At(x, "set")' /\ ~At(x, "join")'
      BY <2>2 DEF Inside, Moves, At
    <3> QED
      BY <1>1, <1>2, <2>1, <3>1 DEF ListSound
  <2>6. OnePublisher' /\ PortIsFree'
    BY <1>1, <2>1 DEF IInv, OnePublisher, PortIsFree
  <2>7. ASSUME "discovery" \notin outlived
        PROVE  OneDiscovery' /\ PeersSound' /\ QueuesSound'
    <3>1. OneDiscovery'
      BY <1>1, <2>1, <2>7 DEF IInv, OneDiscovery
    <3>2. PeersSound' /\ QueuesSound'
      BY <1>1, <1>4, <2>1, <2>7 DEF IInv, PeersSound, QueuesSound, Ids, Coming, Thread
    <3> QED
      BY <3>1, <3>2
  <2> QED
    BY <1>1, <2>2, <2>3, <2>4, <2>5, <2>6, <2>7 DEF IInv
<1>6. CASE ~(Release(q) /\ UNCHANGED <<shutdown_flag, background>>)
  <2>1. /\ GoesOn(q, "set") /\ shutdown_flag' = FALSE
        /\ starts' = starts + 1 /\ threads' = starts'
        /\ discovery' = [discovery EXCEPT ![starts'].pc = "wait"]
        /\ publisher' = [publisher EXCEPT ![starts'] = "wait"]
    BY <1>6 DEF Start
  <2>2. Steps(q, "set")
    BY <2>1 DEF Steps, Inside
  <2>3. /\ Moves(q, "set") /\ LockSound' /\ config_lock' \in Requests \cup {None}
        /\ req'[q].route = req[q].route
        /\ \A x \in Requests \ {q} : req[x].pc \notin Inside /\ req'[x].pc \notin Inside
    BY <1>3, <2>2, InsideMoves
  <2>4. starts + 1 + Cardinality(Starters') <= MaxStarts /\ Cardinality(Starters') \in Nat
    <3>1. q \in Starters
      BY <1>1 DEF IInv, StartsLeft
    <3>2. Starters' = Starters \ {q}
      BY <2>3 DEF Starters, Moves, At
    <3>3. IsFiniteSet(Starters) /\ Cardinality(Starters) \in Nat
      BY Names, FS_Subset, FS_CardinalityType DEF Starters
    <3>4. Cardinality(Starters') = Cardinality(Starters) - 1 /\ Cardinality(Starters') \in Nat
      BY <3>1, <3>2, <3>3, FS_RemoveElement, FS_CardinalityType
    <3> QED
      BY <3>3, <3>4, Names DEF IInv, Typed, StartsLeft
  <2>5. PICK s \in Starts : s = starts + 1
    BY <2>4, Names DEF Starts, IInv, Typed
  <2>6. /\ discovery'[s] = [discovery[s] EXCEPT !.pc = "wait"]
        /\ \A g \in Starts \ {s} : discovery'[g] = discovery[g]
        /\ discovery' = [g \in Starts |-> discovery'[g]]
    BY <2>1, <2>5 DEF IInv, Typed
  <2>7. discovery'[s].pc = "wait" /\ discovery' \in [Starts -> Threads]
    <3>1. discovery[s] \in Threads
      BY DEF IInv, Typed
    <3>2. discovery'[s].pc = "wait" /\ discovery'[s] \in Threads
      BY <2>6, <3>1 DEF Threads
    <3> QED
      BY <2>6, <3>2 DEF IInv, Typed
  <2>8. Typed'
    <3>1. starts' \in Nat /\ threads' \in Nat
      BY <2>1 DEF IInv, Typed
    <3>2. publisher' \in [Starts -> {None, "wait", "run", "dead", "refused"}]
      BY <2>1 DEF IInv, Typed
    <3> QED
      BY <1>1, <2>1, <2>3, <2>7, <3>1, <3>2 DEF IInv, Typed, Moves
  <2>9. StartsLeft'
    <3>1. \A x \in Requests : ~At(x, "idle")' => req'[x].route \in Routes
      BY <1>1, <2>3 DEF IInv, StartsLeft, At, Moves
    <3>2. \A x \in Requests : req'[x].pc \notin {"configure", "start"}
      BY <2>3 DEF Inside, Moves
    <3> QED
      BY <2>1, <2>4, <3>1, <3>2 DEF StartsLeft
  <2>10. ListSound'
    <3>1. threads' = starts' /\ threads' # 0
      BY <2>1 DEF IInv, Typed
    <3>3. At(q, "set")'
      BY <2>3 DEF At, Moves
    <3>2. \A x \in Requests : ~At(x, "join")'
      BY <2>3 DEF Inside, Moves, At
    <3> QED
      BY <1>1, <1>2, <3>1, <3>2, <3>3 DEF ListSound
  <2>11. OnePublisher' /\ PortIsFree'
    <3>1. publisher'[s] = "wait" /\ \A g \in Starts \ {s} : publisher'[g] = publisher[g]
      BY <2>1, <2>5 DEF IInv, Typed
    <3>2. \A g \in Starts : /\ publisher[g] # "wait"
                            /\ "publisher" \notin outlived => publisher[g] # "run"
      BY <1>2 DEF IInv, OnePublisher, Starts
    <3>3. \A g \in Starts : g > starts' => g # s /\ g > starts
      BY <2>1, <2>5 DEF IInv, Typed, Starts
    <3>4. threads' = s
      BY <2>1, <2>5
    <3>5. OnePublisher'
      BY <1>1, <3>1, <3>2, <3>3, <3>4 DEF IInv, OnePublisher
    <3> QED
      BY <1>1, <3>1, <3>5 DEF IInv, PortIsFree
  <2>12. ASSUME "discovery" \notin outlived
         PROVE  OneDiscovery' /\ PeersSound' /\ QueuesSound'
    <3>1. peers = {} /\ \A g \in Starts : discovery[g].pc \notin Running \cup {"wait"}
      BY <1>1, <2>12, Quiet
    <3>2. OneDiscovery'
      BY <2>1, <2>5, <2>6, <2>7, <3>1 DEF OneDiscovery, Running
    <3>3. PeersSound'
      BY <1>1, <3>1 DEF PeersSound
    <3>4. \A g \in Starts : ~Thread(g, "new") /\ ~Thread(g, "new")'
      BY <2>6, <2>7, <3>1 DEF Thread, Running
    <3>5. Coming = {} /\ Coming' = {} /\ Ids' = Ids
      BY <1>1, <3>4 DEF Coming, Ids
    <3>6. QueuesSound'
      BY <1>1, <1>4, <2>12, <3>4, <3>5 DEF IInv, QueuesSound
    <3> QED
      BY <3>2, <3>3, <3>6
  <2> QED
    BY <1>1, <2>3, <2>8, <2>9, <2>10, <2>11, <2>12 DEF IInv
<1> QED
  BY <1>5, <1>6

LEMMA StartEndsIInv ==
    ASSUME IInv, NEW q \in Requests, StartEnds(q)
    PROVE  IInv'
<1>1. /\ req[q].pc = "set" /\ Steps(q, "idle") /\ threads_started' = TRUE
      /\ my_info' = my_info /\ shutdown_flag' = shutdown_flag
      /\ threads' = threads /\ starts' = starts
      /\ discovery' = discovery /\ publisher' = publisher
      /\ peers' = peers /\ frame_queues' = frame_queues /\ outlived' = outlived
  BY DEF StartEnds, At, Steps, background
<1>2. /\ Moves(q, "idle") /\ LockSound' /\ config_lock' \in Requests \cup {None}
      /\ \A x \in Requests \ {q} : req[x].pc \notin Inside /\ req'[x].pc \notin Inside
  <2>1. req[q].pc \in Inside
    BY <1>1 DEF Inside, Moves, At
  <2> QED
    BY <1>1, <2>1, InsideMoves
<1>3. threads # 0 /\ threads = starts
  BY <1>1 DEF IInv, ListSound, At
<1>4. Typed'
  BY <1>1, <1>2 DEF IInv, Typed, Moves
<1>5. StartsLeft'
  BY <1>1, InsideStarts DEF Inside, Moves, At
<1>6. ListSound'
  <2>1. \A x \in Requests : req'[x].pc \notin Inside
    BY <1>2 DEF Moves, Inside
  <2> QED
    BY <1>1, <1>3, <2>1 DEF ListSound, Stopped, Inside, At
<1>7. OnePublisher' /\ PortIsFree'
  BY <1>1 DEF IInv, OnePublisher, PortIsFree
<1>8. ASSUME "discovery" \notin outlived
      PROVE  OneDiscovery' /\ PeersSound' /\ QueuesSound'
  <2>1. OneDiscovery' /\ PeersSound'
    BY <1>1, <1>8 DEF IInv, OneDiscovery, PeersSound
  <2>2. \A x \in Requests : ~At(x, "clear queues")
    BY <1>1, <1>2 DEF Inside, Moves, At
  <2>3. QueuesSound'
    BY <1>1, <1>8, <2>2 DEF IInv, QueuesSound, Ids, Coming, Thread
  <2> QED
    BY <2>1, <2>3
<1> QED
  BY <1>1, <1>2, <1>4, <1>5, <1>6, <1>7, <1>8 DEF IInv

-----------------------------------------------------------------------------
(* Threads *)

(* What no thread changes. *)
LEMMA ThreadsStep ==
    ASSUME IInv, UnchangedByThreads,
           discovery' \in [Starts -> Threads],
           publisher' \in [Starts -> {None, "wait", "run", "dead", "refused"}],
           peers' \subseteq [id : Peers, room : Rooms], frame_queues' \subseteq Peers \cup {None},
           OnePublisher', PortIsFree',
           "discovery" \notin outlived => OneDiscovery' /\ PeersSound' /\ QueuesSound'
    PROVE  IInv'
<1>1. /\ my_info' = my_info /\ threads_started' = threads_started
      /\ shutdown_flag' = shutdown_flag /\ config_lock' = config_lock
      /\ threads' = threads /\ starts' = starts /\ req' = req /\ outlived' = outlived
  BY DEF UnchangedByThreads, flags
<1>2. Typed'
  BY <1>1 DEF IInv, Typed
<1>3. StartsLeft' /\ LockSound' /\ ListSound'
  BY <1>1 DEF IInv, StartsLeft, Starters, LockSound, ListSound, At
<1> QED
  BY <1>1, <1>2, <1>3 DEF IInv

LEMMA PublisherIInv ==
    ASSUME IInv, NEW g \in Starts, Publish(g) \/ PublisherEnds(g)
    PROVE  IInv'
<1>1. PICK l \in {"dead", "run", "refused"} :
         /\ publisher' = [publisher EXCEPT ![g] = l]
         /\ l = "run" => publisher[g] = "wait"
         /\ l = "refused" => "publisher" \in outlived
  <2>1. CASE PublisherEnds(g)
    BY <2>1 DEF PublisherEnds
  <2>2. CASE Publish(g)
    <3>1. publisher[g] = "wait"
      BY <2>2 DEF Publish
    <3>2. "publisher" \notin outlived => \A h \in Starts : publisher[h] # "run"
      BY <3>1 DEF IInv, OnePublisher
    <3> QED
      BY <2>2, <3>1, <3>2 DEF Publish
  <2> QED
    BY <2>1, <2>2
<1>2. /\ UnchangedByThreads /\ discovery' = discovery
      /\ peers' = peers /\ frame_queues' = frame_queues
  BY DEF Publish, PublisherEnds
<1>3. /\ my_info' = my_info /\ threads_started' = threads_started
      /\ threads' = threads /\ starts' = starts /\ req' = req /\ outlived' = outlived
  BY <1>2 DEF UnchangedByThreads, flags
<1>4. /\ publisher'[g] = l /\ \A h \in Starts \ {g} : publisher'[h] = publisher[h]
      /\ publisher' \in [Starts -> {None, "wait", "run", "dead", "refused"}]
  BY <1>1 DEF IInv, Typed
<1>5. publisher[g] # None
  BY DEF Publish, PublisherEnds, None
<1>6. OnePublisher' /\ PortIsFree'
  BY <1>1, <1>3, <1>4, <1>5 DEF IInv, OnePublisher, PortIsFree
<1>7. ASSUME "discovery" \notin outlived
      PROVE  OneDiscovery' /\ PeersSound' /\ QueuesSound'
  BY <1>2, <1>3, <1>7 DEF IInv, OneDiscovery, PeersSound, QueuesSound, Ids, Coming, Thread, At
<1> QED
  BY <1>2, <1>4, <1>6, <1>7, ThreadsStep DEF IInv, Typed

(* A step of a discovery thread keeps IInv if it keeps what is known of    *)
(* the peers.                                                              *)
LEMMA DiscoveryStep ==
    ASSUME IInv, NEW g \in Starts, UnchangedByThreads, publisher' = publisher,
           NEW m \in Threads, discovery' = [discovery EXCEPT ![g] = m],
           discovery[g].pc \in Running \cup {"wait"}, m.pc \in Running \cup {"dead"},
           "discovery" \notin outlived /\ m.pc \in Running =>
             threads_started /\ (my_info = NoInfo \/ m.room = my_info.room),
           peers' \subseteq [id : Peers, room : Rooms], frame_queues' \subseteq Peers \cup {None},
           "discovery" \notin outlived => PeersSound' /\ QueuesSound'
    PROVE  IInv'
<1>1. /\ my_info' = my_info /\ threads_started' = threads_started
      /\ threads' = threads /\ starts' = starts /\ req' = req /\ outlived' = outlived
  BY DEF UnchangedByThreads, flags
<1>2. /\ discovery'[g] = m /\ \A h \in Starts \ {g} : discovery'[h] = discovery[h]
      /\ discovery' \in [Starts -> Threads]
  BY DEF IInv, Typed
<1>3. OnePublisher' /\ PortIsFree'
  BY <1>1 DEF IInv, OnePublisher, PortIsFree
<1>4. "discovery" \notin outlived => OneDiscovery'
  BY <1>1, <1>2 DEF IInv, OneDiscovery, Running
<1>5. publisher' \in [Starts -> {None, "wait", "run", "dead", "refused"}]
  BY DEF IInv, Typed
<1> QED
  BY <1>2, <1>3, <1>4, <1>5, ThreadsStep

(* One that neither hears of a peer nor forgets one. *)
LEMMA DiscoveryWaits ==
    ASSUME IInv, NEW g \in Starts,
           DiscoveryBegins(g) \/ DiscoveryLoop(g) \/ HearsItself(g)
    PROVE  IInv'
<1>1. discovery[g] \in Threads /\ my_info \in Infos
  BY DEF IInv, Typed
<1>2. PICK m \in Threads :
         /\ discovery' = [discovery EXCEPT ![g] = m] /\ m.pc \in {"loop", "recv", "dead"}
         /\ \/ m.pc = "dead"
            \/ m.room = my_info.room /\ threads_started
            \/ m.room = discovery[g].room /\ discovery[g].pc \in Running
  <2>1. Dead \in Threads /\ Dead.pc = "dead"
    BY DEF Dead, NotStarted, Threads
  <2>2. CASE DiscoveryBegins(g)
    <3>1. [pc |-> "loop", room |-> my_info.room, peer |-> None] \in Threads
      BY <1>1 DEF Infos, Threads, Running
    <3> QED
      BY <2>1, <2>2, <3>1 DEF DiscoveryBegins
  <2>3. ASSUME NEW l \in {"loop", "recv"}
        PROVE  /\ [discovery[g] EXCEPT !.pc = l] \in Threads
               /\ [discovery[g] EXCEPT !.pc = l].pc = l
               /\ [discovery[g] EXCEPT !.pc = l].room = discovery[g].room
    BY <1>1 DEF Threads, Running
  <2>4. CASE DiscoveryLoop(g)
    BY <2>1, <2>3, <2>4 DEF DiscoveryLoop, Thread, Running
  <2>5. CASE HearsItself(g)
    <3>1. discovery' = [discovery EXCEPT ![g] = [discovery[g] EXCEPT !.pc = "loop"]]
      BY <2>5 DEF HearsItself, ThreadGoto
    <3> QED
      BY <2>3, <2>5, <3>1 DEF HearsItself, Thread, Running
  <2> QED
    BY <2>2, <2>4, <2>5
<1>3. /\ UnchangedByThreads /\ publisher' = publisher
      /\ peers' = peers /\ frame_queues' = frame_queues
  BY DEF DiscoveryBegins, DiscoveryLoop, HearsItself
<1>4. /\ my_info' = my_info /\ threads_started' = threads_started /\ req' = req
  BY <1>3 DEF UnchangedByThreads, flags
<1>5. discovery[g].pc \in {"wait", "loop", "recv"}
  BY DEF DiscoveryBegins, DiscoveryLoop, HearsItself, Thread
<1>6. /\ discovery'[g] = m /\ \A h \in Starts \ {g} : discovery'[h] = discovery[h]
  BY <1>2 DEF IInv, Typed
<1>7. ASSUME "discovery" \notin outlived
      PROVE  PeersSound' /\ QueuesSound'
  <2>1. PeersSound'
    BY <1>3, <1>4, <1>7 DEF IInv, PeersSound, At
  <2>2. \A h \in Starts : /\ Thread(h, "new") <=> Thread(h, "new")'
                          /\ Thread(h, "new") => discovery'[h] = discovery[h]
    BY <1>2, <1>5, <1>6 DEF Thread
  <2>3. Coming' = Coming
    BY <2>2 DEF Coming
  <2>4. QueuesSound'
    BY <1>3, <1>4, <1>7, <2>2, <2>3 DEF IInv, QueuesSound, Ids, At
  <2> QED
    BY <2>1, <2>4
<1>8. "discovery" \notin outlived /\ m.pc \in Running =>
             threads_started /\ (my_info = NoInfo \/ m.room = my_info.room)
  BY <1>2 DEF IInv, OneDiscovery, Running
<1>9. discovery[g].pc \in Running \cup {"wait"} /\ m.pc \in Running \cup {"dead"}
  BY <1>2, <1>5 DEF Running
<1>10. peers' \subseteq [id : Peers, room : Rooms] /\ frame_queues' \subseteq Peers \cup {None}
  BY <1>3 DEF IInv, Typed
<1> QED
  BY <1>2, <1>3, <1>7, <1>8, <1>9, <1>10, DiscoveryStep

(* While a discovery thread is busy there is no other, and every peer has  *)
(* a queue but for the one it has just heard of.                           *)
LEMMA Busy ==
    ASSUME IInv, "discovery" \notin outlived, NEW g \in Starts, discovery[g].pc \in Running
    PROVE  /\ threads_started /\ (my_info = NoInfo \/ discovery[g].room = my_info.room)
           /\ \A h \in Starts \ {g} : discovery[h].pc \notin Running
           /\ Ids = frame_queues \cup (IF Thread(g, "new") THEN {discovery[g].peer} ELSE {})
<1>1. /\ threads_started /\ (my_info = NoInfo \/ discovery[g].room = my_info.room)
      /\ \A h \in Starts \ {g} : discovery[h].pc \notin Running
  BY DEF IInv, OneDiscovery
<1>2. \A q \in Requests : ~At(q, "clear queues")
  BY <1>1 DEF IInv, ListSound, Stopped, Inside, At
<1>3. Ids = frame_queues \cup Coming
  BY <1>2 DEF IInv, QueuesSound
<1>4. Coming = IF Thread(g, "new") THEN {discovery[g].peer} ELSE {}
  <2>1. \A h \in Starts \ {g} : ~Thread(h, "new")
    BY <1>1 DEF Thread, Running
  <2> QED
    BY <2>1 DEF Coming
<1> QED
  BY <1>1, <1>3, <1>4

LEMMA StillQueued ==
    ASSUME IInv, "discovery" \notin outlived, NEW g \in Starts, discovery[g].pc \in Running,
           UnchangedByThreads, NEW m \in Threads, discovery' = [discovery EXCEPT ![g] = m],
           Ids' = frame_queues' \cup (IF m.pc = "new" THEN {m.peer} ELSE {})
    PROVE  QueuesSound'
<1>1. discovery'[g] = m /\ \A h \in Starts \ {g} : discovery'[h] = discovery[h]
  BY DEF IInv, Typed
<1>2. \A h \in Starts \ {g} : ~Thread(h, "new")'
  BY <1>1, Busy DEF Thread, Running
<1>3. Thread(g, "new")' <=> m.pc = "new"
  BY <1>1 DEF Thread
<1>4. Coming' = IF m.pc = "new" THEN {m.peer} ELSE {}
  BY <1>1, <1>2, <1>3 DEF Coming
<1> QED
  BY <1>1, <1>2, <1>3, <1>4 DEF QueuesSound

LEMMA HearsIInv ==
    ASSUME IInv, NEW g \in Starts, Hears(g)
    PROVE  IInv'
<1>1. discovery[g] \in Threads /\ discovery[g].pc = "recv"
  BY DEF Hears, Thread, IInv, Typed
<1>2. /\ UnchangedByThreads /\ publisher' = publisher /\ frame_queues' = frame_queues
  BY DEF Hears
<1>3. /\ my_info' = my_info /\ threads_started' = threads_started /\ req' = req
  BY <1>2 DEF UnchangedByThreads, flags
<1>4. PICK p \in Peers, r \in Rooms :
         \/ /\ r # discovery[g].room
            /\ discovery' = [discovery EXCEPT ![g].pc = "expire", ![g].peer = None]
            /\ UNCHANGED peers
         \/ /\ r = discovery[g].room
            /\ peers' = {e \in peers : e.id # p} \cup {[id |-> p, room |-> r]}
            /\ discovery' = [discovery EXCEPT ![g].pc = IF Known(p) THEN "expire" ELSE "new",
                                              ![g].peer = p]
  BY DEF Hears
<1>5. PICK m \in Threads :
         /\ discovery' = [discovery EXCEPT ![g] = m] /\ m.room = discovery[g].room
         /\ \/ peers' = peers /\ m.pc = "expire"
            \/ /\ peers' = {e \in peers : e.id # p} \cup {[id |-> p, room |-> discovery[g].room]}
               /\ m.peer = p /\ m.pc = IF Known(p) THEN "expire" ELSE "new"
               /\ discovery[g].room \in Rooms
  <2>2. discovery \in [Starts -> Threads]
    BY DEF IInv, Typed
  <2>3. CASE r # discovery[g].room
    <3>1. /\ discovery' = [discovery EXCEPT ![g].pc = "expire", ![g].peer = None]
          /\ peers' = peers
      BY <1>4, <2>3
    <3>2. /\ [discovery[g] EXCEPT !.pc = "expire", !.peer = None] \in Threads
          /\ [discovery[g] EXCEPT !.pc = "expire", !.peer = None].pc = "expire"
          /\ [discovery[g] EXCEPT !.pc = "expire", !.peer = None].room = discovery[g].room
      BY <1>1 DEF Threads, Running
    <3>3. discovery' = [discovery EXCEPT ![g] = [discovery[g] EXCEPT !.pc = "expire", !.peer = None]]
      BY <2>2, <3>1
    <3> QED
      BY <3>1, <3>2, <3>3
  <2>4. CASE r = discovery[g].room
    <3>1. PICK l \in {"expire", "new"} : l = IF Known(p) THEN "expire" ELSE "new"
      OBVIOUS
    <3>2. /\ peers' = {e \in peers : e.id # p} \cup {[id |-> p, room |-> discovery[g].room]}
          /\ discovery' = [discovery EXCEPT ![g].pc = l, ![g].peer = p]
      BY <1>4, <2>4, <3>1
    <3>3. /\ [discovery[g] EXCEPT !.pc = l, !.peer = p] \in Threads
          /\ [discovery[g] EXCEPT !.pc = l, !.peer = p].pc = l
          /\ [discovery[g] EXCEPT !.pc = l, !.peer = p].peer = p
          /\ [discovery[g] EXCEPT !.pc = l, !.peer = p].room = discovery[g].room
      BY <1>1 DEF Threads, Running
    <3>4. discovery' = [discovery EXCEPT ![g] = [discovery[g] EXCEPT !.pc = l, !.peer = p]]
      BY <2>2, <3>2
    <3> QED
      BY <2>4, <3>1, <3>2, <3>3, <3>4
  <2> QED
    BY <2>3, <2>4
<1>6. discovery[g].pc \in Running /\ m.pc \in Running
  BY <1>1, <1>5 DEF Running
<1>7. peers' \subseteq [id : Peers, room : Rooms] /\ frame_queues' \subseteq Peers \cup {None}
  BY <1>2, <1>5 DEF IInv, Typed
<1>8. ASSUME "discovery" \notin outlived
      PROVE  PeersSound' /\ QueuesSound'
  <2>1. /\ threads_started /\ (my_info = NoInfo \/ discovery[g].room = my_info.room)
        /\ Ids = frame_queues
    BY <1>1, <1>6, <1>8, Busy DEF Thread
  <2>2. PeersSound'
    <3>1. \A e \in peers : my_info = NoInfo \/ e.room = my_info.room
      BY <1>8 DEF IInv, PeersSound
    <3> QED
      BY <1>3, <1>5, <2>1, <3>1 DEF PeersSound
  <2>3. Ids' = frame_queues' \cup (IF m.pc = "new" THEN {m.peer} ELSE {})
    <3>1. CASE peers' = peers /\ m.pc = "expire"
      BY <1>2, <2>1, <3>1 DEF Ids
    <3>2. CASE /\ peers' = {e \in peers : e.id # p} \cup {[id |-> p, room |-> discovery[g].room]}
               /\ m.peer = p /\ m.pc = IF Known(p) THEN "expire" ELSE "new"
               /\ discovery[g].room \in Rooms
      <4>1. Ids' = Ids \cup {p}
        <5>1. \A x : x \in Ids' <=> \E e \in peers' : e.id = x
          BY DEF Ids
        <5>2. \A x : x \in Ids <=> \E e \in peers : e.id = x
          BY DEF Ids
        <5> DEFINE n == [id |-> p, room |-> discovery[g].room]
        <5>3. n.id = p
          OBVIOUS
        <5>4. \A e : e \in peers' <=> (e \in peers /\ e.id # p) \/ e = n
          BY <3>2
        <5> HIDE DEF n
        <5>5. \A x : x \in Ids' <=> x \in Ids \/ x = p
          BY <5>1, <5>2, <5>3, <5>4
        <5> QED
          BY <5>5
      <4>2. Known(p) <=> p \in Ids
        BY DEF Known, Ids
      <4> QED
        BY <1>2, <2>1, <3>2, <4>1, <4>2
    <3> QED
      BY <1>5, <3>1, <3>2
  <2>4. QueuesSound'
    BY <1>2, <1>5, <1>6, <1>8, <2>3, StillQueued
  <2> QED
    BY <2>2, <2>4
<1>9. "discovery" \notin outlived => threads_started /\ (my_info = NoInfo \/ m.room = my_info.room)
  BY <1>5, <1>6, Busy
<1> QED
  BY <1>2, <1>5, <1>6, <1>7, <1>8, <1>9, DiscoveryStep

LEMMA AddsQueueIInv ==
    ASSUME IInv, NEW g \in Starts, AddsQueue(g)
    PROVE  IInv'
<1>1. discovery[g] \in Threads /\ discovery[g].pc = "new"
  BY DEF AddsQueue, Thread, IInv, Typed
<1>2. /\ UnchangedByThreads /\ publisher' = publisher /\ peers' = peers
      /\ frame_queues' = frame_queues \cup {discovery[g].peer}
  BY DEF AddsQueue
<1>3. /\ my_info' = my_info /\ threads_started' = threads_started /\ req' = req
  BY <1>2 DEF UnchangedByThreads, flags
<1>4. PICK m \in Threads :
         /\ discovery' = [discovery EXCEPT ![g] = m]
         /\ m.pc = "expire" /\ m.room = discovery[g].room
  <2>1. /\ [discovery[g] EXCEPT !.pc = "expire"] \in Threads
        /\ [discovery[g] EXCEPT !.pc = "expire"].pc = "expire"
        /\ [discovery[g] EXCEPT !.pc = "expire"].room = discovery[g].room
    BY <1>1 DEF Threads, Running
  <2>2. discovery' = [discovery EXCEPT ![g] = [discovery[g] EXCEPT !.pc = "expire"]]
    BY DEF AddsQueue, ThreadGoto
  <2> QED
    BY <2>1, <2>2
<1>5. discovery[g].pc \in Running /\ m.pc \in Running
  BY <1>1, <1>4 DEF Running
<1>6. peers' \subseteq [id : Peers, room : Rooms] /\ frame_queues' \subseteq Peers \cup {None}
  BY <1>1, <1>2 DEF IInv, Typed, Threads
<1>7. ASSUME "discovery" \notin outlived
      PROVE  PeersSound' /\ QueuesSound'
  <2>1. threads_started /\ Ids = frame_queues \cup {discovery[g].peer}
    BY <1>1, <1>5, <1>7, Busy DEF Thread
  <2>2. PeersSound'
    BY <1>2, <1>3, <1>7, <2>1 DEF IInv, PeersSound
  <2>3. Ids' = frame_queues' \cup (IF m.pc = "new" THEN {m.peer} ELSE {})
    BY <1>2, <1>4, <2>1 DEF Ids
  <2>4. QueuesSound'
    BY <1>2, <1>4, <1>5, <1>7, <2>3, StillQueued
  <2> QED
    BY <2>2, <2>4
<1>8. "discovery" \notin outlived => threads_started /\ (my_info = NoInfo \/ m.room = my_info.room)
  BY <1>4, <1>5, Busy
<1> QED
  BY <1>2, <1>4, <1>5, <1>6, <1>7, <1>8, DiscoveryStep

LEMMA ExpiresIInv ==
    ASSUME IInv, NEW g \in Starts, Expires(g)
    PROVE  IInv'
<1>1. discovery[g] \in Threads /\ discovery[g].pc = "expire"
  BY DEF Expires, Thread, IInv, Typed
<1>2. PICK Old \in SUBSET ({e.id : e \in peers} \ {discovery[g].peer}) :
         /\ peers' = {e \in peers : e.id \notin Old}
         /\ frame_queues' = frame_queues \ Old
         /\ UnchangedByThreads /\ publisher' = publisher
  BY DEF Expires
<1>3. /\ my_info' = my_info /\ threads_started' = threads_started /\ req' = req
  BY <1>2 DEF UnchangedByThreads, flags
<1>4. PICK m \in Threads :
         /\ discovery' = [discovery EXCEPT ![g] = m]
         /\ m.pc = "loop" /\ m.room = discovery[g].room
  <2>1. /\ [discovery[g] EXCEPT !.pc = "loop", !.peer = None] \in Threads
        /\ [discovery[g] EXCEPT !.pc = "loop", !.peer = None].pc = "loop"
        /\ [discovery[g] EXCEPT !.pc = "loop", !.peer = None].room = discovery[g].room
    BY <1>1 DEF Threads, Running
  <2>2. discovery \in [Starts -> Threads]
    BY DEF IInv, Typed
  <2>3. discovery' = [discovery EXCEPT ![g].pc = "loop", ![g].peer = None]
    BY DEF Expires
  <2>4. discovery' = [discovery EXCEPT ![g] = [discovery[g] EXCEPT !.pc = "loop", !.peer = None]]
    BY <2>2, <2>3
  <2> QED
    BY <2>1, <2>4
<1>5. discovery[g].pc \in Running /\ m.pc \in Running
  BY <1>1, <1>4 DEF Running
<1>6. peers' \subseteq [id : Peers, room : Rooms] /\ frame_queues' \subseteq Peers \cup {None}
  BY <1>2 DEF IInv, Typed
<1>7. ASSUME "discovery" \notin outlived
      PROVE  PeersSound' /\ QueuesSound'
  <2>1. threads_started /\ Ids = frame_queues
    BY <1>1, <1>5, <1>7, Busy DEF Thread
  <2>2. PeersSound'
    BY <1>2, <1>3, <1>7, <2>1 DEF IInv, PeersSound
  <2>3. Ids' = Ids \ Old
    BY <1>2 DEF Ids
  <2>4. Ids' = frame_queues' \cup (IF m.pc = "new" THEN {m.peer} ELSE {})
    BY <1>2, <1>4, <2>1, <2>3
  <2>5. QueuesSound'
    BY <1>2, <1>4, <1>5, <1>7, <2>4, StillQueued
  <2> QED
    BY <2>2, <2>5
<1>8. "discovery" \notin outlived => threads_started /\ (my_info = NoInfo \/ m.room = my_info.room)
  BY <1>4, <1>5, Busy
<1> QED
  BY <1>2, <1>4, <1>5, <1>6, <1>7, <1>8, DiscoveryStep

-----------------------------------------------------------------------------
LEMMA InitIInv ==
    ASSUME Init
    PROVE  IInv
<1>1. Typed
  BY DEF Init, Typed, NoInfo, Infos, Idle, Reqs, NotStarted, Threads
<1>2. StartsLeft
  <2>1. Starters = {}
    BY DEF Init, Starters, Idle, None
  <2> QED
    BY <2>1, FS_EmptySet, Names DEF Init, StartsLeft, Idle, At
<1>3. LockSound /\ ListSound
  BY Names DEF Init, LockSound, ListSound, Idle, Inside, Stopped, At
<1>4. OnePublisher /\ PortIsFree
  BY DEF Init, OnePublisher, PortIsFree, None
<1>5. OneDiscovery /\ PeersSound
  BY DEF Init, OneDiscovery, PeersSound, NotStarted, Running, None
<1>6. QueuesSound
  BY DEF Init, QueuesSound, Ids, Coming, Thread, NotStarted, None
<1> QED
  BY <1>1, <1>2, <1>3, <1>4, <1>5, <1>6 DEF IInv

LEMMA NextIInv ==
    ASSUME IInv, [Next]_vars
    PROVE  IInv'
<1>1. CASE UNCHANGED vars
  <2>1. /\ my_info' = my_info /\ threads_started' = threads_started
        /\ shutdown_flag' = shutdown_flag /\ config_lock' = config_lock
        /\ threads' = threads /\ starts' = starts /\ discovery' = discovery
        /\ publisher' = publisher /\ peers' = peers /\ frame_queues' = frame_queues
        /\ req' = req /\ outlived' = outlived
    BY <1>1 DEF vars, flags, background
  <2>2. Typed' /\ StartsLeft'
    BY <2>1 DEF IInv, Typed, StartsLeft, Starters, At
  <2>3. LockSound' /\ ListSound'
    BY <2>1 DEF IInv, LockSound, ListSound, At
  <2>4. OnePublisher' /\ PortIsFree'
    BY <2>1 DEF IInv, OnePublisher, PortIsFree
  <2>5. "discovery" \notin outlived' => OneDiscovery' /\ PeersSound' /\ QueuesSound'
    BY <2>1 DEF IInv, OneDiscovery, PeersSound, QueuesSound, Ids, Coming, Thread, At
  <2> QED
    BY <2>2, <2>3, <2>4, <2>5 DEF IInv
<1>2. ASSUME NEW q \in Requests, Request(q) \/ Serve(q)
      PROVE  IInv'
  BY <1>2, RequestIInv, LooksIInv, LockedIInv, StopBeginsIInv, StopJoinsIInv,
     StopClearsPeersIInv, StopClearsQueuesIInv, InfoIInv, StartIInv, StartEndsIInv DEF Serve
<1>3. ASSUME NEW g \in Starts,
             Publish(g) \/ PublisherEnds(g) \/ Discover(g) \/ HearsItself(g) \/ Hears(g)
      PROVE  IInv'
  BY <1>3, PublisherIInv, DiscoveryWaits, HearsIInv, AddsQueueIInv, ExpiresIInv DEF Discover
<1> QED
  BY <1>1, <1>2, <1>3 DEF Next

THEOREM Inductive == Spec => []IInv
BY InitIInv, NextIInv, PTL DEF Spec

(* As long as the camera has kept no publisher beyond the end of its       *)
(* session, that of a session never finds the port still bound by one of   *)
(* an earlier session, whatever requests are served at the same time.      *)
THEOREM PortNeverTaken == Spec => []PortIsFree
<1>1. IInv => PortIsFree
  BY DEF IInv
<1> QED
  BY <1>1, Inductive, PTL

(* Unless a discovery thread has outlived its session, the peers known are *)
(* those of the room that one is in, each with its queue of frames.        *)
THEOREM SessionsAreClean == Spec => []SessionIsClean
<1>1. ASSUME IInv, "discovery" \notin outlived
      PROVE  /\ Session => \A e \in peers : e.room = my_info.room
             /\ (\A q \in Requests : req[q].pc # "clear queues") => Ids = frame_queues \cup Coming
  BY <1>1 DEF IInv, PeersSound, QueuesSound, Session, At
<1>2. IInv => SessionIsClean
  BY <1>1 DEF SessionIsClean, Ids, Coming
<1> QED
  BY <1>2, Inductive, PTL

=============================================================================
