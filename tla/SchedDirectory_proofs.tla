----------------------- MODULE SchedDirectory_proofs ------------------------
(***************************************************************************)
(* The proofs about how tasks sleep and wake (Sched) and about the calls   *)
(* by which they look up, make and remove names (Directory). They share no *)
(* state and no definition.                                                *)
(*                                                                         *)
(* Sched: with sleep_on() alone every sleeper can be woken, and nobody     *)
(* wakes a task that has died. IInv adds that each sleeper is known to one *)
(* place only, its queue or the tmp of the task that fell asleep after it, *)
(* so that waking it there leaves no pointer to it behind.                 *)
(*                                                                         *)
(* Directory: every reference to an inode is given back, and the names     *)
(* make a tree. DirIInv adds what a call that is in the middle of its      *)
(* search has in hand: with the counts of the inodes it says that an inode *)
(* nobody counts has no name left, and that the directory a call goes on   *)
(* with is still what it was when the call got hold of it, unless somebody *)
(* has removed it meanwhile.                                               *)
(***************************************************************************)
EXTENDS Sched, Directory, FiniteSetTheorems, SequenceTheorems, TLAPS

(* The current task is not asleep; a task in a queue is in sleep_on(), and *)
(* neither dead nor asleep anywhere else.                                  *)
PlacesSound ==
    /\ current # Idle => state[current] = "running"
    /\ \A t \in Tasks : /\ on[t] # NoQueue <=> pc[t] = "sleep"
                        /\ tmp[t] # NULL => on[t] # NoQueue
                        /\ on[t] # NoQueue => state[t] \in {"running", "uninterruptible"}

(* Who is known to a queue, or to one of its tasks, sleeps there, and is   *)
(* known to nobody else.                                                   *)
Known ==
    /\ \A q \in Queues : queue[q] # NULL => queue[q] \in Asleep(q)
    /\ \A t \in Tasks : tmp[t] # NULL => /\ tmp[t] \in Asleep(on[t])
                                         /\ tmp[t] # queue[on[t]]
    /\ \A t, u \in Tasks : tmp[t] = tmp[u] /\ tmp[t] # NULL => t = u

Waiting == PlacesSound /\ Known /\ \A q \in Queues : Reachable(q)

IInv == TypeOK /\ (interruptible = {} => Waiting)
-----------------------------------------------------------------------------
(* schedule() *)

LEMMA Slices ==
  ASSUME NEW cnt \in [Tasks -> 0..2 * PRIORITY], NEW run
  PROVE  Recharge(cnt, run) \in [Tasks -> 0..2 * PRIORITY]
<1>1. \A t \in Tasks : cnt[t] \div 2 + PRIORITY \in 0..2 * PRIORITY
  BY SchedAssumption
<1>. QED BY <1>1 DEF Recharge, NewSlices

(* What schedule() does with the tasks' states: it wakes interruptible     *)
(* ones, and what it chooses runs.                                         *)
LEMMA Scheduling ==
  ASSUME NEW st \in [Tasks -> {"running", "interruptible", "uninterruptible", "zombie"}],
         NEW cnt \in [Tasks -> 0..2 * PRIORITY], Schedule(st, cnt)
  PROVE  /\ state' \in [Tasks -> {"running", "interruptible", "uninterruptible", "zombie"}]
         /\ counter' \in [Tasks -> 0..2 * PRIORITY]
         /\ current' \in Tasks \cup {Idle}
         /\ current' # Idle => state'[current'] = "running"
         /\ \A t \in Tasks : st[t] # "interruptible" => state'[t] = st[t]
<1>1. state' = WithSignals(st)
  BY DEF Schedule
<1>2. \A t \in Tasks : state'[t] = IF signal[t] /\ st[t] = "interruptible"
                                   THEN "running" ELSE st[t]
  BY <1>1 DEF WithSignals
<1>3. state' \in [Tasks -> {"running", "interruptible", "uninterruptible", "zombie"}]
  BY <1>1 DEF WithSignals
<1>4. counter' \in [Tasks -> 0..2 * PRIORITY]
  BY Slices DEF Schedule
<1>5. current' = Idle \/ current' \in {t \in Tasks : state'[t] = "running"}
  BY <1>1 DEF Schedule
<1>. QED BY <1>2, <1>3, <1>4, <1>5

LEMMA NamesDiffer == Idle \notin Tasks /\ NULL \notin Tasks /\ NoQueue \notin Queues
BY SchedAssumption DEF Idle, NULL, NoQueue, Tasks

LEMMA AwokenTyped ==
  ASSUME TypeOK, NEW t \in Tasks \cup {NULL}
  PROVE  /\ Awoken(state, t)
               \in [Tasks -> {"running", "interruptible", "uninterruptible", "zombie"}]
         /\ \A u \in Tasks : Awoken(state, t)[u] = IF u = t THEN "running" ELSE state[u]
BY NamesDiffer DEF Awoken, TypeOK
-----------------------------------------------------------------------------
LEMMA TypeStep == TypeOK /\ [Next]_vars => TypeOK'
<1>. SUFFICES ASSUME TypeOK, [Next]_vars PROVE TypeOK'
  OBVIOUS
<1>. USE SchedAssumption
<1>1. CASE UNCHANGED vars
  BY <1>1 DEF vars, TypeOK
<1>2. CASE IdleLoop
  BY <1>2, Scheduling DEF IdleLoop, queues, TypeOK
<1>3. ASSUME NEW q \in Queues, Interrupt(q) PROVE TypeOK'
  BY <1>3, AwokenTyped, NamesDiffer DEF Interrupt, WakeUp, TypeOK
<1>4. ASSUME NEW t \in Tasks, current = t, SystemCall(t) PROVE TypeOK'
  BY <1>4 DEF SystemCall, Goto, queues, TypeOK
<1>5. ASSUME NEW t \in Tasks, current = t, Pause(t) PROVE TypeOK'
  <2>1. [state EXCEPT ![t] = "interruptible"]
            \in [Tasks -> {"running", "interruptible", "uninterruptible", "zombie"}]
    BY DEF TypeOK
  <2>. QED BY <1>5, <2>1, Scheduling DEF Pause, Goto, queues, TypeOK
<1>6. ASSUME NEW t \in Tasks, current = t, Exit(t) PROVE TypeOK'
  <2>1. [state EXCEPT ![t] = "zombie"]
            \in [Tasks -> {"running", "interruptible", "uninterruptible", "zombie"}]
    BY DEF TypeOK
  <2>. QED BY <1>6, <2>1, Scheduling DEF Exit, Goto, queues, TypeOK
<1>7. ASSUME NEW t \in Tasks, current = t, Tick(t) PROVE TypeOK'
  <2>1. counter[t] \in 0..2 * PRIORITY
    BY DEF TypeOK
  <2>2. (IF counter[t] > 0 THEN counter[t] - 1 ELSE 0) \in 0..2 * PRIORITY
    BY <2>1
  <2>3. PICK cnt : /\ cnt = [counter EXCEPT ![t] = IF counter[t] > 0 THEN counter[t] - 1 ELSE 0]
                   /\ cnt \in [Tasks -> 0..2 * PRIORITY]
    <3>. DEFINE cnt == [counter EXCEPT ![t] = IF counter[t] > 0 THEN counter[t] - 1 ELSE 0]
    <3>1. cnt \in [Tasks -> 0..2 * PRIORITY]
      BY <2>2 DEF TypeOK
    <3>. QED BY <3>1
  <2>4. \/ Schedule(state, cnt)
        \/ counter' = cnt /\ UNCHANGED <<current, state>>
    BY <1>7, <2>3 DEF Tick
  <2>5. /\ state' \in [Tasks -> {"running", "interruptible", "uninterruptible", "zombie"}]
        /\ counter' \in [Tasks -> 0..2 * PRIORITY]
        /\ current' \in Tasks \cup {Idle}
    BY <2>3, <2>4, Scheduling DEF TypeOK
  <2>. QED BY <1>7, <2>5 DEF Tick, Goto, queues, TypeOK
<1>8. ASSUME NEW t \in Tasks, current = t, WakeFromSleep(t) PROVE TypeOK'
  BY <1>8, AwokenTyped DEF WakeFromSleep, Awake, WakePrevious, Goto, TypeOK
<1>9. ASSUME NEW t \in Tasks, current = t, WakeOnTop(t) PROVE TypeOK'
  BY <1>9, AwokenTyped DEF WakeOnTop, Awake, WakePrevious, Goto, TypeOK
<1>10. ASSUME NEW t \in Tasks, current = t, WakeBelow(t) PROVE TypeOK'
  <2>1. queue[on[t]] \in Tasks \cup {NULL}
    BY <1>10 DEF WakeBelow, TypeOK
  <2>2. [Awoken(state, queue[on[t]]) EXCEPT ![t] = "interruptible"]
            \in [Tasks -> {"running", "interruptible", "uninterruptible", "zombie"}]
    BY <2>1, AwokenTyped
  <2>. QED BY <1>10, <2>2, Scheduling DEF WakeBelow, queues, TypeOK
<1>11. ASSUME NEW t \in Tasks, current = t, WakeFromPause(t) PROVE TypeOK'
  BY <1>11 DEF WakeFromPause, Goto, queues, TypeOK
<1>12. ASSUME NEW t \in Tasks, current = t, Return(t) PROVE TypeOK'
  <2>1. /\ state' \in [Tasks -> {"running", "interruptible", "uninterruptible", "zombie"}]
        /\ counter' \in [Tasks -> 0..2 * PRIORITY]
        /\ current' \in Tasks \cup {Idle}
    BY <1>12, Scheduling DEF Return, TypeOK
  <2>. QED BY <1>12, <2>1 DEF Return, Goto, queues, TypeOK
<1>13. ASSUME NEW t \in Tasks, current = t, Leave(t) PROVE TypeOK'
  BY <1>13 DEF Leave, Goto, queues, TypeOK
<1>14. ASSUME NEW t \in Tasks, current = t, NEW q \in Queues, SleepOn(t, q) PROVE TypeOK'
  <2>1. [state EXCEPT ![t] = IF q \in interruptible THEN "interruptible" ELSE "uninterruptible"]
            \in [Tasks -> {"running", "interruptible", "uninterruptible", "zombie"}]
    BY DEF TypeOK
  <2>. QED BY <1>14, <2>1, Scheduling DEF SleepOn, Goto, TypeOK
<1>15. ASSUME NEW t \in Tasks, current = t, NEW u \in Tasks, Kill(t, u) PROVE TypeOK'
  BY <1>15 DEF Kill, queues, TypeOK
<1>. QED BY <1>1, <1>2, <1>3, <1>4, <1>5, <1>6, <1>7, <1>8, <1>9, <1>10, <1>11, <1>12, <1>13,
            <1>14, <1>15 DEF Next, Finish
-----------------------------------------------------------------------------
(* What a step leaves of the queues *)

(* Nobody in a queue is woken, none leaves, none comes. *)
LEMMA WaitingKept ==
  ASSUME TypeOK, TypeOK', Waiting,
         queue' = queue, tmp' = tmp, on' = on,
         current' # Idle => state'[current'] = "running",
         \A t \in Tasks : IF on[t] = NoQueue THEN pc'[t] # "sleep"
                          ELSE pc'[t] = "sleep" /\ state'[t] = state[t]
  PROVE  Waiting'
<1>1. PlacesSound'
  BY DEF Waiting, PlacesSound
<1>2. \A q \in Queues : Asleep(q)' = Asleep(q) /\ NextToWake(q)' = NextToWake(q)
  BY NamesDiffer DEF Asleep, NextToWake
<1>3. Known'
  <2>1. \A t \in Tasks : tmp[t] # NULL => on[t] \in Queues
    BY DEF Waiting, PlacesSound, TypeOK
  <2>2. \A t \in Tasks : tmp[t] # NULL => Asleep(on[t])' = Asleep(on[t])
    BY <1>2, <2>1
  <2>. QED BY <1>2, <2>2 DEF Waiting, Known
<1>4. \A q \in Queues : Reachable(q)'
  BY <1>2 DEF Waiting, Reachable, Chained
<1>. QED BY <1>1, <1>3, <1>4 DEF Waiting

(* wake_up(): the queue's last sleeper is known to nobody else. *)
LEMMA WaitingInterrupt ==
  ASSUME TypeOK, TypeOK', Waiting, NEW q \in Queues, Interrupt(q)
  PROVE  Waiting'
<1>. DEFINE h == queue[q]
<1>0. /\ h \in Tasks /\ on[h] = q /\ q # NoQueue
  BY NamesDiffer DEF Waiting, Known, Asleep, Interrupt
<1>1. /\ queue' = [queue EXCEPT ![q] = NULL] /\ state' = [state EXCEPT ![h] = "running"]
      /\ tmp' = tmp /\ on' = on /\ pc' = pc /\ current' = current
  BY <1>0, NamesDiffer DEF Interrupt, WakeUp, Awoken
<1>2. \A t \in Tasks : state'[t] = IF t = h THEN "running" ELSE state[t]
  BY <1>0, <1>1 DEF TypeOK
<1>3. \A r \in Queues : queue'[r] = IF r = q THEN NULL ELSE queue[r]
  BY <1>1 DEF TypeOK
<1>4. PlacesSound'
  BY <1>1, <1>2 DEF Waiting, PlacesSound, TypeOK
<1>5. \A r \in Queues : Asleep(r)' = Asleep(r) \ {h}
  BY <1>0, <1>1, <1>2 DEF Asleep
<1>6. Known'
  <2>1. ASSUME NEW r \in Queues, queue'[r] # NULL PROVE queue'[r] \in Asleep(r)'
    <3>1. r # q /\ queue'[r] = queue[r] /\ queue[r] \in Asleep(r)
      BY <1>3, <2>1 DEF Waiting, Known
    <3>2. queue[r] # h
      BY <1>0, <3>1 DEF Asleep
    <3>. QED BY <1>5, <3>1, <3>2
  <2>2. ASSUME NEW t \in Tasks, tmp[t] # NULL
        PROVE  tmp[t] \in Asleep(on[t])' /\ tmp[t] # queue'[on[t]]
    <3>1. /\ tmp[t] \in Asleep(on[t]) /\ tmp[t] # queue[on[t]] /\ on[t] \in Queues
      BY <2>2 DEF Waiting, Known, PlacesSound, TypeOK
    <3>2. tmp[t] # h
      BY <1>0, <3>1 DEF Asleep
    <3>3. tmp[t] \in Tasks /\ on'[tmp[t]] = on[t] /\ state'[tmp[t]] # "running"
      BY <1>1, <1>2, <3>1, <3>2 DEF Asleep
    <3>4. tmp[t] \in Asleep(on[t])'
      BY <1>1, <3>3 DEF Asleep
    <3>. QED BY <1>3, <2>2, <3>1, <3>4
  <2>. QED BY <1>1, <2>1, <2>2 DEF Waiting, Known
<1>7. ASSUME NEW r \in Queues PROVE Reachable(r)'
  <2>1. r # q => queue[r] # h
    BY <1>0, NamesDiffer DEF Waiting, Known, Asleep
  <2>2. NextToWake(r)' = NextToWake(r)
    <3>1. CASE r = q
      <4>1. queue'[r] = NULL /\ queue[r] = h
        BY <1>3, <3>1
      <4>2. \A u \in Tasks : on'[u] = r /\ state'[u] = "running" <=>
                             u = h \/ (on[u] = r /\ state[u] = "running")
        BY <1>0, <1>1, <1>2, <3>1
      <4>. QED BY <1>0, <4>1, <4>2, NamesDiffer DEF NextToWake
    <3>2. CASE r # q
      <4>1. queue'[r] = queue[r]
        BY <1>3, <3>2
      <4>2. \A u \in Tasks : on'[u] = r /\ state'[u] = "running" <=>
                             on[u] = r /\ state[u] = "running"
        BY <1>0, <1>1, <1>2, <3>2
      <4>. QED BY <4>1, <4>2 DEF NextToWake
    <3>. QED BY <3>1, <3>2
  <2>. QED BY <1>1, <1>5, <2>2 DEF Waiting, Reachable, Chained
<1>. QED BY <1>4, <1>6, <1>7 DEF Waiting

(* The end of sleep_on(): nobody but the task that leaves knows of the one *)
(* it wakes.                                                               *)
LEMMA WaitingWake ==
  ASSUME TypeOK, TypeOK', Waiting, NEW t \in Tasks, current = t, pc[t] = "sleep",
         Awake(t), UNCHANGED <<current, queue>>
  PROVE  Waiting'
<1>. DEFINE h == tmp[t]
<1>0. /\ h \in Tasks \cup {NULL} /\ t # NULL /\ t # Idle /\ state[t] = "running"
      /\ on[t] \in Queues /\ on[t] # NoQueue
      /\ h # NULL => h \in Asleep(on[t]) /\ h # t
  BY NamesDiffer DEF Waiting, PlacesSound, Known, Asleep, TypeOK
<1>1. /\ tmp' = [tmp EXCEPT ![t] = NULL] /\ on' = [on EXCEPT ![t] = NoQueue]
      /\ pc' = [pc EXCEPT ![t] = "kernel"] /\ current' = current /\ queue' = queue
  BY DEF Awake, Goto
<1>2. \A u \in Tasks : state'[u] = IF u = h THEN "running" ELSE state[u]
  BY <1>0, AwokenTyped DEF Awake, WakePrevious
<1>3. \A u \in Tasks : /\ tmp'[u] = IF u = t THEN NULL ELSE tmp[u]
                       /\ on'[u] = IF u = t THEN NoQueue ELSE on[u]
                       /\ pc'[u] = IF u = t THEN "kernel" ELSE pc[u]
  BY <1>1 DEF TypeOK
<1>4. PlacesSound'
  BY <1>0, <1>1, <1>2, <1>3 DEF Waiting, PlacesSound
<1>5. \A r \in Queues : Asleep(r)' = Asleep(r) \ {h}
  BY <1>0, <1>2, <1>3, NamesDiffer DEF Asleep
<1>6. Known'
  <2>1. \A r \in Queues : queue[r] # NULL => queue[r] \in Asleep(r)'
    BY <1>0, <1>5, NamesDiffer DEF Waiting, Known, Asleep
  <2>2. ASSUME NEW u \in Tasks, tmp'[u] # NULL
        PROVE  tmp'[u] \in Asleep(on[u])' /\ tmp'[u] # queue[on'[u]]
    <3>1. u # t /\ tmp'[u] = tmp[u] /\ on'[u] = on[u]
      BY <1>3, <2>2
    <3>2. /\ tmp[u] \in Asleep(on[u]) /\ tmp[u] # queue[on[u]] /\ on[u] \in Queues
      BY <2>2, <3>1 DEF Waiting, Known, PlacesSound, TypeOK
    <3>3. tmp[u] # h
      BY <2>2, <3>1 DEF Waiting, Known
    <3>4. /\ tmp[u] \in Tasks /\ on'[tmp[u]] = on[u] /\ state'[tmp[u]] # "running"
      BY <1>0, <1>2, <1>3, <3>2, <3>3 DEF Asleep
    <3>5. tmp[u] \in Asleep(on[u])'
      BY <3>1, <3>4 DEF Asleep
    <3>. QED BY <3>1, <3>2, <3>5
  <2>3. \A u, v \in Tasks : tmp'[u] = tmp'[v] /\ tmp'[u] # NULL => u = v
    BY <1>3 DEF Waiting, Known
  <2>4. \A r \in Queues : queue'[r] # NULL => queue'[r] \in Asleep(r)'
    BY <1>1, <2>1
  <2>5. \A u \in Tasks : tmp'[u] # NULL => /\ tmp'[u] \in Asleep(on[u])'
                                          /\ tmp'[u] # queue'[on'[u]]
    BY <1>1, <2>2
  <2>. QED BY <2>3, <2>4, <2>5 DEF Known
<1>7. ASSUME NEW r \in Queues PROVE Reachable(r)'
  <2>. SUFFICES ASSUME NEW S \in SUBSET Tasks, NextToWake(r)' \subseteq S, Chained(S)'
                PROVE  Asleep(r)' \subseteq S
    BY DEF Reachable
  <2>1. CASE r = on[t]
    <3>1. h # NULL => h \in S
      BY <1>0, <1>2, <1>3, <2>1 DEF NextToWake, Asleep
    <3>2. NextToWake(r) \subseteq S \cup {t}
      BY <1>1, <1>2, <1>3 DEF NextToWake
    <3>3. Chained(S \cup {t})
      BY <1>3, <3>1 DEF Chained
    <3>4. Asleep(r) \subseteq S \cup {t}
      BY <3>2, <3>3 DEF Waiting, Reachable
    <3>. QED BY <1>0, <1>5, <3>4 DEF Asleep
  <2>2. CASE r # on[t]
    <3>1. NextToWake(r) \subseteq S
      BY <1>1, <1>2, <1>3, <2>2 DEF NextToWake
    <3>2. \A u \in Tasks : tmp[u] # t
      BY <1>0 DEF Waiting, Known, Asleep
    <3>3. Chained(S \ {t})
      BY <1>3, <3>2 DEF Chained
    <3>4. t \notin NextToWake(r)
      BY <1>0, <2>2 DEF NextToWake, Waiting, Known, Asleep
    <3>5. Asleep(r) \subseteq S \ {t}
      BY <3>1, <3>3, <3>4 DEF Waiting, Reachable
    <3>. QED BY <1>5, <3>5
  <2>. QED BY <2>1, <2>2
<1>. QED BY <1>4, <1>6, <1>7 DEF Waiting

(* sleep_on(): the task knows of the one that fell asleep before it, in    *)
(* the place of the queue.                                                 *)
LEMMA WaitingSleep ==
  ASSUME TypeOK, TypeOK', Waiting, interruptible = {},
         NEW t \in Tasks, current = t, NEW q \in Queues, SleepOn(t, q)
  PROVE  Waiting'
<1>0. /\ t # NULL /\ t # Idle /\ state[t] = "running" /\ on[t] = NoQueue /\ tmp[t] = NULL
      /\ q # NoQueue /\ pc[t] = "kernel"
  BY NamesDiffer DEF SleepOn, Waiting, PlacesSound
<1>1. /\ tmp' = [tmp EXCEPT ![t] = queue[q]] /\ queue' = [queue EXCEPT ![q] = t]
      /\ on' = [on EXCEPT ![t] = q] /\ pc' = [pc EXCEPT ![t] = "sleep"]
      /\ Schedule([state EXCEPT ![t] = "uninterruptible"], counter)
  BY DEF SleepOn, Goto
<1>2. /\ current' # Idle => state'[current'] = "running"
      /\ state'[t] = "uninterruptible"
      /\ \A u \in Tasks \ {t} : state[u] # "interruptible" => state'[u] = state[u]
  <2>1. [state EXCEPT ![t] = "uninterruptible"]
            \in [Tasks -> {"running", "interruptible", "uninterruptible", "zombie"}]
    BY DEF TypeOK
  <2>2. counter \in [Tasks -> 0..2 * PRIORITY]
    BY DEF TypeOK
  <2>3. \A u \in Tasks : [state EXCEPT ![t] = "uninterruptible"][u]
                         = IF u = t THEN "uninterruptible" ELSE state[u]
    BY DEF TypeOK
  <2>. QED BY <1>1, <2>1, <2>2, <2>3, Scheduling
<1>3. \A u \in Tasks : /\ tmp'[u] = IF u = t THEN queue[q] ELSE tmp[u]
                       /\ on'[u] = IF u = t THEN q ELSE on[u]
                       /\ pc'[u] = IF u = t THEN "sleep" ELSE pc[u]
  BY <1>1 DEF TypeOK
<1>4. \A r \in Queues : queue'[r] = IF r = q THEN t ELSE queue[r]
  BY <1>1 DEF TypeOK
<1>5. \A u \in Tasks : u # t /\ on[u] # NoQueue => state'[u] = state[u]
  BY <1>2 DEF Waiting, PlacesSound
<1>6. PlacesSound'
  BY <1>0, <1>2, <1>3, <1>5 DEF Waiting, PlacesSound
<1>7. \A r \in Queues, u \in Tasks :
        on'[u] = r /\ state'[u] # "running" <=>
          (u = t /\ r = q) \/ (on[u] = r /\ state[u] # "running")
  BY <1>0, <1>2, <1>3, <1>5, NamesDiffer
<1>8. \A r \in Queues : Asleep(r)' = IF r = q THEN Asleep(r) \cup {t} ELSE Asleep(r)
  BY <1>7 DEF Asleep
<1>9. \A r \in Queues : t \notin Asleep(r)
  BY <1>0 DEF Asleep
<1>10. Known'
  <2>1. \A r \in Queues : queue'[r] # NULL => queue'[r] \in Asleep(r)'
    BY <1>4, <1>8 DEF Waiting, Known
  <2>2. ASSUME NEW u \in Tasks, tmp'[u] # NULL
        PROVE  tmp'[u] \in Asleep(on[u])' /\ tmp'[u] # queue'[on'[u]]
    <3>1. on'[u] \in Queues /\ tmp'[u] \in Asleep(on'[u])
          /\ (u # t => on'[u] = on[u] /\ tmp'[u] = tmp[u])
      BY <1>3, <2>2 DEF Waiting, Known, PlacesSound, TypeOK
    <3>2. tmp'[u] # queue'[on'[u]]
      <4>1. tmp'[u] # t
        BY <1>9, <3>1
      <4>2. CASE on'[u] = q
        BY <1>4, <3>1, <4>1, <4>2
      <4>3. CASE on'[u] # q
        <5>1. u # t /\ tmp[u] # queue[on[u]]
          BY <1>3, <2>2, <3>1, <4>3 DEF Waiting, Known
        <5>. QED BY <1>4, <3>1, <4>3, <5>1
      <4>. QED BY <4>2, <4>3
    <3>3. tmp'[u] \in Tasks /\ on'[tmp'[u]] = on'[u] /\ state'[tmp'[u]] # "running"
      BY <1>7, <3>1 DEF Asleep
    <3>4. tmp'[u] \in Asleep(on[u])'
      BY <3>3 DEF Asleep
    <3>. QED BY <3>2, <3>4
  <2>3. ASSUME NEW u \in Tasks, NEW v \in Tasks, tmp'[u] = tmp'[v], tmp'[u] # NULL
        PROVE  u = v
    <3>1. \A w \in Tasks \ {t} : tmp[w] # NULL => tmp[w] # queue[q]
      BY DEF Waiting, Known, Asleep
    <3>. QED BY <1>3, <2>3, <3>1 DEF Waiting, Known
  <2>. QED BY <2>1, <2>2, <2>3 DEF Known
<1>11. ASSUME NEW r \in Queues PROVE Reachable(r)'
  <2>. SUFFICES ASSUME NEW S \in SUBSET Tasks, NextToWake(r)' \subseteq S, Chained(S)'
                PROVE  Asleep(r)' \subseteq S
    BY DEF Reachable
  <2>1. \A u \in Tasks : on[u] = r /\ state[u] = "running" => u \in S
    <3>1. \A u \in Tasks : on[u] = r /\ state[u] = "running" =>
                           on'[u] = r /\ state'[u] = "running"
      BY <1>0, <1>3, <1>5, NamesDiffer
    <3>. QED BY <3>1 DEF NextToWake
  <2>2. r = q => t \in S
    BY <1>0, <1>4 DEF NextToWake
  <2>3. queue[r] # NULL => queue[r] \in S
    <3>1. CASE r = q
      <4>1. tmp'[t] \in S \cup {NULL}
        BY <2>2, <3>1 DEF Chained
      <4>. QED BY <1>3, <3>1, <4>1
    <3>2. CASE r # q
      BY <1>4, <3>2 DEF NextToWake
    <3>. QED BY <3>1, <3>2
  <2>4. Chained(S)
    BY <1>0, <1>3 DEF Chained
  <2>5. NextToWake(r) \subseteq S
    BY <2>1, <2>3 DEF NextToWake
  <2>6. Asleep(r) \subseteq S
    BY <2>4, <2>5 DEF Waiting, Reachable
  <2>. QED BY <1>8, <2>2, <2>6
<1>. QED BY <1>6, <1>10, <1>11 DEF Waiting
-----------------------------------------------------------------------------
LEMMA WaitingStep ==
  ASSUME TypeOK, TypeOK', interruptible = {}, Waiting, [Next]_vars
  PROVE  Waiting'
<1>0. /\ NULL = Idle
      /\ current # Idle => state[current] = "running"
      /\ \A t \in Tasks : /\ pc[t] = "sleep" <=> on[t] # NoQueue
                          /\ on[t] # NoQueue => state[t] \in {"running", "uninterruptible"}
  BY DEF Waiting, PlacesSound, NULL, Idle
<1>1. CASE UNCHANGED vars
  BY <1>0, <1>1, WaitingKept DEF vars
<1>2. CASE IdleLoop
  BY <1>0, <1>2, WaitingKept, Scheduling DEF IdleLoop, queues, TypeOK
<1>3. ASSUME NEW q \in Queues, Interrupt(q) PROVE Waiting'
  BY <1>3, WaitingInterrupt
<1>4. ASSUME NEW t \in Tasks, current = t, SystemCall(t) \/ WakeFromPause(t) \/ Leave(t)
      PROVE  Waiting'
  <2>1. /\ state' = state /\ current' = current /\ queue' = queue /\ tmp' = tmp /\ on' = on
        /\ pc[t] # "sleep" /\ \E l \in {"kernel", "user"} : pc' = [pc EXCEPT ![t] = l]
    BY <1>4 DEF SystemCall, WakeFromPause, Leave, Goto, queues
  <2>2. \A u \in Tasks : pc'[u] = "sleep" <=> pc[u] = "sleep"
    BY <2>1 DEF TypeOK
  <2>. QED BY <1>0, <2>1, <2>2, WaitingKept
<1>5. ASSUME NEW t \in Tasks, current = t, Pause(t) \/ Exit(t) PROVE Waiting'
  <2>1. PICK s \in {"interruptible", "zombie"} : Schedule([state EXCEPT ![t] = s], counter)
    BY <1>5 DEF Pause, Exit
  <2>2. /\ queue' = queue /\ tmp' = tmp /\ on' = on /\ pc[t] # "sleep"
        /\ \E l \in {"kernel", "pause"} : pc' = [pc EXCEPT ![t] = l]
    BY <1>5 DEF Pause, Exit, Goto, queues
  <2>3. [state EXCEPT ![t] = s]
            \in [Tasks -> {"running", "interruptible", "uninterruptible", "zombie"}]
    BY DEF TypeOK
  <2>4. counter \in [Tasks -> 0..2 * PRIORITY]
    BY DEF TypeOK
  <2>5. /\ current' # Idle => state'[current'] = "running"
        /\ \A u \in Tasks : [state EXCEPT ![t] = s][u] # "interruptible" =>
                            state'[u] = [state EXCEPT ![t] = s][u]
    BY <2>1, <2>3, <2>4, Scheduling
  <2>6. \A u \in Tasks : on[u] # NoQueue => state'[u] = state[u]
    BY <1>0, <2>2, <2>5 DEF TypeOK
  <2>7. \A u \in Tasks : pc'[u] = "sleep" <=> pc[u] = "sleep"
    BY <2>2 DEF TypeOK
  <2>. QED BY <1>0, <2>2, <2>5, <2>6, <2>7, WaitingKept
<1>6. ASSUME NEW t \in Tasks, current = t, Tick(t) \/ Return(t) PROVE Waiting'
  <2>1. /\ queue' = queue /\ tmp' = tmp /\ on' = on
        /\ pc' = pc \/ (pc[t] # "sleep" /\ pc' = [pc EXCEPT ![t] = "leave"])
    BY <1>6 DEF Tick, Return, Goto, queues
  <2>2. (state' = state /\ current' = current)
        \/ \E cnt \in [Tasks -> 0..2 * PRIORITY] : Schedule(state, cnt)
    <3>1. CASE Return(t)
      BY <3>1 DEF Return, TypeOK
    <3>2. CASE Tick(t)
      <4>1. counter[t] \in 0..2 * PRIORITY
        BY DEF TypeOK
      <4>2. (IF counter[t] > 0 THEN counter[t] - 1 ELSE 0) \in 0..2 * PRIORITY
        BY <4>1, SchedAssumption
      <4>3. [counter EXCEPT ![t] = IF counter[t] > 0 THEN counter[t] - 1 ELSE 0]
                \in [Tasks -> 0..2 * PRIORITY]
        BY <4>2 DEF TypeOK
      <4>. QED BY <3>2, <4>3 DEF Tick
    <3>. QED BY <1>6, <3>1, <3>2
  <2>3. /\ current' # Idle => state'[current'] = "running"
        /\ \A u \in Tasks : state[u] # "interruptible" => state'[u] = state[u]
    BY <1>0, <2>2, Scheduling DEF TypeOK
  <2>4. \A u \in Tasks : pc'[u] = "sleep" <=> pc[u] = "sleep"
    BY <2>1 DEF TypeOK
  <2>. QED BY <1>0, <2>1, <2>3, <2>4, WaitingKept
<1>7. ASSUME NEW t \in Tasks, current = t, WakeFromSleep(t) PROVE Waiting'
  BY <1>7, WaitingWake DEF WakeFromSleep
<1>8. ASSUME NEW t \in Tasks PROVE ~WakeOnTop(t) /\ ~WakeBelow(t)
  BY DEF WakeOnTop, WakeBelow
<1>9. ASSUME NEW t \in Tasks, current = t, NEW q \in Queues, SleepOn(t, q) PROVE Waiting'
  BY <1>9, WaitingSleep
<1>10. ASSUME NEW t \in Tasks, NEW u \in Tasks, Kill(t, u) PROVE Waiting'
  BY <1>0, <1>10, WaitingKept DEF Kill, queues
<1>. QED BY <1>1, <1>2, <1>3, <1>4, <1>5, <1>6, <1>7, <1>8, <1>9, <1>10 DEF Next, Finish

LEMMA SameQueues == [Next]_vars => interruptible' = interruptible
BY DEF Next, Finish, vars, queues, IdleLoop, Interrupt, SystemCall, Pause, Exit, Tick,
       WakeFromSleep, WakeOnTop, WakeBelow, WakeFromPause, Return, Leave, SleepOn, Kill

(* The inductive invariant. *)
THEOREM Inductive == Spec => []IInv
<1>1. Init => IInv
  <2>. SUFFICES ASSUME Init PROVE IInv
    OBVIOUS
  <2>1. TypeOK
    BY SchedAssumption DEF Init, TypeOK
  <2>2. PlacesSound /\ Known
    BY NamesDiffer DEF Init, PlacesSound, Known
  <2>3. \A q \in Queues : Asleep(q) = {}
    BY DEF Init, Asleep
  <2>. QED BY <2>1, <2>2, <2>3 DEF IInv, Waiting, Reachable
<1>2. IInv /\ [Next]_vars => IInv'
  BY TypeStep, WaitingStep, SameQueues DEF IInv
<1>. QED BY <1>1, <1>2, PTL DEF Spec

(* sleep_on() and wake_up(): no sleeper is forgotten, whoever sleeps and   *)
(* wakes in whatever order; and no task's slice grows while it sleeps.     *)
THEOREM NoSleeperForgotten == Spec => []QueuesSound
<1>1. IInv => QueuesSound
  BY DEF IInv, Waiting, Known, QueuesSound
<1>. QED BY <1>1, Inductive, PTL

(* A task that do_exit() has made a zombie is never made to run again by a *)
(* wake-up: no queue, and no other task's tmp, points to it any more.      *)
THEOREM DeadStayDead == Spec => ZombiesStayDead
<1>1. IInv /\ [Next]_vars => [interruptible = {} => ~Revived]_vars
  <2>. SUFFICES ASSUME IInv, [Next]_vars, interruptible = {},
                       NEW z \in Tasks, state[z] = "zombie"
                PROVE  state'[z] = "zombie"
    BY DEF Revived
  <2>1. /\ current # z /\ on[z] = NoQueue
        /\ \A q \in Queues : queue[q] # z
        /\ \A t \in Tasks : tmp[t] # z
        /\ \A t \in Tasks : pc[t] = "sleep" => tmp[t] \in Tasks \cup {NULL}
    BY NamesDiffer DEF IInv, Waiting, PlacesSound, Known, Asleep, TypeOK
  <2>2. ASSUME NEW st \in [Tasks -> {"running", "interruptible", "uninterruptible", "zombie"}],
               NEW cnt \in [Tasks -> 0..2 * PRIORITY], Schedule(st, cnt), st[z] = "zombie"
        PROVE  state'[z] = "zombie"
    BY <2>2, Scheduling
  <2>3. TypeOK /\ counter \in [Tasks -> 0..2 * PRIORITY]
        /\ state \in [Tasks -> {"running", "interruptible", "uninterruptible", "zombie"}]
    BY DEF IInv, TypeOK
  <2>4. CASE UNCHANGED vars
    BY <2>4 DEF vars
  <2>5. CASE IdleLoop
    BY <2>2, <2>3, <2>5 DEF IdleLoop
  <2>6. ASSUME NEW q \in Queues, Interrupt(q) PROVE state'[z] = "zombie"
    BY <2>1, <2>3, <2>6, AwokenTyped DEF Interrupt, WakeUp, TypeOK
  <2>7. ASSUME NEW t \in Tasks, current = t,
               SystemCall(t) \/ WakeFromPause(t) \/ Leave(t) \/ (\E u \in Tasks : Kill(t, u))
        PROVE  state'[z] = "zombie"
    BY <2>7 DEF SystemCall, WakeFromPause, Leave, Kill
  <2>8. ASSUME NEW t \in Tasks, current = t,
               Pause(t) \/ Exit(t) \/ \E q \in Queues : SleepOn(t, q)
        PROVE  state'[z] = "zombie"
    <3>1. PICK s \in {"interruptible", "uninterruptible", "zombie"} :
             Schedule([state EXCEPT ![t] = s], counter)
      BY <2>8 DEF Pause, Exit, SleepOn
    <3>2. /\ [state EXCEPT ![t] = s]
                \in [Tasks -> {"running", "interruptible", "uninterruptible", "zombie"}]
          /\ [state EXCEPT ![t] = s][z] = "zombie"
      BY <2>1, <2>3, <2>8
    <3>. QED BY <2>2, <2>3, <3>1, <3>2
  <2>9. ASSUME NEW t \in Tasks, current = t, Tick(t) \/ Return(t) PROVE state'[z] = "zombie"
    <3>1. state' = state \/ \E cnt \in [Tasks -> 0..2 * PRIORITY] : Schedule(state, cnt)
      <4>1. counter[t] \in 0..2 * PRIORITY
        BY <2>3
      <4>2. (IF counter[t] > 0 THEN counter[t] - 1 ELSE 0) \in 0..2 * PRIORITY
        BY <4>1, SchedAssumption
      <4>3. [counter EXCEPT ![t] = IF counter[t] > 0 THEN counter[t] - 1 ELSE 0]
                \in [Tasks -> 0..2 * PRIORITY]
        BY <2>3, <4>2
      <4>. QED BY <2>3, <2>9, <4>3 DEF Tick, Return
    <3>. QED BY <2>2, <2>3, <3>1
  <2>10. ASSUME NEW t \in Tasks, current = t, WakeFromSleep(t) PROVE state'[z] = "zombie"
    BY <2>1, <2>3, <2>10, AwokenTyped DEF WakeFromSleep, Awake, WakePrevious
  <2>11. ASSUME NEW t \in Tasks PROVE ~WakeOnTop(t) /\ ~WakeBelow(t)
    BY DEF WakeOnTop, WakeBelow
  <2>. QED BY <2>4, <2>5, <2>6, <2>7, <2>8, <2>9, <2>10, <2>11 DEF Next, Finish
<1>. QED BY <1>1, Inductive, PTL DEF Spec, ZombiesStayDead
-----------------------------------------------------------------------------
(* Names and directories. *)

(* What the invariant says of a table of inodes f, entries e and places a, *)
(* so that it can be stated between two iput()s as well.                   *)
Kinds == {"none", "new", "dir", "file"}
InodeRecords == [kind : Kinds, nlinks : Int, count : Int]
Entries == [name : STRING \cup {None}, ino : Inums \cup {None}]
Wherever == [pc : {"user", "find", "iget", "read", "block", "add", "linked", "empty"},
             call : Calls \cup {"none"}, path : Seq(STRING), to : Seq(STRING),
             old : Inums \cup {None}, dir : Inums \cup {None}, ino : Inums \cup {None},
             slot : Nat, i : Nat, end : Nat]
Tables == [Inums -> InodeRecords]

(* What a call has in hand at each of its steps. *)
HandsOk(me) ==
    /\ me.pc = "user" => me.dir = None /\ me.ino = None /\ me.old = None
    /\ me.pc # "user" => me.path # <<>> /\ me.call \in Calls
    /\ me.call = "link" => me.to # <<>>
    /\ me.old # None => me.call = "link"
    /\ me.pc \in {"find", "block", "add"} => me.i > 0
    /\ me.pc \in {"find", "block", "add", "linked", "empty"} => me.dir # None
    /\ me.pc = "find" => me.ino = None
    /\ me.pc \in {"iget", "read"} => /\ me.ino # None
                                     /\ me.dir = None <=> OnTheWay(me) \/ me.call = "open"
    /\ me.pc = "empty" => me.ino # None /\ me.call = "rmdir"
    /\ me.pc = "block" => me.ino # None /\ me.call = "mkdir"
    /\ me.pc = "add" => \/ me.call = "link" /\ me.ino = None /\ me.old # None
                        \/ me.call \in {"open", "mkdir"} /\ me.ino # None
    /\ me.pc = "linked" => me.call = "link" /\ me.ino = None /\ me.old # None

One(b) == IF b THEN 1 ELSE 0
Held(m, n) == One(m.dir = n) + One(m.ino = n /\ m.pc # "iget") + One(m.old = n)
Hands(a, n) == {h \in Procs \X {"dir", "ino", "old"} :
                  a[h[1]][h[2]] = n /\ ~(h[2] = "ino" /\ a[h[1]].pc = "iget")}
NoneFree(f) == \A n \in Inums : f[n].kind = "none" => f[n].count = 0
Counted(f, a) == \A n \in Inums : f[n].count = Cardinality(Hands(a, n)) + One(n = Root)
-----------------------------------------------------------------------------
(* i_count *)

LEMMA Constants ==
  /\ Root \in Inums /\ None \notin Inums /\ IsFiniteSet(Procs)
  /\ \A n \in Inums : n # None
BY DirectoryAssumption DEF Root, None, Inums

LEMMA PutIs ==
  ASSUME NEW f \in Tables, NEW m \in Inums
  PROVE  /\ Put(f, m) \in Tables
         /\ \A n \in Inums : Put(f, m)[n].count = f[n].count - One(n = m)
         /\ \A n \in Inums : n # m => Put(f, m)[n] = f[n]
         /\ \/ Put(f, m)[m].kind = "none"
            \/ Put(f, m)[m].kind = f[m].kind /\ Put(f, m)[m].nlinks = f[m].nlinks
         /\ f[m].count = 1 /\ f[m].nlinks = 0 => Put(f, m)[m].kind = "none"
         /\ ~(f[m].count = 1 /\ f[m].nlinks = 0) =>
              Put(f, m)[m].kind = f[m].kind /\ Put(f, m)[m].nlinks = f[m].nlinks
<1>1. f[m] \in InodeRecords /\ \A n \in Inums : f[n] \in InodeRecords
  BY DEF Tables
<1>2. CASE f[m].count = 1 /\ f[m].nlinks = 0
  <2>1. Put(f, m) = [f EXCEPT ![m] = Free]
    BY <1>2 DEF Put
  <2>2. Free \in InodeRecords /\ Free.kind = "none" /\ Free.count = 0
    BY DEF Free, InodeRecords, Kinds
  <2>3. \A n \in Inums : Put(f, m)[n] = IF n = m THEN Free ELSE f[n]
    BY <2>1 DEF Tables
  <2>4. Put(f, m) \in Tables
    BY <2>1, <2>2 DEF Tables
  <2>5. \A n \in Inums : Put(f, m)[n].count = f[n].count - One(n = m)
    <3>1. SUFFICES ASSUME NEW n \in Inums PROVE Put(f, m)[n].count = f[n].count - One(n = m)
      OBVIOUS
    <3>2. f[n].count \in Int
      BY <1>1 DEF InodeRecords
    <3>3. CASE n = m
      BY <1>2, <2>2, <2>3, <3>2, <3>3 DEF One
    <3>4. CASE n # m
      BY <2>3, <3>2, <3>4 DEF One
    <3>. QED BY <3>3, <3>4
  <2>6. Put(f, m)[m].kind = "none" /\ \A n \in Inums : n # m => Put(f, m)[n] = f[n]
    BY <2>2, <2>3
  <2>7. ~(f[m].count = 1 /\ f[m].nlinks = 0) =>
              Put(f, m)[m].kind = f[m].kind /\ Put(f, m)[m].nlinks = f[m].nlinks
    BY <1>2
  <2>. QED BY <2>4, <2>5, <2>6, <2>7
<1>3. CASE ~(f[m].count = 1 /\ f[m].nlinks = 0)
  <2>1. PICK r : r = [f[m] EXCEPT !.count = @ - 1]
    OBVIOUS
  <2>2. r \in InodeRecords
    <3>1. f[m].count - 1 \in Int
      BY <1>1 DEF InodeRecords
    <3>. QED BY <1>1, <2>1, <3>1 DEF InodeRecords
  <2>3. r.kind = f[m].kind /\ r.nlinks = f[m].nlinks /\ r.count = f[m].count - 1
    BY <1>1, <2>1 DEF InodeRecords
  <2>4. Put(f, m) = [f EXCEPT ![m] = r]
    <3>1. Put(f, m) = [f EXCEPT ![m].count = @ - 1]
      BY <1>3 DEF Put
    <3>. QED BY <2>1, <3>1 DEF Tables
  <2>5. \A n \in Inums : Put(f, m)[n] = IF n = m THEN r ELSE f[n]
    BY <2>4 DEF Tables
  <2>6. Put(f, m) \in Tables
    BY <2>2, <2>4 DEF Tables
  <2>. QED BY <1>1, <1>3, <2>3, <2>5, <2>6 DEF One, InodeRecords
<1>. QED BY <1>2, <1>3

LEMMA PutFree ==
  ASSUME NEW f \in Tables, NEW m \in Inums, f[m].count >= 1, NoneFree(f)
  PROVE  NoneFree(Put(f, m))
<1>1. \A n \in Inums : f[n] \in InodeRecords /\ f[n].count \in Int
  BY DEF Tables, InodeRecords
<1>2. ASSUME NEW n \in Inums, Put(f, m)[n].kind = "none" PROVE Put(f, m)[n].count = 0
  <2>1. CASE n # m
    BY <1>2, <2>1, PutIs DEF NoneFree
  <2>2. CASE n = m
    <3>1. f[m].kind # "none"
      BY <1>1 DEF NoneFree
    <3>2. f[m].count = 1
      BY <1>2, <2>2, <3>1, PutIs
    <3>3. Put(f, m)[m].count = f[m].count - One(m = m)
      BY PutIs
    <3>. QED BY <2>2, <3>2, <3>3 DEF One
  <2>. QED BY <2>1, <2>2
<1>. QED BY <1>2 DEF NoneFree

LEMMA GetIs ==
  ASSUME NEW f \in Tables, NEW m \in Inums
  PROVE  /\ Get(f, m) \in Tables
         /\ \A n \in Inums : /\ Get(f, m)[n].count = f[n].count + One(n = m)
                             /\ Get(f, m)[n].kind = f[n].kind /\ Get(f, m)[n].nlinks = f[n].nlinks
<1>1. f[m] \in InodeRecords /\ \A n \in Inums : f[n] \in InodeRecords
  BY DEF Tables
<1>2. PICK r : r = [f[m] EXCEPT !.count = @ + 1]
  OBVIOUS
<1>3. r \in InodeRecords
  <2>1. f[m].count + 1 \in Int
    BY <1>1 DEF InodeRecords
  <2>. QED BY <1>1, <1>2, <2>1 DEF InodeRecords
<1>4. r.kind = f[m].kind /\ r.nlinks = f[m].nlinks /\ r.count = f[m].count + 1
  BY <1>1, <1>2 DEF InodeRecords
<1>5. Get(f, m) = [f EXCEPT ![m] = r]
  BY <1>2 DEF Get, Tables
<1>6. \A n \in Inums : Get(f, m)[n] = IF n = m THEN r ELSE f[n]
  BY <1>5 DEF Tables
<1>7. Get(f, m) \in Tables
  BY <1>3, <1>5 DEF Tables
<1>. QED BY <1>1, <1>4, <1>6, <1>7 DEF One, InodeRecords

LEMMA LinkIs ==
  ASSUME NEW f \in Tables, NEW m \in Inums, NEW k \in Int
  PROVE  /\ Link(f, m, k) \in Tables
         /\ \A n \in Inums : /\ Link(f, m, k)[n].count = f[n].count
                             /\ Link(f, m, k)[n].kind = f[n].kind
                             /\ n # m => Link(f, m, k)[n].nlinks = f[n].nlinks
         /\ Link(f, m, k)[m].nlinks = f[m].nlinks + k
<1>1. f[m] \in InodeRecords /\ \A n \in Inums : f[n] \in InodeRecords
  BY DEF Tables
<1>2. PICK r : r = [f[m] EXCEPT !.nlinks = @ + k]
  OBVIOUS
<1>3. r \in InodeRecords
  <2>1. f[m].nlinks + k \in Int
    BY <1>1 DEF InodeRecords
  <2>. QED BY <1>1, <1>2, <2>1 DEF InodeRecords
<1>4. r.kind = f[m].kind /\ r.count = f[m].count /\ r.nlinks = f[m].nlinks + k
  BY <1>1, <1>2 DEF InodeRecords
<1>5. Link(f, m, k) = [f EXCEPT ![m] = r]
  BY <1>2 DEF Link, Tables
<1>6. \A n \in Inums : Link(f, m, k)[n] = IF n = m THEN r ELSE f[n]
  BY <1>5 DEF Tables
<1>7. Link(f, m, k) \in Tables
  BY <1>3, <1>5 DEF Tables
<1>. QED BY <1>4, <1>6, <1>7

LEMMA LinkOne ==
  ASSUME NEW f \in Tables, NEW n \in Inums
  PROVE  /\ Link(f, n, 1) \in Tables
         /\ \A m \in Inums : /\ Link(f, n, 1)[m].count = f[m].count
                             /\ Link(f, n, 1)[m].kind = f[m].kind
                             /\ Link(f, n, 1)[m].nlinks = f[m].nlinks + One(m = n)
<1>1. /\ Link(f, n, 1) \in Tables
      /\ \A m \in Inums : /\ Link(f, n, 1)[m].count = f[m].count
                          /\ Link(f, n, 1)[m].kind = f[m].kind
                          /\ m # n => Link(f, n, 1)[m].nlinks = f[m].nlinks
      /\ Link(f, n, 1)[n].nlinks = f[n].nlinks + 1
  BY LinkIs
<1>2. \A m \in Inums : f[m].nlinks \in Int
  BY DEF Tables, InodeRecords
<1>. QED BY <1>1, <1>2 DEF One
-----------------------------------------------------------------------------
(* How many have an inode in hand *)

LEMMA HandsAre == \A n : InHand(n) = Hands(at, n)
BY DEF InHand, Hands

LEMMA HandsFinite ==
  ASSUME NEW a, NEW n
  PROVE  IsFiniteSet(Hands(a, n)) /\ Cardinality(Hands(a, n)) \in Nat
<1>1. IsFiniteSet({"dir", "ino", "old"})
  <2>1. {"dir", "ino", "old"} = (({} \cup {"dir"}) \cup {"ino"}) \cup {"old"}
    OBVIOUS
  <2>2. IsFiniteSet({} \cup {"dir"})
    BY FS_EmptySet, FS_AddElement
  <2>3. IsFiniteSet(({} \cup {"dir"}) \cup {"ino"})
    BY <2>2, FS_AddElement
  <2>. QED BY <2>1, <2>3, FS_AddElement
<1>2. IsFiniteSet(Procs \X {"dir", "ino", "old"})
  BY <1>1, Constants, FS_Product
<1>3. Hands(a, n) \subseteq Procs \X {"dir", "ino", "old"}
  BY DEF Hands
<1>4. IsFiniteSet(Hands(a, n))
  BY <1>2, <1>3, FS_Subset
<1>. QED BY <1>4, FS_CardinalityType

LEMMA MayAdd ==
  ASSUME NEW S, IsFiniteSet(S), NEW x, x \notin S, NEW b
  PROVE  /\ IsFiniteSet(S \cup IF b THEN {x} ELSE {})
         /\ Cardinality(S \cup IF b THEN {x} ELSE {}) = Cardinality(S) + One(b)
<1>1. Cardinality(S) \in Nat
  BY FS_CardinalityType
<1>2. IsFiniteSet(S \cup {x}) /\ Cardinality(S \cup {x}) = Cardinality(S) + 1
  BY FS_AddElement
<1>3. CASE b
  BY <1>2, <1>3 DEF One
<1>4. CASE ~b
  <2>1. S \cup (IF b THEN {x} ELSE {}) = S
    BY <1>4
  <2>. QED BY <1>1, <1>4, <2>1 DEF One
<1>. QED BY <1>3, <1>4

OthersHands(a, p, n) == {x \in Hands(a, n) : x[1] # p}

LEMMA HandsSplit ==
  ASSUME NEW a, NEW p \in Procs, NEW n
  PROVE  /\ Cardinality(Hands(a, n)) = Cardinality(OthersHands(a, p, n)) + Held(a[p], n)
         /\ Cardinality(OthersHands(a, p, n)) \in Nat
<1>. DEFINE O == OthersHands(a, p, n)
            A == O \cup (IF a[p].dir = n THEN {<<p, "dir">>} ELSE {})
            B == A \cup (IF a[p].ino = n /\ a[p].pc # "iget" THEN {<<p, "ino">>} ELSE {})
            C == B \cup (IF a[p].old = n THEN {<<p, "old">>} ELSE {})
<1>1. IsFiniteSet(O)
  BY HandsFinite, FS_Subset DEF OthersHands
<1>2. Cardinality(O) \in Nat
  BY <1>1, FS_CardinalityType
<1>3. <<p, "dir">> \notin O /\ <<p, "ino">> \notin O /\ <<p, "old">> \notin O
  BY DEF OthersHands
<1>4. C = Hands(a, n)
  <2>1. \A x \in Hands(a, n) : x \in C
    <3>1. SUFFICES ASSUME NEW x \in Hands(a, n), x[1] = p PROVE x \in C
      BY DEF OthersHands
    <3>2. \/ x = <<p, "dir">> /\ a[p].dir = n
          \/ x = <<p, "ino">> /\ a[p].ino = n /\ a[p].pc # "iget"
          \/ x = <<p, "old">> /\ a[p].old = n
      BY <3>1 DEF Hands
    <3>. QED BY <3>2
  <2>2. \A x \in C : x \in Hands(a, n)
    BY DEF OthersHands, Hands
  <2>. QED BY <2>1, <2>2
<1>5. <<p, "ino">> \notin A /\ <<p, "old">> \notin B
  BY <1>3
<1>. HIDE DEF O
<1>6. IsFiniteSet(A) /\ Cardinality(A) = Cardinality(O) + One(a[p].dir = n)
  BY <1>1, <1>3, MayAdd
<1>. HIDE DEF A
<1>7. IsFiniteSet(B) /\ Cardinality(B) = Cardinality(A) + One(a[p].ino = n /\ a[p].pc # "iget")
  BY <1>5, <1>6, MayAdd
<1>. HIDE DEF B
<1>8. Cardinality(C) = Cardinality(B) + One(a[p].old = n)
  BY <1>5, <1>7, MayAdd
<1>. HIDE DEF C
<1>. QED BY <1>2, <1>4, <1>6, <1>7, <1>8 DEF O, Held, One

LEMMA HandsMove ==
  ASSUME NEW a, NEW b, NEW p \in Procs, \A q \in Procs : q # p => b[q] = a[q], NEW n
  PROVE  Cardinality(Hands(b, n)) = Cardinality(Hands(a, n)) - Held(a[p], n) + Held(b[p], n)
<1>1. OthersHands(b, p, n) = OthersHands(a, p, n)
  <2>1. ASSUME NEW h \in Procs \X {"dir", "ino", "old"}
        PROVE  h \in OthersHands(b, p, n) <=> h \in OthersHands(a, p, n)
    <3>1. CASE h[1] = p
      BY <3>1 DEF OthersHands
    <3>2. CASE h[1] # p
      <4>1. h[1] \in Procs /\ b[h[1]] = a[h[1]]
        BY <3>2
      <4>. QED BY <3>2, <4>1 DEF OthersHands, Hands
    <3>. QED BY <3>1, <3>2
  <2>2. /\ OthersHands(b, p, n) \subseteq Procs \X {"dir", "ino", "old"}
        /\ OthersHands(a, p, n) \subseteq Procs \X {"dir", "ino", "old"}
    BY DEF OthersHands, Hands
  <2>. QED BY <2>1, <2>2
<1>2. Held(a[p], n) \in Nat /\ Held(b[p], n) \in Nat
  BY DEF Held, One
<1>3. /\ Cardinality(Hands(a, n)) = Cardinality(OthersHands(a, p, n)) + Held(a[p], n)
      /\ Cardinality(Hands(b, n)) = Cardinality(OthersHands(b, p, n)) + Held(b[p], n)
      /\ Cardinality(OthersHands(a, p, n)) \in Nat
  BY HandsSplit
<1>. QED BY <1>1, <1>2, <1>3

LEMMA HandsMoves ==
  \A a, b, n : \A p \in Procs : (\A q \in Procs : q # p => b[q] = a[q]) =>
    Cardinality(Hands(b, n)) = Cardinality(Hands(a, n)) - Held(a[p], n) + Held(b[p], n)
BY HandsMove

(* Who has an inode in hand is counted. *)
LEMMA Enough ==
  ASSUME NEW f, NEW a, Counted(f, a), NEW p \in Procs, NEW n \in Inums
  PROVE  f[n].count >= Held(a[p], n) + One(n = Root)
<1>1. /\ Cardinality(Hands(a, n)) = Cardinality(OthersHands(a, p, n)) + Held(a[p], n)
      /\ Cardinality(OthersHands(a, p, n)) \in Nat
  BY HandsSplit
<1>2. Held(a[p], n) \in Nat /\ One(n = Root) \in Nat
  BY DEF Held, One
<1>. QED BY <1>1, <1>2 DEF Counted
-----------------------------------------------------------------------------
(* The tree *)

Names(f, e, n) == {x \in Inums \X (1..MaxEntries) :
                     /\ f[x[1]].kind = "dir" /\ x[2] \in DOMAIN e[x[1]]
                     /\ e[x[1]][x[2]].ino = n}
Subs(f, e, n) == {k \in DOMAIN e[n] : e[n][k].ino # None /\ f[e[n][k].ino].kind = "dir"}
Makes(m, n) == m.pc \in {"block", "add"} /\ m.ino = n
Made(a, n) == \E p \in Procs : Makes(a[p], n)

OneOfAName(e, n) ==
    \A j, k \in DOMAIN e[n] : e[n][j].ino # None /\ e[n][k].ino # None
                               /\ e[n][j].name = e[n][k].name => j = k
Empty(e, n) == \A k \in DOMAIN e[n] : e[n][k].ino = None
DirOk(f, e, a, n) ==
    /\ OneOfAName(e, n)
    /\ \A k \in DOMAIN e[n] : e[n][k].ino = None \/ f[e[n][k].ino].kind # "none"
    /\ \/ f[n].nlinks = 2 + Cardinality(Subs(f, e, n))
          /\ (n = Root \/ Made(a, n) \/ Cardinality(Names(f, e, n)) = 1)
       \/ f[n].nlinks = 0 /\ Names(f, e, n) = {} /\ Empty(e, n)
FileOk(f, e, a, n) ==
    /\ Made(a, n) \/ f[n].nlinks = Cardinality(Names(f, e, n))
    /\ f[n].nlinks > 0 \/ f[n].count > 0

(* What a call is making: another one may meanwhile have linked the file   *)
(* that it made, by a number that was that of another inode before; but    *)
(* nobody finds the directory that it makes.                               *)
MakerOk(f, e, m) ==
    /\ m.pc = "block" => f[m.ino].kind = "new" /\ f[m.ino].nlinks = 1
    /\ m.pc = "add" /\ m.call = "open" =>
         f[m.ino].kind = "file" /\ f[m.ino].nlinks = Cardinality(Names(f, e, m.ino)) + 1
    /\ m.pc = "add" /\ m.call = "mkdir" =>
         f[m.ino].kind = "dir" /\ f[m.ino].nlinks # 0 /\ Names(f, e, m.ino) = {} /\ m.ino # Root
InodeOk(f, e, a, n) ==
    /\ f[n].kind = "dir" => DirOk(f, e, a, n)
    /\ f[n].kind = "file" => FileOk(f, e, a, n)
    /\ f[n].kind \in {"none", "new"} => Names(f, e, n) = {}
RootOk(f, e) == f[Root].kind = "dir" /\ f[Root].nlinks # 0 /\ Names(f, e, Root) = {}
Tree(f, e, a) ==
    /\ RootOk(f, e)
    /\ \A n \in Inums : InodeOk(f, e, a, n)
    /\ \A p \in Procs : MakerOk(f, e, a[p])

(* No two calls make the same inode. *)
Makers(a) == \A p, q \in Procs, n \in Inums : Makes(a[p], n) /\ Makes(a[q], n) => p = q

(* Inodes in hand are what they were when they were taken. *)
HolderOk(f, e, m) ==
    /\ m.dir # None => f[m.dir].kind = "dir"
    /\ m.old # None => f[m.old].kind = "file"
    /\ m.pc = "empty" => f[m.ino].kind = "dir"
    /\ m.dir # None /\ m.pc \in {"iget", "read", "empty"} => m.slot \in DOMAIN e[m.dir]
    /\ m.pc = "find" => 1..m.end \subseteq DOMAIN e[m.dir]
Holders(f, e, a) == \A p \in Procs : HolderOk(f, e, a[p])

EntriesOk(e) == e \in [Inums -> Seq(Entries)] /\ \A n \in Inums : Len(e[n]) <= MaxEntries
PlacesOk(a) == a \in [Procs -> Wherever] /\ \A p \in Procs : HandsOk(a[p])

(* The tree is one when the links that link() has still to count are       *)
(* counted: the table of inodes with these.                                *)
Linking(a, n) == {p \in Procs : a[p].pc = "linked" /\ a[p].old = n}
Due(a, n) == Cardinality(Linking(a, n))
Settled(f, a) ==
    [n \in Inums |-> [f[n] EXCEPT !.nlinks = @ + IF f[n].kind = "file" THEN Due(a, n) ELSE 0]]

DirInv(f, e, a) ==
    /\ f \in Tables /\ EntriesOk(e) /\ PlacesOk(a)
    /\ NoneFree(f) /\ Counted(f, a)
    /\ Tree(Settled(f, a), e, a) /\ Makers(a) /\ Holders(f, e, a)

LEMMA DueIs ==
  ASSUME NEW a, NEW n
  PROVE  IsFiniteSet(Linking(a, n)) /\ Due(a, n) \in Nat /\ (Due(a, n) = 0 <=> Linking(a, n) = {})
<1>1. IsFiniteSet(Linking(a, n))
  BY Constants, FS_Subset DEF Linking
<1>. QED BY <1>1, FS_CardinalityType, FS_EmptySet DEF Due

LEMMA SettledIs ==
  ASSUME NEW f \in Tables, NEW a
  PROVE  /\ Settled(f, a) \in Tables
         /\ \A n \in Inums :
              /\ Settled(f, a)[n].kind = f[n].kind /\ Settled(f, a)[n].count = f[n].count
              /\ Settled(f, a)[n].nlinks =
                   f[n].nlinks + IF f[n].kind = "file" THEN Due(a, n) ELSE 0
<1>1. ASSUME NEW n \in Inums
      PROVE  /\ Settled(f, a)[n] \in InodeRecords
             /\ Settled(f, a)[n].kind = f[n].kind /\ Settled(f, a)[n].count = f[n].count
             /\ Settled(f, a)[n].nlinks =
                   f[n].nlinks + IF f[n].kind = "file" THEN Due(a, n) ELSE 0
  <2>1. PICK k \in Int : k = IF f[n].kind = "file" THEN Due(a, n) ELSE 0
    BY DueIs
  <2>2. f[n] \in InodeRecords
    BY DEF Tables
  <2>3. f[n].nlinks \in Int
    BY <2>2 DEF InodeRecords
  <2>4. PICK r : r = [f[n] EXCEPT !.nlinks = @ + k]
    OBVIOUS
  <2>5. f[n].nlinks + k \in Int
    BY <2>1, <2>3
  <2>6. r \in InodeRecords /\ r.kind = f[n].kind /\ r.count = f[n].count /\ r.nlinks = f[n].nlinks + k
    BY <2>2, <2>4, <2>5 DEF InodeRecords
  <2>7. Settled(f, a)[n] = r
    BY <2>1, <2>4 DEF Settled
  <2>. QED BY <2>1, <2>6, <2>7
<1>2. Settled(f, a) \in [Inums -> InodeRecords]
  BY <1>1 DEF Settled
<1>. QED BY <1>1, <1>2 DEF Tables

LEMMA TablesEqual ==
  ASSUME NEW f \in Tables, NEW g \in Tables,
         \A n \in Inums : /\ g[n].kind = f[n].kind /\ g[n].nlinks = f[n].nlinks
                          /\ g[n].count = f[n].count
  PROVE  g = f
<1>1. ASSUME NEW n \in Inums PROVE g[n] = f[n]
  <2>1. f[n] \in InodeRecords /\ g[n] \in InodeRecords
    BY DEF Tables
  <2>. QED BY <2>1 DEF InodeRecords
<1>. QED BY <1>1 DEF Tables

(* Other places, but the same calls of link() with a link to count. *)
LEMMA SettledSame ==
  ASSUME NEW f, NEW a, NEW b,
         \A q \in Procs : a[q].pc = "linked" \/ b[q].pc = "linked" =>
                           b[q].pc = a[q].pc /\ b[q].old = a[q].old
  PROVE  Settled(f, b) = Settled(f, a) /\ \A n : Linking(b, n) = Linking(a, n)
<1>1. \A n : Linking(b, n) = Linking(a, n)
  BY DEF Linking
<1>. QED BY <1>1 DEF Settled, Due

LEMMA DueSame ==
  ASSUME NEW a, NEW b,
         \A q \in Procs : a[q].pc = "linked" \/ b[q].pc = "linked" =>
                           b[q].pc = a[q].pc /\ b[q].old = a[q].old
  PROVE  \A n : Due(b, n) = Due(a, n)
<1>1. \A n : Linking(b, n) = Linking(a, n)
  BY DEF Linking
<1>. QED BY <1>1 DEF Due

(* iput() frees nothing that link() has a link to count of. *)
LEMMA SettledPut ==
  ASSUME NEW f \in Tables, NEW a, NEW m \in Inums,
         Linking(a, m) # {} => Put(f, m)[m].count > 0
  PROVE  Settled(Put(f, m), a) = Put(Settled(f, a), m)
<1>. DEFINE g == Settled(f, a)
<1>1. g \in Tables /\ Put(f, m) \in Tables /\ Put(g, m) \in Tables /\ Settled(Put(f, m), a) \in Tables
  BY SettledIs, PutIs
<1>2. ASSUME NEW n \in Inums
      PROVE  /\ Settled(Put(f, m), a)[n].kind = Put(g, m)[n].kind
             /\ Settled(Put(f, m), a)[n].nlinks = Put(g, m)[n].nlinks
             /\ Settled(Put(f, m), a)[n].count = Put(g, m)[n].count
  <2>0. /\ f[n].nlinks \in Int /\ f[n].count \in Int /\ Due(a, n) \in Nat
        /\ g[n].kind = f[n].kind /\ g[n].count = f[n].count
        /\ g[n].nlinks = f[n].nlinks + IF f[n].kind = "file" THEN Due(a, n) ELSE 0
        /\ Settled(Put(f, m), a)[n].kind = Put(f, m)[n].kind
        /\ Settled(Put(f, m), a)[n].count = Put(f, m)[n].count
        /\ Settled(Put(f, m), a)[n].nlinks =
              Put(f, m)[n].nlinks + IF Put(f, m)[n].kind = "file" THEN Due(a, n) ELSE 0
    <3>1. Due(a, n) \in Nat
      BY DueIs
    <3>2. f[n].nlinks \in Int /\ f[n].count \in Int
      BY DEF Tables, InodeRecords
    <3>3. /\ g[n].kind = f[n].kind /\ g[n].count = f[n].count
          /\ g[n].nlinks = f[n].nlinks + IF f[n].kind = "file" THEN Due(a, n) ELSE 0
      BY SettledIs
    <3>4. /\ Settled(Put(f, m), a)[n].kind = Put(f, m)[n].kind
          /\ Settled(Put(f, m), a)[n].count = Put(f, m)[n].count
          /\ Settled(Put(f, m), a)[n].nlinks =
                Put(f, m)[n].nlinks + IF Put(f, m)[n].kind = "file" THEN Due(a, n) ELSE 0
      BY <1>1, SettledIs
    <3>. QED BY <3>1, <3>2, <3>3, <3>4
  <2>1. CASE n # m
    <3>1. Put(f, m)[n] = f[n] /\ Put(g, m)[n] = g[n]
      BY <1>1, <2>1, PutIs
    <3>. QED BY <2>0, <3>1
  <2>2. CASE n = m /\ f[m].count = 1 /\ f[m].nlinks = 0
    <3>1. Put(f, m)[m] = Free
      BY <2>2 DEF Put, Tables
    <3>2. Due(a, m) = 0
      BY <3>1, DueIs DEF Free
    <3>3. g[m].count = 1 /\ g[m].nlinks = 0
      BY <2>0, <2>2, <3>2
    <3>4. Put(g, m)[m] = Free
      BY <1>1, <3>3 DEF Put, Tables
    <3>. QED BY <2>0, <2>2, <3>1, <3>4 DEF Free
  <2>3. CASE n = m /\ ~(f[m].count = 1 /\ f[m].nlinks = 0)
    <3>1. /\ Put(f, m)[m].kind = f[m].kind /\ Put(f, m)[m].nlinks = f[m].nlinks
          /\ Put(f, m)[m].count = f[m].count - 1
      BY <2>0, <2>3, PutIs DEF One
    <3>2. ~(g[m].count = 1 /\ g[m].nlinks = 0)
      <4>1. SUFFICES ASSUME g[m].count = 1, g[m].nlinks = 0 PROVE FALSE
        OBVIOUS
      <4>2. Due(a, m) = 0
        BY <2>0, <2>3, <3>1, <4>1, DueIs
      <4>. QED BY <2>0, <2>3, <4>1, <4>2
    <3>3. /\ Put(g, m)[m].kind = g[m].kind /\ Put(g, m)[m].nlinks = g[m].nlinks
          /\ Put(g, m)[m].count = g[m].count - 1
      BY <1>1, <3>2, PutIs DEF One
    <3>. QED BY <2>0, <2>3, <3>1, <3>3
  <2>. QED BY <2>1, <2>2, <2>3
<1>. QED BY <1>1, <1>2, TablesEqual

LEMMA RootIs ==
  ASSUME NEW f, NEW e, NEW a, DirInv(f, e, a)
  PROVE  f[Root].kind = "dir"
BY SettledIs, Constants DEF DirInv, Tree, RootOk

LEMMA NamesFinite ==
  ASSUME NEW f, NEW e, NEW n
  PROVE  IsFiniteSet(Names(f, e, n)) /\ Cardinality(Names(f, e, n)) \in Nat
<1>1. IsFiniteSet(Inums) /\ IsFiniteSet(1..MaxEntries)
  BY DirectoryAssumption, FS_Interval DEF Inums
<1>2. IsFiniteSet(Inums \X (1..MaxEntries))
  BY <1>1, FS_Product
<1>3. Names(f, e, n) \subseteq Inums \X (1..MaxEntries)
  BY DEF Names
<1>4. IsFiniteSet(Names(f, e, n))
  BY <1>2, <1>3, FS_Subset
<1>. QED BY <1>4, FS_CardinalityType

LEMMA SubsFinite ==
  ASSUME NEW f, NEW e, EntriesOk(e), NEW n \in Inums
  PROVE  IsFiniteSet(Subs(f, e, n)) /\ Cardinality(Subs(f, e, n)) \in Nat
<1>1. e[n] \in Seq(Entries) /\ DOMAIN e[n] = 1..Len(e[n])
  BY DEF EntriesOk
<1>2. IsFiniteSet(1..Len(e[n]))
  BY <1>1, FS_Interval
<1>3. IsFiniteSet(Subs(f, e, n))
  BY <1>1, <1>2, FS_Subset DEF Subs
<1>. QED BY <1>3, FS_CardinalityType

(* The tree is that of the kinds and links of inodes, and of who makes     *)
(* what.                                                                   *)
Making(m) == m.pc \in {"block", "add"} /\ m.ino # None
LEMMA TreeSame ==
  ASSUME NEW f, NEW g, NEW e, NEW a, NEW b,
         \A n \in Inums : /\ g[n].kind = f[n].kind /\ g[n].nlinks = f[n].nlinks
                          /\ f[n].kind = "file" => g[n].nlinks > 0 \/ g[n].count > 0,
         EntriesOk(e), PlacesOk(a), PlacesOk(b),
         \A p \in Procs : Making(a[p]) \/ Making(b[p]) =>
                           b[p].pc = a[p].pc /\ b[p].ino = a[p].ino /\ b[p].call = a[p].call,
         Tree(f, e, a)
  PROVE  Tree(g, e, b) /\ (Makers(a) => Makers(b))
<1>1. \A n \in Inums : Names(g, e, n) = Names(f, e, n)
  <2>1. SUFFICES ASSUME NEW n \in Inums, NEW x \in Inums \X (1..MaxEntries)
                 PROVE  x \in Names(g, e, n) <=> x \in Names(f, e, n)
    BY DEF Names
  <2>2. x[1] \in Inums
    OBVIOUS
  <2>. QED BY <2>2 DEF Names
<1>2. \A n \in Inums : \A k \in DOMAIN e[n] : e[n][k].ino # None => e[n][k].ino \in Inums
  <2>1. SUFFICES ASSUME NEW n \in Inums, NEW k \in DOMAIN e[n] PROVE e[n][k].ino \in Inums \cup {None}
    OBVIOUS
  <2>2. e[n] \in Seq(Entries)
    BY DEF EntriesOk
  <2>3. e[n][k] \in Entries
    BY <2>2
  <2>. QED BY <2>3 DEF Entries
<1>3. \A n \in Inums : Subs(g, e, n) = Subs(f, e, n)
  BY <1>2 DEF Subs
<1>4. \A n \in Inums, p \in Procs : Makes(b[p], n) <=> Makes(a[p], n)
  BY Constants DEF Makes, Making
<1>5. \A n \in Inums : Made(b, n) <=> Made(a, n)
  BY <1>4 DEF Made
<1>6. ASSUME NEW n \in Inums PROVE InodeOk(g, e, b, n)
  <2>1. InodeOk(f, e, a, n)
    BY DEF Tree
  <2>2. DirOk(f, e, a, n) => DirOk(g, e, b, n)
    BY <1>1, <1>2, <1>3, <1>5 DEF DirOk
  <2>3. f[n].kind = "file" /\ FileOk(f, e, a, n) => FileOk(g, e, b, n)
    BY <1>1, <1>5 DEF FileOk
  <2>. QED BY <1>1, <2>1, <2>2, <2>3 DEF InodeOk
<1>7. ASSUME NEW p \in Procs PROVE MakerOk(g, e, b[p])
  <2>1. MakerOk(f, e, a[p]) /\ HandsOk(b[p]) /\ b[p] \in Wherever
    BY DEF Tree, PlacesOk
  <2>2. CASE Making(b[p])
    <3>1. b[p].ino \in Inums /\ b[p].pc = a[p].pc /\ b[p].ino = a[p].ino /\ b[p].call = a[p].call
      BY <2>1, <2>2 DEF Wherever, Making
    <3>. QED BY <1>1, <2>1, <3>1 DEF MakerOk
  <2>3. CASE ~Making(b[p])
    BY <2>1, <2>3 DEF MakerOk, HandsOk, Making
  <2>. QED BY <2>2, <2>3
<1>8. RootOk(g, e)
  BY <1>1, Constants DEF Tree, RootOk
<1>9. Makers(a) => Makers(b)
  BY <1>4 DEF Makers
<1>. QED BY <1>6, <1>7, <1>8, <1>9 DEF Tree

(* iput() leaves the tree as it is: what it frees has no name, and is an   *)
(* empty directory if it is one.                                           *)
LEMMA TreePut ==
  ASSUME NEW f \in Tables, NEW e, EntriesOk(e), NEW a, NEW m \in Inums,
         Tree(f, e, a), PlacesOk(a), f[m].count >= 1
  PROVE  Tree(Put(f, m), e, a)
<1>. DEFINE g == Put(f, m)
<1>1. f[m].count \in Int /\ f[m].nlinks \in Int /\ f[m].kind \in Kinds
  BY DEF Tables, InodeRecords
<1>2. CASE f[m].count = 1 /\ f[m].nlinks = 0
  <2>1. /\ g[m].kind = "none" /\ g[m].count = 0
        /\ \A n \in Inums : n # m => g[n] = f[n]
    BY <1>2, PutIs DEF One
  <2>2. Names(f, e, m) = {} /\ (f[m].kind = "dir" => Empty(e, m)) /\ m # Root
    <3>1. InodeOk(f, e, a, m) /\ RootOk(f, e)
      BY DEF Tree
    <3>2. CASE f[m].kind = "dir"
      BY <1>2, <3>1, <3>2, SubsFinite DEF InodeOk, DirOk, RootOk
    <3>3. CASE f[m].kind = "file"
      <4>1. ~Made(a, m)
        <5>1. SUFFICES ASSUME NEW q \in Procs, Makes(a[q], m) PROVE FALSE
          BY DEF Made
        <5>2. MakerOk(f, e, a[q]) /\ HandsOk(a[q])
          BY DEF Tree, PlacesOk
        <5>3. a[q].ino = m /\ m # None
          BY <5>1, Constants DEF Makes
        <5>4. a[q].pc = "add" /\ a[q].call = "open"
          BY <3>3, <5>1, <5>2, <5>3 DEF MakerOk, HandsOk, Makes
        <5>. QED BY <1>2, <5>2, <5>3, <5>4, NamesFinite DEF MakerOk
      <4>2. Cardinality(Names(f, e, m)) = 0
        BY <1>2, <3>1, <3>3, <4>1 DEF InodeOk, FileOk
      <4>3. Names(f, e, m) = {}
        BY <4>2, NamesFinite, FS_EmptySet
      <4>. QED BY <3>1, <3>3, <4>3 DEF RootOk
    <3>4. CASE f[m].kind \in {"none", "new"}
      BY <3>1, <3>4 DEF InodeOk, RootOk
    <3>. QED BY <1>1, <3>2, <3>3, <3>4 DEF Kinds
  <2>3. \A n \in Inums : Names(g, e, n) = Names(f, e, n)
    <3>1. SUFFICES ASSUME NEW n \in Inums, NEW x \in Inums \X (1..MaxEntries)
                   PROVE  x \in Names(g, e, n) <=> x \in Names(f, e, n)
      BY DEF Names
    <3>2. CASE x[1] = m
      BY <2>1, <2>2, <3>2, Constants DEF Names, Empty
    <3>3. CASE x[1] # m
      <4>1. x[1] \in Inums
        OBVIOUS
      <4>. QED BY <2>1, <3>3, <4>1 DEF Names
    <3>. QED BY <3>2, <3>3
  <2>4. ASSUME NEW n \in Inums, f[n].kind = "dir", NEW k \in DOMAIN e[n], e[n][k].ino # None
        PROVE  e[n][k].ino \in Inums /\ e[n][k].ino # m
    <3>1. /\ e[n] \in Seq(Entries) /\ Len(e[n]) <= MaxEntries /\ Len(e[n]) \in Nat
          /\ k \in 1..Len(e[n]) /\ MaxEntries \in Nat
      BY DirectoryAssumption DEF EntriesOk
    <3>2. e[n][k] \in Entries /\ k \in 1..MaxEntries
      BY <3>1
    <3>3. e[n][k].ino # m
      <4>1. SUFFICES ASSUME e[n][k].ino = m PROVE FALSE
        OBVIOUS
      <4>2. <<n, k>> \in Names(f, e, m)
        BY <2>4, <3>2, <4>1 DEF Names
      <4>. QED BY <2>2, <4>2
    <3>. QED BY <2>4, <3>2, <3>3 DEF Entries
  <2>5. ASSUME NEW n \in Inums, f[n].kind = "dir" PROVE Subs(g, e, n) = Subs(f, e, n)
    BY <2>1, <2>4, <2>5 DEF Subs
  <2>6. ASSUME NEW n \in Inums PROVE InodeOk(g, e, a, n)
    <3>0. InodeOk(f, e, a, n) /\ Names(g, e, n) = Names(f, e, n)
      BY <2>3 DEF Tree
    <3>1. CASE n = m
      BY <2>1, <2>2, <2>3, <3>1 DEF InodeOk
    <3>2. CASE n # m /\ f[n].kind = "dir"
      <4>1. DirOk(f, e, a, n) /\ Subs(g, e, n) = Subs(f, e, n) /\ g[n] = f[n]
        BY <2>1, <2>5, <3>0, <3>2 DEF InodeOk
      <4>2. \A k \in DOMAIN e[n] : e[n][k].ino = None \/ g[e[n][k].ino].kind # "none"
        BY <2>1, <2>4, <3>2, <4>1 DEF DirOk
      <4>3. DirOk(g, e, a, n)
        BY <3>0, <4>1, <4>2 DEF DirOk
      <4>. QED BY <3>2, <4>1, <4>3 DEF InodeOk
    <3>3. CASE n # m /\ f[n].kind # "dir"
      BY <2>1, <3>0, <3>3 DEF InodeOk, FileOk
    <3>. QED BY <3>1, <3>2, <3>3
  <2>7. ASSUME NEW p \in Procs PROVE MakerOk(g, e, a[p])
    <3>1. MakerOk(f, e, a[p]) /\ HandsOk(a[p]) /\ a[p] \in Wherever
      BY DEF Tree, PlacesOk
    <3>2. CASE a[p].pc \in {"block", "add"} /\ a[p].ino # None
      <4>1. a[p].ino \in Inums
        BY <3>1, <3>2 DEF Wherever
      <4>2. f[a[p].ino].nlinks # 0
        BY <3>1, <3>2, <4>1, NamesFinite DEF MakerOk, HandsOk
      <4>3. g[a[p].ino] = f[a[p].ino] /\ Names(g, e, a[p].ino) = Names(f, e, a[p].ino)
        BY <1>2, <2>1, <2>3, <4>1, <4>2
      <4>. QED BY <3>1, <4>3 DEF MakerOk
    <3>3. CASE ~(a[p].pc \in {"block", "add"} /\ a[p].ino # None)
      BY <3>1, <3>3 DEF MakerOk, HandsOk
    <3>. QED BY <3>2, <3>3
  <2>8. RootOk(g, e)
    BY <2>1, <2>2, <2>3, Constants DEF Tree, RootOk
  <2>. QED BY <2>6, <2>7, <2>8 DEF Tree
<1>3. CASE ~(f[m].count = 1 /\ f[m].nlinks = 0)
  <2>1. \A n \in Inums : g[n].kind = f[n].kind /\ g[n].nlinks = f[n].nlinks
    BY <1>3, PutIs
  <2>2. ASSUME NEW n \in Inums, f[n].kind = "file" PROVE g[n].nlinks > 0 \/ g[n].count > 0
    <3>1. /\ f[n].count \in Int /\ f[n].nlinks \in Int
          /\ g[n].count = f[n].count - One(n = m)
      BY PutIs DEF Tables, InodeRecords
    <3>2. f[n].nlinks > 0 \/ f[n].count > 0
      BY <2>2 DEF Tree, InodeOk, FileOk
    <3>3. CASE n = m
      <4>1. f[m].nlinks >= 0
        <5>1. CASE Made(a, m)
          <6>1. PICK q \in Procs : Makes(a[q], m)
            BY <5>1 DEF Made
          <6>2. MakerOk(f, e, a[q]) /\ HandsOk(a[q]) /\ m # None
            BY Constants DEF Tree, PlacesOk
          <6>3. a[q].ino = m /\ a[q].pc = "add" /\ a[q].call = "open"
            BY <2>2, <3>3, <6>1, <6>2 DEF Makes, MakerOk, HandsOk
          <6>. QED BY <6>2, <6>3, NamesFinite DEF MakerOk
        <5>2. CASE ~Made(a, m)
          BY <2>2, <3>3, <5>2, NamesFinite DEF Tree, InodeOk, FileOk
        <5>. QED BY <5>1, <5>2
      <4>. QED BY <1>1, <1>3, <2>1, <3>1, <3>3, <4>1 DEF One
    <3>4. CASE n # m
      BY <2>1, <3>1, <3>2, <3>4 DEF One
    <3>. QED BY <3>3, <3>4
  <2>. QED BY <2>1, <2>2, TreeSame
<1>. QED BY <1>2, <1>3
-----------------------------------------------------------------------------
(* Calls that end, and calls that go on *)

(* One or two iput()s. *)
Gone(f, x, y) == IF y = None THEN Put(f, x) ELSE PutBoth(f, x, y)

LEMMA GoneIs ==
  ASSUME NEW f \in Tables, NEW e, NEW a, NEW x \in Inums, NEW y \in Inums \cup {None},
         NoneFree(f), \A n \in Inums : f[n].count >= One(x = n) + One(y = n)
  PROVE  /\ Gone(f, x, y) \in Tables /\ NoneFree(Gone(f, x, y))
         /\ \A n \in Inums :
              /\ Gone(f, x, y)[n].count = f[n].count - One(x = n) - One(y = n)
              /\ Gone(f, x, y)[n].kind \in {f[n].kind, "none"}
         /\ EntriesOk(e) /\ PlacesOk(a) /\ Tree(f, e, a) => Tree(Gone(f, x, y), e, a)
<1>. DEFINE g == Put(f, x)
<1>1. f[x].count >= 1
  <2>1. One(x = x) = 1 /\ One(y = x) \in Nat
    BY DEF One
  <2>2. f[x].count \in Int
    BY DEF Tables, InodeRecords
  <2>. QED BY <2>1, <2>2
<1>2. /\ g \in Tables /\ NoneFree(g)
      /\ \A n \in Inums : g[n].count = f[n].count - One(x = n)
      /\ \A n \in Inums : g[n].kind \in {f[n].kind, "none"}
      /\ EntriesOk(e) /\ PlacesOk(a) /\ Tree(f, e, a) => Tree(g, e, a)
  <2>1. g \in Tables /\ NoneFree(g)
    BY <1>1, PutIs, PutFree
  <2>2. ASSUME NEW n \in Inums PROVE g[n].kind \in {f[n].kind, "none"}
    <3>1. CASE n = x
      BY <3>1, PutIs
    <3>2. CASE n # x
      BY <3>2, PutIs
    <3>. QED BY <3>1, <3>2
  <2>3. \A n \in Inums : g[n].count = f[n].count - One(x = n)
    BY PutIs DEF One
  <2>. QED BY <1>1, <2>1, <2>2, <2>3, TreePut
<1>3. CASE y = None
  <2>1. \A n \in Inums : One(y = n) = 0 /\ f[n].count \in Int /\ One(x = n) \in Int
    BY <1>3, Constants DEF One, Tables, InodeRecords
  <2>. QED BY <1>2, <1>3, <2>1 DEF Gone
<1>4. CASE y # None
  <2>. DEFINE h == Put(g, y)
  <2>1. y \in Inums /\ Gone(f, x, y) = h
    BY <1>4 DEF Gone, PutBoth
  <2>2. g[y].count >= 1
    <3>1. g[y].count = f[y].count - One(x = y) /\ f[y].count >= One(x = y) + One(y = y)
      BY <1>2, <2>1
    <3>2. One(y = y) = 1 /\ One(x = y) \in Int /\ f[y].count \in Int
      BY <2>1 DEF One, Tables, InodeRecords
    <3>. QED BY <3>1, <3>2
  <2>. HIDE DEF g
  <2>3. h \in Tables /\ NoneFree(h)
    BY <1>2, <2>1, <2>2, PutIs, PutFree
  <2>4. ASSUME NEW n \in Inums PROVE h[n].kind \in {f[n].kind, "none"}
    <3>0. g \in Tables /\ g[n].kind \in {f[n].kind, "none"}
      BY <1>2
    <3>1. CASE n = y
      BY <2>1, <3>0, <3>1, PutIs
    <3>2. CASE n # y
      BY <2>1, <3>0, <3>2, PutIs
    <3>. QED BY <3>1, <3>2
  <2>5. ASSUME NEW n \in Inums PROVE h[n].count = f[n].count - One(x = n) - One(y = n)
    <3>1. h[n].count = g[n].count - One(n = y)
      BY <1>2, <2>1, PutIs
    <3>. QED BY <1>2, <3>1 DEF One
  <2>6. EntriesOk(e) /\ PlacesOk(a) /\ Tree(f, e, a) => Tree(h, e, a)
    BY <1>2, <2>1, <2>2, TreePut
  <2>. QED BY <2>1, <2>3, <2>4, <2>5, <2>6
<1>. QED BY <1>3, <1>4

LEMMA SettledGone ==
  ASSUME NEW f \in Tables, NEW a, NEW x \in Inums, NEW y \in Inums \cup {None},
         \A n \in Inums : Linking(a, n) # {} => Gone(f, x, y)[n].count > 0
  PROVE  Settled(Gone(f, x, y), a) = Gone(Settled(f, a), x, y)
<1>. DEFINE g == Put(f, x)
<1>1. g \in Tables /\ Settled(f, a) \in Tables
  BY PutIs, SettledIs
<1>2. CASE y = None
  BY <1>2, SettledPut DEF Gone
<1>3. CASE y # None
  <2>1. y \in Inums /\ Gone(f, x, y) = Put(g, y) /\ Gone(Settled(f, a), x, y) = Put(Put(Settled(f, a), x), y)
    BY <1>3 DEF Gone, PutBoth
  <2>2. Linking(a, x) # {} => g[x].count > 0
    <3>1. Put(g, y)[x].count = g[x].count - One(x = y) /\ g[x].count \in Int /\ One(x = y) \in Nat
      BY <1>1, <2>1, PutIs DEF Tables, InodeRecords, One
    <3>. QED BY <2>1, <3>1
  <2>3. Settled(g, a) = Put(Settled(f, a), x)
    BY <2>2, SettledPut
  <2>. HIDE DEF g
  <2>4. Settled(Put(g, y), a) = Put(Settled(g, a), y)
    BY <1>1, <2>1, SettledPut
  <2>. QED BY <2>1, <2>3, <2>4
<1>. QED BY <1>2, <1>3

(* What is in hand is not freed. *)
LEMMA HoldersAfter ==
  ASSUME NEW f, NEW g \in Tables, NEW e, NEW b, PlacesOk(b), Holders(f, e, b), Counted(g, b),
         NoneFree(g), \A n \in Inums : g[n].kind \in {f[n].kind, "none"}
  PROVE  Holders(g, e, b)
<1>1. ASSUME NEW p \in Procs, NEW n \in Inums, Held(b[p], n) # 0
      PROVE  g[n].kind = f[n].kind
  <2>1. g[n].count >= Held(b[p], n) + One(n = Root)
    BY Enough
  <2>2. Held(b[p], n) \in Nat /\ One(n = Root) \in Nat
    BY DEF Held, One
  <2>3. g[n].count # 0
    BY <1>1, <2>1, <2>2
  <2>. QED BY <2>3 DEF NoneFree
<1>2. ASSUME NEW p \in Procs PROVE HolderOk(g, e, b[p])
  <2>1. HolderOk(f, e, b[p]) /\ HandsOk(b[p]) /\ b[p] \in Wherever
    BY DEF Holders, PlacesOk
  <2>2. b[p].dir # None => b[p].dir \in Inums /\ g[b[p].dir].kind = f[b[p].dir].kind
    <3>1. b[p].dir # None => b[p].dir \in Inums /\ Held(b[p], b[p].dir) # 0
      BY <2>1 DEF Wherever, Held, One
    <3>. QED BY <1>1, <3>1
  <2>3. b[p].old # None => b[p].old \in Inums /\ g[b[p].old].kind = f[b[p].old].kind
    <3>1. b[p].old # None => b[p].old \in Inums /\ Held(b[p], b[p].old) # 0
      BY <2>1 DEF Wherever, Held, One
    <3>. QED BY <1>1, <3>1
  <2>4. b[p].pc = "empty" => b[p].ino \in Inums /\ g[b[p].ino].kind = f[b[p].ino].kind
    <3>1. b[p].pc = "empty" => b[p].ino \in Inums /\ Held(b[p], b[p].ino) # 0
      BY <2>1 DEF Wherever, Held, One, HandsOk
    <3>. QED BY <1>1, <3>1
  <2>. QED BY <2>1, <2>2, <2>3, <2>4 DEF HolderOk
<1>. QED BY <1>2 DEF Holders

LEMMA UserPlaceOk ==
  /\ AtUser \in Wherever /\ HandsOk(AtUser) /\ ~Making(AtUser)
  /\ \A n \in Inums : Held(AtUser, n) = 0
  /\ \A f, e : HolderOk(f, e, AtUser) /\ MakerOk(f, e, AtUser)
<1>1. AtUser \in Wherever
  <2>1. <<>> \in Seq(STRING) /\ 0 \in Nat
    OBVIOUS
  <2>. QED BY <2>1 DEF AtUser, Wherever
<1>2. HandsOk(AtUser) /\ ~Making(AtUser)
  BY DEF HandsOk, Making, AtUser
<1>3. \A n \in Inums : Held(AtUser, n) = 0
  BY Constants DEF Held, One, AtUser
<1>4. \A f, e : HolderOk(f, e, AtUser) /\ MakerOk(f, e, AtUser)
  BY DEF HolderOk, MakerOk, AtUser
<1>. QED BY <1>1, <1>2, <1>3, <1>4

LEMMA PlaceIs ==
  ASSUME NEW p \in Procs, NEW me \in Wherever, HandsOk(me), PlacesOk(at),
         at' = [at EXCEPT ![p] = me]
  PROVE  /\ PlacesOk(at') /\ at'[p] = me /\ \A q \in Procs : q # p => at'[q] = at[q]
BY DEF PlacesOk

(* Those who hold an inode can count on it. *)
LEMMA CountHeld ==
  ASSUME NEW f \in Tables, NEW a, Counted(f, a), NEW p \in Procs, NEW n \in Inums, Held(a[p], n) # 0
  PROVE  f[n].count > 0
<1>1. f[n].count >= Held(a[p], n) + One(n = Root)
  BY Enough
<1>2. Held(a[p], n) \in Nat /\ One(n = Root) \in Nat /\ f[n].count \in Int
  BY DEF Held, One, Tables, InodeRecords
<1>. QED BY <1>1, <1>2

(* A call that ends: it has changed the numbers of links to f, and puts    *)
(* back what it has in hand, x and y.                                      *)
LEMMA Leaving ==
  ASSUME NEW p \in Procs, NEW f \in Tables, NEW x \in Inums, NEW y \in Inums \cup {None},
         PlacesOk(at), inode \in Tables, NoneFree(inode), Counted(inode, at),
         \A n \in Inums : f[n].count = inode[n].count /\ f[n].kind = inode[n].kind,
         \A n \in Inums : Held(at[p], n) = One(x = n) + One(y = n),
         inode' = Gone(f, x, y), Returns(p)
  PROVE  /\ Counted(inode', at')
         /\ (/\ EntriesOk(ent') /\ Tree(Settled(f, at'), ent', at')
             /\ Makers(at) /\ Holders(inode, ent, at)
             /\ \A n \in Inums : DOMAIN ent[n] \subseteq DOMAIN ent'[n])
              => DirInv(inode', ent', at')
<1>1. at' = [at EXCEPT ![p] = AtUser]
  BY DEF Returns, GoesOn
<1>2. PlacesOk(at') /\ at'[p] = AtUser /\ \A q \in Procs : q # p => at'[q] = at[q]
  BY <1>1, PlaceIs, UserPlaceOk
<1>3. \A n \in Inums : /\ f[n].count >= One(x = n) + One(y = n)
                       /\ f[n].count \in Int /\ One(x = n) \in Nat /\ One(y = n) \in Nat
  <2>1. \A n \in Inums : f[n].count \in Int /\ One(x = n) \in Nat /\ One(y = n) \in Nat
                         /\ One(n = Root) \in Nat
    BY DEF Tables, InodeRecords, One
  <2>2. \A n \in Inums : f[n].count >= Held(at[p], n) + One(n = Root)
    BY Enough
  <2>. QED BY <2>1, <2>2
<1>4. NoneFree(f)
  BY DEF NoneFree
<1>5. /\ inode' \in Tables /\ NoneFree(inode')
      /\ \A n \in Inums : /\ inode'[n].count = f[n].count - One(x = n) - One(y = n)
                          /\ inode'[n].kind \in {f[n].kind, "none"}
  <2>1. \A n \in Inums : f[n].count >= One(x = n) + One(y = n)
    BY <1>3
  <2>2. /\ Gone(f, x, y) \in Tables /\ NoneFree(Gone(f, x, y))
        /\ \A n \in Inums :
             /\ Gone(f, x, y)[n].count = f[n].count - One(x = n) - One(y = n)
             /\ Gone(f, x, y)[n].kind \in {f[n].kind, "none"}
        /\ EntriesOk(ent) /\ PlacesOk(at) /\ Tree(f, ent, at) => Tree(Gone(f, x, y), ent, at)
    BY <1>4, <2>1, GoneIs
  <2>. QED BY <2>2
<1>6. Counted(inode', at')
  <2>1. SUFFICES ASSUME NEW n \in Inums
                 PROVE  inode'[n].count = Cardinality(Hands(at', n)) + One(n = Root)
    BY DEF Counted
  <2>2. Cardinality(Hands(at', n)) = Cardinality(Hands(at, n)) - Held(at[p], n) + Held(at'[p], n)
    BY <1>2, HandsMoves
  <2>3. Held(at'[p], n) = 0 /\ Held(at[p], n) = One(x = n) + One(y = n)
    BY <1>2, UserPlaceOk
  <2>4. inode[n].count = Cardinality(Hands(at, n)) + One(n = Root)
    BY DEF Counted
  <2>5. inode'[n].count = inode[n].count - One(x = n) - One(y = n)
    BY <1>5
  <2>6. Cardinality(Hands(at, n)) \in Nat /\ One(n = Root) \in Nat
    BY HandsFinite DEF One
  <2>. QED BY <1>3, <2>2, <2>3, <2>4, <2>5, <2>6
<1>7. ASSUME EntriesOk(ent'), Tree(Settled(f, at'), ent', at'), Makers(at), Holders(inode, ent, at),
             \A n \in Inums : DOMAIN ent[n] \subseteq DOMAIN ent'[n]
      PROVE  DirInv(inode', ent', at')
  <2>1. Tree(Settled(inode', at'), ent', at')
    <3>1. ASSUME NEW n \in Inums, Linking(at', n) # {} PROVE Gone(f, x, y)[n].count > 0
      <4>1. PICK q \in Procs : at'[q].old = n
        BY <3>1 DEF Linking
      <4>2. Held(at'[q], n) # 0
        BY <4>1 DEF Held, One
      <4>. QED BY <1>5, <1>6, <4>2, CountHeld
    <3>2. Settled(inode', at') = Gone(Settled(f, at'), x, y)
      BY <3>1, SettledGone
    <3>3. /\ Settled(f, at') \in Tables /\ NoneFree(Settled(f, at'))
          /\ \A n \in Inums : Settled(f, at')[n].count >= One(x = n) + One(y = n)
      BY <1>3, <1>4, SettledIs DEF NoneFree
    <3>. QED BY <1>2, <1>7, <3>2, <3>3, GoneIs
  <2>2. Makers(at')
    <3>1. ASSUME NEW q \in Procs, NEW n \in Inums, Makes(at'[q], n) PROVE q # p /\ Makes(at[q], n)
      <4>1. ~Makes(AtUser, n)
        BY DEF Makes, AtUser
      <4>. QED BY <1>2, <3>1, <4>1
    <3>. QED BY <1>7, <3>1 DEF Makers
  <2>3. Holders(f, ent', at')
    <3>1. ASSUME NEW q \in Procs PROVE HolderOk(f, ent', at'[q])
      <4>1. CASE q = p
        BY <1>2, <4>1, UserPlaceOk
      <4>2. CASE q # p
        <5>1. HolderOk(inode, ent, at[q]) /\ at[q] \in Wherever /\ HandsOk(at[q]) /\ at'[q] = at[q]
          BY <1>2, <1>7, <4>2 DEF Holders, PlacesOk
        <5>2. /\ at[q].dir # None => at[q].dir \in Inums
              /\ at[q].old # None => at[q].old \in Inums
              /\ at[q].pc = "empty" => at[q].ino \in Inums
              /\ at[q].pc = "find" => at[q].dir \in Inums
          BY <5>1 DEF Wherever, HandsOk
        <5>3. at[q].pc = "find" => 1..at[q].end \subseteq DOMAIN ent'[at[q].dir]
          BY <1>7, <5>1, <5>2 DEF HolderOk
        <5>. QED BY <1>7, <5>1, <5>2, <5>3 DEF HolderOk
      <4>. QED BY <4>1, <4>2
    <3>. QED BY <3>1 DEF Holders
  <2>4. Holders(inode', ent', at')
    BY <1>2, <1>5, <1>6, <2>3, HoldersAfter
  <2>. QED BY <1>2, <1>5, <1>6, <1>7, <2>1, <2>2, <2>4 DEF DirInv
<1>. QED BY <1>6, <1>7

(* A call that ends and has changed nothing. *)
LEMMA LeavingQuietly ==
  ASSUME DirInv(inode, ent, at), NEW p \in Procs,
         NEW x \in Inums, NEW y \in Inums \cup {None}, ~Making(at[p]), at[p].pc # "linked",
         \A n \in Inums : Held(at[p], n) = One(x = n) + One(y = n),
         inode' = Gone(inode, x, y), Returns(p), UNCHANGED ent
  PROVE  DirInv(inode', ent', at')
<1>. USE DEF DirInv
<1>1. at' = [at EXCEPT ![p] = AtUser]
  BY DEF Returns, GoesOn
<1>2. PlacesOk(at') /\ at'[p] = AtUser /\ \A q \in Procs : q # p => at'[q] = at[q]
  BY <1>1, PlaceIs, UserPlaceOk
<1>3. Tree(Settled(inode, at'), ent, at')
  <2>. DEFINE f == Settled(inode, at)
  <2>1. \A q \in Procs : Making(at[q]) \/ Making(at'[q]) => at'[q] = at[q]
    BY <1>2, UserPlaceOk
  <2>2. \A n \in Inums : f[n].kind = "file" => f[n].nlinks > 0 \/ f[n].count > 0
    BY DEF Tree, InodeOk, FileOk
  <2>3. Settled(inode, at') = f
    BY <1>2, SettledSame DEF AtUser
  <2>. HIDE DEF f
  <2>4. Tree(f, ent, at)
    BY DEF f
  <2>5. Tree(f, ent, at')
    BY <1>2, <2>1, <2>2, <2>4, TreeSame
  <2>. QED BY <2>3, <2>5
<1>. QED BY <1>3, Leaving

(* A call that goes on. *)
LEMMA Moving ==
  ASSUME DirInv(inode, ent, at), NEW p \in Procs, NEW me \in Wherever, HandsOk(me),
         GoesOn(p, me), UNCHANGED ent, inode' \in Tables, NoneFree(inode'),
         \A n \in Inums : /\ inode'[n].kind = inode[n].kind /\ inode'[n].nlinks = inode[n].nlinks
                          /\ inode'[n].count = inode[n].count + Held(me, n) - Held(at[p], n)
                          /\ inode'[n].count >= inode[n].count,
         Making(at[p]) \/ Making(me) => me.pc = at[p].pc /\ me.ino = at[p].ino /\ me.call = at[p].call,
         at[p].pc # "linked", me.pc # "linked", HolderOk(inode, ent, me)
  PROVE  DirInv(inode', ent', at')
<1>. USE DEF DirInv
<1>1. at' = [at EXCEPT ![p] = me]
  BY DEF GoesOn
<1>2. PlacesOk(at') /\ at'[p] = me /\ \A q \in Procs : q # p => at'[q] = at[q]
  BY <1>1, PlaceIs
<1>3. Tree(Settled(inode', at'), ent', at') /\ Makers(at')
  <2>. DEFINE f == Settled(inode, at)
              g == Settled(inode', at')
  <2>1. \A q \in Procs : Making(at[q]) \/ Making(at'[q]) =>
                         at'[q].pc = at[q].pc /\ at'[q].ino = at[q].ino /\ at'[q].call = at[q].call
    BY <1>2
  <2>2. \A n : Linking(at', n) = Linking(at, n)
    <3>1. \A q \in Procs : at[q].pc = "linked" \/ at'[q].pc = "linked" =>
                           at'[q].pc = at[q].pc /\ at'[q].old = at[q].old
      BY <1>2
    <3>2. Settled(inode, at') = Settled(inode, at) /\ \A n : Linking(at', n) = Linking(at, n)
      BY <3>1, SettledSame
    <3>. QED BY <3>2
  <2>3. \A n \in Inums : g[n].kind = f[n].kind /\ g[n].nlinks = f[n].nlinks /\ g[n].count >= f[n].count
    BY <2>2, SettledIs DEF Due
  <2>4. \A n \in Inums : f[n].kind = "file" => g[n].nlinks > 0 \/ g[n].count > 0
    <3>1. \A n \in Inums : f[n].count \in Int /\ g[n].count \in Int
      BY SettledIs DEF Tables, InodeRecords
    <3>. QED BY <2>3, <3>1 DEF Tree, InodeOk, FileOk
  <2>5. Tree(f, ent, at) /\ Makers(at) /\ EntriesOk(ent) /\ PlacesOk(at)
    OBVIOUS
  <2>. HIDE DEF f, g
  <2>6. Tree(g, ent, at') /\ Makers(at')
    BY <1>2, <2>1, <2>3, <2>4, <2>5, TreeSame
  <2>. QED BY <2>6 DEF g
<1>4. Counted(inode', at')
  <2>1. SUFFICES ASSUME NEW n \in Inums
                 PROVE  inode'[n].count = Cardinality(Hands(at', n)) + One(n = Root)
    BY DEF Counted
  <2>2. Cardinality(Hands(at', n)) = Cardinality(Hands(at, n)) - Held(at[p], n) + Held(me, n)
    <3>0. \A q \in Procs : q # p => at'[q] = at[q]
      BY <1>2
    <3>1. Cardinality(Hands(at', n)) = Cardinality(Hands(at, n)) - Held(at[p], n) + Held(at'[p], n)
      BY <3>0, HandsMoves
    <3>. QED BY <1>2, <3>1
  <2>3. inode[n].count = Cardinality(Hands(at, n)) + One(n = Root)
    BY DEF Counted
  <2>4. /\ Cardinality(Hands(at, n)) \in Nat /\ One(n = Root) \in Nat
        /\ Held(at[p], n) \in Nat /\ Held(me, n) \in Nat
    BY HandsFinite DEF One, Held
  <2>. QED BY <2>2, <2>3, <2>4
<1>5. Holders(inode', ent', at')
  <2>1. Holders(inode, ent', at')
    BY <1>2 DEF Holders
  <2>. QED BY <1>2, <1>4, <2>1, HoldersAfter
<1>. QED BY <1>2, <1>3, <1>4, <1>5

(* A call that goes on, and puts back one of what it has in hand. *)
LEMMA LettingGo ==
  ASSUME DirInv(inode, ent, at), NEW p \in Procs, NEW me \in Wherever, HandsOk(me), NEW x \in Inums,
         GoesOn(p, me), UNCHANGED ent, inode' = Put(inode, x),
         \A n \in Inums : Held(at[p], n) = Held(me, n) + One(x = n),
         ~Making(at[p]), ~Making(me), at[p].pc # "linked", me.pc # "linked", HolderOk(inode, ent, me)
  PROVE  DirInv(inode', ent', at')
<1>. USE DEF DirInv
<1>1. at' = [at EXCEPT ![p] = me]
  BY DEF GoesOn
<1>2. PlacesOk(at') /\ at'[p] = me /\ \A q \in Procs : q # p => at'[q] = at[q]
  BY <1>1, PlaceIs
<1>3. Tree(Settled(inode, at'), ent, at') /\ Makers(at')
  <2>. DEFINE f == Settled(inode, at)
  <2>1. \A q \in Procs : Making(at[q]) \/ Making(at'[q]) => at'[q] = at[q]
    BY <1>2
  <2>2. \A n \in Inums : f[n].kind = "file" => f[n].nlinks > 0 \/ f[n].count > 0
    BY DEF Tree, InodeOk, FileOk
  <2>3. Settled(inode, at') = f
    BY <1>2, SettledSame
  <2>4. Tree(f, ent, at)
    OBVIOUS
  <2>. HIDE DEF f
  <2>5. Tree(f, ent, at') /\ Makers(at')
    BY <1>2, <2>1, <2>2, <2>4, TreeSame
  <2>. QED BY <2>3, <2>5
<1>4. inode[x].count >= 1
  <2>1. inode[x].count >= Held(at[p], x) + One(x = Root)
    BY Enough
  <2>2. /\ Held(at[p], x) = Held(me, x) + One(x = x) /\ One(x = x) = 1
        /\ Held(me, x) \in Nat /\ One(x = Root) \in Nat /\ inode[x].count \in Int
    BY DEF Held, One, Tables, InodeRecords
  <2>. HIDE DEF DirInv
  <2>. QED BY <2>1, <2>2
<1>5. /\ inode' \in Tables /\ NoneFree(inode')
      /\ \A n \in Inums : inode'[n].count = inode[n].count - One(n = x)
  BY <1>4, PutIs, PutFree
<1>6. \A n \in Inums : inode'[n].kind \in {inode[n].kind, "none"}
  <2>1. SUFFICES ASSUME NEW n \in Inums PROVE inode'[n].kind \in {inode[n].kind, "none"}
    OBVIOUS
  <2>2. CASE n = x
    BY <2>2, PutIs
  <2>3. CASE n # x
    BY <2>3, PutIs
  <2>. QED BY <2>2, <2>3
<1>7. Counted(inode', at')
  <2>1. SUFFICES ASSUME NEW n \in Inums
                 PROVE  inode'[n].count = Cardinality(Hands(at', n)) + One(n = Root)
    BY DEF Counted
  <2>2. Cardinality(Hands(at', n)) = Cardinality(Hands(at, n)) - Held(at[p], n) + Held(me, n)
    <3>0. \A q \in Procs : q # p => at'[q] = at[q]
      BY <1>2
    <3>1. Cardinality(Hands(at', n)) = Cardinality(Hands(at, n)) - Held(at[p], n) + Held(at'[p], n)
      BY <3>0, HandsMoves
    <3>. QED BY <1>2, <3>1
  <2>3. inode[n].count = Cardinality(Hands(at, n)) + One(n = Root)
    BY DEF Counted
  <2>4. /\ Cardinality(Hands(at, n)) \in Nat /\ One(n = Root) \in Nat
        /\ Held(at[p], n) = Held(me, n) + One(x = n) /\ Held(me, n) \in Nat
        /\ One(x = n) \in Nat /\ One(n = x) = One(x = n)
    BY HandsFinite DEF One, Held
  <2>5. inode'[n].count = inode[n].count - One(n = x)
    BY <1>5
  <2>. HIDE DEF DirInv
  <2>. QED BY <2>2, <2>3, <2>4, <2>5
<1>8. Holders(inode', ent', at')
  <2>1. Holders(inode, ent, at')
    BY <1>2 DEF Holders
  <2>. QED BY <1>2, <1>5, <1>6, <1>7, <2>1, HoldersAfter
<1>9. Tree(Settled(inode', at'), ent', at')
  <2>1. ASSUME Linking(at', x) # {} PROVE Put(inode, x)[x].count > 0
    <3>1. PICK q \in Procs : at'[q].old = x
      BY <2>1 DEF Linking
    <3>2. Held(at'[q], x) # 0
      BY <3>1 DEF Held, One
    <3>. QED BY <1>5, <1>7, <3>2, CountHeld
  <2>2. Settled(inode', at') = Put(Settled(inode, at'), x)
    BY <2>1, SettledPut
  <2>3. Settled(inode, at') \in Tables /\ Settled(inode, at')[x].count >= 1
    BY <1>4, SettledIs
  <2>. QED BY <1>2, <1>3, <2>2, <2>3, TreePut
<1>. QED BY <1>2, <1>3, <1>5, <1>7, <1>8, <1>9
-----------------------------------------------------------------------------
(* Looking a name up *)

LEMMA LookInIs ==
  ASSUME NEW me \in Wherever, NEW n \in Inums, NEW w \in Seq(STRING), w # <<>>, EntriesOk(ent),
         me.call \in Calls, me.call = "link" => me.to # <<>>, me.old # None => me.call = "link"
  PROVE  LET s == LookIn(me, n, w) IN
         /\ s \in Wherever /\ HandsOk(s) /\ s.pc = "find" /\ s.dir = n /\ s.ino = None
         /\ s.old = me.old /\ 1..s.end \subseteq DOMAIN ent[n]
<1>1. Len(ent[n]) \in Nat /\ DOMAIN ent[n] = 1..Len(ent[n])
  BY DEF EntriesOk
<1>2. PICK s : s = [me EXCEPT !.pc = "find", !.dir = n, !.path = w, !.ino = None,
                              !.i = 1, !.end = Len(ent[n])]
  OBVIOUS
<1>3. s \in Wherever
  BY <1>1, <1>2 DEF Wherever
<1>4. /\ s.pc = "find" /\ s.dir = n /\ s.ino = None /\ s.old = me.old /\ s.end = Len(ent[n])
      /\ s.path = w /\ s.call = me.call /\ s.to = me.to /\ s.i = 1
  BY <1>2 DEF Wherever
<1>5. HandsOk(s)
  BY <1>4, Constants DEF HandsOk
<1>6. s = LookIn(me, n, w)
  BY <1>2 DEF LookIn
<1>. QED BY <1>1, <1>3, <1>4, <1>5, <1>6

LEMMA GetFree ==
  ASSUME NEW f \in Tables, NEW m \in Inums, NoneFree(f), f[m].kind # "none"
  PROVE  NoneFree(Get(f, m))
<1>1. SUFFICES ASSUME NEW n \in Inums, Get(f, m)[n].kind = "none" PROVE Get(f, m)[n].count = 0
  BY DEF NoneFree
<1>2. f[n].kind = "none" /\ n # m
  BY <1>1, GetIs
<1>. QED BY <1>2, GetIs DEF NoneFree, One

LEMMA StepBegin ==
  ASSUME DirInv(inode, ent, at), NEW p \in Procs, NEW c \in Calls, NEW w \in Paths,
         NEW to \in Seq(STRING), c = "link" => to # <<>>, Begin(p, c, w, to)
  PROVE  DirInv(inode', ent', at')
<1>0. at[p] \in Wherever /\ HandsOk(at[p]) /\ at[p].pc = "user"
  BY DEF DirInv, PlacesOk, Begin, At
<1>1. PICK s : s = [AtUser EXCEPT !.call = c, !.to = to]
  OBVIOUS
<1>2. s \in Wherever
  BY <1>1, UserPlaceOk DEF Wherever
<1>3. s.call = c /\ s.to = to /\ s.old = None
  BY <1>1 DEF AtUser
<1>4. PICK me : me = LookIn(s, Root, w)
  OBVIOUS
<1>5. w \in Seq(STRING) /\ w # <<>>
  BY DirectoryAssumption
<1>6. /\ me \in Wherever /\ HandsOk(me) /\ me.pc = "find" /\ me.dir = Root /\ me.ino = None
      /\ me.old = None /\ 1..me.end \subseteq DOMAIN ent[Root]
  BY <1>2, <1>3, <1>4, <1>5, LookInIs, Constants DEF DirInv
<1>7. GoesOn(p, me) /\ UNCHANGED ent /\ inode' = Get(inode, Root)
  BY <1>1, <1>4 DEF Begin
<1>8. inode[Root].kind = "dir" /\ inode \in Tables
  BY RootIs DEF DirInv
<1>9. inode' \in Tables /\ NoneFree(inode')
  BY <1>7, <1>8, GetIs, GetFree, Constants DEF DirInv
<1>10. ASSUME NEW n \in Inums
       PROVE  /\ inode'[n].kind = inode[n].kind /\ inode'[n].nlinks = inode[n].nlinks
              /\ inode'[n].count = inode[n].count + Held(me, n) - Held(at[p], n)
              /\ inode'[n].count >= inode[n].count
  <2>1. Held(me, n) = One(n = Root) /\ Held(at[p], n) = 0
    BY <1>0, <1>6, Constants DEF Held, One, HandsOk
  <2>2. inode[n].count \in Int /\ One(n = Root) \in Nat
    BY <1>8 DEF Tables, InodeRecords, One
  <2>3. /\ inode'[n].count = inode[n].count + One(n = Root)
        /\ inode'[n].kind = inode[n].kind /\ inode'[n].nlinks = inode[n].nlinks
    BY <1>7, <1>8, GetIs, Constants
  <2>. QED BY <2>1, <2>2, <2>3
<1>11. ~Making(at[p]) /\ ~Making(me) /\ HolderOk(inode, ent, me)
  BY <1>0, <1>6, <1>8 DEF Making, HolderOk
<1>. QED BY <1>0, <1>6, <1>7, <1>9, <1>10, <1>11, Moving

LEMMA StepFindNext ==
  ASSUME DirInv(inode, ent, at), NEW p \in Procs, FindNext(p)
  PROVE  DirInv(inode', ent', at')
<1>0. at[p] \in Wherever /\ HandsOk(at[p]) /\ at[p].pc = "find" /\ HolderOk(inode, ent, at[p])
  BY DEF DirInv, PlacesOk, FindNext, At, Holders
<1>1. PICK me : me = NextBlock(at[p])
  OBVIOUS
<1>2. at[p].i + DIR_ENTRIES_PER_BLOCK \in Nat /\ at[p].i + DIR_ENTRIES_PER_BLOCK > 0
  BY <1>0, DirectoryAssumption DEF Wherever, HandsOk
<1>3. me \in Wherever
  BY <1>0, <1>1, <1>2 DEF NextBlock, Wherever
<1>4. /\ me.i > 0 /\ me.pc = at[p].pc /\ me.call = at[p].call /\ me.path = at[p].path
      /\ me.to = at[p].to /\ me.old = at[p].old /\ me.dir = at[p].dir /\ me.ino = at[p].ino
      /\ me.slot = at[p].slot /\ me.end = at[p].end
  BY <1>0, <1>1, <1>2 DEF NextBlock, Wherever
<1>5. HandsOk(me) /\ HolderOk(inode, ent, me) /\ ~Making(me) /\ ~Making(at[p])
  BY <1>0, <1>4 DEF HandsOk, HolderOk, Making
<1>6. \A n \in Inums : Held(me, n) = Held(at[p], n) /\ Held(me, n) \in Nat /\ inode[n].count \in Int
  BY <1>4 DEF Held, One, DirInv, Tables, InodeRecords
<1>7. GoesOn(p, me) /\ UNCHANGED <<inode, ent>>
  BY <1>1 DEF FindNext
<1>8. inode' \in Tables /\ NoneFree(inode')
  BY <1>7 DEF DirInv
<1>9. \A n \in Inums : /\ inode'[n].kind = inode[n].kind /\ inode'[n].nlinks = inode[n].nlinks
                       /\ inode'[n].count = inode[n].count + Held(me, n) - Held(at[p], n)
                       /\ inode'[n].count >= inode[n].count
  BY <1>6, <1>7
<1>. QED BY <1>0, <1>4, <1>3, <1>5, <1>7, <1>8, <1>9, Moving

LEMMA HitIs ==
  ASSUME EntriesOk(ent), NEW me \in Wherever, HandsOk(me), me.pc = "find",
         HolderOk(inode, ent, me), NEW k \in Hits(me)
  PROVE  k \in DOMAIN ent[me.dir] /\ k \in Nat /\ ent[me.dir][k].ino \in Inums
<1>1. me.dir \in Inums /\ me.i \in Nat /\ me.i > 0 /\ me.end \in Nat
  BY DEF Wherever, HandsOk
<1>2. k \in Int /\ k >= me.i /\ k <= me.end /\ ent[me.dir][k].ino # None
  BY <1>1, DirectoryAssumption DEF Hits, Block
<1>3. k \in 1..me.end
  BY <1>1, <1>2
<1>4. k \in DOMAIN ent[me.dir] /\ ent[me.dir] \in Seq(Entries)
  BY <1>1, <1>3 DEF HolderOk, EntriesOk
<1>5. ent[me.dir][k] \in Entries
  BY <1>4
<1>. QED BY <1>2, <1>3, <1>4, <1>5 DEF Entries

LEMMA StepFoundInode ==
  ASSUME DirInv(inode, ent, at), NEW p \in Procs, FoundInode(p)
  PROVE  DirInv(inode', ent', at')
<1>0. /\ at[p] \in Wherever /\ HandsOk(at[p]) /\ at[p].pc = "find" /\ HolderOk(inode, ent, at[p])
      /\ EntriesOk(ent)
  BY DEF DirInv, PlacesOk, FoundInode, At, Holders
<1>1. PICK k \in Hits(at[p]) :
        LET next == [at[p] EXCEPT !.pc = "iget", !.ino = ent[at[p].dir][k].ino, !.i = 0, !.end = 0] IN
        \/ /\ OnTheWay(at[p]) \/ at[p].call = "open"
           /\ inode' = Put(inode, at[p].dir) /\ GoesOn(p, [next EXCEPT !.dir = None])
        \/ /\ ~OnTheWay(at[p])
           /\ at[p].call = "unlink" \/ (at[p].call = "rmdir" /\ Permission(at[p].dir))
           /\ GoesOn(p, [next EXCEPT !.slot = k]) /\ UNCHANGED inode
  BY DEF FoundInode
<1>2. k \in DOMAIN ent[at[p].dir] /\ k \in Nat /\ ent[at[p].dir][k].ino \in Inums
  BY <1>0, <1>1, HitIs
<1>3. PICK next : next = [at[p] EXCEPT !.pc = "iget", !.ino = ent[at[p].dir][k].ino, !.i = 0, !.end = 0]
  OBVIOUS
<1>4. next \in Wherever
  BY <1>0, <1>2, <1>3 DEF Wherever
<1>5. /\ next.pc = "iget" /\ next.ino \in Inums /\ next.dir = at[p].dir /\ next.old = at[p].old
      /\ next.call = at[p].call /\ next.path = at[p].path /\ next.to = at[p].to
  BY <1>0, <1>2, <1>3 DEF Wherever
<1>6. UNCHANGED ent /\ at[p].dir \in Inums /\ at[p].ino = None
  BY <1>0 DEF FoundInode, HandsOk, Wherever
<1>7. CASE /\ OnTheWay(at[p]) \/ at[p].call = "open"
           /\ inode' = Put(inode, at[p].dir) /\ GoesOn(p, [next EXCEPT !.dir = None])
  <2>1. PICK me : me = [next EXCEPT !.dir = None]
    OBVIOUS
  <2>2. me \in Wherever
    BY <1>4, <2>1 DEF Wherever
  <2>3. /\ me.pc = "iget" /\ me.ino \in Inums /\ me.dir = None /\ me.old = at[p].old
        /\ me.call = at[p].call /\ me.path = at[p].path /\ me.to = at[p].to
    BY <1>4, <1>5, <2>1 DEF Wherever
  <2>4. OnTheWay(me) <=> OnTheWay(at[p])
    BY <2>3 DEF OnTheWay
  <2>5. HandsOk(me)
    BY <1>0, <1>7, <2>3, <2>4, Constants DEF HandsOk
  <2>6. HolderOk(inode, ent, me) /\ ~Making(at[p]) /\ ~Making(me)
    BY <1>0, <2>3 DEF HolderOk, Making
  <2>7. \A n \in Inums : Held(at[p], n) = Held(me, n) + One(at[p].dir = n)
    BY <1>0, <1>6, <2>3, Constants DEF Held, One
  <2>. QED BY <1>0, <2>3, <1>6, <1>7, <2>1, <2>2, <2>5, <2>6, <2>7, LettingGo, ZenonT(60)
<1>8. CASE /\ ~OnTheWay(at[p])
           /\ at[p].call = "unlink" \/ (at[p].call = "rmdir" /\ Permission(at[p].dir))
           /\ GoesOn(p, [next EXCEPT !.slot = k]) /\ UNCHANGED inode
  <2>1. PICK me : me = [next EXCEPT !.slot = k]
    OBVIOUS
  <2>2. me \in Wherever
    BY <1>2, <1>4, <2>1 DEF Wherever
  <2>3. /\ me.pc = "iget" /\ me.ino \in Inums /\ me.dir = at[p].dir /\ me.old = at[p].old
        /\ me.call = at[p].call /\ me.path = at[p].path /\ me.to = at[p].to /\ me.slot = k
    BY <1>4, <1>5, <2>1 DEF Wherever
  <2>4. OnTheWay(me) <=> OnTheWay(at[p])
    BY <2>3 DEF OnTheWay
  <2>5. HandsOk(me)
    BY <1>0, <1>6, <1>8, <2>3, <2>4, Constants DEF HandsOk
  <2>6. HolderOk(inode, ent, me) /\ ~Making(at[p]) /\ ~Making(me)
    BY <1>0, <1>2, <2>3 DEF HolderOk, Making
  <2>7. \A n \in Inums : /\ Held(me, n) = Held(at[p], n) /\ Held(me, n) \in Nat
                         /\ inode[n].count \in Int
    BY <1>0, <1>6, <2>3, Constants DEF Held, One, DirInv, Tables, InodeRecords
  <2>8. inode' = inode /\ GoesOn(p, me)
    BY <1>8, <2>1
  <2>9. inode' \in Tables /\ NoneFree(inode')
    BY <2>8 DEF DirInv
  <2>10. \A n \in Inums : /\ inode'[n].kind = inode[n].kind /\ inode'[n].nlinks = inode[n].nlinks
                          /\ inode'[n].count = inode[n].count + Held(me, n) - Held(at[p], n)
                          /\ inode'[n].count >= inode[n].count
    BY <2>7, <2>8
  <2>. QED BY <1>0, <2>3, <1>6, <2>2, <2>5, <2>6, <2>8, <2>9, <2>10, Moving
<1>. QED BY <1>1, <1>3, <1>7, <1>8

LEMMA StepFail ==
  ASSUME DirInv(inode, ent, at), NEW p \in Procs, Fail(p)
  PROVE  DirInv(inode', ent', at')
<1>0. /\ at[p] \in Wherever /\ HandsOk(at[p]) /\ at[p].pc = "find"
  BY DEF DirInv, PlacesOk, Fail, At
<1>1. /\ at[p].dir \in Inums /\ at[p].ino = None /\ at[p].old \in Inums \cup {None}
  BY <1>0 DEF HandsOk, Wherever
<1>2. inode' = Gone(inode, at[p].dir, at[p].old) /\ Returns(p) /\ UNCHANGED ent
  BY DEF Fail, GivesUp, PutOld, Gone, PutBoth
<1>3. \A n \in Inums : Held(at[p], n) = One(at[p].dir = n) + One(at[p].old = n)
  BY <1>0, <1>1, Constants DEF Held, One
<1>4. ~Making(at[p])
  BY <1>0 DEF Making
<1>. QED BY <1>0, <1>1, <1>2, <1>3, <1>4, LeavingQuietly

LEMMA StepIget ==
  ASSUME DirInv(inode, ent, at), NEW p \in Procs, Iget(p)
  PROVE  Counted(inode', at') /\ (broken' = "no" => DirInv(inode', ent', at'))
<1>0. /\ at[p] \in Wherever /\ HandsOk(at[p]) /\ at[p].pc = "iget" /\ HolderOk(inode, ent, at[p])
      /\ inode \in Tables /\ at[p].ino \in Inums
  BY DEF DirInv, PlacesOk, Iget, At, Holders, HandsOk, Wherever
<1>1. CASE Used(at[p].ino)
  <2>1. PICK me : me = [at[p] EXCEPT !.pc = "read"]
    OBVIOUS
  <2>2. me \in Wherever
    BY <1>0, <2>1 DEF Wherever
  <2>3. /\ me.pc = "read" /\ me.ino = at[p].ino /\ me.dir = at[p].dir /\ me.old = at[p].old
        /\ me.call = at[p].call /\ me.path = at[p].path /\ me.to = at[p].to /\ me.slot = at[p].slot
    BY <1>0, <2>1 DEF Wherever
  <2>4. OnTheWay(me) <=> OnTheWay(at[p])
    BY <2>3 DEF OnTheWay
  <2>5. HandsOk(me)
    BY <1>0, <2>3, <2>4 DEF HandsOk
  <2>6. HolderOk(inode, ent, me) /\ ~Making(at[p]) /\ ~Making(me)
    BY <1>0, <2>3 DEF HolderOk, Making
  <2>7. GoesOn(p, me) /\ UNCHANGED ent /\ inode' = Get(inode, at[p].ino)
    BY <1>1, <2>1 DEF Iget
  <2>8. inode' \in Tables /\ NoneFree(inode')
    BY <1>0, <1>1, <2>7, GetIs, GetFree DEF DirInv, Used
  <2>9. ASSUME NEW n \in Inums
        PROVE  /\ inode'[n].kind = inode[n].kind /\ inode'[n].nlinks = inode[n].nlinks
               /\ inode'[n].count = inode[n].count + Held(me, n) - Held(at[p], n)
               /\ inode'[n].count >= inode[n].count
    <3>1. Held(me, n) = Held(at[p], n) + One(n = at[p].ino) /\ Held(at[p], n) \in Nat
      BY <1>0, <2>3 DEF Held, One
    <3>2. inode[n].count \in Int /\ One(n = at[p].ino) \in Nat
      BY <1>0 DEF Tables, InodeRecords, One
    <3>3. /\ inode'[n].count = inode[n].count + One(n = at[p].ino)
          /\ inode'[n].kind = inode[n].kind /\ inode'[n].nlinks = inode[n].nlinks
      BY <1>0, <2>7, GetIs
    <3>. QED BY <3>1, <3>2, <3>3
  <2>10. DirInv(inode', ent', at')
    BY <1>0, <2>3, <2>2, <2>5, <2>6, <2>7, <2>8, <2>9, Moving
  <2>. QED BY <2>10 DEF DirInv
<1>2. CASE ~Used(at[p].ino)
  <2>1. broken' = "stale" /\ UNCHANGED <<inode, at>>
    BY <1>2 DEF Iget
  <2>. QED BY <2>1 DEF DirInv
<1>. QED BY <1>1, <1>2

LEMMA StepEnter ==
  ASSUME DirInv(inode, ent, at), NEW p \in Procs, Enter(p)
  PROVE  DirInv(inode', ent', at')
<1>0. /\ at[p] \in Wherever /\ HandsOk(at[p]) /\ at[p].pc = "read" /\ HolderOk(inode, ent, at[p])
      /\ inode \in Tables /\ EntriesOk(ent) /\ Len(at[p].path) > 1 /\ UNCHANGED ent
  BY DEF DirInv, PlacesOk, Enter, At, Holders
<1>1. at[p].ino \in Inums /\ at[p].dir = None /\ at[p].old \in Inums \cup {None}
  BY <1>0 DEF HandsOk, Wherever, OnTheWay
<1>2. ~Making(at[p])
  BY <1>0 DEF Making
<1>3. \A n \in Inums : Held(at[p], n) = One(at[p].ino = n) + One(at[p].old = n)
  BY <1>0, <1>1, Constants DEF Held, One
<1>4. CASE Permission(at[p].ino)
  <2>1. PICK w \in Seq(STRING) : w = Tail(at[p].path) /\ w # <<>>
    <3>1. \A v \in Seq(STRING) : v # <<>> => Tail(v) \in Seq(STRING) /\ Len(Tail(v)) = Len(v) - 1
      BY HeadTailProperties
    <3>2. \A v \in Seq(STRING) : Len(v) \in Nat /\ (v = <<>> <=> Len(v) = 0)
      OBVIOUS
    <3>3. at[p].path \in Seq(STRING) /\ at[p].path # <<>>
      BY <1>0 DEF Wherever, HandsOk
    <3>4. PICK v \in Seq(STRING) : v = at[p].path /\ v # <<>> /\ Len(v) > 1
      BY <1>0, <3>3
    <3>5. PICK w : w = Tail(v)
      OBVIOUS
    <3>6. w \in Seq(STRING) /\ Len(w) = Len(v) - 1
      BY <3>1, <3>4, <3>5
    <3>7. Len(w) # 0
      BY <3>2, <3>4, <3>6
    <3>. QED BY <3>2, <3>4, <3>5, <3>6, <3>7
  <2>2. PICK me : me = LookIn(at[p], at[p].ino, w)
    OBVIOUS
  <2>4. /\ at[p].call \in Calls /\ (at[p].call = "link" => at[p].to # <<>>)
        /\ (at[p].old # None => at[p].call = "link")
    BY <1>0 DEF HandsOk
  <2>5. /\ me \in Wherever /\ HandsOk(me) /\ me.pc = "find" /\ me.dir = at[p].ino /\ me.ino = None
        /\ me.old = at[p].old /\ 1..me.end \subseteq DOMAIN ent[at[p].ino]
    <3>1. PICK s \in Wherever, n \in Inums : s = at[p] /\ n = at[p].ino
      BY <1>0, <1>1
    <3>2. me = LookIn(s, n, w)
      BY <2>2, <3>1
    <3>3. s.call \in Calls /\ (s.call = "link" => s.to # <<>>) /\ (s.old # None => s.call = "link")
      BY <2>4, <3>1
    <3>4. /\ me \in Wherever /\ HandsOk(me) /\ me.pc = "find" /\ me.dir = n /\ me.ino = None
          /\ me.old = s.old /\ 1..me.end \subseteq DOMAIN ent[n]
      <4>1. EntriesOk(ent) /\ w # <<>>
        BY <1>0, <2>1
      <4>. QED BY <3>2, <3>3, <4>1, LookInIs
    <3>. QED BY <3>1, <3>4
  <2>6. GoesOn(p, me) /\ inode' = inode
    BY <1>4, <2>1, <2>2 DEF Enter
  <2>7. HolderOk(inode, ent, me) /\ ~Making(me)
    BY <1>0, <1>1, <1>4, <2>5 DEF HolderOk, Making, Permission
  <2>8. \A n \in Inums : /\ Held(me, n) = Held(at[p], n) /\ Held(me, n) \in Nat
                         /\ inode[n].count \in Int
    BY <1>0, <1>1, <2>5, Constants DEF Held, One, Tables, InodeRecords
  <2>9. inode' \in Tables /\ NoneFree(inode')
    BY <2>6 DEF DirInv
  <2>10. \A n \in Inums : /\ inode'[n].kind = inode[n].kind /\ inode'[n].nlinks = inode[n].nlinks
                          /\ inode'[n].count = inode[n].count + Held(me, n) - Held(at[p], n)
                          /\ inode'[n].count >= inode[n].count
    BY <2>6, <2>8
  <2>. QED BY <1>0, <1>2, <2>5, <2>6, <2>7, <2>9, <2>10, Moving
<1>5. CASE ~Permission(at[p].ino)
  <2>1. inode' = Gone(inode, at[p].ino, at[p].old) /\ Returns(p)
    BY <1>5 DEF Enter, PutOld, Gone, PutBoth
  <2>. QED BY <1>0, <1>1, <1>2, <1>3, <2>1, LeavingQuietly
<1>. QED BY <1>4, <1>5

LEMMA StepOldName ==
  ASSUME DirInv(inode, ent, at), NEW p \in Procs, OldName(p)
  PROVE  DirInv(inode', ent', at')
<1>0. /\ at[p] \in Wherever /\ HandsOk(at[p]) /\ at[p].pc = "read" /\ HolderOk(inode, ent, at[p])
      /\ inode \in Tables /\ EntriesOk(ent) /\ UNCHANGED ent
  BY DEF DirInv, PlacesOk, OldName, At, Holders
<1>1. /\ at[p].ino \in Inums /\ at[p].dir = None /\ at[p].old = None /\ at[p].call = "link"
  <2>1. OnTheWay(at[p]) /\ Len(at[p].path) = 1
    BY DEF OldName
  <2>2. at[p].call = "link" /\ at[p].old = None
    BY <2>1 DEF OnTheWay
  <2>. QED BY <1>0, <2>1, <2>2 DEF HandsOk, Wherever
<1>2. ~Making(at[p])
  BY <1>0 DEF Making
<1>3. \A n \in Inums : Held(at[p], n) = One(at[p].ino = n) /\ One(None = n) = 0
  BY <1>0, <1>1, Constants DEF Held, One
<1>4. CASE inode[at[p].ino].kind = "file"
  <2>1. PICK s : s = [at[p] EXCEPT !.old = at[p].ino]
    OBVIOUS
  <2>2. s \in Wherever
    BY <1>0, <1>1, <2>1 DEF Wherever
  <2>3. s.old = at[p].ino /\ s.call = at[p].call /\ s.to = at[p].to
    BY <1>0, <2>1 DEF Wherever
  <2>4. PICK me : me = LookIn(s, Root, at[p].to)
    OBVIOUS
  <2>5. at[p].to \in Seq(STRING) /\ at[p].to # <<>>
    BY <1>0, <1>1 DEF Wherever, HandsOk
  <2>6. "link" \in Calls
    BY DEF Calls
  <2>7. /\ me \in Wherever /\ HandsOk(me) /\ me.pc = "find" /\ me.dir = Root /\ me.ino = None
        /\ me.old = at[p].ino /\ 1..me.end \subseteq DOMAIN ent[Root]
    BY <1>0, <1>1, <2>2, <2>3, <2>4, <2>5, <2>6, LookInIs, Constants
  <2>8. GoesOn(p, me) /\ inode' = Get(inode, Root)
    BY <1>4, <2>1, <2>4 DEF OldName
  <2>9. inode[Root].kind = "dir"
    BY RootIs
  <2>10. inode' \in Tables /\ NoneFree(inode')
    BY <1>0, <2>8, <2>9, GetIs, GetFree, Constants DEF DirInv
  <2>11. ASSUME NEW n \in Inums
         PROVE  /\ inode'[n].kind = inode[n].kind /\ inode'[n].nlinks = inode[n].nlinks
                /\ inode'[n].count = inode[n].count + Held(me, n) - Held(at[p], n)
                /\ inode'[n].count >= inode[n].count
    <3>1. Held(me, n) = One(n = Root) + One(at[p].ino = n)
      BY <2>7, Constants DEF Held, One
    <3>2. inode[n].count \in Int /\ One(n = Root) \in Nat /\ One(at[p].ino = n) \in Nat
      BY <1>0 DEF Tables, InodeRecords, One
    <3>3. /\ inode'[n].count = inode[n].count + One(n = Root)
          /\ inode'[n].kind = inode[n].kind /\ inode'[n].nlinks = inode[n].nlinks
      BY <1>0, <2>8, GetIs, Constants
    <3>. QED BY <1>3, <3>1, <3>2, <3>3
  <2>12. ~Making(me) /\ HolderOk(inode, ent, me)
    BY <1>4, <2>7, <2>9 DEF Making, HolderOk
  <2>. QED BY <1>0, <1>2, <2>7, <2>8, <2>10, <2>11, <2>12, Moving
<1>5. CASE inode[at[p].ino].kind # "file"
  <2>1. inode' = Gone(inode, at[p].ino, None) /\ Returns(p)
    BY <1>5 DEF OldName, Gone
  <2>2. \A n \in Inums : Held(at[p], n) = One(at[p].ino = n) + One(None = n)
    BY <1>3 DEF One
  <2>. QED BY <1>0, <1>1, <1>2, <2>1, <2>2, LeavingQuietly
<1>. QED BY <1>4, <1>5

LEMMA StepOpenOld ==
  ASSUME DirInv(inode, ent, at), NEW p \in Procs, OpenOld(p)
  PROVE  DirInv(inode', ent', at')
<1>0. /\ at[p] \in Wherever /\ HandsOk(at[p]) /\ at[p].pc = "read" /\ at[p].call = "open"
  BY DEF DirInv, PlacesOk, OpenOld, At
<1>1. at[p].ino \in Inums /\ at[p].dir = None /\ at[p].old = None
  BY <1>0 DEF HandsOk, Wherever
<1>2. inode' = Gone(inode, at[p].ino, None) /\ Returns(p) /\ UNCHANGED ent
  BY DEF OpenOld, Gone
<1>3. \A n \in Inums : Held(at[p], n) = One(at[p].ino = n) + One(None = n)
  BY <1>0, <1>1, Constants DEF Held, One
<1>4. ~Making(at[p])
  BY <1>0 DEF Making
<1>. QED BY <1>0, <1>1, <1>2, <1>3, <1>4, LeavingQuietly

LEMMA StepAddNext ==
  ASSUME DirInv(inode, ent, at), NEW p \in Procs, AddNext(p)
  PROVE  DirInv(inode', ent', at')
<1>0. at[p] \in Wherever /\ HandsOk(at[p]) /\ at[p].pc = "add" /\ HolderOk(inode, ent, at[p])
  BY DEF DirInv, PlacesOk, AddNext, At, Holders
<1>1. PICK me : me = NextBlock(at[p])
  OBVIOUS
<1>2. at[p].i + DIR_ENTRIES_PER_BLOCK \in Nat /\ at[p].i + DIR_ENTRIES_PER_BLOCK > 0
  BY <1>0, DirectoryAssumption DEF Wherever, HandsOk
<1>3. me \in Wherever
  BY <1>0, <1>1, <1>2 DEF NextBlock, Wherever
<1>4. /\ me.i > 0 /\ me.pc = at[p].pc /\ me.call = at[p].call /\ me.path = at[p].path
      /\ me.to = at[p].to /\ me.old = at[p].old /\ me.dir = at[p].dir /\ me.ino = at[p].ino
      /\ me.slot = at[p].slot
  BY <1>0, <1>1, <1>2 DEF NextBlock, Wherever
<1>5. HandsOk(me) /\ HolderOk(inode, ent, me)
  BY <1>0, <1>4 DEF HandsOk, HolderOk
<1>6. \A n \in Inums : Held(me, n) = Held(at[p], n) /\ Held(me, n) \in Nat /\ inode[n].count \in Int
  BY <1>4 DEF Held, One, DirInv, Tables, InodeRecords
<1>7. GoesOn(p, me) /\ UNCHANGED <<inode, ent>>
  BY <1>1 DEF AddNext
<1>8. inode' \in Tables /\ NoneFree(inode')
  BY <1>7 DEF DirInv
<1>9. \A n \in Inums : /\ inode'[n].kind = inode[n].kind /\ inode'[n].nlinks = inode[n].nlinks
                       /\ inode'[n].count = inode[n].count + Held(me, n) - Held(at[p], n)
                       /\ inode'[n].count >= inode[n].count
  BY <1>6, <1>7
<1>. QED BY <1>0, <1>3, <1>4, <1>5, <1>7, <1>8, <1>9, Moving
-----------------------------------------------------------------------------
(* What is being made, and is given up *)

(* Nobody holds a free inode. *)
LEMMA FreeIsNobodys ==
  ASSUME NEW f \in Tables, NEW a, NEW n \in Inums, Counted(f, a), f[n].count = 0
  PROVE  n # Root /\ \A q \in Procs : Held(a[q], n) = 0
<1>1. ASSUME NEW q \in Procs PROVE Held(a[q], n) = 0 /\ One(n = Root) = 0
  <2>1. f[n].count >= Held(a[q], n) + One(n = Root)
    BY Enough
  <2>2. Held(a[q], n) \in Nat /\ One(n = Root) \in Nat
    BY DEF Held, One
  <2>. QED BY <2>1, <2>2
<1>2. n # Root
  <2>1. f[n].count = Cardinality(Hands(a, n)) + One(n = Root)
    BY DEF Counted
  <2>2. Cardinality(Hands(a, n)) \in Nat
    BY HandsFinite
  <2>. QED BY <2>1, <2>2 DEF One
<1>. QED BY <1>1, <1>2

(* Names and subdirectories depend on which inodes are directories. *)
LEMMA NamesSame ==
  ASSUME NEW f, NEW g, NEW e,
         \A n \in Inums : f[n].kind = "dir" <=> g[n].kind = "dir"
  PROVE  \A n : Names(g, e, n) = Names(f, e, n)
<1>1. SUFFICES ASSUME NEW n, NEW x \in Inums \X (1..MaxEntries)
               PROVE  x \in Names(g, e, n) <=> x \in Names(f, e, n)
  BY DEF Names
<1>2. x[1] \in Inums
  OBVIOUS
<1>. QED BY <1>2 DEF Names

LEMMA EntryIs ==
  ASSUME NEW e, EntriesOk(e), NEW n \in Inums, NEW k \in DOMAIN e[n]
  PROVE  /\ e[n][k] \in Entries /\ e[n][k].ino \in Inums \cup {None} /\ k \in 1..MaxEntries
         /\ \A f : f[n].kind = "dir" => <<n, k>> \in Names(f, e, e[n][k].ino)
<1>1. /\ e[n] \in Seq(Entries) /\ Len(e[n]) <= MaxEntries /\ Len(e[n]) \in Nat
      /\ DOMAIN e[n] = 1..Len(e[n]) /\ MaxEntries \in Nat
  BY DirectoryAssumption DEF EntriesOk
<1>2. e[n][k] \in Entries /\ k \in 1..MaxEntries
  BY <1>1
<1>. QED BY <1>2 DEF Entries, Names

LEMMA SubsSame ==
  ASSUME NEW f, NEW g, NEW e, EntriesOk(e),
         \A n \in Inums : f[n].kind = "dir" <=> g[n].kind = "dir"
  PROVE  \A n \in Inums : Subs(g, e, n) = Subs(f, e, n)
<1>1. SUFFICES ASSUME NEW n \in Inums, NEW k \in DOMAIN e[n], e[n][k].ino # None
               PROVE  g[e[n][k].ino].kind = "dir" <=> f[e[n][k].ino].kind = "dir"
  BY DEF Subs
<1>2. e[n][k].ino \in Inums
  BY <1>1, EntryIs
<1>. QED BY <1>2

(* A new inode. *)
LEMMA TreeCreated ==
  ASSUME NEW f \in Tables, NEW g \in Tables, NEW e, EntriesOk(e), NEW a, PlacesOk(a), NEW b, PlacesOk(b),
         Tree(f, e, a), Makers(a), Counted(f, a), NEW p \in Procs, NEW n \in Inums,
         f[n].kind = "none", f[n].count = 0,
         \A m \in Inums : m # n => g[m] = f[m],
         g[n].nlinks = 1, g[n].kind = "new" \/ g[n].kind = "file",
         \A q \in Procs : q # p => b[q] = a[q],
         ~Making(a[p]), Makes(b[p], n),
         IF g[n].kind = "new" THEN b[p].pc = "block" ELSE b[p].pc = "add" /\ b[p].call = "open"
  PROVE  Tree(g, e, b) /\ Makers(b)
<1>1. \A m \in Inums : f[m].kind = "dir" <=> g[m].kind = "dir"
  BY DEF Tables
<1>2. (\A m \in Inums : Names(g, e, m) = Names(f, e, m)) /\ \A m \in Inums : Subs(g, e, m) = Subs(f, e, m)
  BY <1>1, NamesSame, SubsSame
<1>3. n # Root /\ \A q \in Procs : ~Makes(a[q], n)
  <2>1. n # Root /\ \A q \in Procs : Held(a[q], n) = 0
    BY FreeIsNobodys
  <2>. QED BY <2>1 DEF Held, One, Makes
<1>4. \A q \in Procs, m \in Inums : Makes(b[q], m) <=> IF q = p THEN m = n ELSE Makes(a[q], m)
  <2>1. \A m \in Inums : Makes(b[p], m) <=> m = n
    BY DEF Makes
  <2>. QED BY <2>1
<1>5. \A m \in Inums : m # n => (Made(b, m) <=> Made(a, m))
  <2>1. \A m \in Inums : ~Makes(a[p], m)
    BY Constants DEF Makes, Making
  <2>. QED BY <1>4, <2>1 DEF Made
<1>6. Made(b, n) /\ Names(f, e, n) = {}
  BY <1>4 DEF Made, Tree, InodeOk
<1>7. ASSUME NEW m \in Inums PROVE InodeOk(g, e, b, m)
  <2>1. CASE m = n
    BY <1>2, <1>6, <2>1 DEF InodeOk, FileOk
  <2>2. CASE m # n
    <3>1. InodeOk(f, e, a, m) /\ g[m] = f[m] /\ Names(g, e, m) = Names(f, e, m)
          /\ Subs(g, e, m) = Subs(f, e, m) /\ (Made(b, m) <=> Made(a, m))
      BY <1>2, <1>5, <2>2 DEF Tree
    <3>2. ASSUME f[m].kind = "dir" PROVE DirOk(g, e, b, m)
      <4>1. DirOk(f, e, a, m)
        BY <3>1, <3>2 DEF InodeOk
      <4>2. ASSUME NEW k \in DOMAIN e[m], e[m][k].ino # None PROVE g[e[m][k].ino].kind # "none"
        <5>1. e[m][k].ino \in Inums
          BY <4>2, EntryIs, ZenonT(60)
        <5>2. f[e[m][k].ino].kind # "none"
          BY <4>1, <4>2 DEF DirOk
        <5>. QED BY <5>1, <5>2
      <4>. QED BY <3>1, <4>1, <4>2 DEF DirOk
    <3>3. f[m].kind = "file" => FileOk(g, e, b, m)
      BY <3>1 DEF InodeOk, FileOk
    <3>. QED BY <3>1, <3>2, <3>3 DEF InodeOk
  <2>. QED BY <2>1, <2>2
<1>8. ASSUME NEW q \in Procs PROVE MakerOk(g, e, b[q])
  <2>1. CASE q = p
    <3>1. b[p].ino = n /\ Names(g, e, n) = {}
      BY <1>2, <1>6 DEF Makes
    <3>2. Cardinality(Names(g, e, n)) = 0
      BY <3>1, FS_EmptySet
    <3>. QED BY <2>1, <3>1, <3>2 DEF MakerOk
  <2>2. CASE q # p
    <3>1. MakerOk(f, e, a[q]) /\ HandsOk(a[q]) /\ a[q] \in Wherever /\ b[q] = a[q] /\ ~Makes(a[q], n)
      BY <1>3, <2>2 DEF Tree, PlacesOk
    <3>2. CASE Making(a[q])
      <4>1. a[q].ino \in Inums /\ a[q].ino # n
        BY <3>1, <3>2 DEF Wherever, Making, Makes
      <4>. QED BY <1>2, <3>1, <4>1 DEF MakerOk
    <3>3. CASE ~Making(a[q])
      BY <3>1, <3>3 DEF MakerOk, HandsOk, Making
    <3>. QED BY <3>2, <3>3
  <2>. QED BY <2>1, <2>2
<1>9. RootOk(g, e)
  BY <1>2, <1>3, Constants DEF Tree, RootOk
<1>10. Makers(b)
  BY <1>3, <1>4 DEF Makers
<1>. QED BY <1>7, <1>8, <1>9, <1>10 DEF Tree

LEMMA StepCreate ==
  ASSUME DirInv(inode, ent, at), NEW p \in Procs, Create(p)
  PROVE  DirInv(inode', ent', at')
<1>0. /\ at[p] \in Wherever /\ HandsOk(at[p]) /\ at[p].pc = "find" /\ HolderOk(inode, ent, at[p])
      /\ inode \in Tables /\ EntriesOk(ent) /\ UNCHANGED ent /\ ~OnTheWay(at[p])
  BY DEF DirInv, PlacesOk, Create, At, Holders
<1>1. at[p].dir \in Inums /\ at[p].ino = None /\ ~Making(at[p]) /\ 1 \in Nat
  BY <1>0 DEF HandsOk, Wherever, Making
<1>2. CASE /\ at[p].call = "link"
           /\ GoesOn(p, [at[p] EXCEPT !.pc = "add", !.i = 1]) /\ UNCHANGED inode
  <2>1. PICK me : me = [at[p] EXCEPT !.pc = "add", !.i = 1]
    OBVIOUS
  <2>2. me \in Wherever
    BY <1>0, <1>1, <2>1 DEF Wherever
  <2>3. /\ me.pc = "add" /\ me.i = 1 /\ me.ino = None /\ me.dir = at[p].dir /\ me.old = at[p].old
        /\ me.call = at[p].call /\ me.path = at[p].path /\ me.to = at[p].to
    BY <1>0, <1>1, <2>1 DEF Wherever
  <2>4. HandsOk(me) /\ HolderOk(inode, ent, me) /\ ~Making(me)
    BY <1>0, <1>1, <1>2, <2>3 DEF HandsOk, HolderOk, Making, OnTheWay
  <2>5. \A n \in Inums : /\ Held(me, n) = Held(at[p], n) /\ Held(me, n) \in Nat
                         /\ inode[n].count \in Int
    BY <1>0, <1>1, <2>3, Constants DEF Held, One, Tables, InodeRecords
  <2>6. inode' = inode /\ GoesOn(p, me)
    BY <1>2, <2>1
  <2>7. inode' \in Tables /\ NoneFree(inode')
    BY <2>6 DEF DirInv
  <2>8. \A n \in Inums : /\ inode'[n].kind = inode[n].kind /\ inode'[n].nlinks = inode[n].nlinks
                         /\ inode'[n].count = inode[n].count + Held(me, n) - Held(at[p], n)
                         /\ inode'[n].count >= inode[n].count
    BY <2>5, <2>6
  <2>. QED BY <2>3, <1>0, <1>1, <2>2, <2>4, <2>6, <2>7, <2>8, Moving
<1>3. ASSUME NEW n \in Inums, ~Used(n), at[p].call = "mkdir" \/ at[p].call = "open",
             inode' = [inode EXCEPT ![n] = [kind |-> IF at[p].call = "mkdir" THEN "new" ELSE "file",
                                             nlinks |-> 1, count |-> 1]],
             GoesOn(p, [at[p] EXCEPT !.pc = IF at[p].call = "mkdir" THEN "block" ELSE "add",
                                   !.ino = n, !.i = 1])
      PROVE  DirInv(inode', ent', at')
  <2>1. PICK me : me = [at[p] EXCEPT !.pc = IF at[p].call = "mkdir" THEN "block" ELSE "add",
                                     !.ino = n, !.i = 1]
    OBVIOUS
  <2>2. me \in Wherever
    BY <1>0, <1>1, <2>1 DEF Wherever
  <2>3. /\ me.pc = (IF at[p].call = "mkdir" THEN "block" ELSE "add") /\ me.i = 1 /\ me.ino = n
        /\ me.dir = at[p].dir /\ me.old = at[p].old
        /\ me.call = at[p].call /\ me.path = at[p].path /\ me.to = at[p].to
    BY <1>0, <1>1, <2>1 DEF Wherever
  <2>4. HandsOk(me)
    BY <1>0, <1>1, <1>3, <2>3, Constants DEF HandsOk
  <2>5. PlacesOk(at') /\ at'[p] = me /\ \A q \in Procs : q # p => at'[q] = at[q]
    <3>1. at' = [at EXCEPT ![p] = me]
      BY <1>3, <2>1 DEF GoesOn
    <3>. QED BY <2>2, <2>4, <3>1, PlaceIs DEF DirInv
  <2>6. PICK r : r = [kind |-> IF at[p].call = "mkdir" THEN "new" ELSE "file", nlinks |-> 1, count |-> 1]
    OBVIOUS
  <2>7. /\ r \in InodeRecords /\ r.kind = (IF at[p].call = "mkdir" THEN "new" ELSE "file")
        /\ r.nlinks = 1 /\ r.count = 1
    BY <2>6 DEF InodeRecords, Kinds
  <2>8. inode' = [inode EXCEPT ![n] = r]
    BY <1>3, <2>6
  <2>9. inode' \in Tables /\ inode'[n] = r /\ \A m \in Inums : m # n => inode'[m] = inode[m]
    BY <1>0, <2>7, <2>8 DEF Tables
  <2>10. inode[n].kind = "none" /\ inode[n].count = 0
    BY <1>3 DEF Used, DirInv, NoneFree
  <2>11. n # Root /\ \A q \in Procs : Held(at[q], n) = 0
    BY <1>0, <2>10, FreeIsNobodys DEF DirInv
  <2>12. NoneFree(inode')
    BY <2>7, <2>9 DEF DirInv, NoneFree
  <2>13. Tree(Settled(inode', at'), ent', at') /\ Makers(at')
    <3>1. Makes(at'[p], n) /\ inode'[n].nlinks = 1 /\ (inode'[n].kind = "new" \/ inode'[n].kind = "file")
      BY <2>3, <2>5, <2>7, <2>9 DEF Makes
    <3>2. IF inode'[n].kind = "new" THEN at'[p].pc = "block" ELSE at'[p].pc = "add" /\ at'[p].call = "open"
      BY <1>3, <2>3, <2>5, <2>7, <2>9
    <3>3. \A m : Linking(at', m) = Linking(at, m)
      BY <1>0, <2>3, <2>5, SettledSame
    <3>4. Linking(at, n) = {}
      BY <2>11 DEF Linking, Held, One
    <3>5. Due(at', n) = 0 /\ \A m \in Inums : Due(at', m) = Due(at, m)
      BY <3>3, <3>4, DueIs DEF Due
    <3>6. PICK f \in Tables, g \in Tables : f = Settled(inode, at) /\ g = Settled(inode', at')
      BY <1>0, <2>9, SettledIs
    <3>7. /\ f[n].kind = "none" /\ f[n].count = 0
          /\ g[n].nlinks = 1 /\ g[n].kind = inode'[n].kind
          /\ \A m \in Inums : f[m].count = inode[m].count
      BY <1>0, <2>9, <2>10, <3>1, <3>5, <3>6, SettledIs
    <3>8. \A m \in Inums : m # n => g[m] = f[m]
      BY <2>9, <3>5, <3>6 DEF Settled
    <3>9. Counted(f, at)
      BY <3>7 DEF DirInv, Counted
    <3>10. /\ Tree(f, ent, at) /\ Makers(at) /\ PlacesOk(at) /\ EntriesOk(ent) /\ ~Making(at[p])
           /\ g[n].kind = "new" \/ g[n].kind = "file"
           /\ IF g[n].kind = "new" THEN at'[p].pc = "block" ELSE at'[p].pc = "add" /\ at'[p].call = "open"
      BY <1>0, <1>1, <3>1, <3>2, <3>6, <3>7 DEF DirInv
    <3>11. Tree(g, ent, at') /\ Makers(at')
      BY <2>5, <3>1, <3>7, <3>8, <3>9, <3>10, TreeCreated
    <3>. QED BY <1>0, <3>6, <3>11
  <2>14. Counted(inode', at')
    <3>1. SUFFICES ASSUME NEW m \in Inums
                   PROVE  inode'[m].count = Cardinality(Hands(at', m)) + One(m = Root)
      BY DEF Counted
    <3>2. Cardinality(Hands(at', m)) = Cardinality(Hands(at, m)) - Held(at[p], m) + Held(me, m)
      <4>1. \A q \in Procs : q # p => at'[q] = at[q]
        BY <2>5
      <4>2. Cardinality(Hands(at', m)) = Cardinality(Hands(at, m)) - Held(at[p], m) + Held(at'[p], m)
        BY <4>1, HandsMoves
      <4>. QED BY <2>5, <4>2
    <3>3. inode[m].count = Cardinality(Hands(at, m)) + One(m = Root)
      BY DEF DirInv, Counted
    <3>4. /\ Cardinality(Hands(at, m)) \in Nat /\ One(m = Root) \in Nat
          /\ Held(at[p], m) \in Nat /\ One(m = n) \in Nat
      BY HandsFinite DEF One, Held
    <3>5. Held(me, m) = Held(at[p], m) + One(m = n)
      BY <1>0, <1>1, <2>3, Constants DEF Held, One
    <3>6. inode'[m].count = inode[m].count + One(m = n)
      <4>1. CASE m = n
        BY <2>7, <2>9, <2>10, <4>1 DEF One
      <4>2. CASE m # n
        <5>1. inode[m].count \in Int
          BY <1>0 DEF Tables, InodeRecords
        <5>. QED BY <2>9, <4>2, <5>1 DEF One
      <4>. QED BY <4>1, <4>2
    <3>. QED BY <3>2, <3>3, <3>4, <3>5, <3>6
  <2>15. Holders(inode', ent', at')
    <3>1. ASSUME NEW q \in Procs PROVE HolderOk(inode', ent', at'[q])
      <4>1. HolderOk(inode, ent, at[q]) /\ Held(at[q], n) = 0 /\ at[q] \in Wherever /\ HandsOk(at[q])
        BY <2>11 DEF DirInv, Holders, PlacesOk
      <4>2. /\ at[q].dir # n /\ at[q].old # n /\ (at[q].ino = n => at[q].pc = "iget")
            /\ (at[q].dir # None => at[q].dir \in Inums) /\ (at[q].old # None => at[q].old \in Inums)
            /\ (at[q].pc = "empty" => at[q].ino \in Inums)
        BY <4>1 DEF Held, One, Wherever, HandsOk
      <4>3. HolderOk(inode', ent, at[q])
        BY <2>9, <4>1, <4>2 DEF HolderOk
      <4>4. CASE q # p
        BY <1>0, <2>5, <4>3, <4>4
      <4>5. CASE q = p
        <5>1. HolderOk(inode', ent, me)
          BY <2>3, <4>3, <4>5 DEF HolderOk
        <5>. QED BY <1>0, <2>5, <4>5, <5>1
      <4>. QED BY <4>4, <4>5
    <3>. QED BY <3>1 DEF Holders
  <2>. QED BY <1>0, <2>5, <2>9, <2>12, <2>13, <2>14, <2>15 DEF DirInv
<1>. QED BY <1>2, <1>3 DEF Create

(* What a call makes is no other's to make. *)
LEMMA MakesOnly ==
  ASSUME NEW a, Makers(a), NEW b, NEW p \in Procs, NEW n \in Inums, Makes(a[p], n), b[p] = AtUser,
         \A q \in Procs : q # p => b[q] = a[q]
  PROVE  /\ \A q \in Procs, m \in Inums : Makes(b[q], m) <=> q # p /\ Makes(a[q], m)
         /\ \A m \in Inums : m # n => (Made(b, m) <=> Made(a, m))
         /\ \A q \in Procs : Making(b[q]) => q # p /\ b[q] = a[q] /\ a[q].ino # n
<1>1. \A m \in Inums : ~Makes(AtUser, m)
  BY DEF Makes, AtUser
<1>2. \A q \in Procs, m \in Inums : Makes(b[q], m) <=> q # p /\ Makes(a[q], m)
  BY <1>1
<1>3. \A m \in Inums : m # n => ~Makes(a[p], m)
  BY DEF Makes
<1>4. \A m \in Inums : m # n => (Made(b, m) <=> Made(a, m))
  BY <1>2, <1>3 DEF Made
<1>5. \A q \in Procs : Making(b[q]) => q # p /\ b[q] = a[q] /\ a[q].ino # n
  <2>1. SUFFICES ASSUME NEW q \in Procs, Making(b[q]) PROVE q # p /\ b[q] = a[q] /\ a[q].ino # n
    OBVIOUS
  <2>2. q # p /\ b[q] = a[q]
    BY <2>1, UserPlaceOk
  <2>3. a[q].ino = n => Makes(a[q], n)
    BY <2>1, <2>2 DEF Making, Makes
  <2>. QED BY <2>2, <2>3 DEF Makers
<1>. QED BY <1>2, <1>4, <1>5

LEMMA TreeUndone ==
  ASSUME NEW f \in Tables, NEW g \in Tables, NEW e, EntriesOk(e), NEW a, PlacesOk(a), NEW b, PlacesOk(b),
         Tree(f, e, a), Makers(a), NEW p \in Procs, NEW n \in Inums,
         Makes(a[p], n), a[p].pc = "block" \/ a[p].call = "open", f[n].count > 0,
         \A m \in Inums : g[m].kind = f[m].kind /\ g[m].count = f[m].count,
         \A m \in Inums : m # n => g[m].nlinks = f[m].nlinks,
         g[n].nlinks = f[n].nlinks - 1,
         b[p] = AtUser, \A q \in Procs : q # p => b[q] = a[q]
  PROVE  Tree(g, e, b)
<1>1. /\ \A m \in Inums : Names(g, e, m) = Names(f, e, m)
      /\ \A m \in Inums : Subs(g, e, m) = Subs(f, e, m)
  BY NamesSame, SubsSame
<1>2. /\ \A m \in Inums : m # n => (Made(b, m) <=> Made(a, m))
      /\ \A q \in Procs : Making(b[q]) => q # p /\ b[q] = a[q] /\ a[q].ino # n
  BY MakesOnly
<1>3. MakerOk(f, e, a[p]) /\ HandsOk(a[p]) /\ a[p].ino = n /\ n # None
  BY Constants DEF Tree, PlacesOk, Makes
<1>4. \/ f[n].kind = "new"
      \/ f[n].kind = "file" /\ f[n].nlinks = Cardinality(Names(f, e, n)) + 1
  BY <1>3 DEF MakerOk, HandsOk, Makes
<1>5. ASSUME NEW m \in Inums PROVE InodeOk(g, e, b, m)
  <2>0. InodeOk(f, e, a, m) /\ g[m].kind = f[m].kind /\ g[m].count = f[m].count
        /\ Names(g, e, m) = Names(f, e, m) /\ Subs(g, e, m) = Subs(f, e, m)
    BY <1>1 DEF Tree
  <2>1. CASE m = n /\ f[n].kind = "new"
    BY <2>0, <2>1 DEF InodeOk
  <2>2. CASE m = n /\ f[n].kind = "file" /\ f[n].nlinks = Cardinality(Names(f, e, n)) + 1
    <3>1. Cardinality(Names(f, e, n)) \in Nat
      BY NamesFinite
    <3>2. g[n].nlinks = Cardinality(Names(g, e, n))
      BY <1>1, <2>2, <3>1
    <3>. QED BY <2>0, <2>2, <3>2 DEF InodeOk, FileOk
  <2>3. CASE m # n
    <3>1. g[m].nlinks = f[m].nlinks /\ (Made(b, m) <=> Made(a, m))
      BY <1>2, <2>3
    <3>2. ASSUME f[m].kind = "dir" PROVE DirOk(g, e, b, m)
      <4>1. DirOk(f, e, a, m)
        BY <2>0, <3>2 DEF InodeOk
      <4>2. ASSUME NEW k \in DOMAIN e[m], e[m][k].ino # None PROVE g[e[m][k].ino].kind # "none"
        <5>1. e[m][k].ino \in Inums
          BY <4>2, EntryIs
        <5>2. f[e[m][k].ino].kind # "none"
          BY <4>1, <4>2 DEF DirOk
        <5>. QED BY <5>1, <5>2
      <4>. QED BY <2>0, <3>1, <4>1, <4>2 DEF DirOk
    <3>. QED BY <2>0, <3>1, <3>2 DEF InodeOk, FileOk
  <2>. QED BY <1>4, <2>1, <2>2, <2>3
<1>6. ASSUME NEW q \in Procs PROVE MakerOk(g, e, b[q])
  <2>0. HandsOk(b[q]) /\ b[q] \in Wherever
    BY DEF PlacesOk
  <2>1. CASE Making(b[q])
    <3>1. MakerOk(f, e, a[q]) /\ b[q] = a[q] /\ b[q].ino \in Inums /\ b[q].ino # n
      BY <1>2, <2>0, <2>1 DEF Tree, Wherever, Making
    <3>. QED BY <1>1, <3>1 DEF MakerOk
  <2>2. CASE ~Making(b[q])
    BY <2>0, <2>2 DEF MakerOk, HandsOk, Making
  <2>. QED BY <2>1, <2>2
<1>7. RootOk(g, e)
  <2>1. RootOk(f, e) /\ Root # n
    BY <1>4 DEF Tree, RootOk
  <2>. QED BY <1>1, <2>1, Constants DEF RootOk
<1>. QED BY <1>5, <1>6, <1>7 DEF Tree

(* A new inode is given up: no block for mkdir(), no room for open(). *)
LEMMA GivenUp ==
  ASSUME DirInv(inode, ent, at), NEW p \in Procs, Returns(p), UNCHANGED ent,
         at[p].pc = "block" \/ (at[p].pc = "add" /\ at[p].call = "open"),
         \/ inode' = PutBoth(Link(inode, at[p].ino, -1), at[p].dir, at[p].ino)
         \/ inode' = PutBoth(Link(inode, at[p].ino, -1), at[p].ino, at[p].dir)
  PROVE  DirInv(inode', ent', at')
<1>0. /\ at[p] \in Wherever /\ HandsOk(at[p]) /\ inode \in Tables /\ EntriesOk(ent) /\ PlacesOk(at)
      /\ Counted(inode, at) /\ NoneFree(inode) /\ Tree(Settled(inode, at), ent, at) /\ Makers(at)
      /\ Holders(inode, ent, at)
  BY DEF DirInv, PlacesOk
<1>1. /\ at[p].dir \in Inums /\ at[p].ino \in Inums /\ at[p].old = None
      /\ at[p].pc # "iget"
  BY <1>0 DEF HandsOk, Wherever
<1>2. PICK n \in Inums, d \in Inums : n = at[p].ino /\ d = at[p].dir
  BY <1>1
<1>3. PICK f : f = Link(inode, n, -1)
  OBVIOUS
<1>4. /\ f \in Tables
      /\ \A m \in Inums : f[m].count = inode[m].count /\ f[m].kind = inode[m].kind
      /\ \A m \in Inums : m # n => f[m].nlinks = inode[m].nlinks
      /\ f[n].nlinks = inode[n].nlinks - 1
  <2>1. -1 \in Int /\ inode[n].nlinks \in Int /\ inode[n].nlinks + (-1) = inode[n].nlinks - 1
    BY <1>0 DEF Tables, InodeRecords
  <2>. QED BY <1>0, <1>3, <2>1, LinkIs, ZenonT(60)
<1>5. \A m \in Inums : Held(at[p], m) = One(d = m) + One(n = m)
                       /\ One(d = m) + One(n = m) = One(n = m) + One(d = m)
  BY <1>1, <1>2, Constants DEF Held, One
<1>6. inode' = Gone(f, d, n) \/ inode' = Gone(f, n, d)
  BY <1>2, <1>3, Constants DEF Gone
<1>7. PlacesOk(at') /\ at'[p] = AtUser /\ \A q \in Procs : q # p => at'[q] = at[q]
  BY <1>0, PlaceIs, UserPlaceOk DEF Returns, GoesOn
<1>8. inode[n].count > 0
  <2>1. Held(at[p], n) # 0
    BY <1>5 DEF One
  <2>. QED BY <1>0, <2>1, CountHeld
<1>9. Tree(Settled(f, at'), ent', at')
  <2>1. Makes(at[p], n) /\ (at[p].pc = "block" \/ at[p].call = "open")
    BY <1>2 DEF Makes
  <2>2. PICK g \in Tables, h \in Tables : g = Settled(inode, at) /\ h = Settled(f, at')
    BY <1>0, <1>4, SettledIs
  <2>3. \A m \in Inums : Due(at', m) = Due(at, m)
    <3>1. \A q \in Procs : at[q].pc = "linked" \/ at'[q].pc = "linked" =>
                           at'[q].pc = at[q].pc /\ at'[q].old = at[q].old
      BY <1>7 DEF AtUser
    <3>. QED BY <3>1, DueSame
  <2>4. /\ \A m \in Inums : h[m].kind = g[m].kind /\ h[m].count = g[m].count
        /\ \A m \in Inums : m # n => h[m].nlinks = g[m].nlinks
        /\ g[n].count > 0
    BY <1>0, <1>4, <1>8, <2>2, <2>3, SettledIs
  <2>5. h[n].nlinks = g[n].nlinks - 1
    <3>1. /\ g[n].nlinks = inode[n].nlinks + (IF inode[n].kind = "file" THEN Due(at, n) ELSE 0)
          /\ h[n].nlinks = f[n].nlinks + (IF f[n].kind = "file" THEN Due(at', n) ELSE 0)
      BY <1>0, <1>4, <2>2, SettledIs
    <3>2. inode[n].nlinks \in Int /\ Due(at, n) \in Nat
      BY <1>0, DueIs DEF Tables, InodeRecords
    <3>. QED BY <1>4, <2>3, <3>1, <3>2
  <2>6. Tree(h, ent, at')
    BY <1>0, <1>7, <2>1, <2>2, <2>4, <2>5, TreeUndone
  <2>. QED BY <2>2, <2>6
<1>10. EntriesOk(ent') /\ \A m \in Inums : DOMAIN ent[m] \subseteq DOMAIN ent'[m]
  BY <1>0
<1>11. CASE inode' = Gone(f, d, n)
  <2>1. \A m \in Inums : Held(at[p], m) = One(d = m) + One(n = m)
    BY <1>5
  <2>. QED BY <1>0, <1>4, <1>9, <1>10, <1>11, <2>1, Leaving
<1>12. CASE inode' = Gone(f, n, d)
  <2>1. \A m \in Inums : Held(at[p], m) = One(n = m) + One(d = m)
    BY <1>5
  <2>. QED BY <1>0, <1>4, <1>9, <1>10, <1>12, <2>1, Leaving
<1>. QED BY <1>6, <1>11, <1>12

LEMMA StepNoNewDir ==
  ASSUME DirInv(inode, ent, at), NEW p \in Procs, NoNewDir(p)
  PROVE  DirInv(inode', ent', at')
BY GivenUp DEF NoNewDir, At

LEMMA StepAddFails ==
  ASSUME DirInv(inode, ent, at), NEW p \in Procs, AddFails(p)
  PROVE  (broken' # "free_block" => Counted(inode', at'))
         /\ (broken' = "no" => DirInv(inode', ent', at'))
<1>0. /\ at[p] \in Wherever /\ HandsOk(at[p]) /\ at[p].pc = "add" /\ Returns(p) /\ UNCHANGED ent
      /\ broken = "no"
  BY DEF DirInv, PlacesOk, AddFails, At
<1>1. CASE at[p].call = "open"
  <2>1. inode' = PutBoth(Link(inode, at[p].ino, -1), at[p].ino, at[p].dir)
    BY <1>1 DEF AddFails
  <2>2. DirInv(inode', ent', at')
    BY <1>0, <1>1, <2>1, GivenUp
  <2>. QED BY <2>2 DEF DirInv
<1>2. CASE at[p].call = "link"
  <2>1. inode' = PutBoth(inode, at[p].dir, at[p].old)
    BY <1>2 DEF AddFails
  <2>2. /\ at[p].dir \in Inums /\ at[p].old \in Inums /\ at[p].ino = None
    BY <1>0, <1>2 DEF HandsOk, Wherever
  <2>3. inode' = Gone(inode, at[p].dir, at[p].old)
    BY <2>1, <2>2, Constants DEF Gone
  <2>4. \A n \in Inums : Held(at[p], n) = One(at[p].dir = n) + One(at[p].old = n)
    BY <2>2, Constants DEF Held, One
  <2>5. ~Making(at[p])
    BY <2>2 DEF Making
  <2>6. DirInv(inode', ent', at')
    BY <1>0, <2>2, <2>3, <2>4, <2>5, LeavingQuietly
  <2>. QED BY <2>6 DEF DirInv
<1>3. CASE at[p].call = "mkdir"
  BY <1>3 DEF AddFails
<1>. QED BY <1>0, <1>1, <1>2, <1>3 DEF HandsOk

(* mkdir() gets its block: what is made becomes an empty directory. *)
LEMMA StepNewDir ==
  ASSUME DirInv(inode, ent, at), NEW p \in Procs, NewDir(p)
  PROVE  DirInv(inode', ent', at')
<1>0. /\ at[p] \in Wherever /\ HandsOk(at[p]) /\ at[p].pc = "block" /\ inode \in Tables
      /\ EntriesOk(ent) /\ PlacesOk(at) /\ Counted(inode, at) /\ NoneFree(inode)
      /\ Tree(Settled(inode, at), ent, at) /\ Makers(at) /\ Holders(inode, ent, at)
  BY DEF DirInv, PlacesOk, NewDir, At
<1>1. PICK n \in Inums : n = at[p].ino
  BY <1>0 DEF HandsOk, Wherever
<1>f. PICK f \in Tables : f = Settled(inode, at)
  BY <1>0, SettledIs
<1>2. inode[n].kind = "new" /\ f[n].kind = "new" /\ Names(f, ent, n) = {} /\ n # Root
  <2>1. MakerOk(f, ent, at[p]) /\ InodeOk(f, ent, at, n) /\ RootOk(f, ent)
    BY <1>0, <1>f DEF Tree
  <2>2. f[n].kind = "new" /\ Names(f, ent, n) = {} /\ n # Root
    BY <1>0, <1>1, <2>1 DEF MakerOk, InodeOk, RootOk
  <2>. QED BY <1>0, <1>f, <2>2, SettledIs
<1>3. PICK r : r = [inode[n] EXCEPT !.kind = "dir", !.nlinks = 2]
  OBVIOUS
<1>4. inode[n] \in InodeRecords /\ 2 \in Int /\ "dir" \in Kinds
  BY <1>0 DEF Tables, Kinds
<1>5. r \in InodeRecords
  BY <1>3, <1>4 DEF InodeRecords
<1>6. r.kind = "dir" /\ r.nlinks = 2 /\ r.count = inode[n].count
  BY <1>3, <1>4 DEF InodeRecords
<1>7. inode' = [inode EXCEPT ![n] = r]
  <2>1. inode' = [inode EXCEPT ![n].kind = "dir", ![n].nlinks = 2]
    BY <1>1 DEF NewDir
  <2>. QED BY <1>0, <1>3, <2>1 DEF Tables
<1>8. inode' \in Tables /\ inode'[n] = r /\ \A m \in Inums : m # n => inode'[m] = inode[m]
  BY <1>0, <1>5, <1>7 DEF Tables
<1>9. /\ EntriesOk(ent') /\ ent'[n] = <<>> /\ DOMAIN ent'[n] = {}
      /\ \A m \in Inums : m # n => ent'[m] = ent[m]
  <2>1. ent' = [ent EXCEPT ![n] = <<>>]
    BY <1>1 DEF NewDir
  <2>2. <<>> \in Seq(Entries) /\ Len(<<>>) = 0 /\ 0 <= MaxEntries
    BY DirectoryAssumption
  <2>3. ent' \in [Inums -> Seq(Entries)] /\ ent'[n] = <<>> /\ \A m \in Inums : m # n => ent'[m] = ent[m]
    BY <1>0, <2>1, <2>2 DEF EntriesOk
  <2>4. ASSUME NEW m \in Inums PROVE Len(ent'[m]) <= MaxEntries
    BY <1>0, <2>2, <2>3 DEF EntriesOk
  <2>5. DOMAIN ent'[n] = {}
    BY <2>3
  <2>. QED BY <2>3, <2>4, <2>5 DEF EntriesOk
<1>10. PICK me : me = [at[p] EXCEPT !.pc = "add"]
  OBVIOUS
<1>11. me \in Wherever
  BY <1>0, <1>10 DEF Wherever
<1>12. /\ me.pc = "add" /\ me.ino = n /\ me.dir = at[p].dir /\ me.old = at[p].old /\ me.i = at[p].i
       /\ me.call = at[p].call /\ me.path = at[p].path /\ me.to = at[p].to
  BY <1>0, <1>1, <1>10 DEF Wherever
<1>13. HandsOk(me)
  BY <1>0, <1>1, <1>12, Constants DEF HandsOk
<1>14. PlacesOk(at') /\ at'[p] = me /\ \A q \in Procs : q # p => at'[q] = at[q]
  <2>1. at' = [at EXCEPT ![p] = me]
    BY <1>10 DEF NewDir, GoesOn
  <2>. QED BY <1>0, <1>11, <1>13, <2>1, PlaceIs
<1>15. Makes(at[p], n) /\ \A q \in Procs, m \in Inums : Makes(at'[q], m) <=> Makes(at[q], m)
  BY <1>0, <1>1, <1>12, <1>14 DEF Makes
<1>g. PICK g \in Tables :
        /\ g = Settled(inode', at') /\ g[n].kind = "dir" /\ g[n].nlinks = 2
        /\ \A m \in Inums : m # n => g[m] = f[m]
  <2>1. PICK g \in Tables : g = Settled(inode', at')
    BY <1>8, SettledIs
  <2>2. g[n].kind = "dir" /\ g[n].nlinks = 2
    BY <1>6, <1>8, <2>1, SettledIs
  <2>3. \A m \in Inums : Due(at', m) = Due(at, m)
    BY <1>0, <1>12, <1>14, SettledSame DEF Due
  <2>4. \A m \in Inums : m # n => g[m] = f[m]
    BY <1>8, <1>f, <2>1, <2>3 DEF Settled
  <2>. QED BY <2>1, <2>2, <2>4
<1>16. \A m \in Inums : Names(g, ent', m) = Names(f, ent, m)
  <2>1. SUFFICES ASSUME NEW m \in Inums, NEW x \in Inums \X (1..MaxEntries)
                 PROVE  x \in Names(g, ent', m) <=> x \in Names(f, ent, m)
    BY DEF Names
  <2>2. CASE x[1] = n
    BY <1>2, <1>9, <2>2 DEF Names
  <2>3. CASE x[1] # n
    <3>1. x[1] \in Inums
      OBVIOUS
    <3>. QED BY <1>g, <1>9, <2>3, <3>1 DEF Names
  <2>. QED BY <2>2, <2>3
<1>17. ASSUME NEW m \in Inums, f[m].kind = "dir", NEW k \in DOMAIN ent[m], ent[m][k].ino # None
       PROVE  ent[m][k].ino \in Inums /\ ent[m][k].ino # n
  BY <1>0, <1>2, <1>17, EntryIs
<1>18. ASSUME NEW m \in Inums PROVE InodeOk(g, ent', at', m)
  <2>0. InodeOk(f, ent, at, m) /\ (Made(at', m) <=> Made(at, m))
    BY <1>0, <1>f, <1>15 DEF Tree, Made
  <2>1. CASE m = n
    <3>1. Subs(g, ent', n) = {}
      BY <1>9 DEF Subs
    <3>2. Cardinality(Subs(g, ent', n)) = 0
      BY <3>1, FS_EmptySet
    <3>3. Made(at', n)
      BY <1>15 DEF Made
    <3>. QED BY <1>g, <1>9, <2>1, <3>2, <3>3 DEF InodeOk, DirOk, OneOfAName
  <2>2. CASE m # n /\ f[m].kind = "dir"
    <3>1. DirOk(f, ent, at, m) /\ ent'[m] = ent[m] /\ g[m] = f[m]
          /\ Names(g, ent', m) = Names(f, ent, m)
      BY <1>g, <1>9, <1>16, <2>0, <2>2 DEF InodeOk
    <3>2. Subs(g, ent', m) = Subs(f, ent, m)
      BY <1>g, <1>17, <2>2, <3>1 DEF Subs
    <3>3. ASSUME NEW k \in DOMAIN ent[m], ent[m][k].ino # None
          PROVE  g[ent[m][k].ino].kind # "none"
      <4>1. f[ent[m][k].ino].kind # "none"
        BY <3>1, <3>3 DEF DirOk
      <4>. QED BY <1>g, <1>17, <2>2, <3>3, <4>1
    <3>4. DirOk(g, ent', at', m)
      BY <2>0, <3>1, <3>2, <3>3 DEF DirOk, OneOfAName, Empty
    <3>. QED BY <2>2, <3>1, <3>4 DEF InodeOk
  <2>3. CASE m # n /\ f[m].kind # "dir"
    BY <1>g, <1>16, <2>0, <2>3 DEF InodeOk, FileOk
  <2>. QED BY <2>1, <2>2, <2>3
<1>19. ASSUME NEW q \in Procs PROVE MakerOk(g, ent', at'[q])
  <2>1. CASE q = p
    <3>1. me.call = "mkdir"
      BY <1>0, <1>12 DEF HandsOk
    <3>. QED BY <1>2, <1>g, <1>12, <1>14, <1>16, <2>1, <3>1 DEF MakerOk
  <2>2. CASE q # p
    <3>1. MakerOk(f, ent, at[q]) /\ HandsOk(at[q]) /\ at[q] \in Wherever /\ at'[q] = at[q]
      BY <1>0, <1>f, <1>14, <2>2 DEF Tree, PlacesOk
    <3>2. CASE Making(at[q])
      <4>1. at[q].ino \in Inums /\ Makes(at[q], at[q].ino)
        BY <3>1, <3>2 DEF Wherever, Making, Makes
      <4>2. at[q].ino # n
        BY <1>0, <1>15, <2>2, <4>1 DEF Makers
      <4>. QED BY <1>g, <1>16, <3>1, <4>1, <4>2 DEF MakerOk
    <3>3. CASE ~Making(at[q])
      BY <3>1, <3>3 DEF MakerOk, HandsOk, Making
    <3>. QED BY <3>2, <3>3
  <2>. QED BY <2>1, <2>2
<1>20. RootOk(g, ent')
  BY <1>0, <1>f, <1>2, <1>g, <1>16, Constants DEF Tree, RootOk
<1>21. Tree(Settled(inode', at'), ent', at') /\ Makers(at')
  BY <1>0, <1>g, <1>15, <1>18, <1>19, <1>20 DEF Tree, Makers
<1>22. NoneFree(inode')
  BY <1>0, <1>6, <1>8 DEF NoneFree
<1>23. Counted(inode', at')
  <2>1. SUFFICES ASSUME NEW m \in Inums
                 PROVE  inode'[m].count = Cardinality(Hands(at', m)) + One(m = Root)
    BY DEF Counted
  <2>2. Cardinality(Hands(at', m)) = Cardinality(Hands(at, m)) - Held(at[p], m) + Held(at'[p], m)
    <3>1. \A q \in Procs : q # p => at'[q] = at[q]
      BY <1>14
    <3>. QED BY <3>1, HandsMoves
  <2>3. Held(at'[p], m) = Held(at[p], m) /\ Held(at[p], m) \in Nat /\ Cardinality(Hands(at, m)) \in Nat
    BY <1>0, <1>1, <1>12, <1>14, HandsFinite DEF Held, One
  <2>4. inode'[m].count = inode[m].count
    BY <1>6, <1>8
  <2>5. inode[m].count = Cardinality(Hands(at, m)) + One(m = Root)
    BY <1>0 DEF Counted
  <2>. QED BY <2>2, <2>3, <2>4, <2>5
<1>24. Holders(inode', ent', at')
  <2>1. ASSUME NEW q \in Procs PROVE HolderOk(inode', ent', at'[q])
    <3>1. HolderOk(inode, ent, at[q]) /\ at[q] \in Wherever /\ HandsOk(at[q])
      BY <1>0 DEF Holders, PlacesOk
    <3>2. /\ at[q].dir # None => at[q].dir \in Inums /\ at[q].dir # n
          /\ at[q].old # None => at[q].old \in Inums /\ at[q].old # n
          /\ at[q].pc = "empty" => at[q].ino \in Inums /\ at[q].ino # n
          /\ at[q].pc = "find" => at[q].dir # None
      BY <1>2, <3>1 DEF HolderOk, Wherever, HandsOk
    <3>3. HolderOk(inode', ent', at[q])
      BY <1>8, <1>9, <3>1, <3>2 DEF HolderOk
    <3>4. CASE q = p
      <4>1. HolderOk(inode', ent', me)
        BY <1>12, <3>3, <3>4 DEF HolderOk
      <4>. QED BY <1>14, <3>4, <4>1
    <3>. QED BY <1>14, <3>3, <3>4
  <2>. QED BY <2>1 DEF Holders
<1>. QED BY <1>8, <1>9, <1>14, <1>21, <1>22, <1>23, <1>24 DEF DirInv
-----------------------------------------------------------------------------
(* A name more or less *)

(* e2 has the name of y, at k in directory d, and otherwise what e has. *)
Extra(e, e2, d, k, y) ==
    /\ EntriesOk(e) /\ EntriesOk(e2)
    /\ \A n \in Inums : n # d => e2[n] = e[n]
    /\ DOMAIN e2[d] \cup {k} = DOMAIN e[d] \cup {k}
    /\ \A j \in DOMAIN e[d] : j # k => e2[d][j] = e[d][j]
    /\ k \in DOMAIN e2[d] /\ e2[d][k].ino = y
    /\ k \in DOMAIN e[d] => e[d][k].ino = None

OneMore(f, e, e2, d, k, y) ==
    /\ Names(f, e2, y) = Names(f, e, y) \cup {<<d, k>>} /\ <<d, k>> \notin Names(f, e, y)
    /\ Cardinality(Names(f, e2, y)) = Cardinality(Names(f, e, y)) + 1
    /\ \A n \in Inums : n # y => Names(f, e2, n) = Names(f, e, n)
    /\ \A n \in Inums : n # d => Subs(f, e2, n) = Subs(f, e, n)
    /\ f[y].kind # "dir" => Subs(f, e2, d) = Subs(f, e, d)
    /\ f[y].kind = "dir" => Cardinality(Subs(f, e2, d)) = Cardinality(Subs(f, e, d)) + 1

LEMMA ExtraName ==
  ASSUME NEW f, NEW e, NEW e2, NEW d \in Inums, NEW k, NEW y \in Inums, Extra(e, e2, d, k, y),
         f[d].kind = "dir"
  PROVE  OneMore(f, e, e2, d, k, y)
<1>1. y # None /\ k \in 1..MaxEntries
  BY Constants, EntryIs DEF Extra
<1>2. <<d, k>> \notin Names(f, e, y)
  BY <1>1 DEF Names, Extra
<1>3. ASSUME NEW n \in Inums, NEW x \in Inums \X (1..MaxEntries)
      PROVE  x \in Names(f, e2, n) <=> x \in Names(f, e, n) \/ (n = y /\ x = <<d, k>>)
  <2>1. x[1] \in Inums /\ x = <<x[1], x[2]>>
    OBVIOUS
  <2>2. CASE x[1] # d
    BY <2>1, <2>2 DEF Names, Extra
  <2>3. CASE x[1] = d /\ x[2] # k
    <3>1. x[2] \in DOMAIN e2[d] <=> x[2] \in DOMAIN e[d]
      BY <2>3 DEF Extra
    <3>2. x[2] \in DOMAIN e[d] => e2[d][x[2]] = e[d][x[2]]
      BY <2>3 DEF Extra
    <3>. QED BY <2>3, <3>1, <3>2 DEF Names
  <2>4. CASE x[1] = d /\ x[2] = k
    <3>1. x = <<d, k>> /\ n # None
      BY <2>1, <2>4, Constants
    <3>2. x \in Names(f, e2, n) <=> n = y
      BY <2>4 DEF Names, Extra
    <3>3. x \notin Names(f, e, n)
      BY <2>4, <3>1 DEF Names, Extra
    <3>. QED BY <3>1, <3>2, <3>3
  <2>. QED BY <2>2, <2>3, <2>4
<1>4. Names(f, e2, y) = Names(f, e, y) \cup {<<d, k>>}
  <2>1. <<d, k>> \in Inums \X (1..MaxEntries)
    BY <1>1
  <2>2. Names(f, e2, y) \subseteq Inums \X (1..MaxEntries) /\ Names(f, e, y) \subseteq Inums \X (1..MaxEntries)
    BY DEF Names
  <2>. QED BY <1>3, <2>1, <2>2
<1>5. Cardinality(Names(f, e2, y)) = Cardinality(Names(f, e, y)) + 1
  BY <1>2, <1>4, NamesFinite, FS_AddElement
<1>6. ASSUME NEW n \in Inums, n # y PROVE Names(f, e2, n) = Names(f, e, n)
  <2>2. Names(f, e2, n) \subseteq Inums \X (1..MaxEntries) /\ Names(f, e, n) \subseteq Inums \X (1..MaxEntries)
    BY DEF Names
  <2>. QED BY <1>3, <1>6, <2>2
<1>7. \A n \in Inums : n # d => Subs(f, e2, n) = Subs(f, e, n)
  BY DEF Extra, Subs
<1>8. Subs(f, e2, d) = Subs(f, e, d) \cup (IF f[y].kind = "dir" THEN {k} ELSE {})
  <2>1. ASSUME NEW j, j # k PROVE j \in Subs(f, e2, d) <=> j \in Subs(f, e, d)
    <3>1. j \in DOMAIN e2[d] <=> j \in DOMAIN e[d]
      BY <2>1 DEF Extra
    <3>2. j \in DOMAIN e[d] => e2[d][j] = e[d][j]
      BY <2>1 DEF Extra
    <3>. QED BY <3>1, <3>2 DEF Subs
  <2>2. k \in Subs(f, e2, d) <=> f[y].kind = "dir"
    BY <1>1 DEF Subs, Extra
  <2>3. k \notin Subs(f, e, d)
    BY DEF Subs, Extra
  <2>. QED BY <2>1, <2>2, <2>3
<1>9. k \notin Subs(f, e, d) /\ IsFiniteSet(Subs(f, e, d))
  BY SubsFinite DEF Subs, Extra
<1>10. f[y].kind = "dir" => Cardinality(Subs(f, e2, d)) = Cardinality(Subs(f, e, d)) + 1
  BY <1>8, <1>9, FS_AddElement
<1>. QED BY <1>2, <1>4, <1>5, <1>6, <1>7, <1>8, <1>10 DEF OneMore

LEMMA SetEntryIs ==
  ASSUME EntriesOk(ent), NEW d \in Inums, NEW k \in 1..MaxEntries, k <= Len(ent[d]) + 1,
         NEW x \in Entries, SetEntry(d, k, x)
  PROVE  /\ EntriesOk(ent') /\ \A n \in Inums : n # d => ent'[n] = ent[n]
         /\ DOMAIN ent'[d] = DOMAIN ent[d] \cup {k} /\ ent'[d][k] = x
         /\ \A j \in DOMAIN ent[d] : j # k => ent'[d][j] = ent[d][j]
         /\ \A n \in Inums : DOMAIN ent[n] \subseteq DOMAIN ent'[n]
<1>. DEFINE s == [j \in DOMAIN ent[d] \cup {k} |-> IF j = k THEN x ELSE ent[d][j]]
<1>1. PICK L \in Nat : /\ L = Len(ent[d]) /\ DOMAIN ent[d] = 1..L /\ L <= MaxEntries
                       /\ ent[d] \in Seq(Entries) /\ \A j \in 1..L : ent[d][j] \in Entries
  BY DEF EntriesOk
<1>2. PICK M \in Nat : (1..L) \cup {k} = 1..M /\ M <= MaxEntries
  <2>1. k \in Nat /\ k >= 1 /\ k <= L + 1 /\ MaxEntries \in Nat
    BY <1>1, DirectoryAssumption
  <2>2. CASE k = L + 1
    <3>1. (1..L) \cup {k} = 1..L + 1 /\ L + 1 \in Nat /\ L + 1 <= MaxEntries
      BY <1>1, <2>2
    <3>. QED BY <3>1
  <2>3. CASE k <= L
    <3>1. (1..L) \cup {k} = 1..L
      BY <2>1, <2>3
    <3>. QED BY <1>1, <3>1
  <2>. QED BY <2>1, <2>2, <2>3
<1>3. s \in [1..M -> Entries] /\ DOMAIN s = 1..M
  BY <1>1, <1>2
<1>5. ent' = [ent EXCEPT ![d] = s]
  BY DEF SetEntry
<1>6. DOMAIN s = DOMAIN ent[d] \cup {k} /\ s[k] = x /\ \A j \in DOMAIN ent[d] : j # k => s[j] = ent[d][j]
  OBVIOUS
<1>. HIDE DEF s
<1>4. s \in Seq(Entries) /\ Len(s) = M
  <2>1. s \in Seq(Entries)
    BY <1>3
  <2>2. Len(s) \in Nat /\ 1..M = 1..Len(s)
    BY <1>3, <2>1, LenProperties
  <2>. QED BY <2>1, <2>2
<1>7. ent' \in [Inums -> Seq(Entries)] /\ ent'[d] = s /\ \A n \in Inums : n # d => ent'[n] = ent[n]
  BY <1>4, <1>5 DEF EntriesOk
<1>8. EntriesOk(ent')
  BY <1>2, <1>4, <1>7 DEF EntriesOk
<1>. QED BY <1>6, <1>7, <1>8

(* open(), mkdir() and link() enter the name of y. *)
LEMMA TreeAdded ==
  ASSUME NEW f \in Tables, NEW g \in Tables, NEW e, NEW e2, NEW d \in Inums, NEW k, NEW y \in Inums,
         Extra(e, e2, d, k, y), NEW a, PlacesOk(a), NEW b, PlacesOk(b),
         Tree(f, e, a), Makers(a), NEW p \in Procs, \A q \in Procs : q # p => b[q] = a[q],
         f[d].kind = "dir", f[d].nlinks # 0, OneOfAName(e2, d), f[y].count > 0,
         \A m \in Inums : g[m].kind = f[m].kind /\ g[m].count = f[m].count,
         \/ /\ Makes(a[p], y) /\ a[p].pc = "add" /\ a[p].call = "open" /\ b[p] = AtUser
            /\ \A m \in Inums : g[m].nlinks = f[m].nlinks
         \/ /\ Makes(a[p], y) /\ a[p].pc = "add" /\ a[p].call = "mkdir" /\ b[p] = AtUser
            /\ \A m \in Inums : g[m].nlinks = f[m].nlinks + One(m = d)
         \/ /\ ~Making(a[p]) /\ ~Making(b[p]) /\ f[y].kind = "file"
            /\ \A m \in Inums : g[m].nlinks = f[m].nlinks + One(m = y)
  PROVE  Tree(g, e2, b)
<1>1. /\ \A m \in Inums : Names(g, e2, m) = Names(f, e2, m)
      /\ \A m \in Inums : Subs(g, e2, m) = Subs(f, e2, m)
  BY NamesSame, SubsSame DEF Extra
<1>2. /\ Names(f, e2, y) = Names(f, e, y) \cup {<<d, k>>}
      /\ Cardinality(Names(f, e2, y)) = Cardinality(Names(f, e, y)) + 1
      /\ \A n \in Inums : n # y => Names(f, e2, n) = Names(f, e, n)
      /\ \A n \in Inums : n # d => Subs(f, e2, n) = Subs(f, e, n)
      /\ f[y].kind # "dir" => Subs(f, e2, d) = Subs(f, e, d)
      /\ f[y].kind = "dir" => Cardinality(Subs(f, e2, d)) = Cardinality(Subs(f, e, d)) + 1
  <2>1. OneMore(f, e, e2, d, k, y)
    BY ExtraName
  <2>. QED BY <2>1 DEF OneMore
<1>3. \A m \in Inums : f[m].nlinks \in Int /\ Cardinality(Names(f, e, m)) \in Nat
  BY NamesFinite DEF Tables, InodeRecords
<1>4. \A m \in Inums : Cardinality(Subs(f, e, m)) \in Nat
  BY SubsFinite DEF Extra
<1>5. MakerOk(f, e, a[p]) /\ HandsOk(a[p]) /\ y # None
  BY Constants DEF Tree, PlacesOk
<1>6. /\ f[y].kind \in {"file", "dir"} /\ y # Root
      /\ f[y].kind = "dir" => /\ Names(f, e, y) = {} /\ Cardinality(Names(f, e2, y)) = 1
                              /\ f[y].nlinks # 0
                              /\ \A m \in Inums : g[m].nlinks = f[m].nlinks + One(m = d)
  <2>1. Names(f, e, y) = {} => Cardinality(Names(f, e, y)) = 0
    BY FS_EmptySet
  <2>2. CASE Makes(a[p], y) /\ a[p].pc = "add" /\ a[p].call = "open"
    BY <1>5, <2>2 DEF Makes, MakerOk, Tree, RootOk
  <2>3. CASE /\ Makes(a[p], y) /\ a[p].pc = "add" /\ a[p].call = "mkdir"
             /\ \A m \in Inums : g[m].nlinks = f[m].nlinks + One(m = d)
    BY <1>2, <1>5, <2>1, <2>3 DEF Makes, MakerOk
  <2>4. CASE f[y].kind = "file"
    BY <2>4 DEF Tree, RootOk
  <2>. QED BY <2>2, <2>3, <2>4
<1>7. ASSUME f[y].kind = "file"
      PROVE  /\ \A m \in Inums : m # y => g[m].nlinks = f[m].nlinks
             /\ \/ /\ f[y].nlinks = Cardinality(Names(f, e, y)) + 1 /\ g[y].nlinks = f[y].nlinks
                   /\ Makes(a[p], y)
                \/ g[y].nlinks = f[y].nlinks + 1 /\ ~Making(a[p])
  BY <1>3, <1>5, <1>7 DEF One, Makes, MakerOk
<1>8. /\ \A m \in Inums : m # y => (Made(b, m) <=> Made(a, m))
      /\ \A q \in Procs : Making(b[q]) => q # p /\ b[q] = a[q]
      /\ \A q \in Procs : Making(b[q]) /\ a[q].ino = y => ~Making(a[p])
      /\ ~Making(a[p]) => (Made(b, y) <=> Made(a, y))
  <2>1. CASE Makes(a[p], y)
    <3>1. Making(a[p])
      BY <1>5, <2>1 DEF Makes, Making
    <3>2. b[p] = AtUser
      BY <3>1
    <3>. QED BY <2>1, <3>1, <3>2, MakesOnly
  <2>2. CASE ~Making(a[p])
    <3>1. ~Making(b[p])
      BY <2>2, UserPlaceOk
    <3>2. \A q \in Procs, m \in Inums : Makes(b[q], m) <=> Makes(a[q], m)
      BY <2>2, <3>1, Constants DEF Makes, Making
    <3>. QED BY <2>2, <3>1, <3>2 DEF Made
  <2>. QED BY <2>1, <2>2
<1>9. ASSUME NEW m \in Inums, f[m].kind = "dir" PROVE DirOk(g, e2, b, m)
  <2>1. DirOk(f, e, a, m)
    BY <1>9 DEF Tree, InodeOk
  <2>2. OneOfAName(e2, m)
    <3>1. m # d => e2[m] = e[m]
      BY DEF Extra
    <3>. QED BY <2>1, <3>1 DEF DirOk, OneOfAName
  <2>3. ASSUME NEW j \in DOMAIN e2[m], e2[m][j].ino # None PROVE g[e2[m][j].ino].kind # "none"
    <3>1. CASE m = d /\ j = k
      BY <1>6, <3>1 DEF Extra
    <3>2. CASE ~(m = d /\ j = k)
      <4>1. j \in DOMAIN e[m] /\ e2[m][j] = e[m][j]
        BY <2>3, <3>2 DEF Extra
      <4>2. f[e[m][j].ino].kind # "none"
        BY <2>1, <2>3, <4>1 DEF DirOk
      <4>3. EntriesOk(e)
        BY DEF Extra
      <4>4. e[m][j].ino \in Inums
        <5>1. \A n \in Inums : \A l \in DOMAIN e[n] : e[n][l].ino \in Inums \cup {None}
          BY <4>3, EntryIs
        <5>. QED BY <2>3, <4>1, <5>1
      <4>. QED BY <4>1, <4>2, <4>4
    <3>. QED BY <3>1, <3>2
  <2>4. m # y => (Made(b, m) <=> Made(a, m)) /\ Names(g, e2, m) = Names(f, e, m)
    BY <1>1, <1>2, <1>8
  <2>5. m = y => Cardinality(Names(g, e2, m)) = 1 /\ f[m].nlinks # 0
    BY <1>1, <1>6, <1>9
  <2>6. CASE m # d
    <3>1. g[m].nlinks = f[m].nlinks
      BY <1>3, <1>6, <1>7, <1>9, <2>6 DEF One
    <3>2. Subs(g, e2, m) = Subs(f, e, m) /\ e2[m] = e[m]
      BY <1>1, <1>2, <2>6 DEF Extra
    <3>3. CASE /\ f[m].nlinks = 2 + Cardinality(Subs(f, e, m))
               /\ m = Root \/ Made(a, m) \/ Cardinality(Names(f, e, m)) = 1
      BY <2>2, <2>3, <2>4, <2>5, <3>1, <3>2, <3>3 DEF DirOk
    <3>4. CASE f[m].nlinks = 0 /\ Names(f, e, m) = {} /\ Empty(e, m)
      BY <2>2, <2>3, <2>4, <2>5, <3>1, <3>2, <3>4 DEF DirOk, Empty
    <3>. QED BY <2>1, <3>3, <3>4 DEF DirOk
  <2>7. CASE m = d
    <3>1. /\ f[m].nlinks = 2 + Cardinality(Subs(f, e, m))
          /\ m = Root \/ Made(a, m) \/ Cardinality(Names(f, e, m)) = 1
      BY <2>1, <2>7 DEF DirOk
    <3>2. g[m].nlinks = 2 + Cardinality(Subs(g, e2, m))
      <4>1. CASE f[y].kind = "dir"
        <5>1. Cardinality(Subs(g, e2, m)) = Cardinality(Subs(f, e, m)) + 1
          BY <1>1, <1>2, <2>7, <4>1
        <5>2. g[m].nlinks = f[m].nlinks + 1
          BY <1>6, <2>7, <4>1 DEF One
        <5>. QED BY <1>4, <3>1, <5>1, <5>2
      <4>2. CASE f[y].kind = "file"
        BY <1>1, <1>2, <1>7, <1>9, <2>7, <3>1, <4>2
      <4>. QED BY <1>6, <4>1, <4>2
    <3>. QED BY <2>2, <2>3, <2>4, <2>5, <3>1, <3>2 DEF DirOk
  <2>. QED BY <2>6, <2>7
<1>10. ASSUME NEW m \in Inums, f[m].kind = "file" PROVE FileOk(g, e2, b, m)
  <2>1. FileOk(f, e, a, m) /\ g[m].count = f[m].count
    BY <1>10 DEF Tree, InodeOk
  <2>2. CASE m # y
    <3>1. g[m].nlinks = f[m].nlinks
      BY <1>3, <1>6, <1>7, <1>10, <2>2 DEF One
    <3>. QED BY <1>1, <1>2, <1>8, <2>1, <2>2, <3>1 DEF FileOk
  <2>3. CASE m = y
    <3>1. Cardinality(Names(g, e2, y)) = Cardinality(Names(f, e, y)) + 1
      BY <1>1, <1>2
    <3>2. Made(b, y) \/ g[y].nlinks = Cardinality(Names(g, e2, y))
      BY <1>3, <1>7, <1>8, <1>10, <2>1, <2>3, <3>1 DEF FileOk
    <3>. QED BY <2>1, <2>3, <3>2 DEF FileOk
  <2>. QED BY <2>2, <2>3
<1>11. ASSUME NEW m \in Inums, f[m].kind \in {"none", "new"} PROVE Names(g, e2, m) = {}
  BY <1>1, <1>2, <1>6, <1>11 DEF Tree, InodeOk
<1>12. ASSUME NEW m \in Inums, f[m].kind = "dir", f[m].nlinks # 0 PROVE g[m].nlinks # 0
  <2>1. f[m].nlinks >= 2
    <3>1. DirOk(f, e, a, m)
      BY <1>12 DEF Tree, InodeOk
    <3>. QED BY <1>4, <1>12, <3>1 DEF DirOk
  <2>2. g[m].nlinks = f[m].nlinks \/ g[m].nlinks = f[m].nlinks + 1
    BY <1>3, <1>6, <1>7, <1>12 DEF One
  <2>. QED BY <1>3, <2>1, <2>2
<1>13. ASSUME NEW q \in Procs PROVE MakerOk(g, e2, b[q])
  <2>0. HandsOk(b[q]) /\ b[q] \in Wherever
    BY DEF PlacesOk
  <2>1. CASE Making(b[q])
    <3>1. PICK z \in Inums : z = b[q].ino
      BY <2>0, <2>1 DEF Wherever, Making
    <3>2. MakerOk(f, e, a[q]) /\ b[q] = a[q] /\ q # p /\ (z = y => ~Making(a[p]))
      BY <1>8, <2>1, <3>1 DEF Tree
    <3>3. b[q].pc = "block" => f[z].kind = "new" /\ z # y /\ z # d /\ g[z].nlinks = f[z].nlinks
      BY <1>3, <1>6, <1>7, <3>1, <3>2 DEF MakerOk, One
    <3>4. b[q].pc = "add" /\ b[q].call = "open" =>
            f[z].kind = "file" /\ g[z].nlinks = Cardinality(Names(g, e2, z)) + 1
      <4>1. SUFFICES ASSUME b[q].pc = "add", b[q].call = "open"
                     PROVE  f[z].kind = "file" /\ g[z].nlinks = Cardinality(Names(g, e2, z)) + 1
        OBVIOUS
      <4>2. f[z].kind = "file" /\ f[z].nlinks = Cardinality(Names(f, e, z)) + 1
        BY <3>1, <3>2, <4>1 DEF MakerOk
      <4>3. CASE z = y
        <5>1. g[y].nlinks = f[y].nlinks + 1
          BY <1>5, <1>7, <3>2, <4>2, <4>3 DEF Makes, Making
        <5>. QED BY <1>1, <1>2, <1>3, <4>2, <4>3, <5>1
      <4>4. CASE z # y
        <5>1. g[z].nlinks = f[z].nlinks
          BY <1>3, <1>6, <1>7, <4>2, <4>4 DEF One
        <5>. QED BY <1>1, <1>2, <4>2, <4>4, <5>1
      <4>. QED BY <4>3, <4>4
    <3>5. b[q].pc = "add" /\ b[q].call = "mkdir" =>
            f[z].kind = "dir" /\ g[z].nlinks # 0 /\ Names(g, e2, z) = {} /\ z # Root
      <4>1. SUFFICES ASSUME b[q].pc = "add", b[q].call = "mkdir"
                     PROVE  f[z].kind = "dir" /\ g[z].nlinks # 0 /\ Names(g, e2, z) = {} /\ z # Root
        OBVIOUS
      <4>2. f[z].kind = "dir" /\ f[z].nlinks # 0 /\ Names(f, e, z) = {} /\ z # Root
        BY <3>1, <3>2, <4>1 DEF MakerOk
      <4>3. z # y
        <5>1. z = y => Makes(a[p], y)
          BY <3>2, <4>2
        <5>2. Makes(a[p], y) => Making(a[p])
          BY <1>5 DEF Makes, Making
        <5>. QED BY <3>2, <5>1, <5>2
      <4>. QED BY <1>1, <1>2, <1>12, <4>2, <4>3
    <3>. QED BY <3>1, <3>2, <3>3, <3>4, <3>5 DEF MakerOk
  <2>2. CASE ~Making(b[q])
    BY <2>0, <2>2 DEF MakerOk, HandsOk, Making
  <2>. QED BY <2>1, <2>2
<1>14. RootOk(g, e2)
  <2>1. RootOk(f, e)
    BY DEF Tree
  <2>. QED BY <1>1, <1>2, <1>6, <1>12, <2>1, Constants DEF RootOk
<1>. QED BY <1>9, <1>10, <1>11, <1>13, <1>14 DEF Tree, InodeOk

(* The tables before and after, when add_entry() has entered the name. *)
LEMMA NameEntered ==
  ASSUME DirInv(inode, ent, at), NEW p \in Procs, Add(p), broken' = "no"
  PROVE  \E d \in Inums, y \in Inums : \E k :
           /\ d = at[p].dir /\ y = (IF at[p].call = "link" THEN at[p].old ELSE at[p].ino)
           /\ Extra(ent, ent', d, k, y) /\ OneOfAName(ent', d)
           /\ \A n \in Inums : DOMAIN ent[n] \subseteq DOMAIN ent'[n]
           /\ inode[d].kind = "dir" /\ inode[d].nlinks # 0
<1>0. /\ at[p] \in Wherever /\ HandsOk(at[p]) /\ at[p].pc = "add" /\ inode \in Tables
      /\ EntriesOk(ent) /\ Tree(Settled(inode, at), ent, at)
  BY DEF DirInv, PlacesOk, Add, At
<1>1. PICK d \in Inums, y \in Inums : /\ d = at[p].dir
                                      /\ y = IF at[p].call = "link" THEN at[p].old ELSE at[p].ino
  BY <1>0 DEF HandsOk, Wherever
<1>2. PICK x : x = [name |-> Head(at[p].path), ino |-> y]
  OBVIOUS
<1>3. PICK k \in Room(at[p]) : SetEntry(d, k, x)
  BY <1>1, <1>2 DEF Add
<1>5. x \in Entries /\ x.ino = y /\ x.name = Head(at[p].path)
  <2>1. PICK w \in Seq(STRING) : w = at[p].path /\ w # <<>>
    BY <1>0 DEF Wherever, HandsOk
  <2>2. Head(w) \in STRING
    BY <2>1, HeadTailProperties
  <2>. QED BY <1>2, <2>1, <2>2 DEF Entries
<1>6. /\ k \in 1..MaxEntries /\ k <= Len(ent[d]) + 1
      /\ k \in DOMAIN ent[d] => ent[d][k].ino = None
  <2>1. at[p].i \in Nat /\ at[p].i > 0 /\ Len(ent[d]) \in Nat /\ DOMAIN ent[d] = 1..Len(ent[d])
        /\ MaxEntries \in Nat
    BY <1>0, DirectoryAssumption DEF Wherever, HandsOk, EntriesOk
  <2>2. /\ k \in Int /\ k >= at[p].i /\ k <= MaxEntries
        /\ k = Len(ent[d]) + 1 \/ (k <= Len(ent[d]) /\ ent[d][k].ino = None)
    BY <1>1, <2>1, DirectoryAssumption DEF Room, Block
  <2>. QED BY <2>1, <2>2
<1>7. /\ EntriesOk(ent') /\ \A n \in Inums : n # d => ent'[n] = ent[n]
      /\ DOMAIN ent'[d] = DOMAIN ent[d] \cup {k} /\ ent'[d][k] = x
      /\ \A j \in DOMAIN ent[d] : j # k => ent'[d][j] = ent[d][j]
      /\ \A n \in Inums : DOMAIN ent[n] \subseteq DOMAIN ent'[n]
  BY <1>0, <1>3, <1>5, <1>6, SetEntryIs
<1>8. Entry(d, Head(at[p].path)) = {} /\ inode[d].kind = "dir" /\ inode[d].nlinks # 0
  <2>1. Entry(d, Head(at[p].path)) = {} /\ Permission(d)
    BY <1>1 DEF Add, Act
  <2>2. inode[d].nlinks \in Int
    BY <1>0 DEF Tables, InodeRecords
  <2>. QED BY <2>1, <2>2 DEF Permission
<1>9. OneOfAName(ent', d)
  <2>1. OneOfAName(ent, d)
    <3>1. InodeOk(Settled(inode, at), ent, at, d) /\ Settled(inode, at)[d].kind = "dir"
      BY <1>0, <1>8, SettledIs DEF Tree
    <3>. QED BY <3>1 DEF InodeOk, DirOk
  <2>2. \A j \in DOMAIN ent[d] : ent[d][j].ino = None \/ ent[d][j].name # x.name
    BY <1>5, <1>8 DEF Entry
  <2>3. \A j \in DOMAIN ent'[d] : j = k \/ (j \in DOMAIN ent[d] /\ ent'[d][j] = ent[d][j])
    BY <1>7
  <2>. QED BY <1>7, <2>1, <2>2, <2>3 DEF OneOfAName
<1>10. Extra(ent, ent', d, k, y)
  BY <1>0, <1>5, <1>6, <1>7 DEF Extra
<1>. QED BY <1>1, <1>7, <1>8, <1>9, <1>10

(* open() and mkdir() end with it ... *)
LEMMA AddNew ==
  ASSUME DirInv(inode, ent, at), NEW p \in Procs, Add(p), at[p].call # "link"
  PROVE  Counted(inode', at') /\ (broken' = "no" => DirInv(inode', ent', at'))
<1>0. /\ at[p] \in Wherever /\ HandsOk(at[p]) /\ at[p].pc = "add" /\ inode \in Tables
      /\ EntriesOk(ent) /\ PlacesOk(at) /\ Counted(inode, at) /\ NoneFree(inode)
      /\ Tree(Settled(inode, at), ent, at) /\ Makers(at) /\ Holders(inode, ent, at) /\ Returns(p)
  BY DEF DirInv, PlacesOk, Add, At, Returns
<1>1. PICK d \in Inums, y \in Inums : d = at[p].dir /\ y = at[p].ino
  BY <1>0 DEF HandsOk, Wherever
<1>2. at[p].call \in {"open", "mkdir"} /\ inode' = Added(at[p])
  BY <1>0 DEF HandsOk, Add
<1>3. PICK f \in Tables :
        /\ inode' = Gone(f, d, y)
        /\ \A m \in Inums : f[m].count = inode[m].count /\ f[m].kind = inode[m].kind
        /\ at[p].call = "open" => \A m \in Inums : f[m].nlinks = inode[m].nlinks
        /\ at[p].call = "mkdir" => \A m \in Inums : f[m].nlinks = inode[m].nlinks + One(m = d)
  <2>1. CASE at[p].call = "open"
    <3>1. inode' = Gone(inode, d, y)
      BY <1>1, <1>2, <2>1, Constants DEF Added, Gone
    <3>. QED BY <1>0, <2>1, <3>1
  <2>2. CASE at[p].call = "mkdir"
    <3>1. inode' = Gone(Link(inode, d, 1), d, y)
      BY <1>1, <1>2, <2>2, Constants DEF Added, Gone, LinkAbove
    <3>2. /\ Link(inode, d, 1) \in Tables
          /\ \A m \in Inums : /\ Link(inode, d, 1)[m].count = inode[m].count
                              /\ Link(inode, d, 1)[m].kind = inode[m].kind
                              /\ Link(inode, d, 1)[m].nlinks = inode[m].nlinks + One(m = d)
      BY <1>0, LinkOne
    <3>. QED BY <2>2, <3>1, <3>2
  <2>. QED BY <1>2, <2>1, <2>2
<1>4. \A m \in Inums : Held(at[p], m) = One(d = m) + One(y = m)
  BY <1>0, <1>1, <1>2, Constants DEF Held, One, HandsOk
<1>5. PlacesOk(at') /\ at'[p] = AtUser /\ \A q \in Procs : q # p => at'[q] = at[q]
  BY <1>0, PlaceIs, UserPlaceOk DEF Returns, GoesOn
<1>6. ASSUME broken' = "no"
      PROVE  /\ EntriesOk(ent') /\ Tree(Settled(f, at'), ent', at')
             /\ \A n \in Inums : DOMAIN ent[n] \subseteq DOMAIN ent'[n]
  <2>1. PICK k : /\ Extra(ent, ent', d, k, y) /\ OneOfAName(ent', d)
                 /\ \A n \in Inums : DOMAIN ent[n] \subseteq DOMAIN ent'[n]
                 /\ inode[d].kind = "dir" /\ inode[d].nlinks # 0
    BY <1>1, <1>6, NameEntered
  <2>2. inode[y].count > 0
    <3>1. Held(at[p], y) # 0
      BY <1>4 DEF One
    <3>. QED BY <1>0, <3>1, CountHeld
  <2>3. PICK g \in Tables, h \in Tables : g = Settled(inode, at) /\ h = Settled(f, at')
    BY <1>0, SettledIs
  <2>4. \A m \in Inums : Due(at', m) = Due(at, m)
    <3>1. \A q \in Procs : at[q].pc = "linked" \/ at'[q].pc = "linked" =>
                           at'[q].pc = at[q].pc /\ at'[q].old = at[q].old
      BY <1>0, <1>5 DEF AtUser
    <3>. QED BY <3>1, DueSame
  <2>5. /\ \A m \in Inums : h[m].kind = g[m].kind /\ h[m].count = g[m].count
        /\ g[d].kind = "dir" /\ g[d].nlinks # 0 /\ g[y].count > 0
    <3>1. \A m \in Inums : /\ g[m].kind = inode[m].kind /\ g[m].count = inode[m].count
                           /\ h[m].kind = f[m].kind /\ h[m].count = f[m].count
      BY <1>0, <2>3, SettledIs
    <3>2. g[d].nlinks = inode[d].nlinks + IF inode[d].kind = "file" THEN Due(at, d) ELSE 0
      BY <1>0, <2>3, SettledIs
    <3>3. inode[d].nlinks \in Int
      BY <1>0 DEF Tables, InodeRecords
    <3>. QED BY <1>3, <2>1, <2>2, <3>1, <3>2, <3>3
  <2>6. ASSUME NEW m \in Inums
        PROVE  /\ at[p].call = "open" => h[m].nlinks = g[m].nlinks
               /\ at[p].call = "mkdir" => h[m].nlinks = g[m].nlinks + One(m = d)
    <3>1. /\ g[m].nlinks = inode[m].nlinks + (IF inode[m].kind = "file" THEN Due(at, m) ELSE 0)
          /\ h[m].nlinks = f[m].nlinks + (IF f[m].kind = "file" THEN Due(at', m) ELSE 0)
      BY <1>0, <2>3, SettledIs
    <3>2. inode[m].nlinks \in Int /\ Due(at, m) \in Nat /\ One(m = d) \in Nat
      BY <1>0, DueIs DEF Tables, InodeRecords, One
    <3>. QED BY <1>3, <2>4, <3>1, <3>2
  <2>7. Makes(at[p], y) /\ EntriesOk(ent')
    BY <1>0, <1>1, <2>1 DEF Makes, Extra
  <2>8. Tree(g, ent, at) /\ Makers(at) /\ PlacesOk(at)
    BY <1>0, <2>3
  <2>9. CASE at[p].call = "open"
    <3>0. \A m \in Inums : h[m].nlinks = g[m].nlinks
      BY <2>6, <2>9
    <3>1. Tree(h, ent', at')
      <4>1. Makes(at[p], y) /\ at[p].pc = "add" /\ at[p].call = "open" /\ at'[p] = AtUser
        BY <1>0, <1>5, <2>7, <2>9
      <4>2. PlacesOk(at) /\ PlacesOk(at') /\ Makers(at) /\ \A q \in Procs : q # p => at'[q] = at[q]
        BY <1>5, <2>8
      <4>3. Extra(ent, ent', d, k, y) /\ OneOfAName(ent', d)
        BY <2>1
      <4>. QED BY <2>5, <2>8, <3>0, <4>1, <4>2, <4>3, TreeAdded
    <3>. QED BY <2>1, <2>3, <2>7, <3>1
  <2>10. CASE at[p].call = "mkdir"
    <3>0. \A m \in Inums : h[m].nlinks = g[m].nlinks + One(m = d)
      BY <2>6, <2>10
    <3>1. Tree(h, ent', at')
      BY <1>0, <1>5, <2>1, <2>5, <2>7, <2>8, <2>10, <3>0, TreeAdded
    <3>. QED BY <2>1, <2>3, <2>7, <3>1
  <2>. QED BY <1>2, <2>9, <2>10
<1>. QED BY <1>0, <1>3, <1>4, <1>6, Leaving

(* ... and link() has the link to count, and the inodes still in hand. *)
LEMMA AddLink ==
  ASSUME DirInv(inode, ent, at), NEW p \in Procs, Add(p), at[p].call = "link"
  PROVE  Counted(inode', at') /\ (broken' = "no" => DirInv(inode', ent', at'))
<1>0. /\ at[p] \in Wherever /\ HandsOk(at[p]) /\ at[p].pc = "add" /\ inode \in Tables
      /\ EntriesOk(ent) /\ PlacesOk(at) /\ Counted(inode, at) /\ NoneFree(inode)
      /\ Tree(Settled(inode, at), ent, at) /\ Makers(at) /\ Holders(inode, ent, at)
      /\ inode' = inode
  BY DEF DirInv, PlacesOk, Add, At, Added
<1>1. PICK d \in Inums, y \in Inums : d = at[p].dir /\ y = at[p].old /\ at[p].ino = None
  BY <1>0 DEF HandsOk, Wherever
<1>2. PICK me : me = [at[p] EXCEPT !.pc = "linked"]
  OBVIOUS
<1>3. me \in Wherever
  BY <1>0, <1>2 DEF Wherever
<1>4. /\ me.pc = "linked" /\ me.ino = None /\ me.dir = d /\ me.old = y /\ me.call = "link"
      /\ me.path = at[p].path /\ me.to = at[p].to
  BY <1>0, <1>1, <1>2 DEF Wherever
<1>5. HandsOk(me) /\ ~Making(me) /\ ~Making(at[p]) /\ HolderOk(inode, ent, at[p])
  BY <1>0, <1>1, <1>4, Constants DEF HandsOk, Making, Holders
<1>6. PlacesOk(at') /\ at'[p] = me /\ \A q \in Procs : q # p => at'[q] = at[q]
  <2>1. at' = [at EXCEPT ![p] = me]
    BY <1>2 DEF Add, GoesOn
  <2>. QED BY <1>0, <1>3, <1>5, <2>1, PlaceIs
<1>7. Counted(inode', at')
  <2>1. SUFFICES ASSUME NEW n \in Inums
                 PROVE  inode[n].count = Cardinality(Hands(at', n)) + One(n = Root)
    BY <1>0 DEF Counted
  <2>2. \A q \in Procs : q # p => at'[q] = at[q]
    BY <1>6
  <2>3. Cardinality(Hands(at', n)) = Cardinality(Hands(at, n)) - Held(at[p], n) + Held(at'[p], n)
    BY <2>2, HandsMoves
  <2>4. Held(at'[p], n) = Held(at[p], n) /\ Held(at[p], n) \in Nat /\ Cardinality(Hands(at, n)) \in Nat
    BY <1>0, <1>1, <1>4, <1>6, HandsFinite DEF Held, One
  <2>5. inode[n].count = Cardinality(Hands(at, n)) + One(n = Root)
    BY <1>0 DEF Counted
  <2>. QED BY <2>3, <2>4, <2>5
<1>8. ASSUME broken' = "no" PROVE DirInv(inode', ent', at')
  <2>1. PICK k : /\ Extra(ent, ent', d, k, y) /\ OneOfAName(ent', d)
                 /\ \A n \in Inums : DOMAIN ent[n] \subseteq DOMAIN ent'[n]
                 /\ inode[d].kind = "dir" /\ inode[d].nlinks # 0
    BY <1>1, <1>8, NameEntered
  <2>2. inode[y].count > 0 /\ inode[y].kind = "file"
    <3>1. Held(at[p], y) # 0
      BY <1>1 DEF Held, One
    <3>2. inode[y].kind = "file"
      BY <1>1, <1>5, Constants DEF HolderOk
    <3>. QED BY <1>0, <3>1, <3>2, CountHeld
  <2>3. PICK g \in Tables, h \in Tables : g = Settled(inode, at) /\ h = Settled(inode, at')
    BY <1>0, SettledIs
  <2>4. ASSUME NEW m \in Inums PROVE Due(at', m) = Due(at, m) + One(m = y)
    <3>1. p \notin Linking(at, m) /\ IsFiniteSet(Linking(at, m)) /\ Due(at, m) \in Nat
      BY <1>0, DueIs DEF Linking
    <3>2. Linking(at', m) = Linking(at, m) \cup (IF m = y THEN {p} ELSE {})
      BY <1>0, <1>4, <1>6 DEF Linking
    <3>. QED BY <3>1, <3>2, MayAdd DEF Due
  <2>5. /\ \A m \in Inums : h[m].kind = g[m].kind /\ h[m].count = g[m].count
        /\ g[d].kind = "dir" /\ g[d].nlinks # 0 /\ g[y].count > 0 /\ g[y].kind = "file"
    <3>1. \A m \in Inums : /\ g[m].kind = inode[m].kind /\ g[m].count = inode[m].count
                           /\ h[m].kind = inode[m].kind /\ h[m].count = inode[m].count
      BY <1>0, <2>3, SettledIs
    <3>2. g[d].nlinks = inode[d].nlinks + IF inode[d].kind = "file" THEN Due(at, d) ELSE 0
      BY <1>0, <2>3, SettledIs
    <3>3. inode[d].nlinks \in Int
      BY <1>0 DEF Tables, InodeRecords
    <3>. QED BY <2>1, <2>2, <3>1, <3>2, <3>3
  <2>6. ASSUME NEW m \in Inums PROVE h[m].nlinks = g[m].nlinks + One(m = y)
    <3>1. /\ g[m].nlinks = inode[m].nlinks + (IF inode[m].kind = "file" THEN Due(at, m) ELSE 0)
          /\ h[m].nlinks = inode[m].nlinks + (IF inode[m].kind = "file" THEN Due(at', m) ELSE 0)
      BY <1>0, <2>3, SettledIs
    <3>2. inode[m].nlinks \in Int /\ Due(at, m) \in Nat
      BY <1>0, DueIs DEF Tables, InodeRecords
    <3>3. Due(at', m) = Due(at, m) + One(m = y) /\ (m = y => inode[m].kind = "file")
      BY <2>2, <2>4
    <3>. QED BY <3>1, <3>2, <3>3 DEF One
  <2>7. Tree(g, ent, at) /\ ~Making(at'[p]) /\ EntriesOk(ent')
    BY <1>0, <1>5, <1>6, <2>1, <2>3 DEF Extra
  <2>8. Tree(h, ent', at')
    <3>1. PlacesOk(at) /\ PlacesOk(at') /\ Makers(at) /\ Tree(g, ent, at) /\ ~Making(at[p])
          /\ ~Making(at'[p]) /\ \A q \in Procs : q # p => at'[q] = at[q]
      BY <1>0, <1>5, <1>6, <2>7
    <3>2. Extra(ent, ent', d, k, y) /\ OneOfAName(ent', d)
      BY <2>1
    <3>3. g[y].kind = "file" /\ \A m \in Inums : h[m].nlinks = g[m].nlinks + One(m = y)
      BY <2>5, <2>6
    <3>. QED BY <2>5, <3>1, <3>2, <3>3, TreeAdded
  <2>9. Makers(at')
    <3>1. \A q \in Procs, n \in Inums : Makes(at'[q], n) <=> Makes(at[q], n)
      BY <1>0, <1>1, <1>4, <1>6, Constants DEF Makes
    <3>. QED BY <1>0, <3>1 DEF Makers
  <2>10. Holders(inode', ent', at')
    <3>1. ASSUME NEW q \in Procs PROVE HolderOk(inode', ent', at'[q])
      <4>1. HolderOk(inode, ent, at[q]) /\ at[q] \in Wherever /\ HandsOk(at[q])
        BY <1>0 DEF Holders, PlacesOk
      <4>2. at[q].dir # None => at[q].dir \in Inums
        BY <4>1 DEF Wherever
      <4>3. at[q].pc = "find" => at[q].dir # None
        BY <4>1 DEF HandsOk
      <4>4. HolderOk(inode', ent', at[q])
        BY <1>0, <2>1, <4>1, <4>2, <4>3 DEF HolderOk
      <4>5. CASE q = p
        <5>1. HolderOk(inode', ent', me)
          BY <1>1, <1>4, <4>4, <4>5 DEF HolderOk
        <5>. QED BY <1>6, <4>5, <5>1
      <4>. QED BY <1>6, <4>4, <4>5
    <3>. QED BY <3>1 DEF Holders
  <2>. QED BY <1>0, <1>6, <1>7, <2>3, <2>7, <2>8, <2>9, <2>10 DEF DirInv
<1>. QED BY <1>7, <1>8

LEMMA StepAdd ==
  ASSUME DirInv(inode, ent, at), NEW p \in Procs, Add(p)
  PROVE  Counted(inode', at') /\ (broken' = "no" => DirInv(inode', ent', at'))
BY AddNew, AddLink

(* link() counts it, and what is due is one less. *)
LEMMA StepLinkCounted ==
  ASSUME DirInv(inode, ent, at), NEW p \in Procs, LinkCounted(p)
  PROVE  DirInv(inode', ent', at')
<1>0. /\ at[p] \in Wherever /\ HandsOk(at[p]) /\ at[p].pc = "linked" /\ inode \in Tables
      /\ EntriesOk(ent) /\ PlacesOk(at) /\ Counted(inode, at) /\ NoneFree(inode)
      /\ Tree(Settled(inode, at), ent, at) /\ Makers(at) /\ Holders(inode, ent, at)
      /\ Returns(p) /\ ent' = ent
  BY DEF DirInv, PlacesOk, LinkCounted, At
<1>1. PICK d \in Inums, y \in Inums : d = at[p].dir /\ y = at[p].old /\ at[p].ino = None
  BY <1>0 DEF HandsOk, Wherever
<1>2. PICK f \in Tables :
        /\ f = Link(inode, y, 1)
        /\ \A m \in Inums : /\ f[m].count = inode[m].count /\ f[m].kind = inode[m].kind
                            /\ f[m].nlinks = inode[m].nlinks + One(m = y)
  BY <1>0, LinkOne
<1>3. inode' = Gone(f, d, y)
  BY <1>1, <1>2, Constants DEF LinkCounted, Gone
<1>4. \A m \in Inums : Held(at[p], m) = One(d = m) + One(y = m)
  BY <1>0, <1>1, Constants DEF Held, One
<1>5. PlacesOk(at') /\ at'[p] = AtUser /\ \A q \in Procs : q # p => at'[q] = at[q]
  BY <1>0, PlaceIs, UserPlaceOk DEF Returns, GoesOn
<1>6. ASSUME NEW m \in Inums PROVE Due(at, m) = Due(at', m) + One(m = y)
  <2>1. p \notin Linking(at', m) /\ IsFiniteSet(Linking(at', m)) /\ Due(at', m) \in Nat
    <3>1. p \notin Linking(at', m)
      BY <1>5 DEF Linking, AtUser
    <3>2. IsFiniteSet(Linking(at', m)) /\ Due(at', m) \in Nat
      BY DueIs
    <3>. QED BY <3>1, <3>2
  <2>2. Linking(at, m) = Linking(at', m) \cup (IF m = y THEN {p} ELSE {})
    BY <1>0, <1>1, <1>5 DEF Linking, AtUser
  <2>. QED BY <2>1, <2>2, MayAdd DEF Due
<1>7. inode[y].kind = "file"
  BY <1>0, <1>1, Constants DEF Holders, HolderOk
<1>8. PICK g \in Tables, h \in Tables : g = Settled(inode, at) /\ h = Settled(f, at')
  BY <1>0, SettledIs
<1>9. ASSUME NEW m \in Inums
      PROVE  h[m].kind = g[m].kind /\ h[m].nlinks = g[m].nlinks /\ h[m].count = g[m].count
  <2>1. /\ g[m].nlinks = inode[m].nlinks + (IF inode[m].kind = "file" THEN Due(at, m) ELSE 0)
        /\ h[m].nlinks = f[m].nlinks + (IF f[m].kind = "file" THEN Due(at', m) ELSE 0)
        /\ g[m].kind = inode[m].kind /\ g[m].count = inode[m].count
        /\ h[m].kind = f[m].kind /\ h[m].count = f[m].count
    BY <1>0, <1>8, SettledIs
  <2>2. inode[m].nlinks \in Int /\ Due(at', m) \in Nat
    BY <1>0, DueIs DEF Tables, InodeRecords
  <2>3. Due(at, m) = Due(at', m) + One(m = y) /\ (m = y => inode[m].kind = "file")
    BY <1>6, <1>7
  <2>. QED BY <1>2, <2>1, <2>2, <2>3 DEF One
<1>10. Tree(h, ent, at')
  <2>1. \A q \in Procs : Making(at[q]) \/ Making(at'[q]) =>
                         at'[q].pc = at[q].pc /\ at'[q].ino = at[q].ino /\ at'[q].call = at[q].call
    BY <1>0, <1>5, UserPlaceOk DEF Making
  <2>2. Tree(g, ent, at)
    BY <1>0, <1>8
  <2>3. g = h
    BY <1>9, TablesEqual
  <2>4. \A m \in Inums : g[m].kind = "file" => g[m].nlinks > 0 \/ g[m].count > 0
    BY <2>2 DEF Tree, InodeOk, FileOk
  <2>5. Tree(g, ent, at')
    BY <1>0, <1>5, <2>1, <2>2, <2>4, TreeSame
  <2>. QED BY <2>3, <2>5
<1>11. /\ EntriesOk(ent') /\ Tree(Settled(f, at'), ent', at')
       /\ \A n \in Inums : DOMAIN ent[n] \subseteq DOMAIN ent'[n]
  BY <1>0, <1>8, <1>10
<1>. QED BY <1>0, <1>2, <1>3, <1>4, <1>11, Leaving

(* unlink() and rmdir() remove the name of y. *)
LEMMA TreeRemoved ==
  ASSUME NEW f \in Tables, NEW g \in Tables, NEW e, NEW e2, NEW d \in Inums, NEW k, NEW y \in Inums,
         Extra(e, e2, d, k, y), NEW a, PlacesOk(a), NEW b, PlacesOk(b),
         Tree(f, e2, a), \A q \in Procs : Making(a[q]) \/ Making(b[q]) => b[q] = a[q],
         f[d].kind = "dir", f[y].count > 0,
         \A m \in Inums : g[m].kind = f[m].kind /\ g[m].count = f[m].count,
         \/ f[y].kind = "file" /\ \A m \in Inums : g[m].nlinks = f[m].nlinks - One(m = y)
         \/ /\ f[y].kind = "dir" /\ Empty(e2, y) /\ g[y].nlinks = 0
            /\ \A m \in Inums : m # y => g[m].nlinks = f[m].nlinks - One(m = d)
  PROVE  Tree(g, e, b)
<1>1. /\ \A m \in Inums : Names(g, e, m) = Names(f, e, m)
      /\ \A m \in Inums : Subs(g, e, m) = Subs(f, e, m)
  BY NamesSame, SubsSame DEF Extra
<1>2. /\ Names(f, e2, y) = Names(f, e, y) \cup {<<d, k>>}
      /\ Cardinality(Names(f, e2, y)) = Cardinality(Names(f, e, y)) + 1
      /\ \A n \in Inums : n # y => Names(f, e2, n) = Names(f, e, n)
      /\ \A n \in Inums : n # d => Subs(f, e2, n) = Subs(f, e, n)
      /\ f[y].kind # "dir" => Subs(f, e2, d) = Subs(f, e, d)
      /\ f[y].kind = "dir" => Cardinality(Subs(f, e2, d)) = Cardinality(Subs(f, e, d)) + 1
  <2>1. OneMore(f, e, e2, d, k, y)
    BY ExtraName
  <2>. QED BY <2>1 DEF OneMore
<1>3. \A m \in Inums : f[m].nlinks \in Int /\ Cardinality(Names(f, e, m)) \in Nat
  BY NamesFinite DEF Tables, InodeRecords
<1>4. \A m \in Inums : Cardinality(Subs(f, e, m)) \in Nat
  BY SubsFinite DEF Extra
<1>5. Names(f, e2, y) # {} /\ y # Root /\ y # None
  BY <1>2, Constants DEF Tree, RootOk
<1>6. ASSUME f[y].kind = "dir"
      PROVE  /\ Names(f, e, y) = {} /\ y # d /\ Empty(e, y) /\ ~Made(a, y)
  <2>1. y # d
    BY <1>5, <1>6 DEF Extra, Empty
  <2>2. ~Made(a, y)
    <3>1. SUFFICES ASSUME NEW q \in Procs, Makes(a[q], y) PROVE FALSE
      BY DEF Made
    <3>2. MakerOk(f, e2, a[q]) /\ HandsOk(a[q])
      BY DEF Tree, PlacesOk
    <3>. QED BY <1>5, <1>6, <3>1, <3>2 DEF Makes, MakerOk, HandsOk
  <2>3. Cardinality(Names(f, e2, y)) = 1
    <3>1. DirOk(f, e2, a, y)
      BY <1>6 DEF Tree, InodeOk
    <3>. QED BY <1>5, <2>2, <3>1 DEF DirOk
  <2>4. Names(f, e, y) = {}
    <3>1. Cardinality(Names(f, e, y)) = 0
      BY <1>2, <1>3, <2>3
    <3>. QED BY <3>1, NamesFinite, FS_EmptySet
  <2>5. Empty(e, y)
    BY <1>6, <2>1 DEF Extra, Empty
  <2>. QED BY <2>1, <2>2, <2>4, <2>5
<1>7. ASSUME NEW m \in Inums, m # y, ~(f[y].kind = "dir" /\ m = d) PROVE g[m].nlinks = f[m].nlinks
  BY <1>3, <1>7 DEF One
<1>8. \A m \in Inums : Made(b, m) <=> Made(a, m)
  <2>1. \A q \in Procs, m \in Inums : Makes(b[q], m) <=> Makes(a[q], m)
    BY Constants DEF Making, Makes
  <2>. QED BY <2>1 DEF Made
<1>9. ASSUME f[y].kind = "dir"
      PROVE  f[d].nlinks = 2 + Cardinality(Subs(f, e2, d)) /\ g[d].nlinks = 2 + Cardinality(Subs(f, e, d))
  <2>1. DirOk(f, e2, a, d) /\ ~Empty(e2, d)
    BY <1>5 DEF Tree, InodeOk, Empty, Extra
  <2>2. f[d].nlinks = 2 + Cardinality(Subs(f, e2, d))
    BY <2>1 DEF DirOk
  <2>3. g[d].nlinks = f[d].nlinks - 1
    BY <1>6, <1>9 DEF One
  <2>4. Cardinality(Subs(f, e2, d)) = Cardinality(Subs(f, e, d)) + 1
    BY <1>2, <1>9
  <2>. QED BY <1>3, <1>4, <2>2, <2>3, <2>4
<1>10. ASSUME NEW m \in Inums, f[m].kind = "dir" PROVE DirOk(g, e, b, m)
  <2>1. DirOk(f, e2, a, m)
    BY <1>10 DEF Tree, InodeOk
  <2>2. \A j \in DOMAIN e[m] : e[m][j].ino # None => j \in DOMAIN e2[m] /\ e2[m][j] = e[m][j]
    BY DEF Extra
  <2>3. OneOfAName(e, m)
    BY <2>1, <2>2 DEF DirOk, OneOfAName
  <2>4. \A j \in DOMAIN e[m] : e[m][j].ino = None \/ g[e[m][j].ino].kind # "none"
    <3>1. SUFFICES ASSUME NEW j \in DOMAIN e[m], e[m][j].ino # None PROVE g[e[m][j].ino].kind # "none"
      OBVIOUS
    <3>2. f[e[m][j].ino].kind # "none"
      BY <2>1, <2>2, <3>1 DEF DirOk
    <3>3. \A n \in Inums : \A l \in DOMAIN e[n] : e[n][l].ino \in Inums \cup {None}
      BY EntryIs DEF Extra
    <3>. QED BY <3>1, <3>2, <3>3
  <2>5. CASE m = y
    BY <1>1, <1>6, <1>10, <2>3, <2>4, <2>5 DEF DirOk
  <2>6. CASE m # y /\ m = d
    <3>1. ~Empty(e2, d)
      BY <1>5 DEF Empty, Extra
    <3>2. /\ f[m].nlinks = 2 + Cardinality(Subs(f, e2, m))
          /\ m = Root \/ Made(a, m) \/ Cardinality(Names(f, e2, m)) = 1
      BY <2>1, <2>6, <3>1 DEF DirOk
    <3>3. g[m].nlinks = 2 + Cardinality(Subs(g, e, m))
      BY <1>1, <1>2, <1>7, <1>9, <2>6, <3>2
    <3>. QED BY <1>1, <1>2, <1>8, <2>3, <2>4, <2>6, <3>2, <3>3 DEF DirOk
  <2>7. CASE m # y /\ m # d
    <3>1. /\ g[m].nlinks = f[m].nlinks /\ Subs(g, e, m) = Subs(f, e2, m) /\ e2[m] = e[m]
          /\ Names(g, e, m) = Names(f, e2, m) /\ (Made(b, m) <=> Made(a, m))
      BY <1>1, <1>2, <1>7, <1>8, <2>7 DEF Extra
    <3>. QED BY <2>1, <2>3, <2>4, <3>1 DEF DirOk, Empty
  <2>. QED BY <2>5, <2>6, <2>7
<1>11. ASSUME NEW m \in Inums, f[m].kind = "file" PROVE FileOk(g, e, b, m)
  <2>1. FileOk(f, e2, a, m) /\ g[m].count = f[m].count
    BY <1>11 DEF Tree, InodeOk
  <2>2. CASE m # y
    <3>1. g[m].nlinks = f[m].nlinks
      BY <1>7, <1>11, <2>2
    <3>. QED BY <1>1, <1>2, <1>8, <2>1, <2>2, <3>1 DEF FileOk
  <2>3. CASE m = y
    <3>1. g[y].nlinks = f[y].nlinks - 1
      BY <1>11, <2>3 DEF One
    <3>2. Cardinality(Names(f, e2, y)) = Cardinality(Names(g, e, y)) + 1
      BY <1>1, <1>2
    <3>3. Cardinality(Names(g, e, y)) \in Nat
      BY NamesFinite
    <3>4. Made(b, y) \/ g[y].nlinks = Cardinality(Names(g, e, y))
      BY <1>8, <2>1, <2>3, <3>1, <3>2, <3>3 DEF FileOk
    <3>. QED BY <2>1, <2>3, <3>4 DEF FileOk
  <2>. QED BY <2>2, <2>3
<1>12. ASSUME NEW m \in Inums, f[m].kind \in {"none", "new"} PROVE Names(g, e, m) = {}
  BY <1>1, <1>2, <1>12 DEF Tree, InodeOk
<1>13. ASSUME NEW m \in Inums, f[m].kind = "dir", f[m].nlinks # 0, m # y PROVE g[m].nlinks # 0
  <2>1. CASE f[y].kind = "dir" /\ m = d
    BY <1>4, <1>9, <2>1
  <2>2. CASE ~(f[y].kind = "dir" /\ m = d)
    BY <1>7, <1>13, <2>2
  <2>. QED BY <2>1, <2>2
<1>14. ASSUME NEW q \in Procs PROVE MakerOk(g, e, b[q])
  <2>0. HandsOk(b[q]) /\ b[q] \in Wherever
    BY DEF PlacesOk
  <2>1. CASE Making(b[q])
    <3>1. PICK z \in Inums : z = b[q].ino
      BY <2>0, <2>1 DEF Wherever, Making
    <3>2. MakerOk(f, e2, a[q]) /\ b[q] = a[q]
      BY <2>1 DEF Tree
    <3>3. f[y].kind = "dir" => z # y
      BY <1>6, <2>1, <3>1, <3>2 DEF Made, Makes, Making
    <3>4. b[q].pc = "block" => f[z].kind = "new" /\ g[z].nlinks = f[z].nlinks
      BY <1>7, <3>1, <3>2 DEF MakerOk
    <3>5. b[q].pc = "add" /\ b[q].call = "open" =>
            f[z].kind = "file" /\ g[z].nlinks = Cardinality(Names(g, e, z)) + 1
      <4>1. SUFFICES ASSUME b[q].pc = "add", b[q].call = "open"
                     PROVE  f[z].kind = "file" /\ g[z].nlinks = Cardinality(Names(g, e, z)) + 1
        OBVIOUS
      <4>2. f[z].kind = "file" /\ f[z].nlinks = Cardinality(Names(f, e2, z)) + 1
        BY <3>1, <3>2, <4>1 DEF MakerOk
      <4>3. CASE z = y
        <5>1. g[y].nlinks = f[y].nlinks - 1
          BY <4>2, <4>3 DEF One
        <5>2. PICK c \in Nat : c = Cardinality(Names(f, e, y))
          BY <1>3
        <5>3. Cardinality(Names(f, e2, y)) = c + 1 /\ Names(g, e, y) = Names(f, e, y)
          BY <1>1, <1>2, <5>2
        <5>4. g[y].nlinks = c + 1
          BY <4>2, <4>3, <5>1, <5>3
        <5>. QED BY <4>2, <4>3, <5>2, <5>3, <5>4
      <4>4. CASE z # y
        BY <1>1, <1>2, <1>7, <4>2, <4>4
      <4>. QED BY <4>3, <4>4
    <3>6. b[q].pc = "add" /\ b[q].call = "mkdir" =>
            f[z].kind = "dir" /\ g[z].nlinks # 0 /\ Names(g, e, z) = {} /\ z # Root
      BY <1>1, <1>2, <1>13, <3>1, <3>2, <3>3 DEF MakerOk
    <3>. QED BY <3>1, <3>2, <3>4, <3>5, <3>6 DEF MakerOk
  <2>2. CASE ~Making(b[q])
    BY <2>0, <2>2 DEF MakerOk, HandsOk, Making
  <2>. QED BY <2>1, <2>2
<1>15. RootOk(g, e)
  <2>1. RootOk(f, e2)
    BY DEF Tree
  <2>. QED BY <1>1, <1>2, <1>5, <1>13, <2>1, Constants DEF RootOk
<1>. QED BY <1>10, <1>11, <1>12, <1>14, <1>15 DEF Tree, InodeOk

(* Unused entries may be set to be unused. *)
LEMMA TreeUnused ==
  ASSUME NEW f, NEW e, NEW e2, EntriesOk(e), EntriesOk(e2), NEW a, Tree(f, e, a),
         \A n \in Inums : /\ DOMAIN e2[n] = DOMAIN e[n]
                          /\ \A k \in DOMAIN e[n] : \/ e2[n][k] = e[n][k]
                                                    \/ e2[n][k].ino = None /\ e[n][k].ino = None
  PROVE  Tree(f, e2, a)
<1>1. ASSUME NEW n \in Inums PROVE Names(f, e2, n) = Names(f, e, n)
  <2>1. SUFFICES ASSUME NEW x \in Inums \X (1..MaxEntries)
                 PROVE  x \in Names(f, e2, n) <=> x \in Names(f, e, n)
    BY DEF Names
  <2>2. x[1] \in Inums /\ n # None
    BY Constants
  <2>. QED BY <2>2 DEF Names
<1>2. \A n \in Inums : \A k \in DOMAIN e[n] : e2[n][k].ino = e[n][k].ino
  OBVIOUS
<1>3. \A n \in Inums : Subs(f, e2, n) = Subs(f, e, n)
  BY <1>2 DEF Subs
<1>4. \A n \in Inums : OneOfAName(e, n) => OneOfAName(e2, n)
  BY <1>2 DEF OneOfAName
<1>5. \A n \in Inums : Empty(e, n) => Empty(e2, n)
  BY <1>2 DEF Empty
<1>6. ASSUME NEW n \in Inums PROVE InodeOk(f, e2, a, n)
  <2>1. InodeOk(f, e, a, n)
    BY DEF Tree
  <2>2. DirOk(f, e, a, n) => DirOk(f, e2, a, n)
    <3>1. SUFFICES ASSUME DirOk(f, e, a, n) PROVE DirOk(f, e2, a, n)
      OBVIOUS
    <3>2. \A k \in DOMAIN e2[n] : e2[n][k].ino = None \/ f[e2[n][k].ino].kind # "none"
      BY <1>2, <3>1 DEF DirOk
    <3>. QED BY <1>1, <1>3, <1>4, <1>5, <3>1, <3>2 DEF DirOk
  <2>. QED BY <1>1, <2>1, <2>2 DEF InodeOk, FileOk
<1>7. ASSUME NEW p \in Procs PROVE MakerOk(f, e2, a[p])
  <2>1. MakerOk(f, e, a[p])
    BY DEF Tree
  <2>2. CASE a[p].ino \in Inums
    BY <1>1, <2>1, <2>2 DEF MakerOk
  <2>3. CASE a[p].ino \notin Inums
    <3>1. \A n : n \notin Inums => Names(f, e2, n) = Names(f, e, n)
      <4>1. SUFFICES ASSUME NEW n, NEW x \in Inums \X (1..MaxEntries)
                     PROVE  x \in Names(f, e2, n) <=> x \in Names(f, e, n)
        BY DEF Names
      <4>2. x[1] \in Inums
        OBVIOUS
      <4>. QED BY <1>2, <4>2 DEF Names
    <3>. QED BY <2>1, <2>3, <3>1 DEF MakerOk
  <2>. QED BY <2>2, <2>3
<1>8. RootOk(f, e2)
  BY <1>1, Constants DEF Tree, RootOk
<1>. QED BY <1>6, <1>7, <1>8 DEF Tree

(* What unlink() and rmdir() hold. *)
LEMMA RemoverIs ==
  ASSUME NEW me \in Wherever, HandsOk(me), HolderOk(inode, ent, me),
         \/ me.pc = "read" /\ Len(me.path) = 1 /\ me.call \in {"unlink", "rmdir"}
         \/ me.pc = "empty"
  PROVE  /\ me.dir \in Inums /\ me.ino \in Inums /\ me.old = None /\ ~Making(me)
         /\ me.slot \in Nat /\ me.slot \in DOMAIN ent[me.dir] /\ inode[me.dir].kind = "dir"
         /\ me.pc # "linked"
         /\ \A n \in Inums : /\ Held(me, n) = One(me.dir = n) + One(me.ino = n)
                             /\ Held(me, n) = One(me.ino = n) + One(me.dir = n)
<1>1. me.dir \in Inums /\ me.ino \in Inums /\ me.old = None /\ ~Making(me) /\ me.pc # "iget"
  <2>1. me.call \in {"unlink", "rmdir"} /\ me.pc \in {"read", "empty"}
    BY DEF HandsOk
  <2>2. me.pc = "read" => ~OnTheWay(me)
    <3>1. SUFFICES ASSUME me.pc = "read" PROVE ~(Len(me.path) > 1)
      BY <2>1 DEF OnTheWay
    <3>2. Len(me.path) = 1
      BY <3>1
    <3>3. ~(1 > 1)
      OBVIOUS
    <3>. QED BY <3>2, <3>3
  <2>3. me.dir # None /\ me.ino # None /\ me.old = None
    BY <2>1, <2>2 DEF HandsOk
  <2>. QED BY <2>1, <2>3 DEF Wherever, Making
<1>2. me.slot \in DOMAIN ent[me.dir] /\ inode[me.dir].kind = "dir"
  BY <1>1, Constants DEF HolderOk
<1>4. me.slot \in Nat
  BY DEF Wherever
<1>3. \A n \in Inums : /\ Held(me, n) = One(me.dir = n) + One(me.ino = n)
                       /\ Held(me, n) = One(me.ino = n) + One(me.dir = n)
  BY <1>1, Constants DEF Held, One
<1>5. me.pc # "linked"
  OBVIOUS
<1>. QED BY <1>1, <1>2, <1>3, <1>4, <1>5

(* It ends without having removed anything. *)
LEMMA NotRemoved ==
  ASSUME DirInv(inode, ent, at), NEW p \in Procs,
         \/ at[p].pc = "read" /\ Len(at[p].path) = 1 /\ at[p].call \in {"unlink", "rmdir"}
         \/ at[p].pc = "empty",
         inode' = PutBoth(inode, at[p].ino, at[p].dir), Returns(p), UNCHANGED ent
  PROVE  DirInv(inode', ent', at')
<1>1. at[p] \in Wherever /\ HandsOk(at[p]) /\ HolderOk(inode, ent, at[p])
  BY DEF DirInv, PlacesOk, Holders
<1>2. /\ at[p].dir \in Inums /\ at[p].ino \in Inums /\ ~Making(at[p]) /\ at[p].pc # "linked"
      /\ \A n \in Inums : Held(at[p], n) = One(at[p].ino = n) + One(at[p].dir = n)
  BY <1>1, RemoverIs
<1>3. inode' = Gone(inode, at[p].ino, at[p].dir)
  BY <1>2, Constants DEF Gone
<1>. QED BY <1>2, <1>3, LeavingQuietly

LEMMA StepRmdirBegins ==
  ASSUME DirInv(inode, ent, at), NEW p \in Procs, RmdirBegins(p)
  PROVE  DirInv(inode', ent', at')
<1>0. /\ at[p] \in Wherever /\ HandsOk(at[p]) /\ at[p].pc = "read" /\ Len(at[p].path) = 1
      /\ at[p].call = "rmdir" /\ HolderOk(inode, ent, at[p]) /\ UNCHANGED ent
      /\ inode \in Tables /\ EntriesOk(ent)
  BY DEF DirInv, PlacesOk, RmdirBegins, At, Holders
<1>1. /\ at[p].dir \in Inums /\ at[p].ino \in Inums /\ at[p].old = None /\ ~Making(at[p])
      /\ at[p].slot \in DOMAIN ent[at[p].dir] /\ inode[at[p].dir].kind = "dir"
  BY <1>0, RemoverIs
<1>2. CASE inode[at[p].ino].kind = "dir"
  <2>1. PICK me : me = [at[p] EXCEPT !.pc = "empty", !.i = 1, !.end = Len(ent[at[p].ino])]
    OBVIOUS
  <2>2. Len(ent[at[p].ino]) \in Nat /\ 1 \in Nat
    BY <1>0, <1>1 DEF EntriesOk
  <2>3. me \in Wherever
    BY <1>0, <2>1, <2>2 DEF Wherever
  <2>4. /\ me.pc = "empty" /\ me.ino = at[p].ino /\ me.dir = at[p].dir /\ me.old = at[p].old
        /\ me.call = at[p].call /\ me.path = at[p].path /\ me.to = at[p].to /\ me.slot = at[p].slot
    BY <1>0, <2>1 DEF Wherever
  <2>5. HandsOk(me) /\ HolderOk(inode, ent, me) /\ ~Making(me)
    BY <1>0, <1>1, <1>2, <2>4, Constants DEF HandsOk, HolderOk, Making
  <2>6. \A n \in Inums : /\ Held(me, n) = Held(at[p], n) /\ Held(me, n) \in Nat
                         /\ inode[n].count \in Int
    BY <1>0, <2>4 DEF Held, One, Tables, InodeRecords
  <2>7. inode' = inode /\ GoesOn(p, me)
    BY <1>2, <2>1 DEF RmdirBegins
  <2>8. inode' \in Tables /\ NoneFree(inode')
    BY <2>7 DEF DirInv
  <2>9. \A n \in Inums : /\ inode'[n].kind = inode[n].kind /\ inode'[n].nlinks = inode[n].nlinks
                         /\ inode'[n].count = inode[n].count + Held(me, n) - Held(at[p], n)
                         /\ inode'[n].count >= inode[n].count
    BY <2>6, <2>7
  <2>. QED BY <1>0, <1>1, <2>3, <2>4, <2>5, <2>7, <2>8, <2>9, Moving
<1>3. CASE inode[at[p].ino].kind # "dir"
  <2>1. inode' = PutBoth(inode, at[p].ino, at[p].dir) /\ Returns(p)
    BY <1>3 DEF RmdirBegins
  <2>. QED BY <1>0, <2>1, NotRemoved
<1>. QED BY <1>2, <1>3

LEMMA StepUnlink ==
  ASSUME DirInv(inode, ent, at), NEW p \in Procs, Unlink(p)
  PROVE  Counted(inode', at') /\ (broken' = "no" => DirInv(inode', ent', at'))
<1>0. /\ at[p] \in Wherever /\ HandsOk(at[p]) /\ at[p].pc = "read" /\ Len(at[p].path) = 1
      /\ at[p].call = "unlink" /\ HolderOk(inode, ent, at[p])
      /\ inode \in Tables /\ EntriesOk(ent) /\ PlacesOk(at) /\ Counted(inode, at) /\ NoneFree(inode)
      /\ Tree(Settled(inode, at), ent, at) /\ Makers(at) /\ Holders(inode, ent, at) /\ Returns(p)
  BY DEF DirInv, PlacesOk, Unlink, At, Holders
<1>1. PICK d \in Inums, y \in Inums, k \in Nat :
        /\ d = at[p].dir /\ y = at[p].ino /\ k = at[p].slot /\ k \in DOMAIN ent[d]
        /\ inode[d].kind = "dir" /\ ~Making(at[p])
        /\ \A n \in Inums : Held(at[p], n) = One(y = n) + One(d = n)
  BY <1>0, RemoverIs
<1>2. CASE inode[y].kind # "file"
  <2>1. inode' = PutBoth(inode, at[p].ino, at[p].dir) /\ UNCHANGED ent
    BY <1>1, <1>2 DEF Unlink
  <2>2. DirInv(inode', ent', at')
    BY <1>0, <2>1, NotRemoved
  <2>. QED BY <2>2 DEF DirInv
<1>3. CASE inode[y].kind = "file"
  <2>1. SetEntry(d, k, Unused)
    BY <1>1, <1>3 DEF Unlink, ClearEntry
  <2>2. Unused \in Entries /\ Unused.ino = None
    BY DEF Unused, Entries
  <2>3. k \in 1..MaxEntries /\ k <= Len(ent[d]) + 1
    <3>1. k \in 1..MaxEntries
      BY <1>0, <1>1, EntryIs
    <3>2. DOMAIN ent[d] = 1..Len(ent[d]) /\ Len(ent[d]) \in Nat
      BY <1>0 DEF EntriesOk
    <3>. QED BY <1>1, <3>1, <3>2
  <2>4. /\ EntriesOk(ent') /\ \A n \in Inums : n # d => ent'[n] = ent[n]
        /\ DOMAIN ent'[d] = DOMAIN ent[d] \cup {k} /\ ent'[d][k] = Unused
        /\ \A j \in DOMAIN ent[d] : j # k => ent'[d][j] = ent[d][j]
        /\ \A n \in Inums : DOMAIN ent[n] \subseteq DOMAIN ent'[n]
    BY <1>0, <2>1, <2>2, <2>3, SetEntryIs
  <2>5. PICK f : f = IF inode[y].nlinks = 0 THEN inode ELSE Link(inode, y, -1)
    OBVIOUS
  <2>6. /\ f \in Tables
        /\ \A m \in Inums : f[m].count = inode[m].count /\ f[m].kind = inode[m].kind
        /\ inode[y].nlinks # 0 => \A m \in Inums : f[m].nlinks = inode[m].nlinks - One(m = y)
    <3>1. \A m \in Inums : inode[m].nlinks \in Int
      BY <1>0 DEF Tables, InodeRecords
    <3>2. CASE inode[y].nlinks = 0
      BY <1>0, <2>5, <3>2
    <3>3. CASE inode[y].nlinks # 0
      <4>1. f = Link(inode, y, -1) /\ -1 \in Int
        BY <2>5, <3>3
      <4>2. /\ f \in Tables
            /\ \A m \in Inums : /\ f[m].count = inode[m].count /\ f[m].kind = inode[m].kind
                                /\ m # y => f[m].nlinks = inode[m].nlinks
            /\ f[y].nlinks = inode[y].nlinks + (-1)
        BY <1>0, <4>1, LinkIs
      <4>. QED BY <3>1, <4>2 DEF One
    <3>. QED BY <3>2, <3>3
  <2>7. inode' = Gone(f, y, d)
    BY <1>1, <1>3, <2>5, Constants DEF Unlink, Gone
  <2>8. PlacesOk(at') /\ at'[p] = AtUser /\ \A q \in Procs : q # p => at'[q] = at[q]
    BY <1>0, PlaceIs, UserPlaceOk DEF Returns, GoesOn
  <2>9. \A q \in Procs : Making(at[q]) \/ Making(at'[q]) => at'[q] = at[q]
    BY <1>1, <2>8, UserPlaceOk
  <2>10. inode[y].count > 0
    <3>1. Held(at[p], y) # 0
      BY <1>1 DEF One
    <3>. QED BY <1>0, <3>1, CountHeld
  <2>g. PICK g \in Tables, h \in Tables : g = Settled(inode, at) /\ h = Settled(f, at')
    BY <1>0, <2>6, SettledIs
  <2>h. \A m \in Inums : /\ g[m].kind = inode[m].kind /\ g[m].count = inode[m].count
                         /\ h[m].kind = inode[m].kind /\ h[m].count = inode[m].count
    BY <1>0, <2>6, <2>g, SettledIs
  <2>i. \A m \in Inums : Due(at', m) = Due(at, m)
    BY <1>0, <2>8, DueSame DEF AtUser
  <2>11. ASSUME ent[d][k].ino = y, inode[y].nlinks # 0 PROVE Tree(h, ent', at')
    <3>1. Extra(ent', ent, d, k, y)
      BY <1>0, <1>1, <2>2, <2>4, <2>11 DEF Extra
    <3>2. ASSUME NEW m \in Inums PROVE h[m].nlinks = g[m].nlinks - One(m = y)
      <4>1. /\ g[m].nlinks = inode[m].nlinks + (IF inode[m].kind = "file" THEN Due(at, m) ELSE 0)
            /\ h[m].nlinks = f[m].nlinks + (IF f[m].kind = "file" THEN Due(at', m) ELSE 0)
        BY <1>0, <2>6, <2>g, SettledIs
      <4>2. inode[m].nlinks \in Int /\ Due(at, m) \in Nat /\ One(m = y) \in Nat
        BY <1>0, DueIs DEF Tables, InodeRecords, One
      <4>. QED BY <2>6, <2>11, <2>i, <4>1, <4>2
    <3>3. /\ Tree(g, ent, at) /\ PlacesOk(at) /\ PlacesOk(at')
          /\ g[d].kind = "dir" /\ g[y].count > 0 /\ g[y].kind = "file"
          /\ \A m \in Inums : h[m].kind = g[m].kind /\ h[m].count = g[m].count
      BY <1>0, <1>1, <1>3, <2>8, <2>10, <2>g, <2>h
    <3>. QED BY <2>9, <3>1, <3>2, <3>3, TreeRemoved
  <2>12. ASSUME ent[d][k].ino = None, inode[y].nlinks = 0 PROVE Tree(h, ent', at')
    <3>1. \A n \in Inums : /\ DOMAIN ent'[n] = DOMAIN ent[n]
                           /\ \A j \in DOMAIN ent[n] : \/ ent'[n][j] = ent[n][j]
                                                       \/ ent'[n][j].ino = None /\ ent[n][j].ino = None
      BY <1>1, <2>2, <2>4, <2>12, ZenonT(60)
    <3>2. Tree(g, ent', at)
      BY <1>0, <2>4, <2>g, <3>1, TreeUnused
    <3>3. \A m \in Inums : g[m].kind = "file" => g[m].nlinks > 0 \/ g[m].count > 0
      BY <3>2 DEF Tree, InodeOk, FileOk
    <3>4. Tree(g, ent', at')
      BY <1>0, <2>4, <2>8, <2>9, <3>2, <3>3, TreeSame
    <3>5. h = g
      BY <1>0, <2>5, <2>8, <2>12, <2>g, SettledSame DEF AtUser
    <3>. QED BY <3>4, <3>5
  <2>13. broken' = "no" => Tree(Settled(f, at'), ent', at')
    <3>1. SUFFICES ASSUME broken' = "no" PROVE Tree(h, ent', at')
      BY <2>g
    <3>2. ~Uncounted(at[p]) /\ (Same(at[p]) \/ GoneToo(at[p]))
      BY <1>1, <1>3, <3>1 DEF Unlink, Act
    <3>. QED BY <1>1, <2>11, <2>12, <3>2 DEF Same, GoneToo, Uncounted
  <2>. QED BY <1>0, <1>1, <2>4, <2>6, <2>7, <2>13, Leaving
<1>. QED BY <1>2, <1>3

LEMMA StepRmdir ==
  ASSUME DirInv(inode, ent, at), NEW p \in Procs, Rmdir(p)
  PROVE  Counted(inode', at') /\ (broken' = "no" => DirInv(inode', ent', at'))
<1>0. /\ at[p] \in Wherever /\ HandsOk(at[p]) /\ at[p].pc = "empty" /\ HolderOk(inode, ent, at[p])
      /\ inode \in Tables /\ EntriesOk(ent) /\ PlacesOk(at) /\ Counted(inode, at) /\ NoneFree(inode)
      /\ Tree(Settled(inode, at), ent, at) /\ Makers(at) /\ Holders(inode, ent, at)
  BY DEF DirInv, PlacesOk, Rmdir, At, Holders
<1>1. PICK d \in Inums, y \in Inums, k \in Nat :
        /\ d = at[p].dir /\ y = at[p].ino /\ k = at[p].slot /\ k \in DOMAIN ent[d]
        /\ inode[d].kind = "dir" /\ inode[y].kind = "dir" /\ ~Making(at[p])
        /\ \A n \in Inums : Held(at[p], n) = One(d = n) + One(y = n)
  <2>1. inode[at[p].ino].kind = "dir"
    BY <1>0 DEF HolderOk
  <2>. QED BY <1>0, <2>1, RemoverIs
<1>2. CASE Occupied(at[p]) # {}
  <2>1. inode' = PutBoth(inode, at[p].ino, at[p].dir) /\ Returns(p) /\ UNCHANGED ent
    BY <1>2 DEF Rmdir
  <2>2. DirInv(inode', ent', at')
    BY <1>0, <2>1, NotRemoved
  <2>. QED BY <2>2 DEF DirInv
<1>3. CASE Occupied(at[p]) = {} /\ MoreBlocks(at[p])
  <2>1. PICK me : me = NextBlock(at[p])
    OBVIOUS
  <2>2. at[p].i + DIR_ENTRIES_PER_BLOCK \in Nat
    BY <1>0, DirectoryAssumption DEF Wherever
  <2>3. me \in Wherever
    BY <1>0, <2>1, <2>2 DEF NextBlock, Wherever
  <2>4. /\ me.pc = at[p].pc /\ me.call = at[p].call /\ me.path = at[p].path
        /\ me.to = at[p].to /\ me.old = at[p].old /\ me.dir = at[p].dir /\ me.ino = at[p].ino
        /\ me.slot = at[p].slot
    BY <1>0, <2>1, <2>2 DEF NextBlock, Wherever
  <2>5. HandsOk(me) /\ HolderOk(inode, ent, me) /\ ~Making(me)
    BY <1>0, <2>4 DEF HandsOk, HolderOk, Making
  <2>6. \A n \in Inums : Held(me, n) = Held(at[p], n) /\ Held(me, n) \in Nat /\ inode[n].count \in Int
    BY <1>0, <2>4 DEF Held, One, Tables, InodeRecords
  <2>7. GoesOn(p, me) /\ UNCHANGED <<inode, ent>>
    BY <1>3, <2>1 DEF Rmdir
  <2>8. inode' \in Tables /\ NoneFree(inode')
    BY <1>0, <2>7
  <2>9. \A n \in Inums : /\ inode'[n].kind = inode[n].kind /\ inode'[n].nlinks = inode[n].nlinks
                         /\ inode'[n].count = inode[n].count + Held(me, n) - Held(at[p], n)
                         /\ inode'[n].count >= inode[n].count
    BY <2>6, <2>7
  <2>10. DirInv(inode', ent', at')
    BY <1>0, <1>1, <2>3, <2>4, <2>5, <2>7, <2>8, <2>9, Moving
  <2>. QED BY <2>10 DEF DirInv
<1>4. CASE Occupied(at[p]) = {} /\ ~MoreBlocks(at[p])
  <2>1. SetEntry(d, k, Unused) /\ Returns(p)
    BY <1>1, <1>4 DEF Rmdir, ClearEntry
  <2>2. Unused \in Entries /\ Unused.ino = None
    BY DEF Unused, Entries
  <2>3. k \in 1..MaxEntries /\ k <= Len(ent[d]) + 1
    <3>1. k \in 1..MaxEntries
      BY <1>0, <1>1, EntryIs
    <3>2. DOMAIN ent[d] = 1..Len(ent[d]) /\ Len(ent[d]) \in Nat
      BY <1>0 DEF EntriesOk
    <3>. QED BY <1>1, <3>1, <3>2
  <2>4. /\ EntriesOk(ent') /\ \A n \in Inums : n # d => ent'[n] = ent[n]
        /\ DOMAIN ent'[d] = DOMAIN ent[d] \cup {k} /\ ent'[d][k] = Unused
        /\ \A j \in DOMAIN ent[d] : j # k => ent'[d][j] = ent[d][j]
        /\ \A n \in Inums : DOMAIN ent[n] \subseteq DOMAIN ent'[n]
    BY <1>0, <2>1, <2>2, <2>3, SetEntryIs
  <2>5. PICK h : h = Link(inode, d, -1)
    OBVIOUS
  <2>6. PICK f : f = [h EXCEPT ![y].nlinks = 0]
    OBVIOUS
  <2>7. /\ f \in Tables
        /\ \A m \in Inums : f[m].count = inode[m].count /\ f[m].kind = inode[m].kind
        /\ f[y].nlinks = 0
        /\ \A m \in Inums : m # y => f[m].nlinks = inode[m].nlinks - One(m = d)
    <3>1. \A m \in Inums : inode[m].nlinks \in Int
      BY <1>0 DEF Tables, InodeRecords
    <3>2. /\ h \in Tables
          /\ \A m \in Inums : /\ h[m].count = inode[m].count /\ h[m].kind = inode[m].kind
                              /\ m # d => h[m].nlinks = inode[m].nlinks
          /\ h[d].nlinks = inode[d].nlinks + (-1)
      <4>1. -1 \in Int
        OBVIOUS
      <4>. QED BY <1>0, <2>5, <4>1, LinkIs
    <3>3. PICK r : r = [h[y] EXCEPT !.nlinks = 0]
      OBVIOUS
    <3>4. r \in InodeRecords /\ r.nlinks = 0 /\ r.kind = h[y].kind /\ r.count = h[y].count
      <4>1. h[y] \in InodeRecords /\ 0 \in Int
        BY <3>2 DEF Tables
      <4>2. r \in InodeRecords
        BY <3>3, <4>1 DEF InodeRecords
      <4>. QED BY <3>3, <4>1, <4>2 DEF InodeRecords
    <3>5. f = [h EXCEPT ![y] = r]
      BY <2>6, <3>2, <3>3 DEF Tables
    <3>6. f \in Tables /\ f[y] = r /\ \A m \in Inums : m # y => f[m] = h[m]
      BY <3>2, <3>4, <3>5 DEF Tables
    <3>. QED BY <3>1, <3>2, <3>4, <3>6 DEF One
  <2>8. inode' = Gone(f, d, y)
    BY <1>1, <1>4, <2>5, <2>6, Constants DEF Rmdir, Gone
  <2>9. PlacesOk(at') /\ at'[p] = AtUser /\ \A q \in Procs : q # p => at'[q] = at[q]
    BY <1>0, <2>1, PlaceIs, UserPlaceOk DEF Returns, GoesOn
  <2>10. \A q \in Procs : Making(at[q]) \/ Making(at'[q]) => at'[q] = at[q]
    BY <1>1, <2>9, UserPlaceOk
  <2>11. inode[y].count > 0
    <3>1. Held(at[p], y) # 0
      BY <1>1 DEF One
    <3>. QED BY <1>0, <3>1, CountHeld
  <2>g. PICK g \in Tables, z \in Tables : g = Settled(inode, at) /\ z = Settled(f, at')
    BY <1>0, <2>7, SettledIs
  <2>12. ASSUME broken' = "no" PROVE Tree(Settled(f, at'), ent', at')
    <3>1. /\ ent[d][k].ino = y
          /\ \A j \in DOMAIN ent[y] : j \in at[p].i..at[p].end \/ ent[y][j].ino = None
      BY <1>1, <1>4, <2>12 DEF Rmdir, Act, Same
    <3>2. Extra(ent', ent, d, k, y)
      BY <1>0, <1>1, <2>2, <2>4, <3>1 DEF Extra
    <3>3. Empty(ent, y)
      <4>1. SUFFICES ASSUME NEW j \in DOMAIN ent[y], ent[y][j].ino # None PROVE FALSE
        BY DEF Empty
      <4>2. j \in at[p].i..at[p].end
        BY <3>1, <4>1
      <4>3. /\ at[p].i \in Nat /\ at[p].end \in Nat /\ DIR_ENTRIES_PER_BLOCK \in Nat
            /\ ~(at[p].i + DIR_ENTRIES_PER_BLOCK <= at[p].end)
        BY <1>0, <1>4, DirectoryAssumption DEF Wherever, MoreBlocks
      <4>4. j \in Block(at[p].i) /\ j <= at[p].end
        BY <4>2, <4>3 DEF Block
      <4>. QED BY <1>1, <1>4, <4>1, <4>4 DEF Occupied
    <3>4. \A m \in Inums : /\ g[m].kind = inode[m].kind /\ g[m].count = inode[m].count
                           /\ z[m].kind = inode[m].kind /\ z[m].count = inode[m].count
      BY <1>0, <2>7, <2>g, SettledIs
    <3>5. \A m \in Inums : Due(at', m) = Due(at, m)
      BY <1>0, <2>9, DueSame DEF AtUser
    <3>6. ASSUME NEW m \in Inums
          PROVE  IF m = y THEN z[m].nlinks = 0 ELSE z[m].nlinks = g[m].nlinks - One(m = d)
      <4>1. /\ g[m].nlinks = inode[m].nlinks + (IF inode[m].kind = "file" THEN Due(at, m) ELSE 0)
            /\ z[m].nlinks = f[m].nlinks + (IF f[m].kind = "file" THEN Due(at', m) ELSE 0)
        BY <1>0, <2>7, <2>g, SettledIs
      <4>2. inode[m].nlinks \in Int /\ Due(at, m) \in Nat /\ One(m = d) \in Nat
        BY <1>0, DueIs DEF Tables, InodeRecords, One
      <4>. QED BY <1>1, <2>7, <3>5, <4>1, <4>2
    <3>7. /\ Tree(g, ent, at) /\ PlacesOk(at) /\ PlacesOk(at')
          /\ g[d].kind = "dir" /\ g[y].count > 0 /\ g[y].kind = "dir" /\ z[y].nlinks = 0
          /\ \A m \in Inums : z[m].kind = g[m].kind /\ z[m].count = g[m].count
          /\ \A m \in Inums : m # y => z[m].nlinks = g[m].nlinks - One(m = d)
      BY <1>0, <1>1, <2>9, <2>11, <2>g, <3>4, <3>6
    <3>8. Tree(z, ent', at')
      BY <2>10, <3>2, <3>3, <3>7, TreeRemoved
    <3>. QED BY <2>g, <3>8
  <2>. QED BY <1>0, <1>1, <2>1, <2>4, <2>7, <2>8, <2>12, Leaving
<1>. QED BY <1>2, <1>3, <1>4
-----------------------------------------------------------------------------
(* The invariant: what a call finds changed ends the tree, but not the     *)
(* counting of inodes; that ends with a block given back twice.            *)
DirIInv == /\ broken # "free_block" => Counted(inode, at)
           /\ broken = "no" => DirInv(inode, ent, at)

LEMMA DirIInvInit == DirInit => DirIInv
<1>. SUFFICES ASSUME DirInit PROVE DirInv(inode, ent, at)
  BY DEF DirIInv, DirInv
<1>. USE DEF DirInit
<1>1. \A n \in Inums : inode[n] = (IF n = Root THEN [kind |-> "dir", nlinks |-> 2, count |-> 1] ELSE Free)
  OBVIOUS
<1>2. inode[Root] = [kind |-> "dir", nlinks |-> 2, count |-> 1] /\ \A n \in Inums : n # Root => inode[n] = Free
  BY <1>1, Constants
<1>3. inode \in Tables
  <2>1. [kind |-> "dir", nlinks |-> 2, count |-> 1] \in InodeRecords /\ Free \in InodeRecords
    BY DEF InodeRecords, Kinds, Free
  <2>. QED BY <2>1 DEF Tables
<1>4. EntriesOk(ent) /\ \A n \in Inums : ent[n] = <<>> /\ DOMAIN ent[n] = {}
  <2>1. <<>> \in Seq(Entries) /\ Len(<<>>) = 0 /\ 0 <= MaxEntries
    BY DirectoryAssumption
  <2>2. ent \in [Inums -> Seq(Entries)] /\ \A n \in Inums : ent[n] = <<>>
    BY <2>1
  <2>. QED BY <2>1, <2>2 DEF EntriesOk
<1>5. PlacesOk(at) /\ \A p \in Procs : at[p] = AtUser
  BY UserPlaceOk DEF PlacesOk
<1>6. NoneFree(inode)
  BY <1>2, Constants DEF NoneFree, Free
<1>7. \A n \in Inums : Hands(at, n) = {}
  <2>1. SUFFICES ASSUME NEW n \in Inums, NEW h \in Hands(at, n) PROVE FALSE
    OBVIOUS
  <2>2. h[1] \in Procs /\ h[2] \in {"dir", "ino", "old"} /\ at[h[1]][h[2]] = n /\ n # None
    BY Constants DEF Hands
  <2>. QED BY <1>5, <2>2 DEF AtUser
<1>8. Counted(inode, at)
  <2>1. SUFFICES ASSUME NEW n \in Inums PROVE inode[n].count = 0 + One(n = Root)
    BY <1>7, FS_EmptySet DEF Counted
  <2>2. CASE n = Root
    BY <1>2, <2>2 DEF One
  <2>3. CASE n # Root
    BY <1>2, <2>3 DEF One, Free
  <2>. QED BY <2>2, <2>3
<1>9. \A n : Names(inode, ent, n) = {}
  <2>1. SUFFICES ASSUME NEW n, NEW x \in Names(inode, ent, n) PROVE FALSE
    OBVIOUS
  <2>2. x[1] \in Inums /\ x[2] \in DOMAIN ent[x[1]]
    BY DEF Names
  <2>. QED BY <1>4, <2>2
<1>10. ASSUME NEW n \in Inums PROVE InodeOk(inode, ent, at, n)
  <2>1. CASE n = Root
    <3>1. Subs(inode, ent, Root) = {} /\ Cardinality(Subs(inode, ent, Root)) = 0
      BY <1>4, Constants, FS_EmptySet DEF Subs
    <3>2. inode[Root].kind = "dir" /\ inode[Root].nlinks = 2
      BY <1>2
    <3>3. DirOk(inode, ent, at, Root)
      BY <1>4, <3>1, <3>2, Constants DEF DirOk, OneOfAName
    <3>. QED BY <2>1, <3>2, <3>3 DEF InodeOk
  <2>2. CASE n # Root
    <3>1. inode[n].kind = "none"
      BY <1>2, <2>2 DEF Free
    <3>. QED BY <1>9, <3>1 DEF InodeOk
  <2>. QED BY <2>1, <2>2
<1>11. Tree(Settled(inode, at), ent, at)
  <2>1. RootOk(inode, ent)
    BY <1>2, <1>9 DEF RootOk
  <2>2. Tree(inode, ent, at)
    BY <1>5, <1>10, <2>1, UserPlaceOk DEF Tree
  <2>3. \A n : Linking(at, n) = {}
    BY <1>5 DEF Linking, AtUser
  <2>4. \A n \in Inums : Due(at, n) = 0
    BY <2>3, DueIs
  <2>5. \A n \in Inums : inode[n].nlinks \in Int
    BY <1>3 DEF Tables, InodeRecords
  <2>6. Settled(inode, at) \in Tables
        /\ \A n \in Inums : /\ Settled(inode, at)[n].kind = inode[n].kind
                            /\ Settled(inode, at)[n].nlinks = inode[n].nlinks
                            /\ Settled(inode, at)[n].count = inode[n].count
    BY <1>3, <2>4, <2>5, SettledIs
  <2>7. Settled(inode, at) = inode
    BY <1>3, <2>6, TablesEqual
  <2>. QED BY <2>2, <2>7
<1>12. Makers(at) /\ Holders(inode, ent, at)
  <2>1. \A n \in Inums : ~Makes(AtUser, n)
    BY DEF Makes, AtUser
  <2>. QED BY <1>5, <2>1, UserPlaceOk DEF Makers, Holders
<1>. QED BY <1>3, <1>4, <1>5, <1>6, <1>8, <1>11, <1>12 DEF DirInv

LEMMA DirIInvNext == DirIInv /\ [DirNext]_dirVars => DirIInv'
<1>. SUFFICES ASSUME DirIInv, [DirNext]_dirVars PROVE DirIInv'
  OBVIOUS
<1>0. ASSUME DirInv(inode', ent', at') PROVE DirIInv'
  BY <1>0 DEF DirIInv, DirInv
<1>00. ASSUME broken = "no" PROVE DirInv(inode, ent, at)
  BY <1>00 DEF DirIInv
<1>1. CASE UNCHANGED dirVars
  BY <1>1 DEF DirIInv, dirVars
<1>2. ASSUME NEW p \in Procs, NEW c \in Calls \ {"link"}, NEW w \in Paths, Begin(p, c, w, <<>>)
      PROVE  DirIInv'
  <2>1. DirInv(inode, ent, at)
    BY <1>2, <1>00 DEF Begin, At
  <2>2. <<>> \in Seq(STRING)
    OBVIOUS
  <2>. QED BY <1>0, <1>2, <2>1, <2>2, StepBegin
<1>3. ASSUME NEW p \in Procs, NEW v \in NewPaths, NEW w \in Paths, Begin(p, "link", w, v)
      PROVE  DirIInv'
  <2>1. DirInv(inode, ent, at)
    BY <1>3, <1>00 DEF Begin, At
  <2>2. v \in Seq(STRING) /\ v # <<>> /\ "link" \in Calls
    BY DirectoryAssumption DEF Calls
  <2>. QED BY <1>0, <1>3, <2>1, <2>2, StepBegin
<1>4. ASSUME NEW p \in Procs, FindNext(p) PROVE DirIInv'
  BY <1>0, <1>00, <1>4, StepFindNext DEF FindNext, At
<1>5. ASSUME NEW p \in Procs, FoundInode(p) PROVE DirIInv'
  BY <1>0, <1>00, <1>5, StepFoundInode DEF FoundInode, At
<1>6. ASSUME NEW p \in Procs, Fail(p) PROVE DirIInv'
  BY <1>0, <1>00, <1>6, StepFail DEF Fail, At
<1>7. ASSUME NEW p \in Procs, Iget(p) PROVE DirIInv'
  <2>1. DirInv(inode, ent, at)
    BY <1>00, <1>7 DEF Iget, At
  <2>. QED BY <1>7, <2>1, StepIget DEF DirIInv
<1>8. ASSUME NEW p \in Procs, Enter(p) PROVE DirIInv'
  BY <1>0, <1>00, <1>8, StepEnter DEF Enter, At
<1>9. ASSUME NEW p \in Procs, OldName(p) PROVE DirIInv'
  BY <1>0, <1>00, <1>9, StepOldName DEF OldName, At
<1>10. ASSUME NEW p \in Procs, OpenOld(p) PROVE DirIInv'
  BY <1>0, <1>00, <1>10, StepOpenOld DEF OpenOld, At
<1>11. ASSUME NEW p \in Procs, Create(p) PROVE DirIInv'
  BY <1>0, <1>00, <1>11, StepCreate DEF Create, At
<1>12. ASSUME NEW p \in Procs, NewDir(p) PROVE DirIInv'
  BY <1>0, <1>00, <1>12, StepNewDir DEF NewDir, At
<1>13. ASSUME NEW p \in Procs, NoNewDir(p) PROVE DirIInv'
  BY <1>0, <1>00, <1>13, StepNoNewDir DEF NoNewDir, At
<1>14. ASSUME NEW p \in Procs, AddNext(p) PROVE DirIInv'
  BY <1>0, <1>00, <1>14, StepAddNext DEF AddNext, At
<1>15. ASSUME NEW p \in Procs, Add(p) PROVE DirIInv'
  <2>1. DirInv(inode, ent, at)
    BY <1>00, <1>15 DEF Add, At
  <2>. QED BY <1>15, <2>1, StepAdd DEF DirIInv
<1>16. ASSUME NEW p \in Procs, AddFails(p) PROVE DirIInv'
  <2>1. DirInv(inode, ent, at)
    BY <1>00, <1>16 DEF AddFails, At
  <2>. QED BY <1>16, <2>1, StepAddFails DEF DirIInv
<1>17. ASSUME NEW p \in Procs, Unlink(p) PROVE DirIInv'
  <2>1. DirInv(inode, ent, at)
    BY <1>00, <1>17 DEF Unlink, At
  <2>. QED BY <1>17, <2>1, StepUnlink DEF DirIInv
<1>18. ASSUME NEW p \in Procs, RmdirBegins(p) PROVE DirIInv'
  BY <1>0, <1>00, <1>18, StepRmdirBegins DEF RmdirBegins, At
<1>19. ASSUME NEW p \in Procs, Rmdir(p) PROVE DirIInv'
  <2>1. DirInv(inode, ent, at)
    BY <1>00, <1>19 DEF Rmdir, At
  <2>. QED BY <1>19, <2>1, StepRmdir DEF DirIInv
<1>20. ASSUME NEW p \in Procs, LinkCounted(p) PROVE DirIInv'
  BY <1>0, <1>00, <1>20, StepLinkCounted DEF LinkCounted, At
<1>. QED BY <1>1, <1>2, <1>3, <1>4, <1>5, <1>6, <1>7, <1>8, <1>9, <1>10, <1>11, <1>12, <1>13,
            <1>14, <1>15, <1>16, <1>17, <1>18, <1>19, <1>20 DEF DirNext

THEOREM DirIInvAlways == DirSpec => []DirIInv
BY DirIInvInit, DirIInvNext, PTL DEF DirSpec
-----------------------------------------------------------------------------
(* i_count of an inode is the number of calls that have it in hand, on     *)
(* every way through every call (iget, iput).                              *)
THEOREM InodesGivenBackAlways == DirSpec => []InodesGivenBack
<1>1. DirIInv => InodesGivenBack
  BY HandsAre DEF DirIInv, InodesGivenBack, Counted, One
<1>. QED BY <1>1, DirIInvAlways, PTL

(* As long as no call acts on what is no longer so, and no unlink() comes  *)
(* upon a link that is not counted yet, the directories are a tree and     *)
(* i_nlinks the number of names, less those that link() has still to count *)
(* (add_entry, sys_mkdir, sys_rmdir, sys_unlink, sys_link).                *)
THEOREM TreeSoundAlways == DirSpec => []TreeSound
<1>1. DirIInv => TreeSound
  <2>1. SUFFICES ASSUME DirIInv, broken = "no", NEW n \in Inums
                 PROVE  /\ inode[n].kind = "dir" => DirSound(n)
                        /\ inode[n].kind = "file" => FileSound(n)
    BY DEF TreeSound
  <2>. DEFINE g == Settled(inode, at)
  <2>0. inode \in Tables /\ Counted(inode, at) /\ EntriesOk(ent)
    BY <2>1 DEF DirIInv, DirInv
  <2>2. InodeOk(g, ent, at, n)
    BY <2>1 DEF DirIInv, DirInv, Tree
  <2>3. /\ \A m \in Inums : g[m].kind = inode[m].kind
        /\ g[n].count = inode[n].count
        /\ g[n].nlinks = inode[n].nlinks + IF inode[n].kind = "file" THEN Due(at, n) ELSE 0
    BY <2>0, SettledIs
  <2>4. Names(g, ent, n) = Names(inode, ent, n) /\ Subs(g, ent, n) = Subs(inode, ent, n)
    BY <2>0, <2>3, NamesSame, SubsSame
  <2>. HIDE DEF g
  <2>5. /\ NamesOf(n) = Names(inode, ent, n) /\ SubDirs(n) = Subs(inode, ent, n)
        /\ BeingMade(n) <=> Made(at, n)
        /\ Linkers(n) = Linking(at, n)
    BY DEF NamesOf, Names, SubDirs, Subs, BeingMade, Made, Makes, Linkers, Linking
  <2>6. inode[n].nlinks \in Int /\ inode[n].count \in Int /\ Due(at, n) \in Nat
    BY <2>0, DueIs DEF Tables, InodeRecords
  <2>7. ASSUME inode[n].kind = "dir" PROVE DirSound(n)
    <3>1. DirOk(g, ent, at, n) /\ g[n].nlinks = inode[n].nlinks
      BY <2>2, <2>3, <2>6, <2>7 DEF InodeOk
    <3>2. \A k \in DOMAIN ent[n] : ent[n][k].ino = None \/ Used(ent[n][k].ino)
      <4>1. SUFFICES ASSUME NEW k \in DOMAIN ent[n], ent[n][k].ino # None PROVE Used(ent[n][k].ino)
        OBVIOUS
      <4>2. ent[n][k].ino \in Inums
        BY <2>0, <4>1, EntryIs
      <4>. QED BY <2>3, <3>1, <4>1, <4>2 DEF DirOk, Used
    <3>. QED BY <2>4, <2>5, <3>1, <3>2 DEF DirOk, DirSound, OneOfAName, Empty
  <2>8. ASSUME inode[n].kind = "file" PROVE FileSound(n)
    <3>1. FileOk(g, ent, at, n) /\ g[n].nlinks = inode[n].nlinks + Cardinality(Linkers(n))
      BY <2>2, <2>3, <2>5, <2>8 DEF InodeOk, Due
    <3>2. inode[n].nlinks > 0 \/ inode[n].count > 0
      <4>1. CASE Linking(at, n) = {}
        BY <2>3, <2>6, <2>8, <3>1, <4>1, DueIs DEF FileOk
      <4>2. CASE Linking(at, n) # {}
        <5>1. PICK q \in Procs : at[q].old = n
          BY <4>2 DEF Linking
        <5>2. Held(at[q], n) # 0
          BY <5>1 DEF Held, One
        <5>. QED BY <2>0, <5>2, CountHeld
      <4>. QED BY <4>1, <4>2
    <3>. QED BY <2>4, <2>5, <3>1, <3>2 DEF FileOk, FileSound
  <2>. QED BY <2>7, <2>8
<1>. QED BY <1>1, DirIInvAlways, PTL
=============================================================================
