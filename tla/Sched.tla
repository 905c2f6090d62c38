-------------------------------- MODULE Sched --------------------------------
(***************************************************************************)
(* The scheduler and the wait queues: kernel/sched.c, and the return from  *)
(* system calls and timer interrupts in system_call.s.                     *)
(*                                                                         *)
(* A wait queue is one pointer, to the task that fell asleep last.  Each   *)
(* sleeper keeps the one before it in the local variable tmp and wakes it  *)
(* after it has been woken itself.  Only the current task runs, until it   *)
(* calls schedule(); interrupts only set tasks running and count ticks.    *)
(***************************************************************************)
EXTENDS Integers, FiniteSets

CONSTANTS NR_TASKS,      \* tasks 1..NR_TASKS, and the idle task 0
          PRIORITY,      \* of every task
          Queues,        \* places to sleep
          InterruptibleQueues \* those that may be used with
                              \* interruptible_sleep_on() instead of sleep_on()

Tasks == 1..NR_TASKS
Idle == 0
NULL == 0
NoQueue == 0

ASSUME SchedAssumption ==
    /\ NR_TASKS \in Nat \ {0} /\ PRIORITY \in Nat \ {0}
    /\ InterruptibleQueues \subseteq Queues /\ NoQueue \notin Queues

VARIABLES
    current,
    state,    \* state[t], set by the task, by wake-ups and by schedule()
    counter,  \* counter[t]: ticks left of its time slice
    signal,   \* signal[t]: a signal that is not ignored is pending
    queue,    \* queue[q]: the task that fell asleep last on q
    tmp,      \* tmp[t]: the one before t in its queue
    on,       \* on[t]: the queue t sleeps on
    pc,       \* where t is, or will be when it is current again
    interruptible \* the queues that are used with interruptible_sleep_on(),
                  \* the same all the time

vars == <<current, state, counter, signal, queue, tmp, on, pc,
          interruptible>>
queues == <<queue, tmp, on, interruptible>>

TypeOK ==
    /\ current \in Tasks \cup {Idle}
    /\ state \in [Tasks -> {"running", "interruptible", "uninterruptible", "zombie"}]
    /\ counter \in [Tasks -> 0..2 * PRIORITY]
    /\ signal \in [Tasks -> BOOLEAN]
    /\ queue \in [Queues -> Tasks \cup {NULL}]
    /\ tmp \in [Tasks -> Tasks \cup {NULL}]
    /\ on \in [Tasks -> Queues \cup {NoQueue}]
    /\ pc \in [Tasks -> {"user", "kernel", "sleep", "pause", "leave"}]
    /\ interruptible \subseteq Queues

Init ==
    /\ current = Idle
    /\ state = [t \in Tasks |-> "running"]
    /\ counter = [t \in Tasks |-> PRIORITY]
    /\ signal = [t \in Tasks |-> FALSE]
    /\ queue = [q \in Queues |-> NULL]
    /\ tmp = [t \in Tasks |-> NULL] /\ on = [t \in Tasks |-> NoQueue]
    /\ pc = [t \in Tasks |-> "user"]
    /\ interruptible \in SUBSET InterruptibleQueues

Goto(t, l) == pc' = [pc EXCEPT ![t] = l]

-----------------------------------------------------------------------------
(* schedule(), called when the states are st and the counters cnt.         *)

(* A signal wakes a task that sleeps interruptibly. *)
\* faulty: signals are not looked at
WithoutSignals(st) == st
WithSignals(st) == [t \in Tasks |-> IF signal[t] /\ st[t] = "interruptible"
                                    THEN "running" ELSE st[t]]

(* When all runnable tasks have used up their slice, every task gets a new *)
(* one; a sleeping task keeps half of what it had.                         *)
NewSlices(cnt) == [t \in Tasks |-> cnt[t] \div 2 + PRIORITY]

\* faulty: no new slices
NoRecharge(cnt, run) == cnt
Recharge(cnt, run) ==
    IF run # {} /\ \A t \in run : cnt[t] = 0 THEN NewSlices(cnt) ELSE cnt

Schedule(st, cnt) ==
    LET run == {t \in Tasks : WithSignals(st)[t] = "running"}
        c == Recharge(cnt, run)
    IN /\ state' = WithSignals(st)
       /\ counter' = c
       /\ current' \in IF run = {} THEN {Idle}
                       ELSE {t \in run :
                               \A u \in run : c[u] < c[t] \/ (c[u] = c[t] /\ u <= t)}

(* The idle task calls pause() all the time. *)
IdleLoop ==
    /\ current = Idle
    /\ Schedule(state, counter)
    /\ UNCHANGED <<signal, queues, pc>>

-----------------------------------------------------------------------------
(* Wait queues *)

Awoken(st, t) == IF t = NULL THEN st ELSE [st EXCEPT ![t] = "running"]

(* wake_up() *)
\* faulty: the queue still points to the task
WakeUpKeepsHead(q) == state' = Awoken(state, queue[q]) /\ UNCHANGED queue
WakeUp(q) == /\ state' = Awoken(state, queue[q])
             /\ queue' = [queue EXCEPT ![q] = NULL]

(* An interrupt handler, or the current task inside a system call. *)
Interrupt(q) ==
    /\ queue[q] # NULL
    /\ WakeUp(q)
    /\ UNCHANGED <<current, counter, signal, tmp, on, pc, interruptible>>

(* sleep_on(), interruptible_sleep_on(): push, sleep. *)
SleepOn(t, q) ==
    /\ pc[t] = "kernel"
    /\ tmp' = [tmp EXCEPT ![t] = queue[q]]
    /\ queue' = [queue EXCEPT ![q] = t]
    /\ on' = [on EXCEPT ![t] = q]
    /\ Goto(t, "sleep")
    /\ Schedule([state EXCEPT ![t] = IF q \in interruptible THEN "interruptible"
                                     ELSE "uninterruptible"], counter)
    /\ UNCHANGED <<signal, interruptible>>

(* The end of both: wake the sleeper before this one. *)
\* faulty: it sleeps on
WakeNobody(t) == UNCHANGED state
WakePrevious(t) == state' = Awoken(state, tmp[t])

Awake(t) ==
    /\ WakePrevious(t)
    /\ tmp' = [tmp EXCEPT ![t] = NULL] /\ on' = [on EXCEPT ![t] = NoQueue]
    /\ Goto(t, "kernel")

WakeFromSleep(t) ==
    /\ pc[t] = "sleep" /\ on[t] \notin interruptible
    /\ Awake(t)
    /\ UNCHANGED <<current, counter, signal, queue, interruptible>>

(* interruptible_sleep_on(): a task that is not the last one of the queue  *)
(* wakes that one and sleeps again.                                        *)
WakeOnTop(t) ==
    /\ pc[t] = "sleep" /\ on[t] \in interruptible
    /\ queue[on[t]] \in {NULL, t}
    /\ queue' = [queue EXCEPT ![on[t]] = NULL]
    /\ Awake(t)
    /\ UNCHANGED <<current, counter, signal, interruptible>>

WakeBelow(t) ==
    /\ pc[t] = "sleep" /\ on[t] \in interruptible
    /\ queue[on[t]] \notin {NULL, t}
    /\ Schedule([Awoken(state, queue[on[t]]) EXCEPT ![t] = "interruptible"], counter)
    /\ UNCHANGED <<signal, queues, pc>>

-----------------------------------------------------------------------------
(* System calls of the current task *)

SystemCall(t) ==
    /\ pc[t] = "user"
    /\ Goto(t, "kernel")
    /\ UNCHANGED <<current, state, counter, signal, queues>>

Pause(t) ==
    /\ pc[t] = "kernel"
    /\ Goto(t, "pause")
    /\ Schedule([state EXCEPT ![t] = "interruptible"], counter)
    /\ UNCHANGED <<signal, queues>>

WakeFromPause(t) ==
    /\ pc[t] = "pause"
    /\ Goto(t, "kernel")
    /\ UNCHANGED <<current, state, counter, signal, queues>>

(* send_sig() *)
Kill(t, u) ==
    /\ pc[t] = "kernel"
    /\ state[u] # "zombie" /\ ~signal[u]
    /\ signal' = [signal EXCEPT ![u] = TRUE]
    /\ UNCHANGED <<current, state, counter, queues, pc>>

(* do_exit(), by exit() or by a signal.  Were the task ever chosen again,  *)
(* it would return from the system call.                                   *)
Exit(t) ==
    /\ pc[t] = "kernel" \/ (pc[t] = "leave" /\ signal[t])
    /\ state[t] # "zombie"
    /\ Goto(t, "kernel")
    /\ Schedule([state EXCEPT ![t] = "zombie"], counter)
    /\ UNCHANGED <<signal, queues>>

(* The system call returns: schedule() if the time slice is used up.       *)
Return(t) ==
    /\ pc[t] = "kernel"
    /\ Goto(t, "leave")
    /\ IF state[t] # "running" \/ counter[t] = 0 THEN Schedule(state, counter)
       ELSE UNCHANGED <<current, state, counter>>
    /\ UNCHANGED <<signal, queues>>

(* ret_from_sys_call: a pending signal calls its handler, or do_exit().    *)
Leave(t) ==
    /\ pc[t] = "leave"
    /\ signal' = [signal EXCEPT ![t] = FALSE]
    /\ Goto(t, "user")
    /\ UNCHANGED <<current, state, counter, queues>>

(* do_timer(): at the end of its slice a task that runs in user mode is    *)
(* preempted.                                                              *)
Tick(t) ==
    LET left == IF counter[t] > 0 THEN counter[t] - 1 ELSE 0
        cnt == [counter EXCEPT ![t] = left]
    IN /\ IF pc[t] = "user" /\ left = 0 THEN Schedule(state, cnt)
          ELSE counter' = cnt /\ UNCHANGED <<current, state>>
       /\ IF pc[t] = "user" THEN Goto(t, "leave") ELSE UNCHANGED pc
       /\ UNCHANGED <<signal, queues>>

-----------------------------------------------------------------------------
Finish(t) == WakeFromSleep(t) \/ WakeOnTop(t) \/ WakeBelow(t) \/ WakeFromPause(t)
             \/ Return(t) \/ Leave(t)

Next ==
    \/ IdleLoop
    \/ \E q \in Queues : Interrupt(q)
    \/ \E t \in Tasks :
         /\ current = t
         /\ \/ SystemCall(t) \/ Pause(t) \/ Exit(t) \/ Tick(t) \/ Finish(t)
            \/ \E q \in Queues : SleepOn(t, q)
            \/ \E u \in Tasks : Kill(t, u)

Spec == Init /\ [][Next]_vars

(* The timer interrupts whatever runs, for ever; the idle task runs when   *)
(* it is chosen; kernel code comes to an end.  Nothing makes a program     *)
(* call the kernel, or wakes a sleeper.                                    *)
Fairness ==
    /\ WF_vars(IdleLoop)
    /\ WF_vars(\E t \in Tasks : current = t /\ Tick(t))
    /\ WF_vars(\E t \in Tasks : current = t /\ Finish(t))
FairSpec == Spec /\ Fairness

-----------------------------------------------------------------------------
(* Properties *)

(* With sleep_on() alone, a queue points to a task that sleeps on it, and  *)
(* from there, or from a task that has been woken, tmp leads to every      *)
(* other sleeper: whatever set the way does not leave has them all, none   *)
(* is forgotten (sleep_on, wake_up).  Slices do not add up while a task    *)
(* sleeps (TypeOK).                                                        *)
Asleep(q) == {t \in Tasks : on[t] = q /\ state[t] # "running"}
NextToWake(q) == ({queue[q]} \ {NULL}) \cup {t \in Tasks : on[t] = q /\ state[t] = "running"}
Chained(S) == \A t \in S : tmp[t] \in S \cup {NULL}
Reachable(q) == \A S \in SUBSET Tasks : NextToWake(q) \subseteq S /\ Chained(S) => Asleep(q) \subseteq S
QueuesSound ==
    /\ TypeOK
    /\ interruptible = {} =>
         \A q \in Queues : (queue[q] # NULL => queue[q] \in Asleep(q)) /\ Reachable(q)

(* With sleep_on() alone, no wake-up comes through a queue for a task that *)
(* has left it and died (sleep_on, wake_up, do_exit).                      *)
Revived == \E t \in Tasks : state[t] = "zombie" /\ state'[t] # "zombie"
ZombiesStayDead == [][interruptible = {} => ~Revived]_vars

(* A runnable task runs in the end, whatever the others do (schedule,      *)
(* do_timer).                                                              *)
Scheduled == \A t \in Tasks : state[t] = "running" ~> current = t

(* A signal ends an interruptible sleep (schedule).                        *)
Interrupted ==
    \A t \in Tasks : state[t] = "interruptible" /\ signal[t] ~> state[t] = "running"
=============================================================================
