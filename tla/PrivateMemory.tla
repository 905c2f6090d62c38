--------------------------- MODULE PrivateMemory ---------------------------
(***************************************************************************)
(* What fork(), execve(), exit() and demand paging promise to a program:   *)
(* every task has a memory of its own.  A step touches the memory of one   *)
(* task only, and a forked child starts with a copy of its parent's.       *)
(*                                                                         *)
(* There are no frames, page tables or reference counts here.  Memory.tla  *)
(* implements this with shared, copy-on-write frames.                      *)
(***************************************************************************)
CONSTANTS Tasks,    \* the slots of task[]
          Addr,     \* the pages of a task's linear address space
          ArgAddrs, \* the pages that receive the arguments of execve()
          Values,   \* what a page can contain
          Zero,     \* the contents of a page nobody has written yet
          Absent    \* a page the task has not touched

VARIABLE view       \* view[t][a]: what task t reads at a

Empty == [a \in Addr |-> Absent]

Init == \E t \in Tasks, m \in [Addr -> Values \cup {Absent}] :
            view = [u \in Tasks |-> IF u = t THEN m ELSE Empty]

(* The first access to a page finds it zeroed. *)
Touch(t, a) == /\ view[t][a] = Absent
               /\ view' = [view EXCEPT ![t][a] = Zero]

Store(t, a, v) == /\ view[t][a] # Absent
                  /\ view' = [view EXCEPT ![t][a] = v]

(* fork(): the child's memory is the parent's, as it is now. *)
Clone(p, c) == /\ view[c] = Empty
               /\ view' = [view EXCEPT ![c] = view[p]]

(* execve(): nothing is left but the arguments on the new stack. *)
Replace(t) == \E m \in [Addr -> Values \cup {Absent}] :
                 /\ \A a \in Addr : m[a] # Absent => a \in ArgAddrs
                 /\ view' = [view EXCEPT ![t] = m]

Discard(t) == view' = [view EXCEPT ![t] = Empty]

Next == \E t \in Tasks :
           \/ \E a \in Addr : Touch(t, a)
           \/ \E a \in Addr, v \in Values : Store(t, a, v)
           \/ \E c \in Tasks : Clone(t, c)
           \/ Replace(t)
           \/ Discard(t)

Spec == Init /\ [][Next]_view
=============================================================================
