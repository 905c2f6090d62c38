---------------------------- MODULE MCVideoChat ----------------------------
(* Instances of VideoChat for TLC.  A symmetry set would not be sound for  *)
(* LockReleased; that the rooms are alike is used by letting the first     *)
(* session be in r1, and nobody ask for r2 alone before.                   *)
EXTENDS VideoChat
CONSTANTS r1, r2
MCFirstRoom ==
    starts = 0 =>
        /\ my_info.room # r2
        /\ (\E q \in Requests : req[q].room = r2) => \E q \in Requests : req[q].room = r1
=============================================================================
