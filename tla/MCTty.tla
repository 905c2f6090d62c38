------------------------------- MODULE MCTty -------------------------------
(* Instances of Tty for TLC. *)
EXTENDS Tty, TLC

MCModes == [kind : {"console", "serial"}, canon : BOOLEAN, echo : BOOLEAN]
=============================================================================
