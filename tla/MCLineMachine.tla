---------------------------- MODULE MCLineMachine ----------------------------
(* An instance of LineMachine for TLC. *)
EXTENDS LineMachine

MCLineBase == -1
=============================================================================
