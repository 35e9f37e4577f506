------------------------------- MODULE Input -------------------------------
(* The input of one of the pure algorithms: a record with its kind. *)
VARIABLE input
=============================================================================
