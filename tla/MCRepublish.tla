---------------------------- MODULE MCRepublish ----------------------------
(***************************************************************************)
(* Model-checking instances of Republish: blocks 1 .. N, the oldest bad,   *)
(* batches of two.  With two bad blocks at the head, the good ones behind  *)
(* them are reached only because refused rows are excluded from the sweep. *)
(***************************************************************************)
EXTENDS Republish
=============================================================================
