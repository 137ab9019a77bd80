----------------------------- MODULE MCSidecar -----------------------------
(***************************************************************************)
(* Model-checking instance of Sidecar: every constant of the code shrunk,  *)
(* in the order the code has them, and a cooldown longer than the ladder.  *)
(***************************************************************************)
EXTENDS Sidecar
=============================================================================
