---------------------------- MODULE MCAttributor ----------------------------
(***************************************************************************)
(* Model-checking instance of Attributor: a slice of one job, so that the  *)
(* job that waits stands in front of the one that need not.                *)
(***************************************************************************)
EXTENDS Attributor
=============================================================================
