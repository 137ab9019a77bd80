---------------------------- MODULE MCSelfUpdate ----------------------------
(***************************************************************************)
(* Model-checking instance of SelfUpdate: two releases after the first,    *)
(* each of any health and one of them without keld, and a memory of one    *)
(* failed release, so that it has to forget.                               *)
(***************************************************************************)
EXTENDS SelfUpdate
=============================================================================
