--------------------------- MODULE MCSpoolBudget ---------------------------
(***************************************************************************)
(* Model-checking instance of SpoolBudget: three keys, records of one byte *)
(* that fit a budget of two and of three that do not, one row per          *)
(* eviction, two rows per page, three writes.                              *)
(***************************************************************************)
EXTENDS SpoolBudget
=============================================================================
