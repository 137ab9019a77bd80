--------------------------- MODULE MCBlockEmitter ---------------------------
(***************************************************************************)
(* Model-checking instance of BlockEmitter: an answer may hold two blocks, *)
(* a post one, so a page is banked in two steps.                           *)
(***************************************************************************)
EXTENDS BlockEmitter
=============================================================================
