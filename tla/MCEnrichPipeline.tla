-------------------------- MODULE MCEnrichPipeline --------------------------
(***************************************************************************)
(* Model-checking instances of EnrichPipeline: a queue of one slot that    *)
(* remembers one key, pages of one or two rows, two attempts per job.      *)
(***************************************************************************)
EXTENDS EnrichPipeline
=============================================================================
