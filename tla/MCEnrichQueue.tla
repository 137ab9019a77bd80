--------------------------- MODULE MCEnrichQueue ---------------------------
(***************************************************************************)
(* Model-checking instance of EnrichQueue: three keys against a channel of *)
(* two slots and a memory of two keys, and two consumers, so that Full,    *)
(* eviction from recent, a re-offer between the halves of Next and a Close *)
(* with jobs in hand all occur.                                            *)
(***************************************************************************)
EXTENDS EnrichQueue
=============================================================================
