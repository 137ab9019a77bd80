------------------------------ MODULE SpoolRows ------------------------------
(***************************************************************************)
(* What the spool promises (internal/spool): one row per prompt, drained   *)
(* oldest first.  A write adds a row behind all others or, when the prompt *)
(* has a row, leaves every row where it is; a deletion moves none.         *)
(*                                                                         *)
(* SpoolBudget implements it statement by statement, among several         *)
(* processes; EnrichPipeline uses the spool as no more than this.          *)
(***************************************************************************)
CONSTANT Keys

VARIABLES
  rows,   \* the prompts that have a row
  before  \* <<j, k>>: j's row is drained before k's

rowVars == <<rows, before>>

Init == rows = {} /\ before = {}

Write(k) ==
  /\ rows' = rows \cup {k}
  /\ before' = before \cup (IF k \in rows THEN {} ELSE rows \X {k})

Delete(gone) ==
  /\ rows' = rows \ gone
  /\ before' = before \cap (rows' \X rows')

Next == (\E k \in Keys : Write(k)) \/ (\E gone \in SUBSET rows : Delete(gone))

Spec == Init /\ [][Next]_rowVars
-----------------------------------------------------------------------------
\* The order of the rows is total and strict: a pass that reads past the last row
\* it saw meets each row that stays once, and none twice (Drain's lastID).
OneOrder ==
  /\ before \subseteq rows \X rows
  /\ \A j, k \in rows : j # k => <<j, k>> \in before \/ <<k, j>> \in before
  /\ \A j, k \in rows : <<j, k>> \in before => <<k, j>> \notin before
  /\ \A i, j, k \in rows : <<i, j>> \in before /\ <<j, k>> \in before => <<i, k>> \in before
=============================================================================
