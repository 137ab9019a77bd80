----------------------------- MODULE Republish -----------------------------
(***************************************************************************)
(* Delivery of the blocks captured while Send to Atlas was off             *)
(* (internal/agent/daemon/republish.go over internal/agent/ledger/unsent.go): *)
(* sweeps over the table of captured payloads, oldest first, in batches    *)
(* that Atlas takes or refuses as a whole; a refused batch is posted again *)
(* one row at a time; a row refused alone RefusalLimit times is held aside.*)
(*                                                                         *)
(* A block is its start time: the order of the table is the order of the   *)
(* numbers.  Atlas refuses every envelope that holds a block of Bad, and   *)
(* may refuse any other MaxWobbles times in all; an answer may also never  *)
(* arrive, whether or not the envelope did.  Time is counted in units of   *)
(* republishInterval.                                                      *)
(***************************************************************************)
EXTENDS Naturals, FiniteSets

CONSTANTS
  Blocks,        \* captured blocks, by start time
  Bad,           \* the blocks Atlas will never take
  BatchSize,     \* republishBatchSize
  RefusalLimit,  \* ledger.UnsentRefusalLimit
  MaxWait,       \* republishMaxInterval, in units of republishInterval
  MaxWobbles,    \* bound: refusals of envelopes without a bad block
  MaxFaults,     \* bound: failed ledger reads and writes, damaged payloads
  MaxRestarts    \* bound: restarts of the daemon

ASSUME RepublishAssumption ==
  /\ Blocks \subseteq Nat /\ IsFiniteSet(Blocks) /\ Bad \subseteq Blocks
  /\ BatchSize \in Nat \ {0} /\ RefusalLimit \in Nat \ {0} /\ MaxWait \in Nat \ {0}
  /\ MaxWobbles \in Nat /\ MaxFaults \in Nat /\ MaxRestarts \in Nat

VARIABLES
  on,        \* Send to Atlas, fixed at startup
  table,     \* unsent_payloads
  damaged,   \* rows whose payload does not decode
  refusals,  \* the refusals column
  pc,        \* "off", "fetch", "post", "clear", "isolate", "wait", "stopped"
  rows,      \* the rows of the batch still to be handled
  refused,   \* refusedThisSweep
  landed,    \* delivered > 0 in this sweep
  wait,      \* the loop's next wait
  stored,    \* blocks Atlas has
  wobbles, faults, restarts  \* counters of the bounds

sweepVars == <<pc, rows, refused, landed, wait>>
tableVars == <<table, damaged, refusals>>
vars == <<on, tableVars, sweepVars, stored, wobbles, faults, restarts>>

Oldest(S, n) == {b \in S : Cardinality({c \in S : c < b}) < n}
head == CHOOSE b \in rows : \A c \in rows : b <= c
-----------------------------------------------------------------------------
Init ==
  /\ on \in BOOLEAN
  /\ pc = (IF on THEN "fetch" ELSE "off")
  /\ table = {} /\ damaged = {} /\ stored = {}
  /\ refusals = [b \in Blocks |-> 0]
  /\ rows = {} /\ refused = {} /\ landed = FALSE /\ wait = 1
  /\ wobbles = 0 /\ faults = 0 /\ restarts = 0

Fault == faults < MaxFaults /\ faults' = faults + 1

\* A row leaves the table, with its count.
Remove(S) ==
  /\ table' = table \ S
  /\ damaged' = damaged \ S
  /\ refusals' = [b \in Blocks |-> IF b \in S THEN 0 ELSE refusals[b]]

\* DeleteUnsentPayload, row by row: a failed delete is only logged.
Delete(S) ==
  \E kept \in SUBSET S :
    /\ Remove(S \ kept)
    /\ IF kept = {} THEN UNCHANGED faults ELSE Fault

\* captureOnCut, while Atlas is off: a block cut again overwrites its payload
\* and keeps its count.
Capture(b) ==
  /\ ~on
  /\ table' = table \cup {b}
  /\ damaged' = damaged \ {b}
  /\ UNCHANGED <<on, refusals, sweepVars, stored, wobbles, faults, restarts>>

\* A payload on disk stops being readable.
Damage(b) ==
  /\ b \in table \ damaged
  /\ Fault
  /\ damaged' = damaged \cup {b}
  /\ UNCHANGED <<on, table, refusals, sweepVars, stored, wobbles, restarts>>

\* The daemon dies and starts again, perhaps with the setting changed.
Restart ==
  /\ restarts < MaxRestarts
  /\ restarts' = restarts + 1
  /\ on' \in BOOLEAN
  /\ pc' = IF on' THEN "fetch" ELSE "off"
  /\ rows' = {} /\ refused' = {} /\ landed' = FALSE /\ wait' = 1
  /\ UNCHANGED <<tableVars, stored, wobbles, faults>>
-----------------------------------------------------------------------------
EndSweep(next) == pc' = next /\ rows' = {} /\ UNCHANGED <<refused, landed, wait>>

\* The ledger cannot be read: the sweep ends, to be tried again.
FetchFails ==
  /\ pc = "fetch"
  /\ Fault
  /\ EndSweep("wait")
  /\ UNCHANGED <<on, tableVars, stored, wobbles, restarts>>

\* Faulty variants ("mutants" of PROJECT.json), used by no specification.
OfferableHeldAside == table

\* UnsentPayloads offers no row at the limit.
Offerable == {b \in table : refusals[b] < RefusalLimit}

NextBatchAgain(offered) == Oldest(offered, BatchSize)

\* What this fetch reads, and which of it this sweep has not had refused.
Offered == Oldest(Offerable, BatchSize + Cardinality(refused))
NextBatch(offered) == Oldest(offered \ refused, BatchSize)

FetchStopping ==
  /\ pc = "fetch"
  /\ LET batch == NextBatch(Offered)
     IN  \/ /\ batch = {}
            /\ EndSweep("stopped")
            /\ UNCHANGED <<tableVars, faults>>
         \/ /\ batch # {}
            /\ Delete(batch \cap damaged)
            /\ rows' = batch \ damaged
            /\ pc' = IF batch \subseteq damaged THEN "fetch" ELSE "post"
            /\ UNCHANGED <<refused, landed, wait>>
  /\ UNCHANGED <<on, stored, wobbles, restarts>>

\* Nothing to offer ends the loop, nothing new ends the sweep; rows that do not
\* decode are deleted, and a batch of nothing else is followed by the next one.
Fetch ==
  /\ pc = "fetch"
  /\ LET batch == NextBatch(Offered)
     IN  \/ /\ Offered = {}
            /\ EndSweep("stopped")
            /\ UNCHANGED <<tableVars, faults>>
         \/ /\ Offered # {} /\ batch = {}
            /\ EndSweep("wait")
            /\ UNCHANGED <<tableVars, faults>>
         \/ /\ batch # {}
            /\ Delete(batch \cap damaged)
            /\ rows' = batch \ damaged
            /\ pc' = IF batch \subseteq damaged THEN "fetch" ELSE "post"
            /\ UNCHANGED <<refused, landed, wait>>
  /\ UNCHANGED <<on, stored, wobbles, restarts>>

\* The whole envelope landed.
PostAccepted ==
  /\ pc = "post" /\ rows \cap Bad = {}
  /\ stored' = stored \cup rows
  /\ pc' = "clear"
  /\ landed' = TRUE
  /\ UNCHANGED <<on, tableVars, rows, refused, wait, wobbles, faults, restarts>>

\* ... and its rows are deleted one after the other.
Clear ==
  /\ pc = "clear"
  /\ Delete({head})
  /\ rows' = rows \ {head}
  /\ pc' = IF rows = {head} THEN "fetch" ELSE "clear"
  /\ UNCHANGED <<on, refused, landed, wait, stored, wobbles, restarts>>

Wobble(S) ==
  \/ S \cap Bad # {} /\ UNCHANGED wobbles
  \/ S \cap Bad = {} /\ wobbles < MaxWobbles /\ wobbles' = wobbles + 1

PostRefusedCounted ==
  /\ pc = "post" /\ Wobble(rows)
  /\ pc' = "isolate"
  /\ refusals' = [b \in Blocks |-> IF b \in rows THEN refusals[b] + 1 ELSE refusals[b]]
  /\ UNCHANGED <<on, table, damaged, rows, refused, landed, wait, stored, faults, restarts>>

\* A verdict about the envelope, not about a row: isolate.
PostRefused ==
  /\ pc = "post" /\ Wobble(rows)
  /\ pc' = "isolate"
  /\ UNCHANGED <<on, tableVars, rows, refused, landed, wait, stored, faults, restarts>>

\* The credential was rejected, or no answer came (the rows may have landed):
\* the sweep ends here, and nothing is counted.
PostFails ==
  /\ pc \in {"post", "isolate"}
  /\ LET posted == IF pc = "post" THEN rows ELSE {head}
     IN  stored' \in {stored} \cup (IF posted \cap Bad = {} THEN {stored \cup posted} ELSE {})
  /\ EndSweep("wait")
  /\ UNCHANGED <<on, tableVars, wobbles, faults, restarts>>

\* republishIsolate goes on with the next row, and then with the next batch.
NextRow ==
  /\ rows' = rows \ {head}
  /\ pc' = IF rows = {head} THEN "fetch" ELSE "isolate"
  /\ UNCHANGED wait

IsolateAccepted ==
  /\ pc = "isolate" /\ head \notin Bad
  /\ stored' = stored \cup {head}
  /\ landed' = TRUE
  /\ Delete({head})
  /\ NextRow
  /\ UNCHANGED <<on, refused, wobbles, restarts>>

IsolateRefusedDropping ==
  /\ pc = "isolate" /\ Wobble({head})
  /\ refused' = refused \cup {head}
  /\ IF refusals[head] + 1 = RefusalLimit THEN Remove({head})
     ELSE /\ refusals' = [refusals EXCEPT ![head] = @ + 1]
          /\ UNCHANGED <<table, damaged>>
  /\ NextRow
  /\ UNCHANGED <<on, landed, stored, faults, restarts>>

IsolateRefusedUncounted ==
  /\ pc = "isolate" /\ Wobble({head})
  /\ refused' = refused \cup {head}
  /\ NextRow
  /\ UNCHANGED <<on, tableVars, landed, stored, faults, restarts>>

\* A verdict about this row: counted once this sweep, if the ledger can be written.
IsolateRefused ==
  /\ pc = "isolate" /\ Wobble({head})
  /\ refused' = refused \cup {head}
  /\ \/ refusals' = [refusals EXCEPT ![head] = @ + 1] /\ UNCHANGED faults
     \/ Fault /\ UNCHANGED refusals
  /\ NextRow
  /\ UNCHANGED <<on, table, damaged, landed, stored, restarts>>

\* The loop's timer: the wait doubles after a sweep in which nothing landed.
Wake ==
  /\ pc = "wait"
  /\ pc' = "fetch"
  /\ wait' = IF landed THEN 1 ELSE IF 2 * wait < MaxWait THEN 2 * wait ELSE MaxWait
  /\ refused' = {} /\ landed' = FALSE
  /\ UNCHANGED <<on, tableVars, rows, stored, wobbles, faults, restarts>>
-----------------------------------------------------------------------------
PostVerdict == PostAccepted \/ PostRefused
RowVerdict == IsolateAccepted \/ IsolateRefused

Sweep == FetchFails \/ Fetch \/ Clear \/ PostVerdict \/ RowVerdict \/ PostFails \/ Wake

Next ==
  \/ \E b \in Blocks : Capture(b) \/ Damage(b)
  \/ Restart
  \/ Sweep

Spec == Init /\ [][Next]_vars

\* The republisher is one goroutine that runs on.  Atlas, asked again and again
\* about envelopes, or about rows, answers one of them in the end.
Fairness == WF_vars(Sweep) /\ SF_vars(PostVerdict) /\ SF_vars(RowVerdict)

FairSpec == Spec /\ Fairness
-----------------------------------------------------------------------------
RepublishTypeOK ==
  /\ on \in BOOLEAN /\ landed \in BOOLEAN
  /\ table \subseteq Blocks /\ damaged \subseteq table
  /\ refusals \in [Blocks -> 0 .. RefusalLimit]
  /\ pc \in {"off", "fetch", "post", "clear", "isolate", "wait", "stopped"}
  /\ rows \subseteq Blocks /\ refused \subseteq Blocks /\ stored \subseteq Blocks
  /\ wait \in 1 .. MaxWait
  /\ wobbles \in 0 .. MaxWobbles /\ faults \in 0 .. MaxFaults /\ restarts \in 0 .. MaxRestarts

\* A captured block is forgotten only when Atlas has it or nobody can read it:
\* no refusal, failed post, restart or lost answer drops one.
NothingLost ==
  [][\A b \in table \ table' : b \in stored' \/ b \in damaged]_vars

\* One unacceptable block does not drag the good blocks of its batches with it:
\* whatever is counted against a good block, Atlas said about that block alone.
GoodNotBlamed == \A b \in Blocks \ Bad : refusals[b] <= wobbles

\* Refusals count occasions, not requests: within one sweep a block is counted
\* at most once, however many batches the sweep fetches.
RefusedOncePerSweep ==
  [][\A b \in Blocks : refusals'[b] > refusals[b] => b \notin refused /\ b \in refused']_vars

\* Every good block arrives, whatever bad blocks are captured before it,
\* provided Atlas wavers less often than the limit.
GoodDelivered ==
  \A b \in Blocks \ Bad : (b \in table /\ on) ~> (b \in stored \/ b \notin table \/ ~on)

\* A genuine rejection is not retried forever: the loop comes to its end.
ComesToRest == on ~> (pc = "stopped" \/ ~on)
=============================================================================
