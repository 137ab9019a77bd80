--------------------------- MODULE RepublishProofs ---------------------------
(***************************************************************************)
(* Proofs about Republish for every set of blocks, batch size, refusal     *)
(* limit and bound: no captured block is dropped, no good block is blamed  *)
(* for a bad one, and a sweep counts a block at most once.                 *)
(*                                                                         *)
(* RepublishInv ties the batch in hand to the rest of the state: while an  *)
(* answer is handled the batch has rows, none of them was refused in this  *)
(* sweep, and the batch being cleared has landed.                          *)
(***************************************************************************)
EXTENDS Republish, WellFoundedInduction, TLAPS

RepublishInv ==
  /\ table \subseteq Blocks /\ rows \subseteq Blocks
  /\ pc \in {"off", "fetch", "post", "clear", "isolate", "wait", "stopped"}
  /\ pc \in {"post", "clear", "isolate"} => rows # {}
  /\ pc = "clear" => rows \subseteq stored
  /\ rows \cap refused = {} \/ pc = "clear"
  /\ refusals \in [Blocks -> Nat]
  /\ wobbles \in Nat
  /\ GoodNotBlamed

-----------------------------------------------------------------------------
\* A set of blocks that is not empty has an oldest one.
LEMMA HeadOfRows ==
  ASSUME rows \subseteq Blocks, rows # {}
  PROVE  head \in rows
<1>1. rows \subseteq Nat
  BY RepublishAssumption
<1>2. \E x \in rows : \A y \in rows : ~(<<y, x>> \in OpToRel(<, Nat))
  BY <1>1, WFMin, NatLessThanWellFounded
<1>3. \E x \in rows : \A y \in rows : ~(y < x)
  BY <1>1, <1>2 DEF OpToRel
<1>4. \E x \in rows : \A y \in rows : x <= y
  BY <1>1, <1>3
<1> QED BY <1>4 DEF head

\* What is fetched for a batch is in the table and new to this sweep.
LEMMA NextBatchNew ==
  /\ NextBatch(Offered) \subseteq table
  /\ NextBatch(Offered) \cap refused = {}
BY DEF NextBatch, Offered, Offerable, Oldest

\* Deleting rows only lowers counts, and touches no row outside the set.
LEMMA DeleteLowers ==
  ASSUME refusals \in [Blocks -> Nat], NEW S, Delete(S)
  PROVE  /\ refusals' \in [Blocks -> Nat]
         /\ \A b \in Blocks : refusals'[b] <= refusals[b]
         /\ table \ table' \subseteq S
         /\ table' \subseteq table
BY DEF Delete, Remove, tableVars

\* A step that lowers no good block's credit keeps it unblamed.
LEMMA StillNotBlamed ==
  ASSUME GoodNotBlamed, wobbles \in Nat, wobbles' \in Nat, wobbles <= wobbles',
         refusals \in [Blocks -> Nat], refusals' \in [Blocks -> Nat],
         \A b \in Blocks : refusals'[b] <= refusals[b]
  PROVE  GoodNotBlamed'
BY DEF GoodNotBlamed

\* The initial states satisfy the invariant.
LEMMA InitRepublishInv == Init => RepublishInv
BY DEF Init, RepublishInv, GoodNotBlamed

\* The steps that take no block in hand and count nothing.
LEMMA QuietInv ==
  ASSUME RepublishInv, rows' = {}, pc' \in {"off", "fetch", "wait", "stopped"},
         table' = table, refusals' = refusals, wobbles' = wobbles
  PROVE  RepublishInv'
BY DEF RepublishInv, GoodNotBlamed

\* Fetch: the batch in hand is new to this sweep.
LEMMA FetchInv ==
  ASSUME RepublishInv, Fetch
  PROVE  RepublishInv'
<1> DEFINE batch == NextBatch(Offered)
<1>1. wobbles' = wobbles
  BY DEF Fetch
<1>2. CASE UNCHANGED tableVars /\ (EndSweep("stopped") \/ EndSweep("wait"))
  BY <1>1, <1>2, QuietInv DEF EndSweep, tableVars
<1>3. CASE /\ Delete(batch \cap damaged)
           /\ rows' = batch \ damaged
           /\ pc' = IF batch \subseteq damaged THEN "fetch" ELSE "post"
           /\ refused' = refused
  <2>1. /\ refusals' \in [Blocks -> Nat]
        /\ \A b \in Blocks : refusals'[b] <= refusals[b]
        /\ table' \subseteq table
    BY <1>3, DeleteLowers DEF RepublishInv
  <2>2. GoodNotBlamed'
    BY <1>1, <2>1, StillNotBlamed DEF RepublishInv
  <2>3. batch \subseteq table /\ batch \cap refused = {}
    BY NextBatchNew
  <2> HIDE DEF batch
  <2> QED BY <1>1, <1>3, <2>1, <2>2, <2>3 DEF RepublishInv
<1> QED BY <1>2, <1>3 DEF Fetch, tableVars

\* Clear: what is left of the batch has still landed.
LEMMA ClearInv ==
  ASSUME RepublishInv, Clear
  PROVE  RepublishInv'
<1>1. /\ refusals' \in [Blocks -> Nat]
      /\ \A b \in Blocks : refusals'[b] <= refusals[b]
      /\ table' \subseteq table
  BY DeleteLowers DEF RepublishInv, Clear
<1>2. wobbles' = wobbles
  BY DEF Clear
<1>3. GoodNotBlamed'
  BY <1>1, <1>2, StillNotBlamed DEF RepublishInv
<1>4. head \in rows
  BY HeadOfRows DEF RepublishInv, Clear
<1> QED BY <1>1, <1>2, <1>3, <1>4 DEF RepublishInv, Clear

\* A verdict about the envelope counts nothing against its rows.
LEMMA PostInv ==
  ASSUME RepublishInv, PostAccepted \/ PostRefused
  PROVE  RepublishInv'
<1>1. /\ table' = table /\ refusals' = refusals /\ rows' = rows /\ refused' = refused
      /\ wobbles' \in Nat /\ wobbles <= wobbles'
  BY DEF PostAccepted, PostRefused, Wobble, tableVars, RepublishInv
<1>2. GoodNotBlamed'
  BY <1>1, StillNotBlamed DEF RepublishInv
<1> QED BY <1>1, <1>2 DEF RepublishInv, PostAccepted, PostRefused

\* A row that lands alone leaves the batch.
LEMMA IsolateAcceptedInv ==
  ASSUME RepublishInv, IsolateAccepted
  PROVE  RepublishInv'
<1>1. /\ refusals' \in [Blocks -> Nat]
      /\ \A b \in Blocks : refusals'[b] <= refusals[b]
      /\ table' \subseteq table
  BY DeleteLowers DEF RepublishInv, IsolateAccepted
<1>2. wobbles' = wobbles /\ refused' = refused
  BY DEF IsolateAccepted
<1>3. GoodNotBlamed'
  BY <1>1, <1>2, StillNotBlamed DEF RepublishInv
<1>4. head \in rows
  BY HeadOfRows DEF RepublishInv, IsolateAccepted
<1> QED BY <1>1, <1>2, <1>3, <1>4 DEF RepublishInv, IsolateAccepted, NextRow

\* A row refused alone: a good one is blamed for the wobble it met.
LEMMA IsolateRefusedInv ==
  ASSUME RepublishInv, IsolateRefused
  PROVE  RepublishInv'
<1>1. head \in rows /\ head \in Blocks
  BY HeadOfRows DEF RepublishInv, IsolateRefused
<1>2. /\ refusals' \in [Blocks -> Nat]
      /\ \A b \in Blocks : b # head => refusals'[b] = refusals[b]
      /\ refusals'[head] <= refusals[head] + 1
  BY <1>1 DEF IsolateRefused, RepublishInv
<1>3. /\ wobbles' \in Nat /\ wobbles <= wobbles'
      /\ head \notin Bad => wobbles' = wobbles + 1
  BY DEF IsolateRefused, Wobble, RepublishInv
<1>4. GoodNotBlamed'
  <2> SUFFICES ASSUME NEW b \in Blocks \ Bad PROVE refusals'[b] <= wobbles'
    BY DEF GoodNotBlamed
  <2>1. refusals[b] <= wobbles /\ refusals[b] \in Nat /\ refusals'[b] \in Nat /\ wobbles \in Nat
    BY <1>2 DEF RepublishInv, GoodNotBlamed
  <2>2. CASE b = head
    BY <2>1, <2>2, <1>2, <1>3
  <2>3. CASE b # head
    BY <2>1, <2>3, <1>2, <1>3
  <2> QED BY <2>2, <2>3
<1> QED BY <1>1, <1>2, <1>3, <1>4 DEF RepublishInv, IsolateRefused, NextRow

\* The invariant is inductive.
LEMMA RepublishInvStep == RepublishInv /\ [Next]_vars => RepublishInv'
<1> SUFFICES ASSUME RepublishInv, [Next]_vars PROVE RepublishInv'
  OBVIOUS
<1>1. ASSUME NEW b \in Blocks, Capture(b) \/ Damage(b) PROVE RepublishInv'
  BY <1>1 DEF Capture, Damage, RepublishInv, GoodNotBlamed, sweepVars
<1>2. CASE Restart
  BY <1>2, QuietInv DEF Restart, tableVars
<1>3. CASE FetchFails
  BY <1>3, QuietInv DEF FetchFails, EndSweep, tableVars
<1>4. CASE Fetch
  BY <1>4, FetchInv
<1>5. CASE Clear
  BY <1>5, ClearInv
<1>6. CASE PostVerdict
  BY <1>6, PostInv DEF PostVerdict
<1>7. CASE RowVerdict
  BY <1>7, IsolateAcceptedInv, IsolateRefusedInv DEF RowVerdict
<1>8. CASE PostFails
  BY <1>8, QuietInv DEF PostFails, EndSweep, tableVars
<1>9. CASE Wake
  BY <1>9 DEF Wake, tableVars, RepublishInv, GoodNotBlamed
<1>10. CASE UNCHANGED vars
  BY <1>10 DEF vars, tableVars, sweepVars, RepublishInv, GoodNotBlamed
<1> QED BY <1>1, <1>2, <1>3, <1>4, <1>5, <1>6, <1>7, <1>8, <1>9, <1>10 DEF Next, Sweep
-----------------------------------------------------------------------------
(* The theorems.                                                           *)

\* Every reachable state satisfies the invariant.
THEOREM RepublishInvariance == Spec => []RepublishInv
<1>1. Init => RepublishInv
  BY InitRepublishInv
<1>2. RepublishInv /\ [Next]_vars => RepublishInv'
  BY RepublishInvStep
<1> QED BY <1>1, <1>2, PTL DEF Spec

\* No good block is blamed for a bad one of its batch.
THEOREM GoodBlocksNotBlamed == Spec => []GoodNotBlamed
<1>1. RepublishInv => GoodNotBlamed
  BY DEF RepublishInv
<1> QED BY <1>1, RepublishInvariance, PTL

\* No captured block is dropped that Atlas does not have and can be read.
THEOREM CapturedNotLost == Spec => NothingLost
<1> DEFINE A == \A b \in table \ table' : b \in stored' \/ b \in damaged
<1>1. RepublishInv /\ [Next]_vars => [A]_vars
  <2> SUFFICES ASSUME RepublishInv, Next PROVE A
    OBVIOUS
  <2>1. ASSUME NEW b \in Blocks, Capture(b) \/ Damage(b) PROVE A
    BY <2>1 DEF Capture, Damage
  <2>2. CASE Restart \/ FetchFails \/ PostVerdict \/ PostFails \/ IsolateRefused \/ Wake
    BY <2>2 DEF Restart, FetchFails, PostVerdict, PostAccepted, PostRefused, PostFails,
                IsolateRefused, Wake, tableVars
  <2>3. CASE Fetch
    <3> DEFINE S == NextBatch(Offered) \cap damaged
    <3>1. Delete(S) \/ table' = table
      BY <2>3 DEF Fetch, tableVars
    <3>2. Delete(S) => table \ table' \subseteq S
      BY DeleteLowers DEF RepublishInv
    <3> QED BY <3>1, <3>2
  <2>4. CASE Clear
    <3>1. head \in rows /\ head \in stored'
      BY <2>4, HeadOfRows DEF Clear, RepublishInv
    <3>2. table \ table' \subseteq {head}
      BY <2>4, DeleteLowers DEF Clear, RepublishInv
    <3> QED BY <3>1, <3>2
  <2>5. CASE IsolateAccepted
    <3>1. head \in stored'
      BY <2>5 DEF IsolateAccepted
    <3>2. table \ table' \subseteq {head}
      BY <2>5, DeleteLowers DEF IsolateAccepted, RepublishInv
    <3> QED BY <3>1, <3>2
  <2> QED BY <2>1, <2>2, <2>3, <2>4, <2>5 DEF Next, Sweep, RowVerdict
<1> QED BY <1>1, RepublishInvariance, PTL DEF Spec, NothingLost

\* A block is counted at most once in a sweep.
THEOREM CountedOncePerSweep == Spec => RefusedOncePerSweep
<1> DEFINE A == \A b \in Blocks : refusals'[b] > refusals[b] => b \notin refused /\ b \in refused'
<1>1. RepublishInv /\ [Next]_vars => [A]_vars
  <2> SUFFICES ASSUME RepublishInv, Next PROVE A
    OBVIOUS
  <2>1. CASE IsolateRefused
    <3>1. head \in rows /\ rows \cap refused = {}
      BY <2>1, HeadOfRows DEF IsolateRefused, RepublishInv
    <3>2. \A b \in Blocks : b # head => refusals'[b] = refusals[b]
      BY <2>1 DEF IsolateRefused, RepublishInv
    <3>3. refused' = refused \cup {head}
      BY <2>1 DEF IsolateRefused
    <3>4. \A b \in Blocks : refusals[b] \in Nat
      BY DEF RepublishInv
    <3> QED BY <3>1, <3>2, <3>3, <3>4
  <2>2. ASSUME refusals' = refusals PROVE A
    BY <2>2 DEF RepublishInv
  <2>3. ASSUME NEW S, Delete(S) PROVE A
    <3>1. /\ refusals' \in [Blocks -> Nat] /\ refusals \in [Blocks -> Nat]
          /\ \A b \in Blocks : refusals'[b] <= refusals[b]
      BY <2>3, DeleteLowers DEF RepublishInv
    <3> QED BY <3>1
  <2>4. CASE Fetch
    BY <2>2, <2>3, <2>4 DEF Fetch, tableVars
  <2>5. CASE Clear \/ IsolateAccepted
    BY <2>3, <2>5 DEF Clear, IsolateAccepted
  <2>6. CASE \/ \E b \in Blocks : Capture(b) \/ Damage(b)
             \/ Restart \/ FetchFails \/ PostVerdict \/ PostFails \/ Wake
    BY <2>2, <2>6 DEF Capture, Damage, Restart, FetchFails, PostVerdict, PostAccepted,
                      PostRefused, PostFails, Wake, tableVars
  <2> QED BY <2>1, <2>4, <2>5, <2>6 DEF Next, Sweep, RowVerdict
<1> QED BY <1>1, RepublishInvariance, PTL DEF Spec, RefusedOncePerSweep

-----------------------------------------------------------------------------
(* Types.  That a count stays within the limit needs that no row which has *)
(* reached it is offered.                                                  *)

CountsLeft == pc \in {"post", "isolate"} => \A b \in rows : refusals[b] < RefusalLimit

TypeInv == RepublishTypeOK /\ CountsLeft

\* The constants are numbers.
LEMMA Bounds ==
  /\ RefusalLimit \in Nat /\ RefusalLimit > 0 /\ MaxWait \in Nat /\ MaxWait > 0
  /\ MaxWobbles \in Nat /\ MaxFaults \in Nat /\ MaxRestarts \in Nat
BY RepublishAssumption

\* What deleting leaves of the types.
LEMMA DeleteTypes ==
  ASSUME TypeInv, NEW S \in SUBSET Blocks, Delete(S)
  PROVE  /\ table' \subseteq Blocks /\ damaged' \subseteq table'
         /\ refusals' \in [Blocks -> 0 .. RefusalLimit]
         /\ \A b \in Blocks : refusals'[b] <= refusals[b]
         /\ faults' \in 0 .. MaxFaults
<1> USE Bounds
<1>1. PICK kept \in SUBSET S : Remove(S \ kept) /\ (IF kept = {} THEN UNCHANGED faults ELSE Fault)
  BY DEF Delete
<1>2. faults' \in 0 .. MaxFaults
  BY <1>1 DEF TypeInv, RepublishTypeOK, Fault
<1>3. table' \subseteq Blocks /\ damaged' \subseteq table'
  BY <1>1 DEF TypeInv, RepublishTypeOK, Remove
<1>4. /\ refusals' \in [Blocks -> 0 .. RefusalLimit]
      /\ \A b \in Blocks : refusals'[b] <= refusals[b]
  BY <1>1 DEF TypeInv, RepublishTypeOK, Remove
<1> QED BY <1>2, <1>3, <1>4

\* What a step owes the types when it leaves the table alone.
LEMMA TableKept ==
  ASSUME TypeInv, UNCHANGED tableVars, rows' \subseteq rows,
         pc' \in {"off", "fetch", "post", "clear", "isolate", "wait", "stopped"},
         pc' \in {"post", "isolate"} => pc \in {"post", "isolate"} \/ rows' = {},
         on' \in BOOLEAN, landed' \in BOOLEAN, refused' \subseteq Blocks,
         stored' \subseteq Blocks, wait' \in 1 .. MaxWait, wobbles' \in 0 .. MaxWobbles,
         faults' \in 0 .. MaxFaults, restarts' \in 0 .. MaxRestarts
  PROVE  TypeInv'
<1>1. CountsLeft'
  BY DEF TypeInv, CountsLeft, tableVars
<1> QED BY <1>1 DEF TypeInv, RepublishTypeOK, tableVars

LEMMA FetchTypes ==
  ASSUME RepublishInv, TypeInv, Fetch
  PROVE  TypeInv'
<1> DEFINE batch == NextBatch(Offered)
<1>1. CASE UNCHANGED <<tableVars, faults>> /\ (EndSweep("stopped") \/ EndSweep("wait"))
  <2>1. /\ UNCHANGED tableVars /\ rows' = {} /\ pc' \in {"stopped", "wait"}
        /\ UNCHANGED <<on, stored, wobbles, restarts, refused, landed, wait, faults>>
    BY <1>1 DEF EndSweep, Fetch
  <2> QED BY <2>1, TableKept DEF TypeInv, RepublishTypeOK
<1>2. CASE /\ Delete(batch \cap damaged)
           /\ rows' = batch \ damaged
           /\ pc' = IF batch \subseteq damaged THEN "fetch" ELSE "post"
           /\ UNCHANGED <<refused, landed, wait>>
  <2>1. UNCHANGED <<on, stored, wobbles, restarts>>
    BY DEF Fetch
  <2>2. batch \subseteq Blocks /\ \A b \in batch : refusals[b] < RefusalLimit
    BY DEF NextBatch, Offered, Offerable, Oldest, TypeInv, RepublishTypeOK
  <2>3. batch \cap damaged \in SUBSET Blocks
    BY <2>2
  <2> HIDE DEF batch
  <2>4. /\ table' \subseteq Blocks /\ damaged' \subseteq table'
        /\ refusals' \in [Blocks -> 0 .. RefusalLimit]
        /\ \A b \in Blocks : refusals'[b] <= refusals[b]
        /\ faults' \in 0 .. MaxFaults
    BY <1>2, <2>3, DeleteTypes
  <2>5. CountsLeft'
    <3> SUFFICES ASSUME NEW b \in rows' PROVE refusals'[b] < RefusalLimit
      BY DEF CountsLeft
    <3>1. b \in Blocks /\ refusals[b] < RefusalLimit
      BY <1>2, <2>2
    <3>2. refusals[b] \in Nat /\ refusals'[b] \in Nat /\ refusals'[b] <= refusals[b]
      BY <2>4, <3>1 DEF TypeInv, RepublishTypeOK
    <3> QED BY <3>1, <3>2, Bounds
  <2>6. rows' \subseteq Blocks /\ pc' \in {"fetch", "post"}
    BY <1>2, <2>2
  <2> QED BY <1>2, <2>1, <2>4, <2>5, <2>6 DEF TypeInv, RepublishTypeOK
<1> QED BY <1>1, <1>2 DEF Fetch

LEMMA IsolateTypes ==
  ASSUME RepublishInv, TypeInv, RowVerdict
  PROVE  TypeInv'
<1> USE Bounds
<1>1. head \in rows /\ head \in Blocks /\ pc = "isolate"
  BY HeadOfRows DEF RowVerdict, IsolateAccepted, IsolateRefused, RepublishInv
<1>2. rows' \subseteq rows \ {head} /\ pc' \in {"fetch", "isolate"} /\ UNCHANGED wait
  BY DEF RowVerdict, IsolateAccepted, IsolateRefused, NextRow
<1>3. CASE IsolateAccepted
  <2>1. /\ table' \subseteq Blocks /\ damaged' \subseteq table'
        /\ refusals' \in [Blocks -> 0 .. RefusalLimit]
        /\ \A b \in Blocks : refusals'[b] <= refusals[b]
        /\ faults' \in 0 .. MaxFaults
    BY <1>1, <1>3, DeleteTypes DEF IsolateAccepted
  <2>2. CountsLeft'
    BY <1>1, <1>2, <2>1 DEF CountsLeft, TypeInv, RepublishTypeOK
  <2> QED BY <1>1, <1>2, <1>3, <2>1, <2>2 DEF IsolateAccepted, TypeInv, RepublishTypeOK
<1>4. CASE IsolateRefused
  <2>1. refusals[head] < RefusalLimit /\ \A b \in rows : refusals[b] < RefusalLimit
    BY <1>1 DEF TypeInv, CountsLeft
  <2>2. /\ refusals' \in [Blocks -> 0 .. RefusalLimit]
        /\ \A b \in Blocks : b # head => refusals'[b] = refusals[b]
        /\ faults' \in 0 .. MaxFaults
    BY <1>1, <1>4, <2>1 DEF IsolateRefused, Fault, TypeInv, RepublishTypeOK
  <2>3. wobbles' \in 0 .. MaxWobbles
    BY <1>4 DEF IsolateRefused, Wobble, TypeInv, RepublishTypeOK
  <2>4. CountsLeft'
    BY <1>1, <1>2, <2>1, <2>2 DEF CountsLeft, TypeInv, RepublishTypeOK
  <2> QED BY <1>1, <1>2, <1>4, <2>2, <2>3, <2>4 DEF IsolateRefused, TypeInv, RepublishTypeOK
<1> QED BY <1>3, <1>4 DEF RowVerdict

LEMMA TypeInvStep == RepublishInv /\ TypeInv /\ [Next]_vars => TypeInv'
<1> SUFFICES ASSUME RepublishInv, TypeInv, [Next]_vars PROVE TypeInv'
  OBVIOUS
<1> USE Bounds
<1>1. ASSUME NEW b \in Blocks, Capture(b) \/ Damage(b) PROVE TypeInv'
  <2>1. table' \subseteq Blocks /\ damaged' \subseteq table' /\ refusals' = refusals
    BY <1>1 DEF Capture, Damage, TypeInv, RepublishTypeOK
  <2>2. faults' \in 0 .. MaxFaults
    BY <1>1 DEF Capture, Damage, Fault, TypeInv, RepublishTypeOK
  <2>3. UNCHANGED <<on, pc, rows, refused, landed, wait, stored, wobbles, restarts>>
    BY <1>1 DEF Capture, Damage, sweepVars
  <2>4. CountsLeft'
    BY <2>1, <2>3 DEF TypeInv, CountsLeft
  <2> QED BY <2>1, <2>2, <2>3, <2>4 DEF TypeInv, RepublishTypeOK
<1>2. CASE Restart
  <2>1. restarts' \in 0 .. MaxRestarts /\ wait' \in 1 .. MaxWait
    BY <1>2 DEF Restart, TypeInv, RepublishTypeOK
  <2>2. /\ on' \in BOOLEAN /\ pc' \in {"off", "fetch"} /\ rows' = {} /\ refused' = {}
        /\ landed' = FALSE /\ UNCHANGED <<stored, wobbles, faults>> /\ UNCHANGED tableVars
    BY <1>2 DEF Restart
  <2> QED BY <2>1, <2>2, TableKept DEF TypeInv, RepublishTypeOK
<1>3. CASE FetchFails
  <2>1. faults' \in 0 .. MaxFaults
    BY <1>3 DEF FetchFails, Fault, TypeInv, RepublishTypeOK
  <2>2. /\ pc' = "wait" /\ rows' = {} /\ UNCHANGED tableVars
        /\ UNCHANGED <<on, refused, landed, wait, stored, wobbles, restarts>>
    BY <1>3 DEF FetchFails, EndSweep
  <2> QED BY <2>1, <2>2, TableKept DEF TypeInv, RepublishTypeOK
<1>4. CASE PostFails
  <2>1. /\ pc' = "wait" /\ rows' = {} /\ UNCHANGED tableVars
        /\ UNCHANGED <<on, refused, landed, wait, wobbles, faults, restarts>>
    BY <1>4 DEF PostFails, EndSweep
  <2>2. stored' \subseteq Blocks
    <3>1. CASE pc = "post"
      BY <1>4, <3>1 DEF PostFails, TypeInv, RepublishTypeOK
    <3>2. CASE pc = "isolate"
      <4>1. head \in Blocks
        BY <3>2, HeadOfRows DEF RepublishInv
      <4> QED BY <1>4, <3>2, <4>1 DEF PostFails, TypeInv, RepublishTypeOK
    <3> QED BY <1>4, <3>1, <3>2 DEF PostFails
  <2> QED BY <2>1, <2>2, TableKept DEF TypeInv, RepublishTypeOK
<1>5. CASE Fetch
  BY <1>5, FetchTypes
<1>6. CASE Clear
  <2>1. head \in rows /\ {head} \in SUBSET Blocks
    BY <1>6, HeadOfRows DEF Clear, RepublishInv
  <2>2. /\ table' \subseteq Blocks /\ damaged' \subseteq table'
        /\ refusals' \in [Blocks -> 0 .. RefusalLimit]
        /\ faults' \in 0 .. MaxFaults
    BY <1>6, <2>1, DeleteTypes DEF Clear
  <2> QED BY <1>6, <2>2 DEF Clear, TypeInv, RepublishTypeOK, CountsLeft
<1>7. CASE PostVerdict
  <2>1. /\ pc = "post" /\ pc' \in {"clear", "isolate"} /\ rows' = rows
        /\ UNCHANGED tableVars /\ UNCHANGED <<on, refused, wait, faults, restarts>>
    BY <1>7 DEF PostVerdict, PostAccepted, PostRefused
  <2>2. stored' \subseteq Blocks /\ landed' \in BOOLEAN
    BY <1>7 DEF PostVerdict, PostAccepted, PostRefused, TypeInv, RepublishTypeOK
  <2>3. wobbles' \in 0 .. MaxWobbles
    BY <1>7 DEF PostVerdict, PostAccepted, PostRefused, Wobble, TypeInv, RepublishTypeOK
  <2> QED BY <2>1, <2>2, <2>3, TableKept DEF TypeInv, RepublishTypeOK
<1>8. CASE RowVerdict
  BY <1>8, IsolateTypes
<1>9. CASE Wake
  <2>1. wait' \in 1 .. MaxWait
    BY <1>9 DEF Wake, TypeInv, RepublishTypeOK
  <2>2. /\ pc' = "fetch" /\ rows' = rows /\ refused' = {} /\ landed' = FALSE
        /\ UNCHANGED tableVars /\ UNCHANGED <<on, stored, wobbles, faults, restarts>>
    BY <1>9 DEF Wake
  <2> QED BY <2>1, <2>2, TableKept DEF TypeInv, RepublishTypeOK
<1>10. CASE UNCHANGED vars
  BY <1>10 DEF vars, tableVars, sweepVars, TypeInv, RepublishTypeOK, CountsLeft
<1> QED BY <1>1, <1>2, <1>3, <1>4, <1>5, <1>6, <1>7, <1>8, <1>9, <1>10 DEF Next, Sweep

\* The republisher's types; above all, a block is never counted beyond the limit.
THEOREM RepublishTypeCorrect == Spec => []RepublishTypeOK
<1>1. Init => TypeInv
  <2> SUFFICES ASSUME Init PROVE TypeInv
    OBVIOUS
  <2>1. /\ pc \in {"off", "fetch"} /\ on \in BOOLEAN /\ wait \in 1 .. MaxWait
        /\ wobbles \in 0 .. MaxWobbles /\ faults \in 0 .. MaxFaults
        /\ restarts \in 0 .. MaxRestarts
    BY Bounds DEF Init
  <2>2. refusals \in [Blocks -> 0 .. RefusalLimit]
    BY Bounds DEF Init
  <2> QED BY <2>1, <2>2 DEF Init, TypeInv, RepublishTypeOK, CountsLeft
<1>2. RepublishInv /\ TypeInv /\ [Next]_vars => TypeInv'
  BY TypeInvStep
<1>3. TypeInv => RepublishTypeOK
  BY DEF TypeInv
<1> QED BY <1>1, <1>2, <1>3, RepublishInvariance, PTL DEF Spec
=============================================================================
