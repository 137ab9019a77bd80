------------------------- MODULE EnrichPipelineProofs -------------------------
(***************************************************************************)
(* Proofs about EnrichPipeline: what EnrichQueueProofs proves of the queue *)
(* holds of the pipeline that is built on it; custody of a prompt ends     *)
(* only as CustodyKept says; collecting while unpaired loses nothing; and  *)
(* the spool is used as SpoolRows, whose rows a pass of the drain offers   *)
(* oldest first.                                                           *)
(***************************************************************************)
EXTENDS EnrichPipeline, WellFoundedInduction, TLAPS

QueueProved == INSTANCE EnrichQueueProofs WITH Consumers <- {Worker}

-----------------------------------------------------------------------------
(* The pipeline implements the queue.                                      *)

\* What one consumer may do.
LEMMA ConsumeIsNext ==
  ASSUME \/ Queue!Receive(Worker) \/ Queue!Release(Worker) \/ Queue!Complete(Worker)
         \/ Queue!Abandon(Worker) \/ Queue!Exit(Worker)
  PROVE  Queue!Next
BY DEF Queue!Next, Queue!Consume

\* The producers offer, or leave the queue alone.
LEMMA ProducersQueue == Producers => [Queue!Next]_queueVars
BY DEF Producers, HookPost, HookMiss, HookSpool, WatchOffer, WatchSave, Queue!Next

\* So does the drain.
LEMMA DrainQueue == Drain => [Queue!Next]_queueVars
BY DEF Drain, DrainBegin, DrainRead, DrainOffer, DrainDelete, Queue!Next

\* The worker's steps are the consumer's.
LEMMA WorkerQueue == WorkerStep => [Queue!Next]_queueVars
<1> SUFFICES ASSUME WorkerStep PROVE [Queue!Next]_queueVars
  OBVIOUS
<1>1. CASE Take \/ Begin \/ Hold \/ Defer \/ Quit
  BY <1>1, ConsumeIsNext DEF Take, Begin, Hold, Defer, Quit
<1>2. CASE Admit \/ Send
  BY <1>2 DEF Admit, Send
<1>3. CASE Verdict
  BY <1>3, ConsumeIsNext DEF Verdict, Unresolved, Publish, PublishFails, TimeoutRespool,
                              TimeoutQuarantine, AbandonAttempt
<1> QED BY <1>1, <1>2, <1>3 DEF WorkerStep

\* Every step of the pipeline is a step of the queue or leaves it alone.
LEMMA StepQueue == [Next]_vars => [Queue!Next]_queueVars
<1> SUFFICES ASSUME [Next]_vars PROVE [Queue!Next]_queueVars
  OBVIOUS
<1>1. CASE \E k \in Keys : LateEnds(k)
  BY <1>1 DEF LateEnds
<1>2. CASE Pair \/ Start
  BY <1>2 DEF Pair, Start
<1>3. CASE Stop \/ Die
  BY <1>3 DEF Stop, Die, Queue!Next
<1>4. CASE UNCHANGED vars
  BY <1>4 DEF vars
<1> QED BY <1>1, <1>2, <1>3, <1>4, ProducersQueue, DrainQueue, WorkerQueue DEF Next

\* The pipeline's behaviours are, seen through the queue's variables, the queue's.
LEMMA PipelineImplementsQueue == Spec => Queue!Spec
<1>1. Init => Queue!Init
  BY DEF Init
<1>2. [Next]_vars => [Queue!Next]_Queue!queueVars
  BY StepQueue DEF queueVars, Queue!queueVars
<1> QED BY <1>1, <1>2, PTL DEF Spec, Queue!Spec

\* So the queue's invariant holds of the pipeline's queue.
THEOREM PipelineQueueInvariance == Spec => []QueueProved!QueueInv
<1>1. Queue!Spec => QueueProved!Spec
  <2>1. Queue!Init => QueueProved!Init
    BY DEF Queue!Init, QueueProved!Init, Queue!Idle, QueueProved!Idle
  <2>2. Queue!Next => QueueProved!Next
    BY DEF Queue!Next, QueueProved!Next, Queue!Offer, QueueProved!Offer,
           Queue!Outcome, QueueProved!Outcome, Queue!Consume, QueueProved!Consume,
           Queue!Receive, QueueProved!Receive, Queue!Release, QueueProved!Release,
           Queue!Complete, QueueProved!Complete, Queue!Abandon, QueueProved!Abandon,
           Queue!Exit, QueueProved!Exit, Queue!Close, QueueProved!Close,
           Queue!Restart, QueueProved!Restart, Queue!Remember, QueueProved!Remember,
           Queue!Remembered, QueueProved!Remembered, Queue!Elements, QueueProved!Elements,
           Queue!Idle, QueueProved!Idle, Queue!Holding, QueueProved!Holding
  <2>3. [Queue!Next]_Queue!queueVars => [QueueProved!Next]_QueueProved!queueVars
    BY <2>2 DEF Queue!queueVars, QueueProved!queueVars
  <2> QED BY <2>1, <2>3, PTL DEF Queue!Spec, QueueProved!Spec
<1>2. QueueProved!Spec => []QueueProved!QueueInv
  BY PipelineAssumption, QueueProved!QueueInvariance
<1> QED BY <1>1, <1>2, PipelineImplementsQueue, PTL

-----------------------------------------------------------------------------
(* Lemmas about rows and queue.                                            *)

\* A set of numbers that is not empty has a least one.
LEMMA LeastNumber ==
  ASSUME NEW S \in SUBSET Nat, S # {}
  PROVE  \E n \in S : \A m \in S : n <= m
<1>1. \E n \in S : \A m \in S : ~(<<m, n>> \in OpToRel(<, Nat))
  BY WFMin, NatLessThanWellFounded
<1>2. \E n \in S : \A m \in S : ~(m < n)
  BY <1>1 DEF OpToRel
<1> QED BY <1>2

\* Appending keeps what a sequence holds, and adds the new element.
LEMMA AppendKeeps ==
  ASSUME NEW s \in Seq(Keys), NEW k \in Keys
  PROVE  Queue!Elements(Append(s, k)) = Queue!Elements(s) \cup {k}
BY QueueProved!AppendElements DEF Queue!Elements, QueueProved!Elements

\* The function that Without computes, step by step.
LEMMA WithoutSteps ==
  ASSUME NEW s \in Seq(Keys), NEW S
  PROVE  \E left : /\ Without(s, S) = left[Len(s)]
                   /\ left[0] = <<>>
                   /\ \A i \in 1 .. Len(s) :
                        left[i] = IF s[i] \in S THEN left[i - 1] ELSE Append(left[i - 1], s[i])
<1> DEFINE Left(f, i) == IF i = 0 THEN <<>>
                         ELSE IF s[i] \in S THEN f[i - 1] ELSE Append(f[i - 1], s[i])
           Fits(f, n) == f = [i \in 0 .. n |-> Left(f, i)]
           left == CHOOSE f : Fits(f, Len(s))
<1>1. \A n \in Nat : \E f : Fits(f, n)
  <2> DEFINE Wrong == {n \in Nat : ~ \E f : Fits(f, n)}
  <2> SUFFICES ASSUME Wrong # {} PROVE FALSE
    OBVIOUS
  <2>1. PICK n \in Wrong : \A m \in Wrong : n <= m
    <3> HIDE DEF Fits
    <3> QED BY LeastNumber
  <2>2. n # 0
    <3>1. Fits([i \in 0 .. 0 |-> <<>>], 0)
      OBVIOUS
    <3> QED BY <3>1, <2>1
  <2>3. n \in Nat /\ n - 1 \in Nat /\ n - 1 \notin Wrong
    <3> HIDE DEF Fits
    <3>1. n \in Nat /\ n - 1 \in Nat /\ ~(n <= n - 1)
      BY <2>1, <2>2
    <3> QED BY <3>1, <2>1
  <2>4. PICK g : Fits(g, n - 1)
    BY <2>3
  <2> DEFINE h == [i \in 0 .. n |-> IF i < n THEN g[i] ELSE Left(g, n)]
  <2>5. ASSUME NEW i \in 0 .. n PROVE h[i] = Left(h, i)
    <3>1. CASE i < n
      <4>1. i \in 0 .. n - 1 /\ h[i] = g[i]
        BY <2>3, <3>1
      <4>2. g[i] = Left(g, i)
        <5> HIDE DEF Left
        <5> QED BY <2>4, <4>1
      <4>3. i # 0 => i - 1 \in 0 .. n /\ i - 1 < n /\ h[i - 1] = g[i - 1]
        BY <2>3, <3>1
      <4> QED BY <4>1, <4>2, <4>3
    <3>2. CASE i = n
      <4>1. h[n] = Left(g, n) /\ h[n - 1] = g[n - 1]
        BY <2>2, <2>3
      <4> QED BY <2>2, <3>2, <4>1
    <3> QED BY <2>3, <3>1, <3>2
  <2>6. Fits(h, n)
    <3> HIDE DEF Left
    <3> QED BY <2>5
  <2> QED BY <2>1, <2>6
<1>2. Len(s) \in Nat /\ DOMAIN s = 1 .. Len(s) /\ \A i \in 1 .. Len(s) : s[i] \in Keys
  OBVIOUS
<1>3. Fits(left, Len(s))
  <2> HIDE DEF Fits
  <2> QED BY <1>1, <1>2
<1>4. Without(s, S) = left[Len(s)]
  BY DEF Without
<1>5. /\ left[0] = Left(left, 0)
      /\ \A i \in 1 .. Len(s) : left[i] = Left(left, i)
  <2>1. 0 \in 0 .. Len(s) /\ \A i \in 1 .. Len(s) : i \in 0 .. Len(s)
    BY <1>2
  <2> HIDE DEF Left
  <2> QED BY <1>3, <2>1
<1> HIDE DEF left
<1> QED BY <1>4, <1>5

\* Without is what its name says: rows stay rows, and S is gone from them.
LEMMA WithoutRows ==
  ASSUME NEW s \in Seq(Keys), NEW S
  PROVE  /\ Without(s, S) \in Seq(Keys)
         /\ Queue!Elements(Without(s, S)) = Queue!Elements(s) \ S
<1> DEFINE Step(f, i) == IF s[i] \in S THEN f[i - 1] ELSE Append(f[i - 1], s[i])
<1>1. Len(s) \in Nat /\ DOMAIN s = 1 .. Len(s) /\ \A i \in 1 .. Len(s) : s[i] \in Keys
  OBVIOUS
<1>2. PICK left : /\ Without(s, S) = left[Len(s)] /\ left[0] = <<>>
                  /\ \A i \in 1 .. Len(s) : left[i] = Step(left, i)
  BY WithoutSteps
<1> DEFINE Right(i) == left[i] \in Seq(Keys) /\ Queue!Elements(left[i]) = {s[j] : j \in 1 .. i} \ S
<1>3. \A i \in 0 .. Len(s) : Right(i)
  <2> DEFINE Wrong == {i \in 0 .. Len(s) : ~Right(i)}
  <2> SUFFICES ASSUME Wrong # {} PROVE FALSE
    OBVIOUS
  <2>1. PICK i \in Wrong : \A m \in Wrong : i <= m
    <3> HIDE DEF Right
    <3>1. Wrong \in SUBSET Nat
      BY <1>1
    <3> QED BY <3>1, LeastNumber
  <2>2. i # 0
    <3>1. Right(0)
      BY <1>2 DEF Queue!Elements
    <3> QED BY <3>1, <2>1
  <2>3. i \in 1 .. Len(s) /\ i - 1 \in 0 .. Len(s) /\ Right(i - 1)
    <3>1. i \in 1 .. Len(s) /\ i - 1 \in 0 .. Len(s) /\ ~(i <= i - 1)
      BY <1>1, <2>1, <2>2
    <3> QED BY <3>1, <2>1
  <2>4. {s[j] : j \in 1 .. i} = {s[j] : j \in 1 .. i - 1} \cup {s[i]} /\ s[i] \in Keys
    <3>1. 1 .. i = (1 .. i - 1) \cup {i}
      BY <1>1, <2>3
    <3> QED BY <3>1, <1>1, <2>3
  <2>5. CASE s[i] \in S
    <3>1. left[i] = left[i - 1]
      BY <1>2, <2>3, <2>5
    <3> QED BY <2>1, <2>3, <2>4, <2>5, <3>1
  <2>6. CASE s[i] \notin S
    <3>1. left[i] = Append(left[i - 1], s[i])
      BY <1>2, <2>3, <2>6
    <3>2. Append(left[i - 1], s[i]) \in Seq(Keys)
      BY <2>3, <2>4
    <3>3. Queue!Elements(left[i]) = Queue!Elements(left[i - 1]) \cup {s[i]}
      BY <2>3, <2>4, <3>1, AppendKeeps
    <3> QED BY <2>1, <2>3, <2>4, <2>6, <3>1, <3>2, <3>3
  <2> QED BY <2>5, <2>6
<1>4. Right(Len(s))
  <2> HIDE DEF Right
  <2> QED BY <1>1, <1>3
<1> QED BY <1>1, <1>2, <1>4 DEF Queue!Elements

\* What the queue's invariant says, in this module's terms.
LEMMA QueueFacts ==
  ASSUME QueueProved!QueueInv
  PROVE  /\ Queue!QueueTypeOK /\ Queue!MarksExact
         /\ ch \in Seq(Keys) /\ recent \in Seq(Keys)
         /\ hand = [c \in {Worker} |-> hand[Worker]]
         /\ hand[Worker].pc \in {"idle", "exited", "received", "working"}
         /\ hand[Worker].pc \in {"received", "working"} => job \in Keys
<1>1. Queue!QueueTypeOK
  BY DEF QueueProved!QueueInv, QueueProved!QueueTypes, QueueProved!Bounded, QueueProved!Hands,
         QueueProved!Idle, QueueProved!Holding, Queue!QueueTypeOK, Queue!QueueTypes,
         Queue!Bounded, Queue!Hands, Queue!Idle, Queue!Holding
<1>2. Queue!MarksExact
  BY DEF QueueProved!QueueInv, QueueProved!MarksExact, QueueProved!QueuedKeys,
         QueueProved!ReceivedKeys, QueueProved!Elements, Queue!MarksExact, Queue!QueuedKeys,
         Queue!ReceivedKeys, Queue!Elements
<1> QED BY <1>1, <1>2 DEF Queue!QueueTypeOK, Queue!QueueTypes, Queue!Hands, Queue!Idle,
                          Queue!Holding, job

\* The memory of completed keys takes in the job at most.
LEMMA RememberAdds ==
  ASSUME recent \in Seq(Keys), NEW k \in Keys
  PROVE  Queue!Elements(Queue!Remember(k)) \subseteq Queue!Remembered \cup {k}
<1>1. /\ Append(recent, k) \in Seq(Keys) /\ Append(recent, k) # <<>>
      /\ Queue!Elements(Append(recent, k)) = Queue!Remembered \cup {k}
  BY AppendKeeps DEF Queue!Remembered
<1>2. ASSUME NEW s \in Seq(Keys), s # <<>>
      PROVE  Queue!Elements(Tail(s)) \subseteq Queue!Elements(s)
  BY <1>2 DEF Queue!Elements
<1> QED BY <1>1, <1>2 DEF Queue!Remember, Queue!Remembered

\* An Offer keeps what is in the channel; what it takes on is queued, just
\* received, or remembered as completed.
LEMMA OfferKeeps ==
  ASSUME ch \in Seq(Keys), NEW k \in Keys, Queue!Offer(k)
  PROVE  /\ Queue!QueuedKeys \subseteq Queue!QueuedKeys'
         /\ Queue!TakenOn(Queue!Outcome(k)) =>
              k \in Queue!QueuedKeys' \cup inflight \cup Queue!Remembered
<1>1. CASE Queue!Outcome(k) = "accepted"
  <2>1. ch' = Append(ch, k)
    BY <1>1 DEF Queue!Offer
  <2> QED BY <2>1, AppendKeeps DEF Queue!QueuedKeys
<1>2. CASE Queue!Outcome(k) # "accepted"
  BY <1>2 DEF Queue!Offer, Queue!QueuedKeys, Queue!TakenOn, Queue!Outcome
<1> QED BY <1>1, <1>2
-----------------------------------------------------------------------------
(* Types.                                                                  *)

\* PipelineTypeOK without the queue's part.
Types ==
  /\ spool \in Seq(Keys) /\ bad \subseteq Keys /\ faults \in 0 .. MaxFaults
  /\ rewritten \subseteq Keys /\ givenUp \subseteq Keys
  /\ drain \in [on : BOOLEAN, page : Seq(Keys), offered : SUBSET Keys, past : SUBSET Keys]
  /\ hook \in [Keys -> {"new", "refused", "done"}]
  /\ watch \in [Keys -> {"unseen", "offered", "saved"}]
  /\ step \in {"gate", "run", "send"}
  /\ attempts \in [Keys -> 0 .. MaxAttempts - 1]
  /\ late \subseteq Keys /\ delivered \subseteq Keys
  /\ paired \in BOOLEAN /\ up \in BOOLEAN
  /\ deaths \in 0 .. MaxDeaths

\* A write keeps every row and adds its own, or fails.  Either way the history
\* tells if the row was one that the drain had offered.
LEMMA SpoolWriteKeeps ==
  ASSUME Types, NEW k \in Keys, SpoolWrite(k)
  PROVE  /\ spool' \in Seq(Keys) /\ bad' = bad /\ faults' \in 0 .. MaxFaults
         /\ rewritten \subseteq rewritten' /\ rewritten' \subseteq Keys
         /\ givenUp \subseteq givenUp' /\ givenUp' \subseteq Keys
         /\ Rows \subseteq Rows' /\ (faults' > faults \/ k \in Rows')
         /\ k \in drain.offered => k \in rewritten' \cup givenUp'
<1> USE DEF Types
<1>1. CASE k \in Rows /\ spool' = spool /\ UNCHANGED <<bad, faults, givenUp>>
  <2>1. Rows' = Rows
    BY <1>1 DEF Rows, Queue!Elements
  <2> QED BY <1>1, <2>1 DEF SpoolWrite
<1>2. CASE spool' = Append(spool, k) /\ UNCHANGED <<bad, faults, givenUp>>
  <2>1. Rows' = Rows \cup {k}
    BY <1>2, AppendKeeps DEF Rows
  <2> QED BY <1>2, <2>1 DEF SpoolWrite
<1>3. CASE spool' = spool /\ faults' = faults + 1 /\ GiveUp(k)
  <2>1. Rows' = Rows
    BY <1>3 DEF Rows, Queue!Elements
  <2> QED BY <1>3, <2>1, PipelineAssumption DEF SpoolWrite, GiveUp
<1> QED BY <1>1, <1>2, <1>3 DEF SpoolWrite

LEMMA InitTypes == Init => Types
BY PipelineAssumption DEF Init, Types, NoDrain

LEMMA ProducersTypes == ASSUME Types, Producers PROVE Types'
<1>1. ASSUME NEW k \in Keys, HookPost(k) PROVE Types'
  BY <1>1 DEF HookPost, Types, diskVars
<1>2. ASSUME NEW k \in Keys, HookMiss(k) PROVE Types'
  BY <1>2 DEF HookMiss, Types, diskVars
<1>3. ASSUME NEW k \in Keys, HookSpool(k) PROVE Types'
  BY <1>3, SpoolWriteKeeps DEF HookSpool, Types
<1>4. ASSUME NEW k \in Keys, WatchOffer(k) PROVE Types'
  BY <1>4 DEF WatchOffer, Types, diskVars
<1>5. CASE WatchSave
  BY <1>5 DEF WatchSave, Types, diskVars
<1> QED BY <1>1, <1>2, <1>3, <1>4, <1>5 DEF Producers

LEMMA DrainTypes == ASSUME Types, Drain PROVE Types'
<1> USE DEF drainUnchanged
<1>1. CASE DrainBegin
  <2>1. drain' = [on |-> TRUE, page |-> <<>>, offered |-> {}, past |-> {}]
    BY <1>1 DEF DrainBegin, NoDrain
  <2>2. drain' \in [on : BOOLEAN, page : Seq(Keys), offered : SUBSET Keys, past : SUBSET Keys]
    BY <2>1
  <2> QED BY <1>1, <2>2 DEF DrainBegin, Types
<1>2. CASE DrainRead
  <2> DEFINE rows == Without(spool, drain.past)
             size == IF Len(rows) < DrainPage THEN Len(rows) ELSE DrainPage
  <2>1. rows \in Seq(Keys)
    BY WithoutRows DEF Types
  <2>2. size \in 0 .. Len(rows)
    BY <2>1, PipelineAssumption
  <2>3. SubSeq(rows, 1, size) \in Seq(Keys)
    <3> HIDE DEF rows, size
    <3> QED BY <2>1, <2>2
  <2>4. drain' \in {NoDrain, [drain EXCEPT !.page = SubSeq(rows, 1, size)]}
    BY <1>2 DEF DrainRead
  <2> DEFINE next == SubSeq(rows, 1, size)
  <2>5. drain' \in [on : BOOLEAN, page : Seq(Keys), offered : SUBSET Keys, past : SUBSET Keys]
    <3>1. next \in Seq(Keys) /\ drain' \in {NoDrain, [drain EXCEPT !.page = next]}
      BY <2>3, <2>4
    <3> HIDE DEF next
    <3>2. NoDrain \in [on : BOOLEAN, page : Seq(Keys), offered : SUBSET Keys, past : SUBSET Keys]
      BY DEF NoDrain
    <3>3. [drain EXCEPT !.page = next]
             \in [on : BOOLEAN, page : Seq(Keys), offered : SUBSET Keys, past : SUBSET Keys]
      BY <3>1 DEF Types
    <3> QED BY <3>1, <3>2, <3>3
  <2> QED BY <1>2, <2>5 DEF DrainRead, Types
<1>3. ASSUME NEW k \in Keys, DrainOffer(k) PROVE Types'
  <2>1. drain.page \in Seq(Keys) /\ drain.page # <<>>
    BY <1>3 DEF DrainOffer, Types
  <2> DEFINE rest == Tail(drain.page)
             taken == IF Queue!TakenOn(Queue!Outcome(k)) THEN drain.offered \cup {k}
                      ELSE drain.offered
  <2>2. rest \in Seq(Keys) /\ taken \subseteq Keys
    BY <2>1 DEF Types
  <2>3. drain' = [drain EXCEPT !.page = rest, !.past = @ \cup {k}, !.offered = taken]
    BY <1>3 DEF DrainOffer
  <2>4. drain' \in [on : BOOLEAN, page : Seq(Keys), offered : SUBSET Keys, past : SUBSET Keys]
    <3> HIDE DEF rest, taken
    <3> QED BY <2>2, <2>3 DEF Types
  <2> QED BY <1>3, <2>4 DEF DrainOffer, Types
<1>4. CASE DrainDelete
  <2>1. spool' \in Seq(Keys)
    BY <1>4, WithoutRows DEF DrainDelete, Types
  <2> QED BY <1>4, <2>1 DEF DrainDelete, Types
<1> QED BY <1>1, <1>2, <1>3, <1>4 DEF Drain

LEMMA WorkerTypes == ASSUME Types, QueueProved!QueueInv, WorkerStep PROVE Types'
<1> USE DEF workerUnchanged
<1>0. AtStep("gate") \/ AtStep("run") \/ AtStep("send") => job \in Keys
  BY QueueFacts DEF AtStep
<1>1. CASE Take \/ Begin
  BY <1>1 DEF Take, Begin, Types, diskVars
<1>2. CASE Hold \/ Defer
  <2>1. SpoolWrite(job) /\ job \in Keys
    BY <1>0, <1>2 DEF Hold, Defer
  <2>2. /\ spool' \in Seq(Keys) /\ bad' = bad /\ faults' \in 0 .. MaxFaults
        /\ rewritten' \subseteq Keys /\ givenUp' \subseteq Keys
    BY <2>1, SpoolWriteKeeps
  <2> QED BY <1>2, <2>2 DEF Hold, Defer, Types
<1>3. CASE Admit \/ Send
  BY <1>3 DEF Admit, Send, Types, diskVars
<1>4. CASE Quit
  BY <1>0, <1>4 DEF Quit, GiveUp, Types, diskVars
<1>5. CASE Unresolved \/ Publish \/ PublishFails
  <2>0. Finish /\ job \in Keys /\ 0 \in 0 .. MaxAttempts - 1
    BY <1>0, <1>5, PipelineAssumption DEF Unresolved, Publish, PublishFails
  <2>1. attempts' \in [Keys -> 0 .. MaxAttempts - 1] /\ step' = "gate" /\ job \in Keys
        /\ UNCHANGED <<workerUnchanged, diskVars, late, rewritten>>
    BY <2>0 DEF Finish, Types
  <2>2. givenUp' \subseteq Keys /\ delivered' \subseteq Keys
    BY <1>5, <2>1 DEF Unresolved, Publish, PublishFails, GiveUp, Types
  <2> QED BY <2>1, <2>2 DEF Types, diskVars
<1>6. ASSUME AbandonAttempt
      PROVE  /\ job \in Keys /\ late' \subseteq Keys /\ step' = "gate"
             /\ UNCHANGED <<drain, hook, watch, paired, up, deaths, delivered>>
  BY <1>0, <1>6 DEF AbandonAttempt, Types
<1>7. CASE TimeoutRespool
  <2>1. /\ spool' \in Seq(Keys) /\ bad' = bad /\ faults' \in 0 .. MaxFaults
        /\ rewritten' \subseteq Keys /\ givenUp' \subseteq Keys
    BY <1>6, <1>7, SpoolWriteKeeps DEF TimeoutRespool
  <2>2. attempts[job] + 1 \in 0 .. MaxAttempts - 1
    BY <1>6, <1>7, PipelineAssumption DEF TimeoutRespool, Types
  <2>3. attempts' \in [Keys -> 0 .. MaxAttempts - 1]
    BY <1>6, <1>7, <2>2 DEF TimeoutRespool, Types
  <2> QED BY <1>6, <1>7, <2>1, <2>3 DEF TimeoutRespool, Types
<1>8. CASE TimeoutQuarantine
  <2>1. attempts' \in [Keys -> 0 .. MaxAttempts - 1] /\ job \in Keys
    BY <1>6, <1>8, PipelineAssumption DEF TimeoutQuarantine, Types
  <2>2. /\ bad' \subseteq Keys /\ faults' \in 0 .. MaxFaults /\ givenUp' \subseteq Keys
        /\ UNCHANGED <<spool, rewritten>>
    BY <1>8, <2>1, PipelineAssumption DEF TimeoutQuarantine, GiveUp, Types
  <2> QED BY <1>6, <1>8, <2>1, <2>2 DEF TimeoutQuarantine, Types
<1> QED BY <1>1, <1>2, <1>3, <1>4, <1>5, <1>7, <1>8 DEF WorkerStep, Verdict

\* The types are inductive, given the queue's invariant.
LEMMA TypesStep == Types /\ QueueProved!QueueInv /\ [Next]_vars => Types'
<1> SUFFICES ASSUME Types, QueueProved!QueueInv, [Next]_vars PROVE Types'
  OBVIOUS
<1>1. ASSUME NEW k \in Keys, LateEnds(k) PROVE Types'
  BY <1>1 DEF LateEnds, workerUnchanged, diskVars, Types
<1>2. CASE Pair
  BY <1>2 DEF Pair, diskVars, Types
<1>3. CASE Stop \/ Start
  BY <1>3 DEF Stop, Start, diskVars, Types
<1>4. CASE Die
  <2>1. 0 \in 0 .. MaxAttempts - 1 /\ deaths' \in 0 .. MaxDeaths
    BY <1>4, PipelineAssumption DEF Die, Types
  <2>2. attempts' \in [Keys -> 0 .. MaxAttempts - 1]
    BY <1>4, <2>1 DEF Die
  <2>3. NoDrain \in [on : BOOLEAN, page : Seq(Keys), offered : SUBSET Keys, past : SUBSET Keys]
    BY DEF NoDrain
  <2>4. watch' \in [Keys -> {"unseen", "offered", "saved"}]
    BY <1>4 DEF Die, Types
  <2> QED BY <1>4, <2>1, <2>2, <2>3, <2>4 DEF Die, diskVars, Types
<1>5. CASE UNCHANGED vars
  BY <1>5 DEF vars, diskVars, Types
<1> QED BY <1>1, <1>2, <1>3, <1>4, <1>5, ProducersTypes, DrainTypes, WorkerTypes DEF Next

\* Types, for the steps of other proofs.
LEMMA TypesInvariance == Spec => []Types
<1> QED BY InitTypes, TypesStep, PipelineQueueInvariance, PTL DEF Spec

\* The pipeline's state keeps its types: no count of attempts reaches the limit,
\* and rows, page, ledger and hand only ever hold prompts.
THEOREM PipelineTypeCorrect == Spec => []PipelineTypeOK
<1>1. Types /\ QueueProved!QueueInv => PipelineTypeOK
  BY QueueFacts DEF Types, PipelineTypeOK
<1> QED BY <1>1, TypesInvariance, PipelineQueueInvariance, PTL
-----------------------------------------------------------------------------
(* What a step does to the three places a prompt can be in.                *)

\* The queue or the worker has the prompt.
InMemory(k) ==
  \/ k \in Queue!QueuedKeys
  \/ hand[Worker].pc \in {"received", "working"} /\ job = k

\* What the queue does on its own keeps every prompt in memory: it moves from
\* the channel to the worker's hand, and from one half of Next to the other.
LEMMA QueueKeeps ==
  ASSUME QueueProved!QueueInv,
         \/ \E j \in Keys : Queue!Offer(j)
         \/ Queue!Receive(Worker) \/ Queue!Release(Worker) \/ Queue!Close
         \/ UNCHANGED queueVars,
         NEW k \in Keys, InMemory(k)
  PROVE  InMemory(k)'
<1> USE QueueFacts
<1>1. ASSUME NEW j \in Keys, Queue!Offer(j) PROVE InMemory(k)'
  <2>1. Queue!QueuedKeys \subseteq Queue!QueuedKeys' /\ hand' = hand
    BY <1>1, OfferKeeps DEF Queue!Offer
  <2> QED BY <2>1 DEF InMemory, job
<1>2. CASE Queue!Receive(Worker)
  <2>1. /\ ch \in Seq(Keys) /\ ch # <<>> /\ ch' = Tail(ch) /\ hand[Worker] = Queue!Idle
        /\ hand'[Worker] = Queue!Holding("received", Head(ch))
    BY <1>2 DEF Queue!Receive
  <2>2. Queue!Elements(ch) \subseteq Queue!Elements(Tail(ch)) \cup {Head(ch)}
    <3>1. ASSUME NEW i \in 1 .. Len(ch), ch[i] # Head(ch)
          PROVE  i - 1 \in DOMAIN Tail(ch) /\ Tail(ch)[i - 1] = ch[i]
      BY <2>1, <3>1
    <3>2. DOMAIN ch = 1 .. Len(ch)
      BY <2>1
    <3> QED BY <3>1, <3>2 DEF Queue!Elements
  <2>3. hand'[Worker].pc = "received" /\ hand'[Worker].key = Head(ch)
    BY <2>1 DEF Queue!Holding
  <2>4. hand[Worker].pc = "idle"
    BY <2>1 DEF Queue!Idle
  <2> QED BY <2>1, <2>2, <2>3, <2>4 DEF InMemory, job, Queue!QueuedKeys
<1>3. CASE Queue!Release(Worker)
  <2>1. hand'[Worker].pc = "working" /\ hand'[Worker].key = hand[Worker].key /\ ch' = ch
    BY <1>3 DEF Queue!Release, Queue!Holding
  <2> QED BY <2>1 DEF InMemory, job, Queue!QueuedKeys
<1>4. CASE Queue!Close \/ UNCHANGED queueVars
  BY <1>4 DEF Queue!Close, queueVars, InMemory, job, Queue!QueuedKeys, Queue!Elements
<1> QED BY <1>1, <1>2, <1>3, <1>4

\* When the worker lets go, only its own job may leave the memory.
LEMMA LettingGo ==
  ASSUME Queue!Abandon(Worker) \/ Queue!Complete(Worker) \/ Queue!Exit(Worker),
         NEW k \in Keys, InMemory(k), ~InMemory(k)'
  PROVE  k = job /\ hand[Worker].pc = "working"
<1>1. ch' = ch /\ (hand[Worker].pc = "working" \/ hand[Worker] = Queue!Idle)
  BY DEF Queue!Abandon, Queue!Complete, Queue!Exit
<1> QED BY <1>1 DEF InMemory, Queue!QueuedKeys, Queue!Elements, Queue!Idle

\* Who may end a prompt's stay in memory, and that the job is then his.
LEMMA MemoryStep ==
  ASSUME QueueProved!QueueInv, Next, NEW k \in Keys, InMemory(k), ~InMemory(k)'
  PROVE  \/ Die
         \/ k = job /\ (Hold \/ Defer \/ Verdict \/ (Quit /\ closed /\ AtStep("gate")))
<1>1. ~(\E j \in Keys : Queue!Offer(j)) /\ ~Queue!Receive(Worker) /\ ~Queue!Release(Worker)
      /\ ~Queue!Close /\ ~UNCHANGED queueVars
  BY QueueKeeps
<1>2. ~Producers /\ ~Drain /\ ~(\E j \in Keys : LateEnds(j)) /\ ~Pair /\ ~Stop /\ ~Start
  BY <1>1 DEF Producers, HookPost, HookMiss, HookSpool, WatchOffer, WatchSave, Drain, DrainBegin,
              DrainRead, DrainOffer, DrainDelete, LateEnds, Pair, Stop, Start
<1>3. ~Take /\ ~Begin /\ ~Admit /\ ~Send
  BY <1>1 DEF Take, Begin, Admit, Send
<1>4. CASE Hold \/ Defer \/ Verdict
  <2>1. Queue!Abandon(Worker) \/ Queue!Complete(Worker)
    BY <1>4 DEF Hold, Defer, Verdict, Unresolved, Publish, PublishFails, TimeoutRespool,
                TimeoutQuarantine, AbandonAttempt
  <2> QED BY <1>4, <2>1, LettingGo
<1>5. CASE Quit
  <2>1. Queue!Exit(Worker) /\ closed /\ (AtStep("gate") \/ hand[Worker] = Queue!Idle)
    BY <1>5 DEF Quit, Queue!Exit
  <2>2. k = job /\ hand[Worker].pc = "working"
    BY <2>1, LettingGo
  <2> QED BY <1>5, <2>1, <2>2 DEF Queue!Idle
<1> QED BY <1>2, <1>3, <1>4, <1>5 DEF Next, WorkerStep

\* Only the drain removes rows, and only those of the page it has offered.
LEMMA RowsStep ==
  ASSUME Types, QueueProved!QueueInv, Next, NEW k \in Keys, k \in Rows, k \notin Rows'
  PROVE  DrainDelete /\ k \in drain.offered
<1> USE DEF diskVars, drainUnchanged, workerUnchanged
<1>1. spool' # spool
  BY DEF Rows, Queue!Elements
<1>2. ASSUME NEW j \in Keys, SpoolWrite(j) PROVE FALSE
  BY <1>2, SpoolWriteKeeps
<1>3. ~Producers
  BY <1>1, <1>2 DEF Producers, HookPost, HookMiss, HookSpool, WatchOffer, WatchSave
<1>4. ~WorkerStep
  <2>1. AtStep("gate") \/ AtStep("run") \/ AtStep("send") => job \in Keys
    BY QueueFacts DEF AtStep
  <2>2. ~Hold /\ ~Defer /\ ~TimeoutRespool
    BY <1>2, <2>1 DEF Hold, Defer, TimeoutRespool, AbandonAttempt
  <2>3. ~Take /\ ~Begin /\ ~Admit /\ ~Send /\ ~Quit /\ ~TimeoutQuarantine
    BY <1>1 DEF Take, Begin, Admit, Send, Quit, TimeoutQuarantine
  <2>4. ~Unresolved /\ ~Publish /\ ~PublishFails
    BY <1>1 DEF Unresolved, Publish, PublishFails, Finish
  <2> QED BY <2>2, <2>3, <2>4 DEF WorkerStep, Verdict
<1>5. ~(\E j \in Keys : LateEnds(j)) /\ ~Pair /\ ~Stop /\ ~Die /\ ~Start
  BY <1>1 DEF LateEnds, Pair, Stop, Die, Start
<1>6. DrainDelete
  BY <1>1, <1>3, <1>4, <1>5 DEF Next, Drain, DrainBegin, DrainRead, DrainOffer
<1>7. Rows' = Rows \ drain.offered
  <2>1. spool' = Without(spool, drain.offered) /\ spool \in Seq(Keys)
    BY <1>6 DEF DrainDelete, Types
  <2> QED BY <2>1, WithoutRows DEF Rows
<1> QED BY <1>6, <1>7

\* A refused hook stays refused until its write is done, or has failed.
LEMMA HooksStep ==
  ASSUME Types, Next, NEW k \in Keys, hook[k] = "refused", hook'[k] # "refused"
  PROVE  k \in Rows' \/ faults' > faults
<1> USE DEF drainUnchanged, workerUnchanged
<1>1. ASSUME NEW j \in Keys, HookPost(j) \/ HookMiss(j) PROVE FALSE
  <2>1. hook[j] = "new" /\ \E s : hook' = [hook EXCEPT ![j] = s]
    BY <1>1 DEF HookPost, HookMiss
  <2> QED BY <2>1 DEF Types
<1>2. ASSUME NEW j \in Keys, HookSpool(j) PROVE k \in Rows' \/ faults' > faults
  <2>1. k = j
    BY <1>2 DEF HookSpool, Types
  <2> QED BY <1>2, <2>1, SpoolWriteKeeps DEF HookSpool
<1>3. ~WatchSave /\ \A j \in Keys : ~WatchOffer(j)
  BY DEF WatchSave, WatchOffer
<1>4. ~Drain
  BY DEF Drain, DrainBegin, DrainRead, DrainOffer, DrainDelete
<1>5. ~WorkerStep
  BY DEF WorkerStep, Take, Begin, Hold, Defer, Admit, Send, Quit, Verdict, Unresolved, Publish,
         PublishFails, Finish, TimeoutRespool, TimeoutQuarantine, AbandonAttempt
<1>6. ~(\E j \in Keys : LateEnds(j)) /\ ~Pair /\ ~Stop /\ ~Die /\ ~Start
  BY DEF LateEnds, Pair, Stop, Die, Start
<1> QED BY <1>1, <1>2, <1>3, <1>4, <1>5, <1>6 DEF Next, Producers
-----------------------------------------------------------------------------
(* Custody.                                                                *)

\* Whatever the drain has offered, and is going to delete, is in memory or got
\* its verdict; and the queue remembers only what was delivered, so that its
\* answer "duplicate" is as good as "accepted".
CustodyInv ==
  /\ Queue!Remembered \subseteq delivered
  /\ \A k \in drain.offered :
       InMemory(k) \/ k \in delivered \cup bad \cup rewritten \cup givenUp

\* What the worker does when it lets go of a job that the drain had offered.
LEMMA VerdictOrHistory ==
  ASSUME Types, QueueProved!QueueInv, job \in drain.offered,
         Hold \/ Defer \/ Verdict \/ (Quit /\ AtStep("gate"))
  PROVE  job \in delivered' \cup bad' \cup rewritten' \cup givenUp'
<1>1. job \in Keys
  BY DEF Types
<1>2. CASE Hold \/ Defer \/ TimeoutRespool
  <2>1. SpoolWrite(job)
    BY <1>2 DEF Hold, Defer, TimeoutRespool
  <2> QED BY <1>1, <2>1, SpoolWriteKeeps
<1>3. CASE Unresolved \/ PublishFails \/ TimeoutQuarantine \/ (Quit /\ AtStep("gate"))
  BY <1>3 DEF Unresolved, PublishFails, TimeoutQuarantine, Quit, GiveUp
<1>4. CASE Publish
  BY <1>4 DEF Publish
<1> QED BY <1>2, <1>3, <1>4 DEF Verdict

\* Until the drain deletes or the process dies, no verdict is forgotten.
LEMMA HistoryGrows ==
  ASSUME Types, QueueProved!QueueInv, Next, ~Die, ~DrainDelete
  PROVE  /\ delivered \subseteq delivered' /\ bad \subseteq bad'
         /\ rewritten \subseteq rewritten' /\ givenUp \subseteq givenUp'
<1> USE DEF diskVars, drainUnchanged, workerUnchanged
<1>1. CASE Producers
  <2>1. ASSUME NEW k \in Keys, HookSpool(k)
        PROVE  /\ delivered' = delivered /\ bad' = bad
               /\ rewritten \subseteq rewritten' /\ givenUp \subseteq givenUp'
    BY <2>1, SpoolWriteKeeps DEF HookSpool
  <2> QED BY <1>1, <2>1 DEF Producers, HookPost, HookMiss, WatchOffer, WatchSave
<1>2. CASE Drain
  BY <1>2 DEF Drain, DrainBegin, DrainRead, DrainOffer
<1>3. CASE WorkerStep
  <2>1. CASE Take \/ Begin \/ Admit \/ Send
    BY <2>1 DEF Take, Begin, Admit, Send
  <2>2. CASE Hold \/ Defer \/ TimeoutRespool
    <3>1. SpoolWrite(job) /\ job \in Keys /\ delivered' = delivered
      BY <2>2, QueueFacts DEF Hold, Defer, TimeoutRespool, AbandonAttempt, AtStep
    <3> QED BY <3>1, SpoolWriteKeeps
  <2>3. CASE Unresolved \/ Publish \/ PublishFails
    BY <2>3 DEF Unresolved, Publish, PublishFails, Finish, GiveUp
  <2>4. CASE Quit \/ TimeoutQuarantine
    BY <2>4 DEF Quit, TimeoutQuarantine, AbandonAttempt, GiveUp
  <2> QED BY <1>3, <2>1, <2>2, <2>3, <2>4 DEF WorkerStep, Verdict
<1>4. CASE (\E k \in Keys : LateEnds(k)) \/ Pair \/ Stop \/ Start
  BY <1>4 DEF LateEnds, Pair, Stop, Start
<1> QED BY <1>1, <1>2, <1>3, <1>4 DEF Next

\* The queue remembers a job only as it is published, and forgets all when the
\* process dies.
LEMMA RememberedStep ==
  ASSUME Types, QueueProved!QueueInv, CustodyInv, [Next]_vars
  PROVE  Queue!Remembered' \subseteq delivered'
<1>1. CASE Publish
  <2>1. job \in Keys /\ delivered' = delivered \cup {job} /\ recent' = Queue!Remember(job)
    BY <1>1, QueueFacts DEF Publish, AtStep, Queue!Complete, job
  <2>2. Queue!Remembered' \subseteq Queue!Remembered \cup {job}
    BY <2>1, RememberAdds, QueueFacts DEF Queue!Remembered
  <2> QED BY <2>1, <2>2 DEF CustodyInv
<1>2. CASE Die
  BY <1>2 DEF Die, Queue!Restart, Queue!Remembered, Queue!Elements
<1>3. CASE ~Publish /\ ~Die
  <2>1. recent' = recent
    <3>1. CASE Producers \/ Drain
      BY <3>1 DEF Producers, HookPost, HookMiss, HookSpool, WatchOffer, WatchSave, queueVars,
                  Drain, DrainBegin, DrainRead, DrainOffer, DrainDelete, Queue!Offer
    <3>2. CASE WorkerStep
      BY <1>3, <3>2 DEF WorkerStep, Verdict, Take, Begin, Hold, Defer, Admit, Send, Quit, Unresolved,
                  PublishFails, TimeoutRespool, TimeoutQuarantine, AbandonAttempt, queueVars,
                  Queue!Receive, Queue!Release, Queue!Abandon, Queue!Exit
    <3>3. CASE (\E k \in Keys : LateEnds(k)) \/ Pair \/ Stop \/ Start \/ UNCHANGED vars
      BY <3>3 DEF LateEnds, Pair, Stop, Start, vars, queueVars, Queue!Close
    <3> QED BY <1>3, <3>1, <3>2, <3>3 DEF Next
  <2>2. delivered \subseteq delivered'
    BY <1>3, HistoryGrows DEF DrainDelete, drainUnchanged, vars
  <2> QED BY <2>1, <2>2 DEF CustodyInv, Queue!Remembered, Queue!Elements
<1> QED BY <1>1, <1>2, <1>3

\* CustodyInv is inductive, given the types and the queue's invariant.
LEMMA CustodyInvStep ==
  Types /\ QueueProved!QueueInv /\ CustodyInv /\ [Next]_vars => CustodyInv'
<1> SUFFICES ASSUME Types, QueueProved!QueueInv, CustodyInv, [Next]_vars,
                    NEW k \in drain'.offered
             PROVE  InMemory(k)' \/ k \in delivered' \cup bad' \cup rewritten' \cup givenUp'
  BY RememberedStep DEF CustodyInv
<1>1. CASE UNCHANGED vars
  BY <1>1 DEF vars, queueVars, diskVars, CustodyInv, InMemory, job, Queue!QueuedKeys, Queue!Elements
<1>2. CASE Die \/ DrainDelete
  <2>1. drain'.offered = {}
    <3>1. CASE Die
      BY <3>1 DEF Die, NoDrain
    <3>2. CASE DrainDelete
      BY <3>2 DEF DrainDelete, Types
    <3> QED BY <1>2, <3>1, <3>2
  <2> QED BY <2>1
<1>3. CASE Next /\ ~Die /\ ~DrainDelete /\ k \in drain.offered
  <2>1. k \in Keys
    BY <1>3 DEF Types
  <2>2. InMemory(k) \/ k \in delivered' \cup bad' \cup rewritten' \cup givenUp'
    BY <1>3, HistoryGrows DEF CustodyInv
  <2>3. ASSUME InMemory(k), ~InMemory(k)'
        PROVE  k \in delivered' \cup bad' \cup rewritten' \cup givenUp'
    <3>1. k = job /\ (Hold \/ Defer \/ Verdict \/ (Quit /\ AtStep("gate")))
      BY <1>3, <2>1, <2>3, MemoryStep
    <3> QED BY <1>3, <3>1, VerdictOrHistory
  <2> QED BY <2>2, <2>3
<1>4. CASE Next /\ ~Die /\ ~DrainDelete /\ k \notin drain.offered
  <2>1. DrainOffer(k) /\ Queue!TakenOn(Queue!Outcome(k)) /\ k \in Keys
    <3>1. drain' # drain
      BY <1>4
    <3>2. ~Producers /\ ~WorkerStep
      BY <3>1 DEF Producers, HookPost, HookMiss, HookSpool, WatchOffer, WatchSave, WorkerStep,
                  Take, Begin, Hold, Defer, Admit, Send, Quit, Verdict, Unresolved, Publish,
                  PublishFails, Finish, TimeoutRespool, TimeoutQuarantine, AbandonAttempt,
                  workerUnchanged
    <3>3. ~(\E j \in Keys : LateEnds(j)) /\ ~Pair /\ ~Stop /\ ~Start
      BY <3>1 DEF LateEnds, Pair, Stop, Start, workerUnchanged
    <3>4. ~DrainBegin /\ ~DrainRead
      <4>1. ASSUME DrainBegin PROVE FALSE
        BY <4>1 DEF DrainBegin, NoDrain
      <4>2. ASSUME DrainRead PROVE FALSE
        <5>1. drain'.offered \in {{}, drain.offered}
          BY <4>2 DEF DrainRead, NoDrain, Types
        <5> QED BY <1>4, <5>1
      <4> QED BY <4>1, <4>2
    <3>5. PICK j \in Keys : DrainOffer(j)
      BY <1>4, <3>2, <3>3, <3>4 DEF Next, Drain
    <3>6. drain'.offered = IF Queue!TakenOn(Queue!Outcome(j)) THEN drain.offered \cup {j}
                           ELSE drain.offered
      BY <3>5 DEF DrainOffer, Types
    <3> QED BY <1>4, <3>5, <3>6
  <2>2. k \in Queue!QueuedKeys' \cup inflight \cup Queue!Remembered
        /\ Queue!QueuedKeys \subseteq Queue!QueuedKeys'
        /\ hand' = hand /\ delivered' = delivered
    BY <2>1, QueueFacts, OfferKeeps DEF DrainOffer, drainUnchanged, Queue!Offer
  <2>3. inflight \subseteq Queue!QueuedKeys \cup Queue!ReceivedKeys
    BY QueueFacts DEF Queue!MarksExact
  <2>4. k \in Queue!ReceivedKeys => InMemory(k)'
    BY <2>2 DEF Queue!ReceivedKeys, InMemory, job
  <2>5. k \in Queue!QueuedKeys' => InMemory(k)'
    BY DEF InMemory
  <2>6. k \in Queue!Remembered => k \in delivered'
    BY <2>2 DEF CustodyInv
  <2> QED BY <2>2, <2>3, <2>4, <2>5, <2>6
<1> QED BY <1>1, <1>2, <1>3, <1>4

\* Every step that lets a prompt go has one of CustodyKept's reasons.
LEMMA CustodyStep ==
  ASSUME Types, QueueProved!QueueInv, CustodyInv, Next,
         NEW k \in Keys, Held(k), ~Held(k)'
  PROVE  \/ k \in delivered' \cup bad'
         \/ Unresolved \/ PublishFails
         \/ Die \/ (Quit /\ closed)
         \/ faults' > faults
         \/ DrainDelete /\ k \in rewritten \cup givenUp
<1>0. hook'[k] # "refused" /\ k \notin Rows' /\ ~InMemory(k)'
  BY DEF Held, InMemory
<1>1. CASE hook[k] = "refused"
  BY <1>0, <1>1, HooksStep
<1>2. CASE InMemory(k) /\ ~Die
  <2>1. k = job /\ (Hold \/ Defer \/ Verdict \/ (Quit /\ closed))
    BY <1>0, <1>2, MemoryStep
  <2>2. CASE Hold \/ Defer \/ TimeoutRespool
    <3>1. SpoolWrite(job)
      BY <2>2 DEF Hold, Defer, TimeoutRespool
    <3> QED BY <1>0, <2>1, <3>1, SpoolWriteKeeps
  <2>3. CASE Publish
    BY <2>1, <2>3 DEF Publish
  <2>4. CASE TimeoutQuarantine
    BY <2>1, <2>4 DEF TimeoutQuarantine, Types
  <2> QED BY <2>1, <2>2, <2>3, <2>4 DEF Verdict
<1>3. CASE k \in Rows /\ ~InMemory(k)
  <2>1. DrainDelete /\ k \in drain.offered
    BY <1>0, <1>3, RowsStep
  <2>2. delivered' = delivered /\ bad' = bad
    BY <2>1 DEF DrainDelete, drainUnchanged
  <2> QED BY <1>3, <2>1, <2>2 DEF CustodyInv
<1>4. CASE k \in Rows /\ InMemory(k) /\ Die
  BY <1>4
<1> QED BY <1>1, <1>2, <1>3, <1>4 DEF Held, InMemory

\* A prompt somebody holds stays held until it is delivered or set aside: the
\* worker may give it up, the process may die with it, the disk may refuse it, and
\* the drain may delete a row that was written again after it was offered.
THEOREM CustodyOfPrompts == Spec => CustodyKept
<1>1. Init => CustodyInv
  BY DEF Init, CustodyInv, NoDrain, Queue!Init, Queue!Remembered, Queue!Elements
<1>2. Types /\ QueueProved!QueueInv /\ CustodyInv /\ [Next]_vars => CustodyInv'
  BY CustodyInvStep
<1>3. Types /\ QueueProved!QueueInv /\ CustodyInv /\ [Next]_vars =>
        [\A k \in Keys : Held(k) /\ ~Held(k)' =>
           \/ k \in delivered' \cup bad'
           \/ Unresolved \/ PublishFails
           \/ Die \/ (Quit /\ closed)
           \/ faults' > faults
           \/ DrainDelete /\ k \in rewritten \cup givenUp]_vars
  BY CustodyStep
<1> QED BY <1>1, <1>2, <1>3, TypesInvariance, PipelineQueueInvariance, PTL DEF Spec, CustodyKept
-----------------------------------------------------------------------------
(* Collecting while unpaired.                                              *)

\* While there is no endpoint the drain does not run, the worker does not get
\* past the gate, and no abandoned attempt is sending.
UnpairedInv ==
  enrichHeld =>
    /\ ~drain.on /\ drain.page = <<>> /\ drain.offered = {}
    /\ step = "gate" /\ late = {}

\* The steps of a held worker: take a job, start on it, put it back, or stop.
LEMMA HeldWorker ==
  ASSUME UnpairedInv, enrichHeld, WorkerStep
  PROVE  Take \/ Begin \/ Hold \/ (Quit /\ hand[Worker] = Queue!Idle)
BY DEF WorkerStep, UnpairedInv, Defer, Admit, Send, Quit, Verdict, Unresolved, Publish,
       PublishFails, TimeoutRespool, TimeoutQuarantine, AbandonAttempt, AtStep

\* A held drain does nothing.
LEMMA HeldDrain ==
  ASSUME UnpairedInv, enrichHeld
  PROVE  ~Drain
BY DEF UnpairedInv, Drain, DrainBegin, DrainDelete, DrainRead, DrainOffer

\* Nothing unpairs the machine: only Pair touches the endpoint.
LEMMA StaysPaired ==
  ASSUME [Next]_vars, enrichHeld'
  PROVE  enrichHeld /\ paired' = paired
<1> USE DEF drainUnchanged, workerUnchanged
<1>0. CASE Producers
  BY <1>0 DEF Producers, HookPost, HookMiss, HookSpool, WatchOffer, WatchSave, enrichHeld
<1>1. CASE Drain
  <2>1. paired' = paired
    BY <1>1 DEF Drain, DrainBegin, DrainRead, DrainOffer, DrainDelete
  <2> QED BY <2>1 DEF enrichHeld
<1>2. CASE WorkerStep
  BY <1>2 DEF WorkerStep, Take, Begin, Hold, Defer, Admit, Send, Quit, Verdict, Unresolved, Publish,
              PublishFails, TimeoutRespool, TimeoutQuarantine, AbandonAttempt, Finish, enrichHeld
<1>3. CASE (\E k \in Keys : LateEnds(k)) \/ Pair \/ Stop \/ Die \/ Start \/ UNCHANGED vars
  BY <1>3 DEF LateEnds, Pair, Stop, Die, Start, vars, enrichHeld
<1> QED BY <1>0, <1>1, <1>2, <1>3 DEF Next

\* UnpairedInv is inductive.
LEMMA UnpairedInvStep == UnpairedInv /\ [Next]_vars => UnpairedInv'
<1> SUFFICES ASSUME UnpairedInv, [Next]_vars, enrichHeld'
             PROVE  /\ ~drain'.on /\ drain'.page = <<>> /\ drain'.offered = {}
                    /\ step' = "gate" /\ late' = {}
  BY DEF UnpairedInv
<1>1. /\ enrichHeld /\ ~drain.on /\ drain.page = <<>> /\ drain.offered = {}
      /\ step = "gate" /\ late = {}
  BY StaysPaired DEF UnpairedInv
<1>2. CASE Producers
  BY <1>1, <1>2 DEF Producers, HookPost, HookMiss, HookSpool, WatchOffer, WatchSave
<1>3. CASE WorkerStep
  BY <1>1, <1>3, HeldWorker DEF Take, Begin, Hold, Quit, workerUnchanged
<1>4. CASE (\E k \in Keys : LateEnds(k)) \/ Stop \/ Die \/ Start \/ Pair \/ UNCHANGED vars
  BY <1>1, <1>4 DEF LateEnds, Stop, Die, Start, Pair, NoDrain, vars
<1> QED BY <1>1, <1>2, <1>3, <1>4, HeldDrain DEF Next

\* While the endpoint is missing the pipeline only moves what it holds.
LEMMA UnpairedStep ==
  ASSUME Types, UnpairedInv, QueueProved!QueueInv, Next, enrichHeld, up', faults' = faults
  PROVE  /\ \A k \in Keys : Held(k) => Held(k)'
         /\ delivered' = delivered
<1> USE DEF workerUnchanged
<1>0. ~Drain /\ ~Die /\ ~(\E k \in Keys : LateEnds(k)) /\ ~(faults' > faults)
  <2>1. faults \in Nat
    BY PipelineAssumption DEF Types
  <2>2. ~Die /\ ~(\E k \in Keys : LateEnds(k))
    BY DEF UnpairedInv, Die, LateEnds
  <2> QED BY <2>1, <2>2, HeldDrain
<1>1. ASSUME NEW k \in Keys, InMemory(k), ~InMemory(k)' PROVE k \in Rows'
  <2>1. k = job /\ (Hold \/ Defer \/ Verdict \/ (Quit /\ AtStep("gate")))
    BY <1>0, <1>1, MemoryStep
  <2>2. Hold
    BY <2>1, HeldWorker DEF UnpairedInv, Defer, Quit, AtStep, Verdict, Unresolved, Publish,
                            PublishFails, TimeoutRespool, TimeoutQuarantine, AbandonAttempt
  <2> QED BY <1>0, <1>1, <2>1, <2>2, SpoolWriteKeeps DEF Hold
<1>2. ASSUME NEW k \in Keys, k \in Rows PROVE k \in Rows'
  BY <1>0, <1>2, RowsStep DEF Drain
<1>3. ASSUME NEW k \in Keys, hook[k] = "refused" PROVE hook'[k] = "refused" \/ k \in Rows'
  BY <1>0, <1>3, HooksStep
<1>4. delivered' = delivered
  <2>1. CASE Producers
    BY <2>1 DEF Producers, HookPost, HookMiss, HookSpool, WatchOffer, WatchSave
  <2>2. CASE WorkerStep
    BY <2>2, HeldWorker DEF Take, Begin, Hold, Quit
  <2>3. CASE Pair \/ Stop \/ Start
    BY <2>3 DEF Pair, Stop, Start
  <2> QED BY <1>0, <2>1, <2>2, <2>3 DEF Next
<1> QED BY <1>1, <1>2, <1>3, <1>4 DEF Held, InMemory

\* An unpaired machine holds on to everything it collects, and sends nothing.
THEOREM UnpairedLosesNothing == Spec => UnpairedKeepsAll
<1>1. Init => UnpairedInv
  BY DEF Init, UnpairedInv, NoDrain
<1>2. UnpairedInv /\ [Next]_vars => UnpairedInv'
  BY UnpairedInvStep
<1>3. Types /\ UnpairedInv /\ QueueProved!QueueInv /\ [Next]_vars
        => [enrichHeld /\ up' /\ faults' = faults =>
              /\ \A k \in Keys : Held(k) => Held(k)'
              /\ delivered' = delivered]_vars
  BY UnpairedStep
<1> QED BY <1>1, <1>2, <1>3, TypesInvariance, PipelineQueueInvariance, PTL
        DEF Spec, UnpairedKeepsAll
-----------------------------------------------------------------------------
(* The pipeline uses the spool as SpoolRows.                               *)

\* Pairs of elements in the order of s.
Pairs(s) ==
  {p \in Queue!Elements(s) \X Queue!Elements(s) :
     \E i, j \in DOMAIN s : i < j /\ p = <<s[i], s[j]>>}

LEMMA ElementsAt ==
  ASSUME NEW s \in Seq(Keys)
  PROVE  /\ DOMAIN s = 1 .. Len(s) /\ Len(s) \in Nat
         /\ \A i \in 1 .. Len(s) : s[i] \in Queue!Elements(s)
         /\ \A x \in Queue!Elements(s) : \E i \in 1 .. Len(s) : x = s[i]
BY DEF Queue!Elements

\* What is appended comes after all the others.
LEMMA AppendLast ==
  ASSUME NEW s \in Seq(Keys), NEW k \in Keys
  PROVE  Pairs(Append(s, k)) = Pairs(s) \cup Queue!Elements(s) \X {k}
<1> DEFINE t == Append(s, k)
           n == Len(s)
<1>1. /\ t \in Seq(Keys) /\ n \in Nat /\ DOMAIN s = 1 .. n /\ DOMAIN t = 1 .. n + 1
      /\ \A i \in 1 .. n : t[i] = s[i]
      /\ t[n + 1] = k
  OBVIOUS
<1>2. Queue!Elements(t) = Queue!Elements(s) \cup {k}
  BY AppendKeeps
<1> HIDE DEF t
<1>3. ASSUME NEW p \in Pairs(t) PROVE p \in Pairs(s) \cup Queue!Elements(s) \X {k}
  <2>1. PICK i, j \in 1 .. n + 1 : i < j /\ p = <<t[i], t[j]>>
    BY <1>1, <1>3 DEF Pairs
  <2>2. i \in 1 .. n /\ t[i] = s[i] /\ s[i] \in Queue!Elements(s)
    BY <1>1, <2>1, ElementsAt
  <2>3. CASE j = n + 1
    BY <1>1, <2>1, <2>2, <2>3
  <2>4. CASE j # n + 1
    <3>1. j \in 1 .. n
      BY <1>1, <2>4
    <3>2. t[j] = s[j] /\ s[j] \in Queue!Elements(s)
      BY <1>1, <3>1, ElementsAt
    <3> QED BY <1>1, <2>1, <2>2, <3>1, <3>2 DEF Pairs
  <2> QED BY <2>3, <2>4
<1>4. ASSUME NEW p \in Pairs(s) PROVE p \in Pairs(t)
  <2>1. PICK i, j \in 1 .. n : i < j /\ p = <<s[i], s[j]>>
    BY <1>1, <1>4 DEF Pairs
  <2>2. p \in Queue!Elements(t) \X Queue!Elements(t)
    BY <1>2, <1>4 DEF Pairs
  <2>3. i \in DOMAIN t /\ j \in DOMAIN t /\ p = <<t[i], t[j]>>
    BY <1>1, <2>1
  <2> QED BY <2>1, <2>2, <2>3 DEF Pairs
<1>5. ASSUME NEW p \in Queue!Elements(s) \X {k} PROVE p \in Pairs(t)
  <2>1. PICK i \in 1 .. n : p = <<s[i], k>>
    BY <1>5, ElementsAt
  <2>2. i \in DOMAIN t /\ n + 1 \in DOMAIN t /\ i < n + 1 /\ p = <<t[i], t[n + 1]>>
    BY <1>1, <2>1
  <2>3. p \in Queue!Elements(t) \X Queue!Elements(t)
    BY <1>2, <1>5
  <2> QED BY <2>2, <2>3 DEF Pairs
<1> QED BY <1>3, <1>4, <1>5 DEF t

\* Without keeps the order of what it keeps.
LEMMA WithoutOrder ==
  ASSUME NEW s \in Seq(Keys), NEW S
  PROVE  Pairs(Without(s, S))
           = Pairs(s) \cap (Queue!Elements(Without(s, S)) \X Queue!Elements(Without(s, S)))
<1> DEFINE Step(f, i) == IF s[i] \in S THEN f[i - 1] ELSE Append(f[i - 1], s[i])
           Some(i) == {s[j] : j \in 1 .. i} \ S
           Ordered(i) == {p \in Some(i) \X Some(i) :
                            \E a, b \in 1 .. i : a < b /\ p = <<s[a], s[b]>>}
<1>1. Len(s) \in Nat /\ DOMAIN s = 1 .. Len(s) /\ \A i \in 1 .. Len(s) : s[i] \in Keys
  OBVIOUS
<1>2. PICK left : /\ Without(s, S) = left[Len(s)] /\ left[0] = <<>>
                  /\ \A i \in 1 .. Len(s) : left[i] = Step(left, i)
  BY WithoutSteps
<1> DEFINE Right(i) == /\ left[i] \in Seq(Keys) /\ Queue!Elements(left[i]) = Some(i)
                       /\ Pairs(left[i]) = Ordered(i)
<1>3. \A i \in 0 .. Len(s) : Right(i)
  <2> DEFINE Wrong == {i \in 0 .. Len(s) : ~Right(i)}
  <2> SUFFICES ASSUME Wrong # {} PROVE FALSE
    OBVIOUS
  <2>1. PICK i \in Wrong : \A m \in Wrong : i <= m
    <3> HIDE DEF Right
    <3>1. Wrong \in SUBSET Nat
      BY <1>1
    <3> QED BY <3>1, LeastNumber
  <2>2. i # 0
    <3>1. left[0] = <<>> /\ Queue!Elements(left[0]) = Some(0)
      BY <1>2 DEF Queue!Elements
    <3>2. Pairs(left[0]) = {} /\ Ordered(0) = {}
      BY <3>1 DEF Pairs
    <3>3. Right(0)
      BY <3>1, <3>2
    <3> QED BY <3>3, <2>1
  <2>3. i \in 1 .. Len(s) /\ i - 1 \in 0 .. Len(s) /\ Right(i - 1)
    <3>1. i \in 1 .. Len(s) /\ i - 1 \in 0 .. Len(s) /\ ~(i <= i - 1)
      BY <1>1, <2>1, <2>2
    <3> QED BY <3>1, <2>1
  <2>4. 1 .. i = (1 .. i - 1) \cup {i} /\ s[i] \in Keys
    BY <1>1, <2>3
  <2>5. CASE s[i] \in S
    <3>1. left[i] = left[i - 1]
      BY <1>2, <2>3, <2>5
    <3>2. Some(i) = Some(i - 1)
      BY <2>4, <2>5
    <3>3. ASSUME NEW p \in Ordered(i) PROVE p \in Ordered(i - 1)
      <4>1. PICK a, b \in 1 .. i : a < b /\ p = <<s[a], s[b]>>
        BY <3>3
      <4>2. s[a] \notin S /\ s[b] \notin S
        BY <3>3, <4>1
      <4>3. a \in 1 .. i - 1 /\ b \in 1 .. i - 1
        BY <2>4, <2>5, <4>1, <4>2
      <4> QED BY <3>2, <3>3, <4>1, <4>3
    <3>4. ASSUME NEW p \in Ordered(i - 1) PROVE p \in Ordered(i)
      BY <2>4, <3>2, <3>4
    <3>5. Ordered(i) = Ordered(i - 1)
      <4> HIDE DEF Ordered
      <4> QED BY <3>3, <3>4
    <3> QED BY <2>1, <2>3, <3>1, <3>2, <3>5
  <2>6. CASE s[i] \notin S
    <3>1. left[i] = Append(left[i - 1], s[i])
      BY <1>2, <2>3, <2>6
    <3>2. Append(left[i - 1], s[i]) \in Seq(Keys)
      BY <2>3, <2>4
    <3>3. Some(i) = Some(i - 1) \cup {s[i]}
      BY <2>4, <2>6
    <3>4. Queue!Elements(left[i]) = Some(i)
      BY <2>3, <2>4, <3>1, <3>3, AppendKeeps
    <3>5. Pairs(left[i]) = Ordered(i - 1) \cup Some(i - 1) \X {s[i]}
      BY <2>3, <2>4, <3>1, AppendLast
    <3>6. ASSUME NEW p \in Ordered(i) PROVE p \in Ordered(i - 1) \cup Some(i - 1) \X {s[i]}
      <4>1. PICK a, b \in 1 .. i : a < b /\ p = <<s[a], s[b]>>
        BY <3>6
      <4>2. s[a] \notin S /\ s[b] \notin S
        BY <3>6, <4>1
      <4>3. a \in 1 .. i - 1 /\ s[a] \in Some(i - 1)
        BY <1>1, <2>3, <4>1, <4>2
      <4>4. CASE b = i
        BY <4>1, <4>3, <4>4
      <4>5. CASE b # i
        <5>1. b \in 1 .. i - 1 /\ s[b] \in Some(i - 1)
          BY <2>4, <4>2, <4>5
        <5> QED BY <4>1, <4>3, <5>1
      <4> QED BY <4>4, <4>5
    <3>7. ASSUME NEW p \in Ordered(i - 1) PROVE p \in Ordered(i)
      BY <2>4, <3>3, <3>7
    <3>8. ASSUME NEW p \in Some(i - 1) \X {s[i]} PROVE p \in Ordered(i)
      <4>1. PICK a \in 1 .. i - 1 : p = <<s[a], s[i]>>
        BY <3>8
      <4>2. a \in 1 .. i /\ i \in 1 .. i /\ a < i
        BY <1>1, <2>3
      <4>3. p \in Some(i) \X Some(i)
        BY <3>3, <3>8
      <4> QED BY <4>1, <4>2, <4>3
    <3>9. Ordered(i) = Ordered(i - 1) \cup Some(i - 1) \X {s[i]}
      <4> HIDE DEF Ordered, Some
      <4> QED BY <3>6, <3>7, <3>8
    <3> QED BY <2>1, <3>1, <3>2, <3>4, <3>5, <3>9
  <2> QED BY <2>5, <2>6
<1>4. Right(Len(s))
  <2> HIDE DEF Right
  <2> QED BY <1>1, <1>3
<1>5. Some(Len(s)) \subseteq Queue!Elements(s)
  BY <1>1 DEF Queue!Elements
<1>6. Ordered(Len(s)) = Pairs(s) \cap (Some(Len(s)) \X Some(Len(s)))
  BY <1>1, <1>5 DEF Pairs
<1> QED BY <1>2, <1>4, <1>6

\* A write, whether it works or fails.
LEMMA SpoolWriteRows ==
  ASSUME Types, NEW k \in Keys, SpoolWrite(k)
  PROVE  UNCHANGED Spool!rowVars \/ Spool!Write(k)
<1>1. CASE spool' = spool
  BY <1>1 DEF Rows, ById, Queue!Elements, Spool!rowVars
<1>2. CASE k \notin Rows /\ spool' = Append(spool, k)
  <2>1. spool \in Seq(Keys) /\ Rows = Queue!Elements(spool) /\ ById = Pairs(spool)
    BY DEF Types, Rows, ById, Pairs
  <2>2. Rows' = Rows \cup {k}
    BY <1>2, <2>1, AppendKeeps DEF Rows
  <2>3. ById' = ById \cup Rows \X {k}
    <3>1. ById' = Pairs(Append(spool, k))
      BY <1>2 DEF ById, Rows, Pairs
    <3> QED BY <2>1, <3>1, AppendLast
  <2> QED BY <1>2, <2>2, <2>3 DEF Spool!Write
<1> QED BY <1>1, <1>2 DEF SpoolWrite

LEMMA DrainDeleteRows ==
  ASSUME Types, DrainDelete
  PROVE  Rows' = Rows \ drain.offered /\ ById' = ById \cap (Rows' \X Rows')
<1>1. spool \in Seq(Keys) /\ spool' = Without(spool, drain.offered)
  BY DEF DrainDelete, Types
<1>2. Rows' = Rows \ drain.offered /\ Rows' = Queue!Elements(Without(spool, drain.offered))
  BY <1>1, WithoutRows DEF Rows
<1>3. ById' = Pairs(Without(spool, drain.offered)) /\ ById = Pairs(spool)
  BY <1>1 DEF ById, Rows, Pairs
<1> QED BY <1>1, <1>2, <1>3, WithoutOrder

\* What a step may do to the rows.
LEMMA RowsChange ==
  ASSUME Types, QueueProved!QueueInv, [Next]_vars
  PROVE  UNCHANGED Spool!rowVars \/ (\E k \in Keys : Spool!Write(k)) \/ DrainDelete
<1> USE DEF diskVars, drainUnchanged, workerUnchanged
<1>1. CASE spool' = spool
  BY <1>1 DEF Rows, ById, Queue!Elements, Spool!rowVars
<1>2. CASE \E k \in Keys : SpoolWrite(k)
  BY <1>2, SpoolWriteRows
<1>3. Producers => spool' = spool \/ \E k \in Keys : SpoolWrite(k)
  BY DEF Producers, HookPost, HookMiss, HookSpool, WatchOffer, WatchSave
<1>4. Drain => spool' = spool \/ DrainDelete
  BY DEF Drain, DrainBegin, DrainRead, DrainOffer
<1>5. WorkerStep => spool' = spool \/ \E k \in Keys : SpoolWrite(k)
  <2>1. AtStep("gate") \/ AtStep("run") \/ AtStep("send") => job \in Keys
    BY QueueFacts DEF AtStep
  <2>2. Hold \/ Defer \/ TimeoutRespool => \E k \in Keys : SpoolWrite(k)
    BY <2>1 DEF Hold, Defer, TimeoutRespool, AbandonAttempt
  <2>3. Take \/ Begin \/ Admit \/ Send \/ Quit \/ TimeoutQuarantine => spool' = spool
    BY DEF Take, Begin, Admit, Send, Quit, TimeoutQuarantine
  <2>4. Unresolved \/ Publish \/ PublishFails => spool' = spool
    BY DEF Unresolved, Publish, PublishFails, Finish
  <2> QED BY <2>2, <2>3, <2>4 DEF WorkerStep, Verdict
<1>6. (\E k \in Keys : LateEnds(k)) \/ Pair \/ Stop \/ Die \/ Start => spool' = spool
  BY DEF LateEnds, Pair, Stop, Die, Start
<1> QED BY <1>1, <1>2, <1>3, <1>4, <1>5, <1>6 DEF Next, vars

\* Hook, watcher, drain and worker, in whatever order, use the spool as SpoolRows:
\* a write that works adds the prompt's row behind the others or leaves the one it
\* has, and only a page's delete takes rows away (spool.Write, Drain).
THEOREM PipelineImplementsRows == Spec => SpoolSpec
<1>1. Init => Spool!Init
  BY DEF Init, Spool!Init, Rows, ById, Queue!Elements
<1>2. Types /\ QueueProved!QueueInv /\ [Next]_vars => [Spool!Next]_(Spool!rowVars)
  <2>1. ASSUME Types, DrainDelete PROVE Spool!Next
    <3>1. Spool!Delete(Rows \ Rows')
      BY <2>1, DrainDeleteRows DEF Spool!Delete
    <3> QED BY <3>1 DEF Spool!Next
  <2> QED BY <2>1, RowsChange DEF Spool!Next
<1> QED BY <1>1, <1>2, TypesInvariance, PipelineQueueInvariance, PTL DEF Spec, SpoolSpec, Spool!Spec
-----------------------------------------------------------------------------
(* A pass of the drain.                                                    *)

Page == Queue!Elements(drain.page)

\* What is past comes before the page, and the page before the rest.
PassInv ==
  /\ drain.past \subseteq Rows /\ Page \subseteq Rows \ drain.past
  /\ \A j \in drain.past, k \in Rows \ drain.past : <<j, k>> \in ById
  /\ Pairs(drain.page) \subseteq ById
  /\ \A k \in Page, j \in Rows \ (drain.past \cup Page) : <<k, j>> \in ById

LEMMA RowsDistinct == Spec => [](\A k \in Rows : <<k, k>> \notin ById)
<1> DEFINE Distinct == \A k \in Rows : <<k, k>> \notin ById
<1>1. Spool!Init => Distinct
  BY DEF Spool!Init
<1>2. Distinct /\ [Spool!Next]_(Spool!rowVars) => Distinct'
  <2> SUFFICES ASSUME Distinct, [Spool!Next]_(Spool!rowVars) PROVE Distinct'
    OBVIOUS
  <2>1. ById \subseteq Rows \X Rows
    BY DEF ById
  <2>2. ASSUME NEW k \in Keys, Spool!Write(k) PROVE Distinct'
    BY <2>1, <2>2 DEF Spool!Write
  <2>3. ASSUME NEW gone \in SUBSET Rows, Spool!Delete(gone) PROVE Distinct'
    BY <2>3 DEF Spool!Delete
  <2>4. CASE UNCHANGED Spool!rowVars
    BY <2>4 DEF Spool!rowVars
  <2> QED BY <2>2, <2>3, <2>4 DEF Spool!Next
<1> QED BY <1>1, <1>2, PipelineImplementsRows, PTL DEF SpoolSpec, Spool!Spec

\* The first n elements of s: they are in s, in its order, and before the others.
LEMMA Prefix ==
  ASSUME NEW s \in Seq(Keys), NEW n \in 0 .. Len(s)
  PROVE  LET p == SubSeq(s, 1, n)
         IN  /\ Queue!Elements(p) \subseteq Queue!Elements(s)
             /\ Pairs(p) \subseteq Pairs(s)
             /\ \A k \in Queue!Elements(p), j \in Queue!Elements(s) \ Queue!Elements(p) :
                  <<k, j>> \in Pairs(s)
<1> DEFINE p == SubSeq(s, 1, n)
<1>1. /\ Len(s) \in Nat /\ DOMAIN s = 1 .. Len(s) /\ DOMAIN p = 1 .. n
      /\ \A i \in 1 .. n : p[i] = s[i] /\ i \in 1 .. Len(s)
  OBVIOUS
<1> HIDE DEF p
<1>2. Queue!Elements(p) = {s[i] : i \in 1 .. n}
  BY <1>1 DEF Queue!Elements
<1>3. Queue!Elements(s) = {s[i] : i \in 1 .. Len(s)}
  BY <1>1 DEF Queue!Elements
<1>4. Queue!Elements(p) \subseteq Queue!Elements(s)
  BY <1>1, <1>2, <1>3
<1>5. Pairs(p) \subseteq Pairs(s)
  BY <1>1, <1>4 DEF Pairs
<1>6. ASSUME NEW k \in Queue!Elements(p), NEW j \in Queue!Elements(s) \ Queue!Elements(p)
      PROVE  <<k, j>> \in Pairs(s)
  <2>1. PICK a \in 1 .. n : k = s[a]
    BY <1>2
  <2>2. PICK b \in 1 .. Len(s) : j = s[b]
    BY <1>3
  <2>3. b \notin 1 .. n
    BY <1>2, <2>2
  <2>4. a < b
    BY <1>1, <2>3
  <2> QED BY <1>1, <1>4, <2>1, <2>2, <2>4 DEF Pairs
<1> QED BY <1>4, <1>5, <1>6 DEF p

\* The first element of a page, and what is left of the page.
LEMMA FirstOf ==
  ASSUME NEW s \in Seq(Keys), s # <<>>
  PROVE  /\ Queue!Elements(s) = {Head(s)} \cup Queue!Elements(Tail(s))
         /\ Pairs(Tail(s)) \subseteq Pairs(s)
         /\ \A j \in Queue!Elements(Tail(s)) : <<Head(s), j>> \in Pairs(s)
<1> DEFINE t == Tail(s)
<1>1. /\ Len(s) \in Nat /\ Len(s) >= 1 /\ DOMAIN s = 1 .. Len(s) /\ DOMAIN t = 1 .. Len(s) - 1
      /\ \A i \in 1 .. Len(s) - 1 : t[i] = s[i + 1] /\ i + 1 \in 1 .. Len(s)
      /\ Head(s) = s[1] /\ 1 \in 1 .. Len(s)
  OBVIOUS
<1> HIDE DEF t
<1>2. \A i \in 2 .. Len(s) : i - 1 \in 1 .. Len(s) - 1 /\ t[i - 1] = s[i]
  BY <1>1
<1>3. Queue!Elements(s) = {Head(s)} \cup Queue!Elements(t)
  <2>1. ASSUME NEW x \in Queue!Elements(s), x # Head(s) PROVE x \in Queue!Elements(t)
    <3>1. PICK i \in 1 .. Len(s) : x = s[i]
      BY <1>1, <2>1 DEF Queue!Elements
    <3>2. i \in 2 .. Len(s)
      BY <1>1, <2>1, <3>1
    <3> QED BY <1>1, <1>2, <3>1, <3>2 DEF Queue!Elements
  <2>2. {Head(s)} \cup Queue!Elements(t) \subseteq Queue!Elements(s)
    BY <1>1 DEF Queue!Elements
  <2> QED BY <2>1, <2>2
<1>4. ASSUME NEW p \in Pairs(t) PROVE p \in Pairs(s)
  <2>1. PICK i, j \in 1 .. Len(s) - 1 : i < j /\ p = <<t[i], t[j]>>
    BY <1>1, <1>4 DEF Pairs
  <2>2. i + 1 \in DOMAIN s /\ j + 1 \in DOMAIN s /\ i + 1 < j + 1 /\ p = <<s[i + 1], s[j + 1]>>
    BY <1>1, <2>1
  <2>3. p \in Queue!Elements(s) \X Queue!Elements(s)
    BY <1>3, <1>4 DEF Pairs
  <2> QED BY <2>2, <2>3 DEF Pairs
<1>5. ASSUME NEW j \in Queue!Elements(t) PROVE <<Head(s), j>> \in Pairs(s)
  <2>1. PICK i \in 1 .. Len(s) - 1 : j = t[i]
    BY <1>1 DEF Queue!Elements
  <2>2. 1 \in DOMAIN s /\ i + 1 \in DOMAIN s /\ 1 < i + 1 /\ j = s[i + 1] /\ Head(s) = s[1]
    BY <1>1, <2>1
  <2>3. Head(s) \in Queue!Elements(s) /\ j \in Queue!Elements(s)
    BY <1>3
  <2> QED BY <2>2, <2>3 DEF Pairs
<1> QED BY <1>3, <1>4, <1>5 DEF t

LEMMA NoPass ==
  ASSUME drain.page = <<>>, drain.past = {} PROVE PassInv
BY DEF PassInv, Page, Pairs, Queue!Elements

LEMMA DrainReadPass ==
  ASSUME Types, PassInv, DrainRead PROVE PassInv'
<1> DEFINE rows == Without(spool, drain.past)
           size == IF Len(rows) < DrainPage THEN Len(rows) ELSE DrainPage
           next == SubSeq(rows, 1, size)
<1>1. rows \in Seq(Keys) /\ Queue!Elements(rows) = Rows \ drain.past
  BY WithoutRows DEF Types, Rows
<1>2. Pairs(rows) \subseteq ById
  <2>1. ById = Pairs(spool) /\ spool \in Seq(Keys)
    BY DEF ById, Rows, Pairs, Types
  <2> QED BY <2>1, WithoutOrder
<1>3. Rows' = Rows /\ ById' = ById
  BY DEF DrainRead, Rows, ById, Queue!Elements
<1>4. CASE drain' = NoDrain
  <2>1. drain'.page = <<>> /\ drain'.past = {}
    BY <1>4 DEF NoDrain
  <2> QED BY <2>1 DEF PassInv, Page, Pairs, Queue!Elements
<1>5. CASE drain' # NoDrain
  <2>1. size \in 0 .. Len(rows)
    BY <1>1, PipelineAssumption
  <2>2. drain' = [drain EXCEPT !.page = next]
    BY <1>5 DEF DrainRead
  <2>3. /\ Queue!Elements(next) \subseteq Queue!Elements(rows)
        /\ Pairs(next) \subseteq Pairs(rows)
        /\ \A k \in Queue!Elements(next), j \in Queue!Elements(rows) \ Queue!Elements(next) :
              <<k, j>> \in Pairs(rows)
    <3> HIDE DEF rows, size
    <3> QED BY <1>1, <2>1, Prefix
  <2> HIDE DEF next, rows
  <2>4. drain'.page = next /\ drain'.past = drain.past
    BY <2>2 DEF Types
  <2>5. Page' = Queue!Elements(next) /\ Pairs(drain.page)' = Pairs(next)
    BY <2>4 DEF Page, Pairs, Queue!Elements
  <2> QED BY <1>1, <1>2, <1>3, <2>3, <2>4, <2>5 DEF PassInv
<1> QED BY <1>4, <1>5

LEMMA DrainOfferPass ==
  ASSUME Types, PassInv, \A x \in Rows : <<x, x>> \notin ById, NEW k \in Keys, DrainOffer(k)
  PROVE  /\ PassInv'
         /\ k \in Rows \ drain.past
         /\ \A j \in Rows \ (drain.past \cup {k}) : <<k, j>> \in ById
<1>1. drain.page \in Seq(Keys) /\ drain.page # <<>> /\ k = Head(drain.page)
  BY DEF DrainOffer, Types
<1> DEFINE rest == Tail(drain.page)
<1>2. drain'.page = rest /\ drain'.past = drain.past \cup {k}
  BY DEF DrainOffer, Types
<1>3. Rows' = Rows /\ ById' = ById
  BY DEF DrainOffer, Rows, ById, Queue!Elements
<1>4. /\ Page = {k} \cup Queue!Elements(rest)
      /\ Pairs(rest) \subseteq Pairs(drain.page)
      /\ \A j \in Queue!Elements(rest) : <<k, j>> \in Pairs(drain.page)
  BY <1>1, FirstOf DEF Page
<1> HIDE DEF rest
<1>5. Page' = Queue!Elements(rest) /\ Pairs(drain.page)' = Pairs(rest)
  BY <1>2 DEF Page, Pairs, Queue!Elements
<1>6. k \in Rows \ drain.past /\ k \notin Queue!Elements(rest)
  BY <1>4 DEF PassInv
<1>7. \A j \in Rows \ (drain.past \cup {k}) : <<k, j>> \in ById
  BY <1>4 DEF PassInv
<1>8. PassInv'
  <2>1. drain'.past \subseteq Rows' /\ Page' \subseteq Rows' \ drain'.past
    BY <1>2, <1>3, <1>4, <1>5, <1>6 DEF PassInv
  <2>2. \A j \in drain'.past, x \in Rows' \ drain'.past : <<j, x>> \in ById'
    BY <1>2, <1>3, <1>7 DEF PassInv
  <2>3. Pairs(drain.page)' \subseteq ById'
    BY <1>3, <1>4, <1>5 DEF PassInv
  <2>4. \A x \in Page', j \in Rows' \ (drain'.past \cup Page') : <<x, j>> \in ById'
    BY <1>2, <1>3, <1>4, <1>5 DEF PassInv
  <2> QED BY <2>1, <2>2, <2>3, <2>4 DEF PassInv
<1> QED BY <1>6, <1>7, <1>8

\* A row written during the pass comes behind all others, so also behind the page.
LEMMA WritePass ==
  ASSUME PassInv, drain' = drain, UNCHANGED Spool!rowVars \/ \E k \in Keys : Spool!Write(k)
  PROVE  PassInv'
<1>1. Page' = Page /\ Pairs(drain.page)' = Pairs(drain.page)
  BY DEF Page, Pairs, Queue!Elements
<1> QED BY <1>1 DEF PassInv, Spool!Write, Spool!rowVars

LEMMA DrainDeletePass ==
  ASSUME Types, PassInv, DrainDelete PROVE PassInv'
<1>1. drain'.page = <<>> /\ drain'.past = drain.past \ drain.offered
  BY DEF DrainDelete, Types
<1>2. Page' = {} /\ Pairs(drain.page)' = {}
  BY <1>1 DEF Page, Pairs, Queue!Elements
<1>3. Rows' = Rows \ drain.offered /\ ById' = ById \cap (Rows' \X Rows')
  BY DrainDeleteRows
<1> QED BY <1>1, <1>2, <1>3 DEF PassInv

\* Drain's promise: the rows of a pass are offered oldest first and once each, while
\* hooks and worker write rows and earlier pages' rows are deleted.
THEOREM DrainsOldestFirst == Spec => OldestFirst
<1> DEFINE Distinct == \A k \in Rows : <<k, k>> \notin ById
           InTurn == \A k \in Keys : DrainOffer(k) =>
                       /\ k \in Rows \ drain.past
                       /\ \A j \in Rows \ (drain.past \cup {k}) : <<k, j>> \in ById
<1>1. Init => PassInv
  BY NoPass DEF Init, NoDrain
<1>2. Types /\ QueueProved!QueueInv /\ Distinct /\ PassInv /\ [Next]_vars => PassInv'
  <2> SUFFICES ASSUME Types, QueueProved!QueueInv, Distinct, PassInv, [Next]_vars PROVE PassInv'
    OBVIOUS
  <2>1. CASE UNCHANGED vars
    <3>1. drain' = drain /\ spool' = spool
      BY <2>1 DEF vars, diskVars
    <3>2. UNCHANGED Spool!rowVars
      BY <3>1 DEF Rows, ById, Queue!Elements, Spool!rowVars
    <3> QED BY <3>1, <3>2, WritePass
  <2>2. CASE DrainBegin \/ Die
    <3>1. drain'.page = <<>> /\ drain'.past = {}
      BY <2>2 DEF DrainBegin, Die, NoDrain
    <3> QED BY <3>1 DEF PassInv, Page, Pairs, Queue!Elements
  <2>3. CASE DrainRead
    BY <2>3, DrainReadPass
  <2>4. ASSUME NEW k \in Keys, DrainOffer(k) PROVE PassInv'
    BY <2>4, DrainOfferPass
  <2>5. CASE DrainDelete
    BY <2>5, DrainDeletePass
  <2>6. CASE ~Drain /\ ~Die /\ Next
    <3>1. drain' = drain
      <4> USE DEF workerUnchanged
      <4>1. Producers => drain' = drain
        BY DEF Producers, HookPost, HookMiss, HookSpool, WatchOffer, WatchSave
      <4>2. WorkerStep => drain' = drain
        BY DEF WorkerStep, Take, Begin, Hold, Defer, Admit, Send, Quit, Verdict, Unresolved,
               Publish, PublishFails, TimeoutRespool, TimeoutQuarantine, AbandonAttempt, Finish
      <4>3. (\E k \in Keys : LateEnds(k)) \/ Pair \/ Stop \/ Start => drain' = drain
        BY DEF LateEnds, Pair, Stop, Start
      <4> QED BY <2>6, <4>1, <4>2, <4>3 DEF Next
    <3> QED BY <2>6, <3>1, RowsChange, WritePass DEF Drain
  <2> QED BY <2>1, <2>2, <2>3, <2>4, <2>5, <2>6 DEF Drain
<1>3. Types /\ Distinct /\ PassInv => [InTurn]_vars
  BY DrainOfferPass
<1> QED BY <1>1, <1>2, <1>3, RowsDistinct, TypesInvariance, PipelineQueueInvariance, PTL DEF Spec, OldestFirst
=============================================================================
