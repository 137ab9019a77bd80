--------------------------- MODULE EnrichPipeline ---------------------------
(***************************************************************************)
(* How one prompt travels from a tool to Atlas: the hook and the           *)
(* transcript watcher produce it, the spool holds it on disk, the daemon's *)
(* queue holds it in memory, the single worker enriches and publishes it,  *)
(* and the daemon may be unpaired, stopped or killed at any point.         *)
(*                                                                         *)
(* A prompt is its dedup key.  The queue is EnrichQueue, whose actions     *)
(* this module's are built from.  The spool's byte budget is SpoolBudget's *)
(* subject and is not reached here; rows that do not decode are not        *)
(* written by Write.                                                       *)
(***************************************************************************)
EXTENDS Naturals, Sequences, FiniteSets

CONSTANTS
  Keys,          \* dedup keys
  HookKeys,      \* the prompts whose tool fires the hook
  WatchKeys,     \* the prompts in transcripts the watcher tails
  Capacity, RecentCap,  \* of the queue
  DrainPage,     \* rows the drain reads and deletes at a time
  MaxAttempts,   \* timed-out attempts before a job is quarantined
  AtlasEnabled,  \* Send to Atlas is on
  MaxDeaths,     \* bound: deaths of the daemon process
  MaxFaults,     \* bound: failed writes to the spool or to spool/bad
  None

ASSUME PipelineAssumption ==
  /\ HookKeys \subseteq Keys /\ WatchKeys \subseteq Keys
  /\ Capacity \in Nat \ {0} /\ RecentCap \in Nat
  /\ DrainPage \in Nat \ {0} /\ MaxAttempts \in Nat \ {0}
  /\ AtlasEnabled \in BOOLEAN
  /\ MaxDeaths \in Nat /\ MaxFaults \in Nat
  /\ None \notin Keys

VARIABLES
  ch, inflight, recent, closed, hand,  \* the queue, see EnrichQueue
  spool,      \* keys of the spool's rows, in id order
  drain,      \* the pass of spool.Drain under way, see NoDrain
  hook,       \* each prompt's hook process: "new", "refused", "done"
  watch,      \* the watcher's cursor: "unseen", "offered", "saved" past it
  step,       \* where a working worker is: "gate", "run" or "send"
  attempts,   \* the retry ledger
  late,       \* abandoned attempts still inside pub.Send
  delivered,  \* prompts whose enrichment was accepted
  bad,        \* prompts in spool/bad
  paired,     \* hook.json carries an endpoint
  up,         \* the daemon process is alive
  deaths, faults,  \* counters of the two bounds
  rewritten,  \* history: rows written again since the drain offered them
  givenUp     \* history: offered rows whose job was given up since

queueVars == <<ch, inflight, recent, closed, hand>>
diskVars == <<spool, bad, faults>>
vars == <<queueVars, diskVars, drain, hook, watch, step, attempts, late,
          delivered, paired, up, deaths, rewritten, givenUp>>

Worker == "worker"
Queue == INSTANCE EnrichQueue WITH Consumers <- {Worker}

Rows == Queue!Elements(spool)
ById == {p \in Rows \X Rows : \E i, j \in DOMAIN spool : i < j /\ p = <<spool[i], spool[j]>>}
Spool == INSTANCE SpoolRows WITH rows <- Rows, before <- ById
job == hand[Worker].key
AtStep(s) == hand[Worker].pc = "working" /\ step = s

\* page: rows read but not offered yet.  offered: rows of this page the queue
\* took on, to be deleted together.  past: rows at or below lastID.
NoDrain == [on |-> FALSE, page |-> <<>>, offered |-> {}, past |-> {}]

\* What is left of the rows s without those of S, in the same order.
Without(s, S) ==
  LET left[i \in 0 .. Len(s)] ==
        IF i = 0 THEN <<>>
        ELSE IF s[i] \in S THEN left[i - 1] ELSE Append(left[i - 1], s[i])
  IN  left[Len(s)]

\* The worker must not consume jobs: Atlas is on and there is no endpoint.
enrichHeld == AtlasEnabled /\ ~paired
-----------------------------------------------------------------------------
Init ==
  /\ Queue!Init
  /\ spool = <<>> /\ bad = {} /\ faults = 0
  /\ drain = NoDrain
  /\ hook = [k \in Keys |-> IF k \in HookKeys THEN "new" ELSE "done"]
  /\ watch = [k \in Keys |-> IF k \in WatchKeys THEN "unseen" ELSE "saved"]
  /\ step = "gate"
  /\ attempts = [k \in Keys |-> 0]
  /\ late = {}
  /\ delivered = {}
  /\ paired \in BOOLEAN
  /\ up = TRUE
  /\ deaths = 0
  /\ rewritten = {} /\ givenUp = {}

\* History: the job of k ends without a result while the drain still has its row.
GiveUp(k) == givenUp' = givenUp \cup ({k} \cap drain.offered)

\* Faulty variants ("mutants" of PROJECT.json), used by no specification.
SpoolWriteMoving(k) ==
  \/ /\ spool' = Append(Without(spool, {k}), k)
     /\ rewritten' = rewritten \cup ({k} \cap drain.offered)
     /\ UNCHANGED <<bad, faults, givenUp>>
  \/ /\ faults < MaxFaults
     /\ faults' = faults + 1
     /\ GiveUp(k)
     /\ UNCHANGED <<spool, bad, rewritten>>

\* spool.Write: an upsert on the key, so a row keeps its id and its place; or
\* the write fails and the caller only logs it.
SpoolWrite(k) ==
  \/ /\ spool' = IF k \in Rows THEN spool ELSE Append(spool, k)
     /\ rewritten' = rewritten \cup ({k} \cap drain.offered)
     /\ UNCHANGED <<bad, faults, givenUp>>
  \/ /\ faults < MaxFaults
     /\ faults' = faults + 1
     /\ GiveUp(k)
     /\ UNCHANGED <<spool, bad, rewritten>>
-----------------------------------------------------------------------------
(* The hook process, one per prompt, and the transcript watcher.           *)

\* The POST reached the daemon; the hook may have given up on the answer.
HookPost(k) ==
  /\ up /\ hook[k] = "new"
  /\ Queue!Offer(k)
  /\ \E answered \in BOOLEAN :
       hook' = [hook EXCEPT ![k] = IF answered /\ Queue!TakenOn(Queue!Outcome(k))
                                     THEN "done" ELSE "refused"]
  /\ UNCHANGED <<diskVars, drain, watch, step, attempts, late, delivered,
                 paired, up, deaths, rewritten, givenUp>>

\* No daemon, no answer, or an error before the offer.
HookMiss(k) ==
  /\ hook[k] = "new"
  /\ hook' = [hook EXCEPT ![k] = "refused"]
  /\ UNCHANGED <<queueVars, diskVars, drain, watch, step, attempts, late,
                 delivered, paired, up, deaths, rewritten, givenUp>>

HookSpool(k) ==
  /\ hook[k] = "refused"
  /\ hook' = [hook EXCEPT ![k] = "done"]
  /\ SpoolWrite(k)
  /\ UNCHANGED <<queueVars, drain, watch, step, attempts, late, delivered,
                 paired, up, deaths>>

\* The watcher ignores the queue's answer and moves its cursor past the prompt.
WatchOffer(k) ==
  /\ up /\ watch[k] = "unseen"
  /\ Queue!Offer(k)
  /\ watch' = [watch EXCEPT ![k] = "offered"]
  /\ UNCHANGED <<diskVars, drain, hook, step, attempts, late, delivered,
                 paired, up, deaths, rewritten, givenUp>>

\* The end of a poll: the cursors go to disk.
WatchSave ==
  /\ up /\ \E k \in Keys : watch[k] = "offered"
  /\ watch' = [k \in Keys |-> IF watch[k] = "offered" THEN "saved" ELSE watch[k]]
  /\ UNCHANGED <<queueVars, diskVars, drain, hook, step, attempts, late,
                 delivered, paired, up, deaths, rewritten, givenUp>>
-----------------------------------------------------------------------------
(* drainEnrichSpool over spool.Drain, at startup and on every sweep.       *)

drainUnchanged == <<hook, watch, step, attempts, late, delivered, paired, up,
                    deaths, bad, faults>>

DrainBegin ==
  /\ up /\ ~drain.on /\ ~enrichHeld
  /\ drain' = [NoDrain EXCEPT !.on = TRUE]
  /\ UNCHANGED <<queueVars, spool, rewritten, givenUp, drainUnchanged>>

\* Faulty variants ("mutants" of PROJECT.json), used by no specification.
DrainReadFromStart ==
  /\ drain.on /\ drain.page = <<>> /\ drain.offered = {}
  /\ drain' = IF Rows \subseteq drain.past THEN NoDrain
              ELSE [drain EXCEPT !.page =
                      SubSeq(spool, 1, IF Len(spool) < DrainPage THEN Len(spool) ELSE DrainPage)]
  /\ UNCHANGED <<queueVars, spool, rewritten, givenUp, drainUnchanged>>

\* Read the next page of rows past lastID; the pass ends at an empty page.
DrainRead ==
  /\ drain.on /\ drain.page = <<>> /\ drain.offered = {}
  /\ LET rows == Without(spool, drain.past)
     IN  drain' = IF rows = <<>> THEN NoDrain
                  ELSE [drain EXCEPT !.page =
                          SubSeq(rows, 1, IF Len(rows) < DrainPage THEN Len(rows) ELSE DrainPage)]
  /\ UNCHANGED <<queueVars, spool, rewritten, givenUp, drainUnchanged>>

\* Offer k, the page's next row.  It will be deleted if it was taken on.
DrainOffer(k) ==
  /\ drain.page # <<>> /\ k = Head(drain.page)
  /\ Queue!Offer(k)
  /\ drain' = [drain EXCEPT
       !.page = Tail(@), !.past = @ \cup {k},
       !.offered = IF Queue!TakenOn(Queue!Outcome(k)) THEN @ \cup {k} ELSE @]
  /\ UNCHANGED <<spool, rewritten, givenUp, drainUnchanged>>

\* One DELETE for the page, by row id: whatever a row holds by now.
DrainDelete ==
  /\ drain.page = <<>> /\ drain.offered # {}
  /\ spool' = Without(spool, drain.offered)
  /\ drain' = [drain EXCEPT !.offered = {}, !.past = @ \ drain.offered]
  /\ rewritten' = {} /\ givenUp' = {}
  /\ UNCHANGED <<queueVars, drainUnchanged>>
-----------------------------------------------------------------------------
(* Worker: the single consumer of the queue.                               *)

workerUnchanged == <<drain, hook, watch, paired, up, deaths>>

Take ==
  /\ up
  /\ Queue!Receive(Worker)
  /\ UNCHANGED <<workerUnchanged, diskVars, step, attempts, late, delivered, rewritten, givenUp>>

Begin ==
  /\ Queue!Release(Worker)
  /\ UNCHANGED <<workerUnchanged, diskVars, step, attempts, late, delivered, rewritten, givenUp>>

\* Not paired yet: back to the spool, no attempt consumed.
Hold ==
  /\ AtStep("gate") /\ enrichHeld
  /\ SpoolWrite(job)
  /\ Queue!Abandon(Worker)
  /\ UNCHANGED <<workerUnchanged, step, attempts, late, delivered>>

\* The model was not resident in time: back to the spool, no attempt consumed.
Defer ==
  /\ AtStep("gate") /\ ~enrichHeld
  /\ SpoolWrite(job)
  /\ Queue!Abandon(Worker)
  /\ UNCHANGED <<workerUnchanged, step, attempts, late, delivered>>

AdmitUnpaired ==
  /\ AtStep("gate")
  /\ step' = "run"
  /\ UNCHANGED <<workerUnchanged, queueVars, diskVars, attempts, late, delivered, rewritten, givenUp>>

\* The model is ready, or warmed in time: run the job under its timeout.
Admit ==
  /\ AtStep("gate") /\ ~enrichHeld
  /\ step' = "run"
  /\ UNCHANGED <<workerUnchanged, queueVars, diskVars, attempts, late, delivered, rewritten, givenUp>>

\* The queue closed: during the passive wait with a job in hand, which is
\* discarded, or once the channel is empty.
Quit ==
  /\ up
  /\ AtStep("gate") \/ hand[Worker] = Queue!Idle
  /\ AtStep("gate") => ~enrichHeld
  /\ IF AtStep("gate") THEN GiveUp(job) ELSE UNCHANGED givenUp
  /\ Queue!Exit(Worker)
  /\ UNCHANGED <<workerUnchanged, diskVars, step, attempts, late, delivered, rewritten>>

\* process has its profile and its context is still alive: on to pub.Send.
Send ==
  /\ AtStep("run")
  /\ step' = "send"
  /\ UNCHANGED <<workerUnchanged, queueVars, diskVars, attempts, late, delivered, rewritten, givenUp>>

\* Every way to finish in time clears the job's attempts.
Finish ==
  /\ step' = "gate"
  /\ attempts' = [attempts EXCEPT ![job] = 0]
  /\ UNCHANGED <<workerUnchanged, diskVars, late, rewritten>>

\* The text did not resolve, the job panicked, or its context was cancelled.
Unresolved ==
  /\ AtStep("run")
  /\ Finish
  /\ GiveUp(job)
  /\ Queue!Abandon(Worker)
  /\ UNCHANGED delivered

Publish ==
  /\ AtStep("send")
  /\ Finish
  /\ delivered' = delivered \cup {job}
  /\ Queue!Complete(Worker)
  /\ UNCHANGED givenUp

\* pub.Send failed; the enrichment may have arrived all the same.
PublishFails ==
  /\ AtStep("send")
  /\ Finish
  /\ GiveUp(job)
  /\ delivered' \in {delivered, delivered \cup {job}}
  /\ Queue!Abandon(Worker)

\* The job's time is up.  The abandoned attempt goes on sending if it is past
\* its last look at the context, which is cancelled only now.
AbandonAttempt ==
  /\ AtStep("run") \/ AtStep("send")
  /\ late' \in IF AtStep("send") THEN {late \cup {job}} ELSE {late, late \cup {job}}
  /\ step' = "gate"
  /\ Queue!Abandon(Worker)
  /\ UNCHANGED <<workerUnchanged, delivered>>

TimeoutRespoolOffByOne ==
  /\ AbandonAttempt
  /\ attempts[job] + 1 <= MaxAttempts
  /\ attempts' = [attempts EXCEPT ![job] = @ + 1]
  /\ SpoolWrite(job)

TimeoutRespool ==
  /\ AbandonAttempt
  /\ attempts[job] + 1 < MaxAttempts
  /\ attempts' = [attempts EXCEPT ![job] = @ + 1]
  /\ SpoolWrite(job)

\* ledger.exhausted clears the count, so a redelivery gets a fresh budget.
TimeoutQuarantine ==
  /\ AbandonAttempt
  /\ attempts[job] + 1 >= MaxAttempts
  /\ attempts' = [attempts EXCEPT ![job] = 0]
  /\ \/ bad' = bad \cup {job} /\ UNCHANGED faults
     \/ faults < MaxFaults /\ faults' = faults + 1 /\ UNCHANGED bad
  /\ GiveUp(job)
  /\ UNCHANGED <<spool, rewritten>>

LateEnds(k) ==
  /\ k \in late
  /\ late' = late \ {k}
  /\ delivered' \in {delivered, delivered \cup {k}}
  /\ UNCHANGED <<workerUnchanged, queueVars, diskVars, step, attempts, rewritten, givenUp>>
-----------------------------------------------------------------------------
(* The daemon process.                                                     *)

Pair ==
  /\ up /\ enrichHeld
  /\ paired' = TRUE
  /\ UNCHANGED <<queueVars, diskVars, drain, hook, watch, step, attempts, late,
                 delivered, up, deaths, rewritten, givenUp>>

\* lb.OnStop closes the queue; the worker goes on until the process exits.
Stop ==
  /\ up /\ ~closed /\ deaths < MaxDeaths
  /\ Queue!Close
  /\ UNCHANGED <<diskVars, drain, hook, watch, step, attempts, late, delivered,
                 paired, up, deaths, rewritten, givenUp>>

\* The process exits, after Stop or killed: its memory is gone, and so is any
\* cursor the watcher had not saved.
Die ==
  /\ up /\ deaths < MaxDeaths
  /\ up' = FALSE
  /\ deaths' = deaths + 1
  /\ Queue!Restart
  /\ drain' = NoDrain
  /\ watch' = [k \in Keys |-> IF watch[k] = "offered" THEN "unseen" ELSE watch[k]]
  /\ step' = "gate"
  /\ attempts' = [k \in Keys |-> 0]
  /\ late' = {}
  /\ rewritten' = {} /\ givenUp' = {}
  /\ UNCHANGED <<diskVars, hook, delivered, paired>>

Start ==
  /\ ~up
  /\ up' = TRUE
  /\ UNCHANGED <<queueVars, diskVars, drain, hook, watch, step, attempts, late,
                 delivered, paired, deaths, rewritten, givenUp>>
-----------------------------------------------------------------------------
Producers ==
  \/ \E k \in Keys : HookPost(k) \/ HookMiss(k) \/ HookSpool(k) \/ WatchOffer(k)
  \/ WatchSave

Drain == DrainBegin \/ DrainRead \/ (\E k \in Keys : DrainOffer(k)) \/ DrainDelete

Verdict == Unresolved \/ Publish \/ PublishFails \/ TimeoutRespool \/ TimeoutQuarantine

WorkerStep == Take \/ Begin \/ Hold \/ Defer \/ Admit \/ Send \/ Quit \/ Verdict

Next ==
  \/ Producers
  \/ Drain
  \/ WorkerStep
  \/ \E k \in Keys : LateEnds(k)
  \/ Pair \/ Stop \/ Die \/ Start

Spec == Init /\ [][Next]_vars

\* The hook process and the worker run to their next step, the sweep ticks, a
\* stopping process exits and the service manager starts it again.  Admit is
\* the one assumption on the environment: a job that comes to the gate again
\* and again finds the model ready sooner or later.
Fairness ==
  /\ \A k \in Keys : WF_vars(HookSpool(k))
  /\ WF_vars(Drain)
  /\ WF_vars(WorkerStep)
  /\ SF_vars(Admit)
  /\ WF_vars(closed /\ Die)
  /\ WF_vars(Start)

FairSpec == Spec /\ Fairness
-----------------------------------------------------------------------------
PipelineTypeOK ==
  /\ Queue!QueueTypeOK
  /\ spool \in Seq(Keys)
  /\ drain \in [on : BOOLEAN, page : Seq(Keys), offered : SUBSET Keys, past : SUBSET Keys]
  /\ hook \in [Keys -> {"new", "refused", "done"}]
  /\ watch \in [Keys -> {"unseen", "offered", "saved"}]
  /\ step \in {"gate", "run", "send"}
  /\ attempts \in [Keys -> 0 .. MaxAttempts - 1]
  /\ late \subseteq Keys /\ delivered \subseteq Keys /\ bad \subseteq Keys
  /\ paired \in BOOLEAN /\ up \in BOOLEAN
  /\ deaths \in 0 .. MaxDeaths /\ faults \in 0 .. MaxFaults
  /\ rewritten \subseteq Keys /\ givenUp \subseteq Keys

\* Somebody still has the prompt and will act on it: the hook that must spool
\* it, a row of the spool, a slot of the queue, or the worker.
Held(k) ==
  \/ hook[k] = "refused"
  \/ k \in Rows
  \/ k \in Queue!QueuedKeys
  \/ hand[Worker].pc \in {"received", "working"} /\ job = k

\* The pipeline uses the spool only as SpoolRows describes, which SpoolBudget
\* implements.
SpoolSpec == Spool!Spec

\* "Oldest first": a pass of the drain offers every row in its turn, not twice and
\* before every younger row that waits, whatever hook, worker and the deletes of
\* earlier pages do to the table between its reads and its offers.
OldestFirst ==
  [][\A k \in Keys : DrainOffer(k) =>
       /\ k \in Rows \ drain.past
       /\ \A j \in Rows \ (drain.past \cup {k}) : <<k, j>> \in ById]_vars

\* Between being taken on and being delivered or quarantined, a prompt never
\* slips out of everybody's hands: it may only be given up by the worker's own
\* verdict that it cannot be processed or published, by the shutdown of the
\* process that holds it in memory, by a failed disk write, or by the drain
\* deleting a row that was written again after it was offered: Write upserts, so
\* the row keeps the id that Drain has already listed for deletion.  Full queues,
\* deferrals, timeouts, holds, late answers and pages in any order lose nothing
\* (Worker, drainEnrichSpool, forwardToAgent).
CustodyKept ==
  [][\A k \in Keys : Held(k) /\ ~Held(k)' =>
       \/ k \in delivered' \cup bad'
       \/ Unresolved \/ PublishFails
       \/ Die \/ (Quit /\ closed)
       \/ faults' > faults
       \/ DrainDelete /\ k \in rewritten \cup givenUp]_vars

\* Collecting while unpaired loses nothing and sends nothing: whatever the
\* queue took on or the hook was refused stays held until there is an endpoint,
\* unless the process dies with it in memory or the disk refuses it
\* (enrichHold, pairing.go).
UnpairedKeepsAll ==
  [][enrichHeld /\ up' /\ faults' = faults =>
       /\ \A k \in Keys : Held(k) => Held(k)'
       /\ delivered' = delivered]_vars

\* Once the machine is paired every prompt gets its verdict: no row of the
\* spool is offered forever without draining, no job cycles forever between
\* the spool and the worker (drainEnrichSpool's TakenOn, maxAttempts).
Settles == \A k \in Keys : (Held(k) /\ ~enrichHeld) ~> ~Held(k)
=============================================================================
