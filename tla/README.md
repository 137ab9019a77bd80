# keld-signal, specified in TLA+

keld-signal is an on-device agent. It notices prompts sent to AI tools, derives
enrichments and usage blocks from them locally, and delivers the results to a
service called Atlas. A machine may be unpaired, offline, asleep, restarted or
killed at any time, and the agent still must not lose what it took on, deliver
one thing without bound, or go round in circles; it also has to replace itself
and to keep the analysis service beside it alive. These modules model that part
of it: who holds a piece of work, when it may be dropped, what a crash leaves
behind, and why every loop ends.

Contents: [inventory](#inventory), [modules](#modules),
[runs](#runs-and-what-they-show), [bounds](#bounds), [fairness](#fairness),
[findings](#findings), [proofs](#proofs), [left out](#what-is-left-out),
[plan](#plan).

## Inventory

Paths are under `src/`; `agent/` stands for `internal/agent/`.

| Component | State | Operations | What makes it correct |
|---|---|---|---|
| Queue (`agent/queue`) | channel, `inflight`, `recent`/`recentQ`, `closed` | `Offer`, `Next`, `Complete`, `Close` | a mark exists exactly while its job is queued; bounds; completed keys are not queued again; nobody is a duplicate forever |
| Worker and drain (`agent/daemon/daemon.go`, `pairing.go`) | job in hand, retry ledger, abandoned attempts, enrich hold | take, hold, defer, run with timeout, re-spool, quarantine, complete; drain on a sweep | a prompt taken on is in somebody's hands until its verdict; unpaired means collect and send nothing |
| Hook (`internal/hook/forward.go`), ingress (`agent/ingress`) | none | POST `/enrich`, else spool | a refused or unanswered POST ends in the spool |
| Spool (`internal/spool`) | one SQLite table, a byte total per process | `Write`, `Drain`, `evictFor`, `Resync`, `Quarantine`, `ImportLegacy` | rows go only to whoever read them; the total is repaired; a write returns |
| Watcher (`agent/watch`) | cursors in memory, saved after a poll | poll, offer, save | each prompt offered, none forever |
| Captured blocks (`agent/daemon/republish.go`, `agent/ledger/unsent.go`) | payload table with refusal counts, sweep, backoff | capture, sweep, isolate, hold aside | nothing lost, good blocks not held back by bad ones, the loop ends |
| Block emitter (`agent/blocks`, `agent/daemon/blocks.go`) | active set in memory, cursors on disk | advance, sweep, sweep one path, retire, publish, prune, save | the cursor never passes an unpublished block; a transcript with one stays in the sweep |
| Attribution (`agent/attrib`, `agent/daemon/attrib.go`) | one job file per published block, a rotating offset | schedule, hold, retry, quarantine, publish again | a published block's job is not lost; attempts are spent by errors only; no job starves |
| Client events (`agent/clientevents`) | ring buffer; capped spool of batches | emit, drain, deliver, replay | oldest first, bounded, nothing dropped that might still be accepted |
| Telemetry proxy (`agent/teleproxy`) | sources seen, two transports | receive, strip, forward, drain | answers the tool at once; batches survive in the spool |
| Self-update (`agent/update`, `agent/daemon/update.go`) | artifacts in place and parked, the service's path, a state file | decide, fetch, swap, migrate, confirm, roll back | a death anywhere leaves an agent; a bad release is not tried again; the artifacts match |
| Credential self-heal (`agent/daemon/reauth.go`, `senders.go`, `agent/creds`) | token, cooldown, terminal mark | refresh, mark, clear | one refresh at a time; a terminal mark is cleared by success |
| Sidecar supervisor and service health (`agent/daemon/supervisor.go`, `servicehealth.go`) | child process, restart and rest counters; missed answers, rungs, a marker file | start, restart, rest; probe, replace the child, restart the daemon | the daemon is restarted once per cooldown at most; a sidecar that works again comes back |
| Project list (`agent/daemon/projects.go`) | the list remembered as posted, the list declared | resolve, observe, post, forget after a respawn | the list in force reaches the sidecar and stays |
| Ledger (`agent/ledger/store.go`) | block stages in SQLite | record, query | best effort by design |
| Publishing client (`agent/publish`) | none | one POST, no retry | classifies the outcome |
| Ingest signal and tick (`agent/daemon/ingestsignal.go`, `tick.go`) | 64-slot coalescing queue | signal, send | a dropped signal is followed by another |
| Model on demand, warm gate (`agent/daemon`) | a warm bit | fetch, warm | seen by the worker as a gate |
| Settings, integrations, promptlog, usage | files and tables with one writer each | read, write | classification |
| Enrichment passes and the Python sidecar | models and analysis store | infer, analyse | a verdict in time, late, or never |
| CLI, installers, desktop shell, pages, service management | files | one-shot commands | input and output |

How they meet: the hook and the watcher produce prompts. The hook posts to the
daemon's ingress, which offers to the queue; what is refused or not answered
goes to the spool, a table shared by processes. The daemon drains the spool into
the same queue at startup and on every sweep. One worker takes jobs and either
publishes them, gives them up, writes them back to the spool, or quarantines
them. Pairing, warm-up and shutdown reach the worker as predicates it reads at
one point and acts on later. Blocks cut while *Send to Atlas* is off are
captured in the ledger; when it is on again one goroutine republishes them.
Blocks come from the emitter's sweeps, which ask the sidecar what has closed
behind each transcript's cursor; every block it publishes becomes an attribution
job, and the attributor publishes the block again with the sidecar's answer. The
supervisor owns the sidecar process, the health check probes it and asks the
supervisor, then the service manager, for a new one; whoever finds that a new
sidecar has lost the project list posts it again. The updater replaces the
binaries of all of them and restarts the service.

What is hard: two producers of one prompt; two copies (row and queue slot) with
two owners; deletes by id after a read; totals kept apart from the tables they
count; attempts that outlive their timeout; answers that are lost after the
request arrived; state that is copied under one lock and written back under
another; crashes between any two of these; and loops that end only if what they
test can change. `PROJECT.json` lists each of these hazards at its
line, with the properties that watch it.

## Modules

| Module | Models | Composes |
|---|---|---|
| `EnrichQueue` | the queue and its consumers | |
| `EnrichPipeline` | hook, watcher, spool rows, drain, worker, pairing, death and restart of the daemon | `EnrichQueue` (INSTANCE: its actions are conjuncts of the pipeline's), `SpoolRows` (abstract specification of its spool) |
| `SpoolRows` | what the spool promises: one row per prompt, in one order | |
| `SpoolBudget` | the byte budget, one action per SQL statement | `SpoolRows` (abstract specification) |
| `Republish` | the captured-block table and its republisher | |
| `BlockEmitter` | the block path: active set, cursors, two sweepers, the state file | |
| `Attributor` | attribution jobs against the emitter and the sidecar's condition | |
| `SelfUpdate` | the update, rename by rename, over restarts of the service | |
| `Sidecar` | supervisor and health ladder, in probe ticks | |
| `ProjectList` | the gate of the project list and the goroutines that pass it | |
| `MCEnrichQueue`, `MCEnrichPipeline`, `MCSpoolBudget`, `MCRepublish`, `MCBlockEmitter`, `MCAttributor`, `MCSelfUpdate`, `MCSidecar`, `MCProjectList` | instances for TLC | |
| `EnrichQueueProofs`, `EnrichPipelineProofs`, `SpoolBudgetProofs`, `RepublishProofs`, `BlockEmitterProofs`, `SelfUpdateProofs`, `SidecarProofs` (of `Sidecar` and `ProjectList`), `AttributionProofs` (of `Attributor`) | theorems and proofs | |

**EnrichQueue.** A job is its key. `Offer`, `Complete` and `Close` hold the
mutex, so each is one action. `Next` is two: `Receive` takes the head of the
channel with no lock, `Release` deletes the key from `inflight` under the lock.
`Outcome` is the four-way answer in the order the code tests it, `TakenOn` what
callers make of it. `Restart` is the next process: the queue is memory.

**EnrichPipeline.** `spool` is the sequence of keys in id order: `Write` is an
upsert, so writing a key that has a row changes nothing in the sequence. The
drain is a pass with its `page`, the `offered` rows it will delete, and what is
`past` `lastID`. The worker's program counter is the queue's `hand` plus `step`:
*gate* (pairing and warm-up), *run* (before the last look at the context), *send*
(inside `pub.Send`). A timeout leaves the attempt in `late` if it may still
deliver. Each action is the whole handler: `TimeoutRespool` abandons the attempt,
counts it and writes the row. Failed writes change nothing but the bound's
counter, because the code only logs them. `hook` follows one hook process per
prompt; `HookPost` covers an accepted POST whose answer comes after the hook's
500 ms. `rewritten` and `givenUp` are history variables: what happened to a row
between its offer and its delete.

**SpoolRows.** The spool as its users see it: `rows`, the prompts that have one,
and `before`, which of two rows is drained first. `Write` adds a row behind all
others or, when the prompt has a row, moves nothing; `Delete` takes rows away.
Both specifications of the spool are shown to implement it: `SpoolBudget` with
`Rows` and `ById` computed from ids, `EnrichPipeline` from places in its sequence.

**SpoolBudget.** Hooks are processes of their own with their own totals; the
daemon has a worker that writes and a sweep that resyncs and drains. `totalMu`
appears as the guard of `AddBytes`: the daemon's additions wait while a `Resync`
is between its SELECT and its Store. Rows carry an AUTOINCREMENT id and a size.

**Republish.** A block is its start time, which is the order of the table.
Atlas is external: it refuses every envelope that holds a block of `Bad`, and may
refuse others a bounded number of times; the answer to an envelope may be lost
whether or not it landed.

**BlockEmitter.** A transcript's blocks are numbered and a cursor is the number
of the last one emitted. `Note` and `Activate` are the two locks of `Advance`.
Each sweeper (the timer's, and the developer page's button) is a record of what
`sweepOne` holds in its locals: targets with the cursors they were taken with,
the page, the bytes to write. `Ask` is the sidecar's answer, `Send` one chunk,
`Advance` the cursor behind it, `Retire` the second lock of a retirement, `Look`
and `Prune` the copy of the active set and its use, `Marshal` and `WriteFile` the
two halves of `save`, which clears the dirty mark before it writes. Time is the
age class of an entry's last growth.

**Attributor.** A sweep's listed copies are `todo`; `step` is the branch of
`drainJob` that the answer for its head has opened. `Schedule` may replace the
file of a job between its listing and the sweep's write or delete. The sidecar is
external: a condition (down, too old for a route, cold, without weights, ready)
and whether it holds the project list. `errors` and `skews` are history variables
that count what may be charged to a job.

**SelfUpdate.** `place` and `parked` are the versions at each artifact's target
and at its `.prev`, `marker` the state file, `job` the locals of an attempt or of
a confirmation. `Displace` and `Install` are the two renames of `Replace`; the
`Undo` actions take a recorded move back. A release is good, dies before it reads
the marker, or dies after. `Plan` is what a release replaces: a sidecar only where
the process found one when it built its updater (`hasSidecar`), and keld only if
the archive has it (`Keldless` are the releases that lack it; the code installs
them all the same). `kit` remembers what the machine was installed with. `rolled`
and `blame` are history variables: what was rolled back since the pin last moved,
and which of four events may have mixed the artifacts' versions.

**Sidecar.** A tick is the interval between two probes. What the code does
between its waits takes no tick, so the rungs, the readiness timeout, the rest
and the cooldown are numbers of ticks, and their order is what matters. The child
loads, serves, wedges or has exited; `works` says whether a new one could serve.
The marker is an age in memory and one on disk: `RestartDaemonRung` truncates its
file, `Recorded` fills it. `since` is a history variable.

**ProjectList.** Each goroutine passes the gate by the locks it takes:
`Observe`, `Compare`, `Lands` or `PostFails`, `Set`; who posts again starts at
`Read` and `Forget`. `crossed` is a history variable: a list was remembered as
posted after another one had landed.

### Abstractions

* Prompts, rows and blocks are model values or numbers; bodies, text, logging
  and client events are not modelled.
* EnrichQueue has `recent` and `recentQ` as one sequence: the code changes both
  together under the lock, and that they might differ cannot be expressed.
* EnrichPipeline does not reach the byte budget (SpoolBudget does); rows without
  a correlation id, which get a fresh identity on each write, and rows that do
  not decode are left out; the `dropped` and `evicted` counters only feed gauges.
* A check of `enrichHeld` and the write that follows are one action. Pairing only
  ever goes from missing to present, and the outcome of a late write is that of
  `Defer`, so no behaviour is lost.
* SpoolBudget leaves out the legacy import, poison rows, and failures of the
  sweep's statements; failures of `Write`'s statements are `Fail`.
* Republish measures time in units of `republishInterval` and counts the
  downtime of a restart as nothing; Atlas deduplicates blocks by key, so `stored`
  is a set. One failing delete or several in one batch count as one fault.
* BlockEmitter reads the clock once per sweep, as the code does: nothing ages
  during one. Fewer blocks than a page are cut for a reason this binary does not
  know (`EmitterAssumption`): a page of nothing else stands still until an
  upgrade, which `emitter.go:357-367` accepts and reports.
* Attributor counts the sidecar's conditions, not its texts; the order of the
  job files is that of the numbers.
* SelfUpdate takes download, checksum, unpacking and the `--version` probe as one
  step that works or fails, and knows whether a deadline or an interval has
  passed, not the time. A state file that cannot be read is a fault: `Confirm`
  goes on without it, and `recordAttempt`, `apply` and `fail`, which ignore the
  error, save over it. A sidecar that somebody installs or removes later, and the
  move of the sidecar with the binaries where its own directory is not writable
  either, are left out.
* Sidecar takes the signals of `stopChild` as one step, and leaves out a request
  to a supervisor that has not started or has returned (`ErrSupervisorStopped`):
  the daemon runs it from start to stop.
* ProjectList has one goroutine of the respawn's callback at a time.

## Runs and what they show

| Run | Checks | Shows |
|---|---|---|
| `queue` | `QueueTypeOK`, `InflightExact`, `NeverRequeued`, `InflightReleased` | the lock-free half of `Next` is harmless, with any number of consumers: no mark is lost or left behind, nothing is queued twice |
| `pipeline` | `PipelineTypeOK`, `SpoolSpec`, `OldestFirst`, `CustodyKept`, `UnpairedKeepsAll` | the pipeline uses the spool only as its specification says; a pass of the drain offers the rows oldest first and none twice, whatever is written and deleted between its pages; custody of a prompt ends only where the code means it to, or in a named race; an unpaired machine keeps everything and sends nothing |
| `pipeline_live` | `Settles` | no prompt cycles forever between spool, queue and worker |
| `budget` | `SpoolTypeOK`, `SpoolSpec`, `DeletesWhatWasRead`, `DriftRepaired`, `WriteEnds` | rows are replaced in place and added behind, whoever else is at work; ids read earlier never delete a newer prompt; the daemon's total is right again after the last write; `evictFor` ends on a wrong total |
| `republish` | `RepublishTypeOK`, `GoodNotBlamed`, `NothingLost`, `RefusedOncePerSweep`, `GoodDelivered`, `ComesToRest` | two bad blocks at the head of the table delay nobody and are held aside; nothing is forgotten |
| `blocks` | `BlockTypeOK`, `CursorSafe`, `ActiveHasEntry`, `StaysActive`, `BacklogDrains` | no cursor passes a block that Atlas lacks; what is active is swept, and drains |
| `attrib` | `AttribTypeOK`, `AttributionKept`, `QuarantineEarned`, `Resolved` | a block's job survives sweeps that write back old copies; attempts are paid for; nobody starves |
| `update` | `UpdateTypeOK`, `AgentKept`, `NotRetried`, `OneVersion`, `Converges` | a death anywhere leaves an agent; the artifacts agree but for four causes and the keld beside a release that has none; no update is tried in circles |
| `sidecar` | `SidecarTypeOK`, `OncePerCooldown`, `Recovers` | the ladder cannot restart the daemon in a loop; a sidecar that works again comes back |
| `projects` | `ProjectTypeOK`, `ListArrives` | the list in force arrives and stays, over crashes and lost posts |
| `v_matches`, `v_heals` | one claim each | the claim of a comment that the code does not keep, see [findings](#findings) |

Several properties name their exceptions, and the list of exceptions is part of
the result: whatever is not on it cannot happen in the instance.

* `CustodyKept`: a prompt may leave everybody's hands delivered, quarantined,
  given up by the worker's verdict (a failed publish is not retried, as
  `docs/durability.md` says), lost with the process that holds it in memory,
  refused by the disk, or deleted by a drain after it had been written again: a
  page's rows are deleted after all of it was offered, and a row written back in
  between keeps its id. A full queue, a deferral, a timeout, a hold or a late
  answer is not on the list.
* `DriftRepaired` needs writes to stop (they are bounded): until then the total
  may be too high, by a resync between a write's upsert and its addition.
* `NothingLost`, `GoodNotBlamed` and `RefusedOncePerSweep` hold with any
  failures; `GoodDelivered` and `ComesToRest` need Atlas to answer.
* `StaysActive` and `BacklogDrains`: a transcript falls out of the sweep only by
  a restart (the active set is memory; it is back with its next byte) or when it
  grows between the two locks of its retirement. A comment in `blocks/state.go`
  that a backlog cannot be pruned after a quiet month overlooks the first.
* `CursorSafe`: what a first sight without backfill skips, and refused blocks in
  front of readable ones, are passed by on purpose.
* `AttributionKept`: a crash or a failed write before the job is on disk, and a
  delete at the end of a sweep that hits the job of a later publish.
  `QuarantineEarned` has to count a sidecar without the `/blocks` route as an
  error, although `blockFor`'s comment says such a job keeps its attempt.
* `OneVersion`: the keld beside a release that ships none, which is by intention
  ("not worth abandoning the update over"); a death within the swap before the marker, a step back that
  failed, an install that moved to a second place (its rollback moves the sidecar
  only), and a confirmation that dropped copies and could not clear the marker.
* `Recovers`: a child that answered once and then wedges after the ladder's last
  rung is replaced by nobody until the machine wakes from sleep or a person
  presses Restart, although `stuckReason` tells the user that the service keeps
  retrying on its own.
* `ListArrives`: when two posts cross, the gate may take the newest list for
  posted while an older one landed last, and that stays so until the list
  changes; the comment in `daemon.go` beside the startup post expects such a post
  to be a no-op. A list is never lost for none.

Every property has a mutant in `PROJECT.json`: a plausible bug in one definition
that makes exactly that run fail. They are the operators marked "faulty
variants" in the modules.

## Bounds

| Run | Instance | Why it is enough |
|---|---|---|
| `queue` | 3 keys, 2 consumers, 2 slots, memory of 2 | full and not full, eviction of a remembered key, two receivers between their halves, a re-offer beside both |
| `pipeline` | 2 prompts (one from the hook, one from the watcher), 1 slot, memory of 1, pages of 2, 2 attempts, 1 death, 1 failed write | a full queue, a page with two rows and a worker between their offers, a forgotten completion, both retry outcomes |
| `pipeline_live` | 1 prompt with both producers, the same otherwise | a duplicate of the prompt is in spool, queue and hand; liveness of larger instances is beyond a quick run |
| `budget` | 3 keys, sizes 1 and 3, budget 2, 1 hook, 3 writes, pages of 2 | two rows together and the older of them written again, a third that evicts, a record over the budget, all of them racing a resync and a drain; what a rewrite adds to the total is always 0 here, and wrong whenever it is not counted net of the old row |
| `republish` | 4 blocks, the oldest 2 bad, batches of 2, limit 2, 1 wavering answer, 2 faults, 2 restarts | bad blocks fill the first batch, so the good ones are reached only past them |
| `blocks` | 1 transcript of 2 blocks, pages of 2, chunks of 1, block 1 refusable, 1 fault, 1 restart, 1 press | a page of two chunks with a failure between them, both sweepers on the same transcript, a refused block before a readable one, all ages |
| `attrib` | 2 jobs, 1 that waits, 2 attempts, slices of 1, 3 publishes, 1 change of condition, 1 fault, 1 restart | a waiting job in front of another, a publish over a listed copy, an attempt that is spent and one that quarantines |
| `update` | 3 releases, 1 of them without keld, installs with and without a sidecar, a failed list of 1, 1 move of the pin, 1 fault, 1 death | the failed list evicts; a release without keld comes before or after one with it; a fault and a death in one attempt, at any of its renames, and in the rollback that follows |
| `sidecar` | 1 failed start before a rest, timeout 4 ticks, loading 3, rests 1 to 2, grace 3, rungs at 2 and 4, cooldown 7, 1 of each disturbance, 2 turns of fortune | the code's order of times: rungs (3 and 6 probes of 15 s) below the readiness timeout (90 s) between them, a cooldown (6 h) longer than a climb; the budget of 3 starts is 1 |
| `projects` | 2 lists, 1 respawn callback, 1 change, 1 crash, 1 lost post | an old list and a new one in any two of the four posters at once, around a crash |

Bounds that cut behaviour are constants in the guards: `MaxDeaths`, `MaxFaults`,
`MaxWrites`, `MaxWobbles`, `MaxRestarts` (of the daemon; in `Sidecar` it is the
code's budget of starts), `MaxPresses`, `MaxBlocks`, `MaxPublishes`, `MaxChanges`,
`MaxPins`, `MaxTurns`, `MaxSleeps`, `MaxCrashes`, `MaxLost` (posts of the
project list). `None` is the absent job, transcript or file. The queue alone needs no bound: `Keys` makes it finite.
`republish`, `attrib`, `update` and `projects` may really stop once their bounded
disturbances are over, so their configurations turn off the deadlock check.

## Fairness

* EnrichQueue: each consumer is a goroutine that loops over `Next` and bounds
  every job with a timeout, so weak fairness of its next step.
* EnrichPipeline: weak fairness of the hook's write, of the drain (a ticker), of
  the worker, of the exit of a process that is stopping, and of its restart by the
  service manager. Strong fairness of `Admit` is the one assumption about the
  environment: a job that comes to the gate again and again finds the model
  loaded some time. Without it deferral really is endless, by intention.
  Nothing is assumed of pairing, publishing or the watcher.
* SpoolBudget: weak fairness of the sweep and of each writer; strong fairness of
  the daemon's two additions to its total, because a Go mutex hands itself to a
  waiter that has waited for a millisecond.
* Republish: weak fairness of the loop; strong fairness of an answer to a batch
  and of an answer about a single block: an Atlas that never answers either is
  never delivered to.
* BlockEmitter: weak fairness of the timer, of each sweeper's steps (sequential
  code whose calls are bounded) and of the watcher's signal. Nobody presses the
  button for certain, and no transcript grows for certain.
* Attributor: weak fairness of the sweep and of the emitter's call. Nothing makes
  the sidecar ready: `Resolved` excuses a condition that keeps every job waiting.
* SelfUpdate: weak fairness of the attempt's or confirmation's steps, of the
  passing of the interval, of the start of a stopped service by the service
  manager, and of the death of a release that dies late. Deadlines, pins, faults
  and deaths need not come.
* Sidecar: weak fairness of the supervisor's and the health check's steps, of
  time, of the daemon's start, and of the loading of a child that works.
* ProjectList: weak fairness of the poll, of the attributor's discovery that the
  list is missing, of a respawn, and of each goroutine within the gate.

## Findings

1. `v_matches` (bug). The attributor publishes a block a second time with a row
   that it builds anew, without the rule matches that the emitter had put on the
   first. Atlas keeps the last row, so the matches are gone. The package comment
   says that the row is the same apart from attribution.
2. `v_heals` (bug). A release that crashes before the daemon looks at the update
   marker is rolled back by nobody; one that crashes after has confirmed itself
   already. `Confirm`'s comment calls a crash on startup the case that makes a bad
   release heal itself.

Smaller divergences from comments are the exceptions named above.

## Proofs

TLAPS proves the following for every value of the constants that the named
assumptions allow: `QueueAssumption`, `PipelineAssumption`, `BudgetAssumption`,
`RepublishAssumption`, `EmitterAssumption`, `AttributorAssumption`,
`UpdateAssumption`, `SidecarAssumption`, `ProjectAssumption`. They say that sizes
are positive numbers, that absent values are not values, which sets are finite
and, for `Sidecar`, the order of its times.

* **Queue** (`EnrichQueueProofs`). The inductive invariant `QueueInv` is the
  types, the bounds (`Bounded`), the exact marks (`MarksExact`) and the absence of
  double queueing (`NoDoubleQueue`) together. None of them is inductive alone:
  `Release` keeps the marks exact only because the released key is neither queued
  nor held by another receiver, which is `NoDoubleQueue`; that in turn needs exact
  marks at `Offer`. Lemmas say what `Append` and `Tail` do to the elements and the
  distinctness of a sequence. From the invariant follow `QueueTypeCorrect`,
  `InflightIsExact` and, as an action property, `CompletedNeverRequeued`.
* **Pipeline** (`EnrichPipelineProofs`). Each action of the pipeline has
  an action of `EnrichQueue` as a conjunct or leaves the queue alone, by the way
  it is written; the lemma `PipelineImplementsQueue` says so, and only serves
  `PipelineQueueInvariance`, which transfers the queue's invariant.
  `CustodyOfPrompts` proves `CustodyKept`, the pipeline's main promise, with
  `CustodyInv`: the queue remembers only what was delivered, so its answer
  "duplicate" is as good as "accepted"; and whatever the drain has offered and is
  about to delete is in memory or has got its verdict. The step that matters is
  `DrainDelete`, which acts on offers that others have acted on since.
  `PipelineTypeCorrect` needs what is in a filtered sequence of rows
  (`WithoutRows`), see below.
  `UnpairedLosesNothing` proves `UnpairedKeepsAll` with `UnpairedInv`: while there
  is no endpoint no drain is under way, the worker is at the gate and no
  abandoned attempt is sending. It is inductive because pairing is never undone;
  the step also needs the queue's invariant (the head of the channel is a key).
* **Spool** (`SpoolBudgetProofs`). `SpoolInv` says that no two rows share a key or
  an id, that no id is above the last one given out, and that whatever row now
  has an id that some process has read is the prompt that it read. An upsert is
  the step that matters: it gives a new row an id above all that were read, and a
  known key its old one. From it follows `OnlyReadRowsDeleted`.
  `SpoolTypeCorrect` says of the totals, which may drift anywhere, that they are
  numbers, and of the ids that no more are given out than writes have begun
  (`Counted`: those that may still add a row are counted too).
* **Republish** (`RepublishProofs`). `RepublishInv` relates counts, wobbles and
  the program counter; from it follow `GoodBlocksNotBlamed`, `CapturedNotLost`
  and `CountedOncePerSweep`. `RepublishTypeCorrect` adds that a block is counted
  only from a batch, whose blocks are below the limit.
* **Block emitter** (`BlockEmitterProofs`). `BlockInv` says of each sweeper what
  its next step relies on: the blocks of a page are, with those nobody needs to
  send, closed downwards, and the chunk whose cursor is next has arrived. The
  cursors taken as targets and the image to be written are covered too, because
  another sweeper may have moved on since. `EntryInv` says why a prune that works
  on an older active set drops nothing: what has just been noted is fresh, and
  nothing ages during a sweep. From it `CursorsSafe`, `ActiveHasEntryAlways` and
  `BlockTypeCorrect`. `ActiveUntilSent` proves `StaysActive` with `SettledInv`:
  who is about to retire a transcript has seen that nothing is left of it, or has
  been overtaken by a new turn, which the signal or a fresh entry shows. It uses
  `EmitterAssumption`: an answer without blocks must mean that nothing is left,
  which a page full of refused blocks would belie (`NothingLeft`).
* **Self-update** (`SelfUpdateProofs`). `PhaseInv` says where each step is in its
  work. `SwapInv` says that the list of moves to be undone names "nothing was
  displaced" for the agent only where another place is in use or a parked copy
  exists: otherwise taking such a move back would remove the only agent.
  `RetryInv` follows a rolled-back release from the marker to the failed list: at
  every step one of them names it. `AgentAlwaysKept`, `NeverRetried` and
  `UpdateTypeCorrect` follow. `OneVersionAtRest` proves `OneVersion` with `OneInv`:
  unless one of the four events is to blame, the artifacts are `Aligned`, which
  says for every step which of them hold the new version, which copies are parked,
  and that the moves still to be undone are exactly those that were made. A keld
  that a release did not bring keeps a version that may be older than the agent's
  (`Levels`), so an attempt's undo and a start's rollback have to restore what was
  there, not one version; and the sidecar that a process knows of must be the one
  that is there whenever an attempt begins (`KnownOne`).
* **Attribution** (`AttributionProofs`). `EarnedInv` extends `QuarantineEarned`
  from the files to the sweep's copies and the job in hand: a copy may be older
  than its file, but none carries more attempts than its block has met. With it
  `QuarantineIsEarned`; `NoBlockUnattributed` (`AttributionKept`) is inductive
  given the types. `AttribTypeCorrect` needs that the listing is complete and names
  each job once: a job's place is the number of those before it, and no two jobs
  have the same (`ListedTypes`).
* **Sidecar** (`SidecarProofs`). `SidecarInv` adds to the types that a healthy
  loop has no failed start on its count (why `Ready` is not believed through a
  rest), and that the marker, in memory and on disk, is never older than the
  restart it remembers unless the ladder already holds the right to the next one.
  Hence `SidecarTypeCorrect` and `RestartedOncePerCooldown`.
* **Project list** (`SidecarProofs`, with the sidecar whose restarts it has to
  follow). `ProjectTypeCorrect`, which includes that nothing is posted while no
  list is declared; it needs that a goroutine within the gate has declared one.
* **One row per prompt, in one order.** `BudgetImplementsRows` and
  `PipelineImplementsRows` prove `SpoolSpec`, the refinement of `SpoolRows`, for
  its two users. For `SpoolBudget` an upsert is `Write` and needs `SpoolInv`: the
  new id is above all others, and a known prompt has one row, whose id stays.
  Every delete by id, of an eviction or a drain, is `Delete` whatever it finds.
  For `EnrichPipeline` the order is that of a sequence, so it needs what filtering
  a sequence does to the order of what is left (`WithoutOrder`) and that a row
  occurs once. `RowsInOneOrder` then says of the contract's rows that their order
  is strict and total: what lets `Drain` go on behind its last id.
* **The drain's pass** (`EnrichPipelineProofs`). `DrainsOldestFirst` proves
  `OldestFirst`: a row is offered before every
  younger one that waits, and not twice in a pass, though rows are written and
  deleted between the pages. `PassInv` says that what is past comes before the
  page, and the page before the rest; a write keeps it because it goes behind.
* **The drift's repair** (`SpoolBudgetProofs`). `RepairedWhenQuiet` proves
  `QuietRepairs`, the part of `DriftRepaired` that is not liveness: while nobody
  writes, a resync's sum is the table's (`Fresh`), its store makes the total
  `Exact`, and no delete of the drain and no restart undoes that. What `WriteEnds`
  and the sweep's fairness add is that such a time comes. A delete takes off the
  table what is later taken off the total, because `SizeSplit` says how a sum
  splits; that needs `SizeRemove`, the independence of a sum from the order of its
  rows. While writes go on, the total may drift again.

Two operators of the models are recursive functions over data: the rows that are
left when some are deleted (`Without` of EnrichPipeline) and the sum of the sizes
of a set of rows (`SizeOf` of SpoolBudget, a fold of the community modules). No
induction theorem can be instantiated, so `WithoutSteps`, `WithoutRows`,
`WithoutOrder`, `SumIterates` and the lemmas on sums argue by the least
counterexample (`LeastNumber`, from the well-foundedness of the naturals): once
for the existence of the function, once for what it returns.

Every invariant and every safety property that a passing run checks is proved.
Only model-checked is liveness (`InflightReleased`, `Settles`, `DriftRepaired`,
`WriteEnds`, `GoodDelivered`, `ComesToRest`, `BacklogDrains`, `Resolved`,
`Converges`, `Recovers`, `ListArrives`), which is out of the prover's reach here,
and with it the fairness of the specifications: the theorems are about `Spec`.

## What is left out

The components that the inventory names without a module, for the reasons in
`PROJECT.json`. Most of the repository is inference and analysis of text, user
interface, packaging, tests and the wiring that connects the parts above: it has
no protocol of its own that a state model would say more about than its code. Of
the modelled parts: the choice of backend and the wiring in `daemon.Run`, gauges,
`DiscardHandler` (it keeps no state), the scanning of transcripts, and the live
block path into `captureOnCut` (its callers decide when, not what). The SQLite
engine, the HTTP client, the file system, the service manager, Atlas and the
Python sidecar are external and are modelled from how the code uses them.

## Plan

In order of what matters most to a user of the agent:

1. *Done*: the queue, the pipeline over it, the spool's budget, the republisher,
   the block emitter, attribution, self-update, the supervisor with the health
   ladder, the project list; the spool's contract under two of them; the proofs of
   all their safety properties.
2. `Delivery` (`agent/clientevents/transport.go`): capped file spool, replay,
   pairing and auth rejection; abstract specification: a bounded bag of batches.
   The event ring in front of it, the telemetry proxy over it.
3. `Reauth` (`agent/daemon/reauth.go`, `senders.go`): single flight, cooldown,
   terminal mark.
4. Composition of `BlockEmitter` with `Republish` through `captureOnCut`, and
   with `Attributor` through `OnPublished`; abstract specification: a transcript
   is a sequence of closed blocks and a delivered set.
5. The ingest signal's coalescing queue; the legacy import beside `SpoolBudget`.
6. Proofs: that the abstract specifications of item 4 are implemented, and the
   safety parts of the liveness properties (what one pass of the republisher has
   tried, what a sweep has asked the attributor's slice).
