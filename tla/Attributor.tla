----------------------------- MODULE Attributor -----------------------------
(***************************************************************************)
(* The vectorised project attribution of published blocks                  *)
(* (internal/agent/attrib/attrib.go, wired by daemon/attrib.go).  Every    *)
(* block the emitter publishes is scheduled as a job, one file each.  A    *)
(* sweep asks the sidecar about a slice of the jobs and holds a job,       *)
(* counts an error against it, or publishes the block again with its       *)
(* attribution and deletes the job.  Schedule writes the same files from the emitter's *)
(* goroutine, while the sweep acts on the copies it listed.                *)
(*                                                                         *)
(* A job is its block, a number: the order of the file names.  Atlas keeps *)
(* the last row it was sent for a block.                                   *)
(***************************************************************************)
EXTENDS Naturals, FiniteSets, Sequences

CONSTANTS
  Jobs,
  Waiting,       \* jobs the sidecar answers "pending" even when it is ready
  MaxAttempts, MaxPerSweep,
  MaxPublishes,  \* bound: blocks the emitter publishes, again or for the first time
  MaxChanges,    \* bound: changes of the sidecar's condition
  MaxFaults,     \* bound: failed calls, posts and writes
  MaxRestarts    \* bound: restarts of the daemon

ASSUME AttributorAssumption ==
  /\ Jobs \subseteq Nat /\ IsFiniteSet(Jobs) /\ Waiting \subseteq Jobs
  /\ MaxAttempts \in Nat \ {0} /\ MaxPerSweep \in Nat \ {0}
  /\ MaxPublishes \in Nat /\ MaxChanges \in Nat /\ MaxFaults \in Nat /\ MaxRestarts \in Nat

\* The sidecar: not running; too old to know /blocks; too old to know
\* /attribute; encoder cold; weights missing; ready.
Conditions == {"down", "noBlocks", "noAttribute", "cold", "noWeights", "ready"}
\* A row at Atlas: does it carry the rule matches, and what attribution?
Rows == [matches : BOOLEAN, status : {"none", "degraded", "answered"}]

VARIABLES
  store,      \* the job files: attempts and the degraded_published marker by job
  bad,        \* spool/attrib/bad
  handed,     \* blocks published, OnPublished not called yet
  todo,       \* the sweep's slice of listed copies still to do
  step,       \* what drainJob does next with the first of them
  offset,     \* sweepOffset
  reposted,   \* repostedThisSweep
  side, list, \* the sidecar's condition; whether it holds the project list
  declared,   \* projectsKnown: the daemon holds a project list
  atlas,      \* the row Atlas has, by block
  publishes, changes, faults, restarts,
  errors,     \* history: genuine errors met by a block's job, up to MaxAttempts
  skews,      \* history: sweeps that found no /blocks route, likewise
  forgotten   \* history: blocks whose job a crash, a failed write or a late
              \* delete took away

sweepVars == <<todo, step, offset, reposted>>
sideVars == <<side, list, declared, changes>>
histVars == <<errors, skews>>
vars == <<store, bad, handed, sweepVars, sideVars, atlas, publishes, faults, restarts, histVars,
          forgotten>>

Fresh == [attempts |-> 0, degraded |-> FALSE]
With(j, file) == [k \in DOMAIN store \cup {j} |-> IF k = j THEN file ELSE store[k]]
Without(j) == [k \in DOMAIN store \ {j} |-> store[k]]
Count(f) == [f EXCEPT ![todo[1].job] = IF @ < MaxAttempts THEN @ + 1 ELSE @]
Fault == faults < MaxFaults /\ faults' = faults + 1
-----------------------------------------------------------------------------
Init ==
  /\ store = [j \in {} |-> Fresh] /\ bad = {} /\ handed = {}
  /\ todo = <<>> /\ step = "ask" /\ offset = 0 /\ reposted = FALSE
  /\ side \in Conditions /\ list \in BOOLEAN /\ declared \in BOOLEAN
  /\ atlas = [j \in {} |-> [matches |-> TRUE, status |-> "none"]]
  /\ publishes = 0 /\ changes = 0 /\ faults = 0 /\ restarts = 0
  /\ errors = [j \in Jobs |-> 0] /\ skews = [j \in Jobs |-> 0] /\ forgotten = {}

\* The sidecar is updated, provisioned, stopped or started; a start forgets the
\* project list.
Change ==
  /\ changes < MaxChanges
  /\ changes' = changes + 1
  /\ side' \in Conditions \ {side}
  /\ list' = (list /\ side # "down")
  /\ UNCHANGED <<store, bad, handed, sweepVars, declared, atlas, publishes, faults, restarts, histVars,
                 forgotten>>

Arrive(j, row) == atlas' = [k \in DOMAIN atlas \cup {j} |-> IF k = j THEN row ELSE atlas[k]]

\* The block emitter's publish succeeds; a block may be published again after
\* an answer was lost, or from an older cursor.
Publish(j) ==
  /\ publishes < MaxPublishes
  /\ publishes' = publishes + 1
  /\ j \notin handed
  /\ Arrive(j, [matches |-> TRUE, status |-> "none"])
  /\ handed' = handed \cup {j}
  /\ forgotten' = forgotten \ {j}
  /\ UNCHANGED <<store, bad, sweepVars, sideVars, faults, restarts, histVars>>

\* OnPublished: the job is written over any older file of the block.
Schedule(j) ==
  /\ j \in handed
  /\ handed' = handed \ {j}
  /\ store' = With(j, Fresh)
  /\ UNCHANGED <<bad, sweepVars, sideVars, atlas, publishes, faults, restarts, histVars, forgotten>>

ScheduleFails(j) ==
  /\ j \in handed
  /\ Fault
  /\ handed' = handed \ {j}
  /\ forgotten' = forgotten \cup {j}
  /\ UNCHANGED <<store, bad, sweepVars, sideVars, atlas, publishes, restarts, histVars>>
-----------------------------------------------------------------------------
(* A sweep: drainOnce over drainJob. *)

\* List, in the order of the file names, each job with its copy of the file.
Before(j) == Cardinality({k \in DOMAIN store : k < j})
Nth(i) == CHOOSE j \in DOMAIN store : Before(j) = i - 1
Listed == [i \in 1 .. Cardinality(DOMAIN store) |-> [job |-> Nth(i), file |-> store[Nth(i)]]]

\* Faulty variants ("mutants" of PROJECT.json), used by no specification.
NextOffsetFixed(n, total) == 0

NextOffset(n, total) == ((offset % total) + n) % total

\* sweepSlice: up to MaxPerSweep of them from a rotating offset.
List ==
  /\ todo = <<>> /\ DOMAIN store # {}
  /\ LET total == Len(Listed)
         n == IF total < MaxPerSweep THEN total ELSE MaxPerSweep
     IN  /\ todo' = [i \in 1 .. n |-> Listed[(((offset % total) + i - 1) % total) + 1]]
         /\ offset' = NextOffset(n, total)
  /\ reposted' = FALSE
  /\ UNCHANGED <<store, bad, handed, step, sideVars, atlas, publishes, faults, restarts, histVars,
                 forgotten>>

job == todo[1].job
file == todo[1].file \* the listed copy, not the file as it is now
NextJob == todo' = Tail(todo) /\ step' = "ask"
Asking == todo # <<>> /\ step = "ask"

\* The block cannot be fetched again: blockFor does not tell why.
AskNoBlock ==
  /\ Asking
  /\ side \in {"down", "noBlocks"}
  /\ IF side = "down"
     THEN errors' = Count(errors) /\ UNCHANGED skews
     ELSE skews' = Count(skews) /\ UNCHANGED errors
  /\ step' = "retry"
  /\ UNCHANGED <<store, bad, handed, todo, offset, reposted, sideVars, atlas, publishes, faults,
                 restarts, forgotten>>

\* A call fails, the block is not found, or the status is not one we know.
AskError ==
  /\ Asking
  /\ side # "down"
  /\ Fault
  /\ errors' = Count(errors)
  /\ step' = "retry"
  /\ UNCHANGED <<store, bad, handed, todo, offset, reposted, sideVars, atlas, publishes, restarts,
                 skews, forgotten>>

NoProjects == side \in {"cold", "noWeights", "ready"} /\ ~list /\ declared

\* The sidecar lost the list we hold: tell it again, once per sweep.
Reassert == NoProjects /\ ~reposted

AskRepost ==
  /\ Asking
  /\ Reassert
  /\ \/ list' = TRUE /\ UNCHANGED faults
     \/ Fault /\ UNCHANGED list
  /\ reposted' = TRUE
  /\ step' = "hold"
  /\ UNCHANGED <<store, bad, handed, todo, offset, side, declared, changes, atlas, publishes, restarts,
                 histVars, forgotten>>

\* The steps that an answer leads to.
Answers ==
  CASE side = "noAttribute" \/ NoProjects -> {"hold"}
    [] ~declared /\ ~list -> {"publish"}           \* skipped:no_projects
    [] side = "cold" \/ job \in Waiting -> {"hold"} \* pending
    [] side = "noWeights" -> IF file.degraded THEN {"hold"} ELSE {"degrade"}
    [] OTHER -> {"publish"}                        \* attributed, or skipped:disabled

Ask ==
  /\ Asking
  /\ side \notin {"down", "noBlocks"} /\ ~Reassert
  /\ step' \in Answers
  /\ UNCHANGED <<store, bad, handed, todo, offset, reposted, sideVars, atlas, publishes, faults,
                 restarts, histVars, forgotten>>

HoldSpending ==
  /\ step = "hold"
  /\ store' = With(job, [file EXCEPT !.attempts = @ + 1])
  /\ NextJob
  /\ UNCHANGED <<bad, handed, offset, reposted, sideVars, atlas, publishes, faults, restarts, histVars,
                 forgotten>>

\* hold: the listed copy is written back as it was.
Hold ==
  /\ step = "hold"
  /\ store' = With(job, file)
  /\ NextJob
  /\ UNCHANGED <<bad, handed, offset, reposted, sideVars, atlas, publishes, faults, restarts, histVars,
                 forgotten>>

RetryOffByOne ==
  /\ step = "retry"
  /\ LET spent == [file EXCEPT !.attempts = @ + 1]
     IN  IF spent.attempts > MaxAttempts
         THEN bad' = bad \cup {job} /\ store' = Without(job)
         ELSE store' = With(job, spent) /\ UNCHANGED bad
  /\ NextJob
  /\ UNCHANGED <<handed, offset, reposted, sideVars, atlas, publishes, faults, restarts, histVars,
                 forgotten>>

\* retryOrQuarantine.
Retry ==
  /\ step = "retry"
  /\ LET spent == [file EXCEPT !.attempts = @ + 1]
     IN  IF spent.attempts >= MaxAttempts
         THEN bad' = bad \cup {job} /\ store' = Without(job)
         ELSE store' = With(job, spent) /\ UNCHANGED bad
  /\ NextJob
  /\ UNCHANGED <<handed, offset, reposted, sideVars, atlas, publishes, faults, restarts, histVars,
                 forgotten>>

\* Any of these writes may fail: the file stays as it is.
WriteFails ==
  /\ step \in {"hold", "retry", "delete"}
  /\ Fault
  /\ NextJob
  /\ UNCHANGED <<store, bad, handed, offset, reposted, sideVars, atlas, publishes, restarts, histVars,
                 forgotten>>

\* republish: the row is built again, and carries no rule matches.
Rebuilt(status) == [matches |-> FALSE, status |-> status]

\* The degraded row, once: the copy to be written back is marked.
Degrade ==
  /\ step = "degrade"
  /\ Arrive(job, Rebuilt("degraded"))
  /\ todo' = [todo EXCEPT ![1].file.degraded = TRUE]
  /\ step' = "hold"
  /\ UNCHANGED <<store, bad, handed, offset, reposted, sideVars, publishes, faults, restarts, histVars,
                 forgotten>>

Republish ==
  /\ step = "publish"
  /\ Arrive(job, Rebuilt("answered"))
  /\ step' = "delete"
  /\ UNCHANGED <<store, bad, handed, todo, offset, reposted, sideVars, publishes, faults, restarts,
                 histVars, forgotten>>

RepublishFailsDeleting ==
  /\ step = "publish"
  /\ Fault
  /\ store' = Without(job)
  /\ NextJob
  /\ UNCHANGED <<bad, handed, offset, reposted, sideVars, atlas, publishes, restarts, histVars,
                 forgotten>>

\* SendBlocks fails, whether or not the row arrived: the job is held.
RepublishFails ==
  /\ step \in {"degrade", "publish"}
  /\ Fault
  /\ \/ Arrive(job, Rebuilt(IF step = "degrade" THEN "degraded" ELSE "answered"))
     \/ UNCHANGED atlas
  /\ step' = "hold"
  /\ UNCHANGED <<store, bad, handed, todo, offset, reposted, sideVars, publishes, restarts, histVars,
                 forgotten>>

\* The file goes, also one that was scheduled anew since the row was sent.
Delete ==
  /\ step = "delete"
  /\ store' = Without(job)
  /\ forgotten' = IF job \in DOMAIN store /\ atlas[job].status = "none" /\ job \notin handed
                  THEN forgotten \cup {job} ELSE forgotten
  /\ NextJob
  /\ UNCHANGED <<bad, handed, offset, reposted, sideVars, atlas, publishes, faults, restarts, histVars>>

\* The daemon dies and starts again.
Restart ==
  /\ restarts < MaxRestarts
  /\ restarts' = restarts + 1
  /\ handed' = {} /\ forgotten' = forgotten \cup handed
  /\ todo' = <<>> /\ step' = "ask" /\ offset' = 0 /\ reposted' = FALSE
  /\ UNCHANGED <<store, bad, sideVars, atlas, publishes, faults, histVars>>
-----------------------------------------------------------------------------
Drain ==
  \/ List
  \/ AskNoBlock \/ AskError \/ AskRepost \/ Ask
  \/ Hold \/ Retry \/ WriteFails \/ Degrade \/ Republish \/ RepublishFails \/ Delete

Next ==
  \/ Change
  \/ \E j \in Jobs : Publish(j) \/ Schedule(j) \/ ScheduleFails(j)
  \/ Drain
  \/ Restart

Spec == Init /\ [][Next]_vars

\* A sweep runs every interval, and every call in it has a timeout; the emitter
\* calls OnPublished in its own goroutine.
FairSpec == Spec /\ WF_vars(Drain) /\ \A j \in Jobs : WF_vars(Schedule(j))
-----------------------------------------------------------------------------
Files == [attempts : 0 .. MaxAttempts - 1, degraded : BOOLEAN]

\* Types; no file ever carries MaxAttempts attempts.
AttribTypeOK ==
  /\ DOMAIN store \subseteq Jobs /\ \A j \in DOMAIN store : store[j] \in Files
  /\ {bad, handed, forgotten} \subseteq SUBSET Jobs
  /\ Len(todo) <= MaxPerSweep /\ \A i \in DOMAIN todo : todo[i] \in [job : Jobs, file : Files]
  /\ step \in {"ask", "hold", "retry", "degrade", "publish", "delete"}
  /\ todo = <<>> => step = "ask"
  /\ offset \in 0 .. Cardinality(Jobs) /\ reposted \in BOOLEAN
  /\ side \in Conditions /\ list \in BOOLEAN /\ declared \in BOOLEAN
  /\ DOMAIN atlas \subseteq Jobs /\ \A j \in DOMAIN atlas : atlas[j] \in Rows

\* A published block whose row at Atlas says nothing of its projects is some
\* job's business: scheduled, about to be, or set aside after errors.  What can
\* take the job away is a crash or a failed write before it is on disk, and a
\* delete that hits the job of a later publish.
AttributionKept ==
  \A j \in DOMAIN atlas :
    atlas[j].status = "none" => j \in DOMAIN store \cup bad \cup handed \cup forgotten

\* "Only genuine errors": every attempt a file carries, and every set-aside,
\* is paid for by a sweep that got no answer.  Pending, degraded and failed
\* publishes cost nothing, and no interleaving of Schedule with a sweep that
\* writes back the copies it listed makes up an attempt.  What does cost one is a
\* sidecar without /blocks, although blockFor's comment says that such a job
\* "keeps its attempt".
QuarantineEarned ==
  /\ \A j \in DOMAIN store : store[j].attempts <= errors[j] + skews[j]
  /\ \A j \in bad : errors[j] + skews[j] >= MaxAttempts

\* "Never lost, only paced fairly" (maxPerSweep): whatever the jobs held in front
\* of it, a job leaves the store, unless the sidecar's condition keeps every job
\* waiting.  With a ready sidecar that forgot the project list this needs the
\* re-assertion.
Resolved ==
  \A j \in Jobs \ Waiting :
    []<>(j \notin DOMAIN store \/ side \in {"noAttribute", "cold", "noWeights"})

\* The package comment: "a re-fetch reproduces the row byte-for-byte apart from
\* attribution".  The re-built row carries no rule matches, and replaces one that
\* did.
MatchesKept ==
  [][\A j \in DOMAIN atlas : atlas[j].matches => atlas'[j].matches]_vars
=============================================================================
