----------------------------- MODULE SelfUpdate -----------------------------
(***************************************************************************)
(* The daemon's update of itself (internal/agent/update, wired by          *)
(* daemon/update.go): the settings poll decides, an attempt fetches a      *)
(* release, moves the artifacts aside and the new ones in, records a       *)
(* pending marker and restarts the service; the next start confirms the    *)
(* update or moves the old artifacts back.  The process may die between    *)
(* any two steps, and what a file holds survives it.                       *)
(*                                                                         *)
(* An artifact's file holds a version.  Where the first install cannot be  *)
(* written, the update installs in a second place and moves the service    *)
(* there.  Outcome, error and client events are left out.                  *)
(***************************************************************************)
EXTENDS Naturals, FiniteSets, SequencesExt

CONSTANTS
  Versions, Base, \* releases; the one installed first
  Keldless,       \* releases whose archive has no keld
  None,           \* no file, no process
  MaxFailed,      \* maxFailedVersions
  MaxPins,        \* bound: moves of the org's pin
  MaxFaults,      \* bound: failed downloads, renames, saves and restarts
  MaxDeaths       \* bound: deaths of the process that no bad release explains

ASSUME UpdateAssumption ==
  /\ Base \in Versions /\ None \notin Versions /\ IsFiniteSet(Versions)
  /\ Keldless \subseteq Versions \ {Base}
  /\ MaxFailed \in Nat \ {0} /\ MaxPins \in Nat /\ MaxFaults \in Nat /\ MaxDeaths \in Nat

Artifacts == {"sidecar", "keld", "agent"}
\* A release passes its --version probe, and then its daemon runs, dies before
\* it looks at the marker, or dies after.
Healths == {"good", "early", "late"}

VARIABLES
  place, parked, \* the version at an artifact's target, and at its .prev
  service,       \* which place the service starts the agent from
  marker,        \* state.json
  running,       \* version.CLI of the process
  step,          \* what the process does next
  job,           \* the locals of the attempt, or of the confirmation
  hasSidecar,    \* Dest.HasSidecar, resolved once by the process
  pin, health,   \* the release Atlas names; what the releases are like
  kit,           \* the artifacts that the machine was installed with
  pins, faults, deaths,
  rolled,        \* history: releases rolled back since the pin last moved
  blame          \* history: what may have left the artifacts at mixed versions

diskVars == <<place, parked, service>>
worldVars == <<pin, health, pins, kit>>
vars == <<diskVars, marker, running, hasSidecar, step, job, worldVars, faults, deaths, rolled, blame>>

NoMarker == [pending |-> FALSE, to |-> Base, prev |-> <<>>, stale |-> FALSE, recent |-> FALSE,
             failed |-> <<>>]
NoJob == [to |-> Base, todo |-> <<>>, had |-> FALSE, moves |-> <<>>, errs |-> FALSE,
          restored |-> FALSE, starting |-> FALSE]

Fault == faults < MaxFaults /\ faults' = faults + 1
\* What the service would start, and what that would find beside it.
InUse(a) == IF service = "first" /\ a # "sidecar" THEN Base ELSE place[a]
Agent == InUse("agent")
CanStart == Agent # None /\ health[Agent] # "early"
HasFailed(v) == v \in ToSet(marker.failed)
-----------------------------------------------------------------------------
\* Everything in one place, or the binaries where they cannot be replaced; with
\* the sidecar or, a slim install, without.
Init ==
  /\ service \in {"first", "own"} /\ kit \in {Artifacts, {"keld", "agent"}}
  /\ place = [a \in Artifacts |->
                IF a \in kit /\ (service = "own" \/ a = "sidecar") THEN Base ELSE None]
  /\ parked = [a \in Artifacts |-> None]
  /\ marker = NoMarker
  /\ running = Base /\ hasSidecar = ("sidecar" \in kit) /\ step = "idle" /\ job = NoJob
  /\ pin \in Versions /\ health \in {h \in [Versions -> Healths] : h[Base] = "good"}
  /\ pins = 0 /\ faults = 0 /\ deaths = 0 /\ rolled = {} /\ blame = {}

Pin(v) ==
  /\ pins < MaxPins /\ v # pin
  /\ pins' = pins + 1 /\ pin' = v /\ rolled' = {}
  /\ UNCHANGED <<diskVars, marker, running, hasSidecar, step, job, health, kit, faults, deaths, blame>>

\* The confirm deadline and the shortest interval between attempts pass.
Deadline ==
  /\ marker.pending /\ ~marker.stale
  /\ marker' = [marker EXCEPT !.stale = TRUE]
  /\ UNCHANGED <<diskVars, running, step, job, worldVars, hasSidecar, faults, deaths, rolled, blame>>
Interval ==
  /\ marker.recent
  /\ marker' = [marker EXCEPT !.recent = FALSE]
  /\ UNCHANGED <<diskVars, running, step, job, worldVars, hasSidecar, faults, deaths, rolled, blame>>
-----------------------------------------------------------------------------
(* An attempt: Maybe, then apply. *)

Idle == step' = "idle" /\ job' = NoJob

\* Faulty variants ("mutants" of PROJECT.json), used by no specification.
DecideForgetful == pin # running /\ ~marker.pending /\ ~marker.recent
Decide == pin # running /\ ~HasFailed(pin) /\ ~marker.pending /\ ~marker.recent

\* A poll that may act: recordAttempt, which fails to save unnoticed, or to read
\* what it saves over.
Maybe ==
  /\ step = "idle" /\ Decide
  /\ \/ marker' = [marker EXCEPT !.recent = TRUE] /\ UNCHANGED faults
     \/ Fault /\ marker' \in {marker, [NoMarker EXCEPT !.recent = TRUE]}
  /\ step' = "fetch" /\ job' = [NoJob EXCEPT !.to = pin]
  /\ UNCHANGED <<diskVars, running, worldVars, hasSidecar, deaths, rolled, blame>>

\* What a release replaces: a sidecar only where there is one, and keld only if
\* its archive has it.
Plan(v) == (IF hasSidecar THEN <<"sidecar">> ELSE <<>>)
             \o (IF v \in Keldless THEN <<"agent">> ELSE <<"keld", "agent">>)

Fetch ==
  /\ step = "fetch"
  /\ step' = "displace" /\ job' = [job EXCEPT !.todo = Plan(job.to)]
  /\ UNCHANGED <<diskVars, marker, running, worldVars, hasSidecar, faults, deaths, rolled, blame>>

UndoingLast ==
  step' = "undo" /\ job' = [job EXCEPT !.todo = <<>>, !.moves = IF @ = <<>> THEN @ ELSE <<Last(@)>>]
\* Swap.Rollback is next: every completed move, the last one first.
Undoing == step' = "undo" /\ job' = [job EXCEPT !.todo = <<>>, !.moves = Reverse(@)]

FetchFailsInFlight ==
  /\ step = "fetch"
  /\ Fault
  /\ step' = "gone" /\ job' = NoJob
  /\ UNCHANGED <<diskVars, marker, running, worldVars, hasSidecar, deaths, rolled, blame>>

\* Staging, a download, an extraction, the probe or the look for the staged
\* sidecar fails: fail, with no move to undo.
FetchFails ==
  /\ step = "fetch"
  /\ Fault
  /\ Undoing
  /\ UNCHANGED <<diskVars, marker, running, worldVars, hasSidecar, deaths, rolled, blame>>

art == Head(job.todo)

\* Replace: the outgoing artifact, if there is one, to .prev ...
Displace ==
  /\ step = "displace"
  /\ IF place[art] = None
     THEN UNCHANGED <<place, parked>>
     ELSE parked' = [parked EXCEPT ![art] = place[art]] /\ place' = [place EXCEPT ![art] = None]
  /\ step' = "install" /\ job' = [job EXCEPT !.had = place[art] # None]
  /\ UNCHANGED <<service, marker, running, worldVars, hasSidecar, faults, deaths, rolled, blame>>

\* ... and the staged one in.
Install ==
  /\ step = "install"
  /\ place' = [place EXCEPT ![art] = job.to]
  /\ job' = [job EXCEPT !.todo = Tail(@), !.moves = Append(@, [art |-> art, had |-> job.had])]
  /\ step' = IF Len(job.todo) = 1 THEN "record" ELSE "displace"
  /\ UNCHANGED <<parked, service, marker, running, worldVars, hasSidecar, faults, deaths, rolled, blame>>

\* The agent is not in the release, or an error before the artifact has moved; an
\* older .prev may be gone by then.
DisplaceFails ==
  /\ step = "displace"
  /\ Fault
  /\ \/ UNCHANGED parked
     \/ place[art] # None /\ parked' = [parked EXCEPT ![art] = None]
  /\ Undoing
  /\ UNCHANGED <<place, service, marker, running, worldVars, hasSidecar, deaths, rolled, blame>>

\* What was displaced is put straight back; nobody looks whether that worked.
InstallFails ==
  /\ step = "install"
  /\ Fault
  /\ \/ /\ job.had
        /\ place' = [place EXCEPT ![art] = parked[art]] /\ parked' = [parked EXCEPT ![art] = None]
        /\ UNCHANGED blame
     \/ job.had /\ UNCHANGED <<place, parked>> /\ blame' = blame \cup {"undo_failed"}
     \/ ~job.had /\ UNCHANGED <<place, parked, blame>>
  /\ Undoing
  /\ UNCHANGED <<service, marker, running, worldVars, hasSidecar, deaths, rolled>>

\* Swap.Prev: the parked copies, in the order of their moves.
Displaced(a, moves) == IF [art |-> a, had |-> TRUE] \in ToSet(moves) THEN <<a>> ELSE <<>>
Parked(moves) ==
  Displaced("sidecar", moves) \o Displaced("keld", moves) \o Displaced("agent", moves)

\* The marker is on disk before the process can die by the restart.  A state that
\* cannot be read is saved over, its failed releases with it.
Staged(s) == [s EXCEPT !.pending = TRUE, !.stale = FALSE, !.to = job.to, !.prev = Parked(job.moves)]
Record ==
  /\ step = "record"
  /\ \/ marker' = Staged(marker) /\ UNCHANGED faults
     \/ Fault /\ marker' = Staged(NoMarker)
  /\ step' = IF service = "first" THEN "migrate" ELSE "restart"
  /\ UNCHANGED <<diskVars, running, job, worldVars, hasSidecar, deaths, rolled, blame>>

RecordFails ==
  /\ step = "record"
  /\ Fault
  /\ Undoing
  /\ UNCHANGED <<diskVars, marker, running, worldVars, hasSidecar, deaths, rolled, blame>>

Migrate ==
  /\ step = "migrate"
  /\ service' = "own" /\ blame' = blame \cup {"migrated"}
  /\ step' = "restart"
  /\ UNCHANGED <<place, parked, marker, running, job, worldVars, hasSidecar, faults, deaths, rolled>>

\* The files are moved back; the marker stays as it was saved.
MigrateFails ==
  /\ step = "migrate"
  /\ Fault
  /\ Undoing
  /\ UNCHANGED <<diskVars, marker, running, worldVars, hasSidecar, deaths, rolled, blame>>

Stop == running' = None /\ step' = "off" /\ job' = NoJob

Restart ==
  /\ step = "restart"
  /\ \/ Stop /\ UNCHANGED faults
     \/ Fault /\ Idle /\ UNCHANGED running
  /\ UNCHANGED <<diskVars, marker, worldVars, hasSidecar, deaths, rolled, blame>>
-----------------------------------------------------------------------------
(* Moving artifacts back: Swap.Rollback in an attempt, rollBack at a start. *)

move == Head(job.moves)
Handled(bad) == job' = [job EXCEPT !.moves = Tail(@), !.errs = @ \/ bad, !.restored = @ \/ ~bad]

\* Nothing was displaced: the new artifact goes.
UndoNew ==
  /\ step = "undo" /\ job.moves # <<>> /\ ~move.had
  /\ place' = [place EXCEPT ![move.art] = None]
  /\ Handled(FALSE)
  /\ UNCHANGED <<parked, service, marker, running, step, worldVars, hasSidecar, faults, deaths, rolled, blame>>

UndoMissingClearing ==
  /\ step = "undo" /\ job.moves # <<>> /\ move.had /\ parked[move.art] = None
  /\ place' = [place EXCEPT ![move.art] = None]
  /\ Handled(TRUE)
  /\ UNCHANGED <<parked, service, marker, running, step, worldVars, hasSidecar, faults, deaths, rolled, blame>>

\* The parked copy is gone: this artifact stays as it is.
UndoMissing ==
  /\ step = "undo" /\ job.moves # <<>> /\ move.had /\ parked[move.art] = None
  /\ Handled(TRUE)
  /\ UNCHANGED <<diskVars, marker, running, step, worldVars, hasSidecar, faults, deaths, rolled, blame>>

\* RemoveAll, then Rename.
UndoClear ==
  /\ step = "undo" /\ job.moves # <<>> /\ move.had /\ parked[move.art] # None
  /\ place' = [place EXCEPT ![move.art] = None]
  /\ step' = "restore"
  /\ UNCHANGED <<parked, service, marker, running, job, worldVars, hasSidecar, faults, deaths, rolled, blame>>

UndoRestore ==
  /\ step = "restore"
  /\ place' = [place EXCEPT ![move.art] = parked[move.art]]
  /\ parked' = [parked EXCEPT ![move.art] = None]
  /\ Handled(FALSE)
  /\ step' = "undo"
  /\ UNCHANGED <<service, marker, running, worldVars, hasSidecar, faults, deaths, rolled, blame>>

UndoFails ==
  /\ step \in {"undo", "restore"} /\ job.moves # <<>>
  /\ Fault
  /\ Handled(TRUE)
  /\ step' = "undo" /\ blame' = blame \cup {"undo_failed"}
  /\ UNCHANGED <<diskVars, marker, running, worldVars, hasSidecar, deaths, rolled>>

\* The attempt ends; fail saves nothing that the next decision reads, unless it
\* could not read what it saves over.
UndoDone ==
  /\ step = "undo" /\ job.moves = <<>> /\ ~job.starting
  /\ \/ UNCHANGED <<marker, faults>>
     \/ Fault /\ marker' = NoMarker
  /\ Idle
  /\ UNCHANGED <<diskVars, running, worldVars, hasSidecar, deaths, rolled, blame>>
-----------------------------------------------------------------------------
(* A start: Confirm, before anything else. *)

\* Confirm is over: the daemon finds out where its artifacts are.
Ready == Idle /\ hasSidecar' = (place["sidecar"] # None)

\* The service starts its agent; one that dies early never gets to Confirm, and
\* one that cannot read the marker goes on without.
Start ==
  /\ running = None /\ CanStart
  /\ running' = Agent
  /\ \/ ~marker.pending /\ Ready /\ UNCHANGED <<faults, rolled>>
     \/ marker.pending /\ Fault /\ Ready /\ UNCHANGED rolled
     \/ /\ marker.pending /\ Agent = marker.to /\ ~marker.stale
        /\ step' = "commit" /\ job' = [NoJob EXCEPT !.starting = TRUE, !.todo = marker.prev]
        /\ UNCHANGED <<hasSidecar, faults, rolled>>
     \/ /\ marker.pending /\ (Agent # marker.to \/ marker.stale)
        /\ step' = "undo"
        /\ job' = [NoJob EXCEPT !.starting = TRUE,
                                !.moves = [i \in DOMAIN marker.prev |->
                                             [art |-> marker.prev[i], had |-> TRUE]]]
        /\ rolled' = rolled \cup {marker.to} /\ UNCHANGED <<hasSidecar, faults>>
  /\ UNCHANGED <<diskVars, marker, worldVars, deaths, blame>>

\* confirmed: the parked copies go (an error is ignored) ...
Drop ==
  /\ step = "commit" /\ job.todo # <<>>
  /\ \/ parked' = [parked EXCEPT ![art] = None] /\ UNCHANGED faults
     \/ Fault /\ UNCHANGED parked
  /\ job' = [job EXCEPT !.todo = Tail(@)]
  /\ UNCHANGED <<place, service, marker, running, step, worldVars, hasSidecar, deaths, rolled, blame>>

Settled(failed) == [marker EXCEPT !.pending = FALSE, !.stale = FALSE, !.prev = <<>>, !.failed = failed]

\* ... and then the marker.
Confirmed ==
  /\ step = "commit" /\ job.todo = <<>>
  /\ \/ marker' = Settled(marker.failed) /\ UNCHANGED <<faults, blame>>
     \/ Fault /\ UNCHANGED marker /\ blame' = blame \cup {"half_confirmed"}
  /\ Ready
  /\ UNCHANGED <<diskVars, running, worldVars, deaths, rolled>>

MarkedUnbounded(v) == IF HasFailed(v) THEN marker.failed ELSE Append(marker.failed, v)
\* MarkFailed: the newest MaxFailed.
Marked(v) ==
  IF HasFailed(v) THEN marker.failed
  ELSE LET all == Append(marker.failed, v)
       IN  SubSeq(all, Len(all) - (IF Len(all) > MaxFailed THEN MaxFailed ELSE Len(all)) + 1, Len(all))

\* rollBack's end: the marker is settled also after errors; the service restarts
\* only after a rollback that restored something and met none.
RolledBack ==
  /\ step = "undo" /\ job.moves = <<>> /\ job.starting
  /\ marker' = Settled(Marked(marker.to))
  /\ \/ ~job.errs /\ job.restored /\ Stop /\ UNCHANGED <<hasSidecar, faults>>
     \/ ~job.errs /\ job.restored /\ Ready /\ UNCHANGED running /\ Fault
     \/ (job.errs \/ ~job.restored) /\ Ready /\ UNCHANGED <<running, faults>>
  /\ UNCHANGED <<diskVars, worldVars, deaths, rolled, blame>>

\* The marker cannot be saved: the rollback stays to be done again.
RolledBackUnsaved ==
  /\ step = "undo" /\ job.moves = <<>> /\ job.starting
  /\ Fault
  /\ Ready
  /\ UNCHANGED <<diskVars, marker, running, worldVars, deaths, rolled, blame>>

\* The process dies: in the middle of a swap, of a rollback, or anywhere.
Die ==
  /\ deaths < MaxDeaths /\ running # None
  /\ deaths' = deaths + 1
  /\ Stop
  /\ blame' = blame
       \cup {b \in {"died_in_swap"} : ~job.starting /\ ~marker.pending
                                     /\ (job.moves # <<>> \/ (step = "install" /\ job.had))}
       \cup {b \in {"half_confirmed"} : step = "commit"}
  /\ UNCHANGED <<diskVars, marker, worldVars, hasSidecar, faults, rolled>>

\* A bad release dies after Confirm let it pass.
DieLate ==
  /\ running # None /\ health[running] = "late" /\ step = "idle"
  /\ Stop
  /\ UNCHANGED <<diskVars, marker, worldVars, hasSidecar, faults, deaths, rolled, blame>>
-----------------------------------------------------------------------------
Work ==
  \/ Maybe \/ Fetch \/ FetchFails \/ Displace \/ DisplaceFails \/ Install \/ InstallFails
  \/ Record \/ RecordFails \/ Migrate \/ MigrateFails \/ Restart
  \/ UndoNew \/ UndoMissing \/ UndoClear \/ UndoRestore \/ UndoFails \/ UndoDone
  \/ Drop \/ Confirmed \/ RolledBack \/ RolledBackUnsaved

Next == (\E v \in Versions : Pin(v)) \/ Deadline \/ Interval \/ Work \/ Start \/ Die \/ DieLate

Spec == Init /\ [][Next]_vars

\* The poll comes round and an attempt is sequential code with bounded calls;
\* the interval passes; the service manager starts a service that stopped.
FairSpec ==
  Spec /\ WF_vars(Work) /\ WF_vars(Interval) /\ WF_vars(Start) /\ WF_vars(DieLate)
-----------------------------------------------------------------------------
Copies == [Artifacts -> Versions \cup {None}]
Moves == [art : Artifacts, had : BOOLEAN]

\* Types; nothing is restored but from a parked copy.
UpdateTypeOK ==
  /\ place \in Copies /\ parked \in Copies /\ service \in {"first", "own"}
  /\ {marker.pending, marker.stale, marker.recent} \subseteq BOOLEAN /\ marker.to \in Versions
  /\ ToSet(marker.prev) \subseteq Artifacts
  /\ ToSet(marker.failed) \subseteq Versions /\ Len(marker.failed) <= MaxFailed
  /\ running \in Versions \cup {None} /\ (running = None) = (step = "off")
  /\ hasSidecar \in BOOLEAN /\ kit \subseteq Artifacts
  /\ step \in {"off", "idle", "fetch", "displace", "install", "record", "migrate", "restart", "undo",
               "restore", "commit"}
  /\ job.to \in Versions /\ {job.had, job.errs, job.restored, job.starting} \subseteq BOOLEAN
  /\ ToSet(job.todo) \subseteq Artifacts /\ ToSet(job.moves) \subseteq Moves
  /\ step = "restore" => parked[move.art] # None

\* "Displace, never delete": wherever the process dies, a copy of the agent is
\* left, in place or parked.
AgentKept == service = "own" => place["agent"] # None \/ parked["agent"] # None

\* "Never retried until the pin moves": an attempt never installs a release that
\* a start has begun to roll back, also when that rollback died, could not save
\* or met errors, and whatever older failures were evicted.
NotRetried == step \in {"displace", "install", "record"} => job.to \notin rolled

\* Whenever the daemon is at rest with no update pending, what the machine was
\* installed with is of one version, but for the keld beside a release that has
\* none: such a release is installed and confirmed without.  What else can mix
\* versions: a death within the swap, before the marker; a step back that failed;
\* an install that moved to a second place, whose rollback moves back the sidecar
\* only; and a confirmation that dropped copies but did not get to clear the
\* marker, when the next start is past the deadline.
OneVersion ==
  (step = "idle" /\ ~marker.pending /\ blame = {}) =>
    \A a \in kit : InUse(a) = Agent \/ (a = "keld" /\ Agent \in Keldless)

\* The machine comes to run the pinned release, or has rolled it back, or has no
\* agent that stays up, or waits for its next start with an update unproven.
Converges ==
  <>[](pin = Agent \/ HasFailed(pin) \/ Agent = None \/ health[Agent] # "good" \/ marker.pending)

\* Claims of the code that its runs refute.

\* Confirm's comment on a release that "crashed on startup": "This is the case
\* that makes a bad release self-healing instead of a bricked fleet".  Only a
\* release that starts gets to Confirm, and one that starts in time is confirmed
\* there, before it has done anything else.
BadReleaseHeals == []<>(running # None /\ health[running] = "good")
=============================================================================
