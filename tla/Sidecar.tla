------------------------------ MODULE Sidecar ------------------------------
(***************************************************************************)
(* What keeps the analysis service alive (internal/agent/daemon):          *)
(* supervisor.go, which starts the sidecar process, waits for its first    *)
(* answer, replaces it when it dies or when asked, and rests when starts   *)
(* keep failing; and servicehealth.go, which probes it, asks for a new one *)
(* after some missed answers in a row and restarts the whole daemon after  *)
(* some more, at most once per cooldown: a file remembers it.              *)
(*                                                                         *)
(* Time is explicit: a tick is the interval between two probes.  What the  *)
(* code does between its waits takes no tick.  The callback on a respawn   *)
(* is ProjectList's.                                                       *)
(***************************************************************************)
EXTENDS Naturals

CONSTANTS
  MaxRestarts,              \* maxRestarts: failed starts in a row before a rest
  ReadyTicks,               \* readyTimeout
  LoadTicks,                \* bound: what a working sidecar needs to load
  RestBase, RestMax,        \* the first rest, the longest one
  Grace, Cooldown,          \* before failures count; between restarts of the daemon
  SidecarAt, DaemonAt,      \* serviceRestartSidecarAt, serviceRestartDaemonAt
  MaxTurns, MaxPresses, MaxSleeps, MaxDeaths, MaxFaults \* bounds

ASSUME SidecarAssumption ==
  /\ {MaxRestarts, ReadyTicks, RestBase, SidecarAt, Cooldown} \subseteq Nat \ {0}
  /\ {LoadTicks, RestMax, Grace, DaemonAt} \subseteq Nat
  /\ LoadTicks < ReadyTicks /\ LoadTicks < Grace + SidecarAt - 1
  /\ RestBase <= RestMax /\ SidecarAt < DaemonAt
  /\ {MaxTurns, MaxPresses, MaxSleeps, MaxDeaths, MaxFaults} \subseteq Nat

VARIABLES
  loop,       \* where Supervisor.Start is, "off" with no daemon
  child,      \* the sidecar process
  waited,     \* ticks since the deadline was armed, or since the rest began
  restarts, rest, token, ready, fellBack, \* restartReq as token
  fails, grace, state, mark, \* serviceHealth; mark: ticks since marker.DaemonRestartedAt
  due, rung,  \* a probe is due; where restartDaemonRung is
  disk,       \* the age in the marker file
  works,      \* does the installed sidecar work at present?
  turns, presses, sleeps, deaths, faults,
  since       \* history: ticks since the ladder last restarted the daemon

superVars == <<loop, child, waited, restarts, rest, ready, fellBack>>
healthVars == <<fails, grace, state, mark, due, rung>>
boundVars == <<works, turns, presses, sleeps, deaths, faults>>
vars == <<superVars, token, healthVars, disk, boundVars, since>>

LesserOf(a, b) == IF a < b THEN a ELSE b
Aged(age, ticks) == LesserOf(age + ticks, Cooldown)
Fault == faults < MaxFaults /\ faults' = faults + 1
-----------------------------------------------------------------------------
\* A start of the daemon: Run, up to the supervisor's first spawn and the first probe.
Fresh(age) ==
  [loop |-> "spawn", child |-> "none", waited |-> 0, restarts |-> 0, rest |-> RestBase,
   token |-> FALSE, ready |-> FALSE, fellBack |-> FALSE, fails |-> 0, grace |-> 0,
   state |-> "settling", mark |-> age, due |-> TRUE, rung |-> "none"]

Init ==
  LET f == Fresh(Cooldown) IN
  /\ loop = f.loop /\ child = f.child /\ waited = f.waited /\ restarts = f.restarts
  /\ rest = f.rest /\ token = f.token /\ ready = f.ready /\ fellBack = f.fellBack
  /\ fails = f.fails /\ grace = f.grace /\ state = f.state /\ mark = f.mark
  /\ due = f.due /\ rung = f.rung
  /\ disk = Cooldown /\ since = Cooldown
  /\ works \in BOOLEAN
  /\ turns = 0 /\ presses = 0 /\ sleeps = 0 /\ deaths = 0 /\ faults = 0

\* The service manager starts it; the marker is loaded, a leftover sidecar reaped.
DaemonStarts ==
  /\ loop = "off"
  /\ LET f == Fresh(disk) IN
     /\ loop' = f.loop /\ child' = f.child /\ waited' = f.waited /\ restarts' = f.restarts
     /\ rest' = f.rest /\ token' = f.token /\ ready' = f.ready /\ fellBack' = f.fellBack
     /\ fails' = f.fails /\ grace' = f.grace /\ state' = f.state /\ mark' = f.mark
     /\ due' = f.due /\ rung' = f.rung
  /\ UNCHANGED <<disk, boundVars, since>>

Gone == loop' = "off" /\ child' = "none" /\ token' = FALSE /\ due' = FALSE /\ rung' = "none"

DaemonDies ==
  /\ loop # "off" /\ deaths < MaxDeaths
  /\ deaths' = deaths + 1
  /\ Gone
  /\ UNCHANGED <<waited, restarts, rest, ready, fellBack, fails, grace, state, mark, disk, works,
                 turns, presses, sleeps, faults, since>>
-----------------------------------------------------------------------------
(* The world: the installed sidecar breaks or is mended; its process. *)

Turn ==
  /\ turns < MaxTurns
  /\ turns' = turns + 1 /\ works' = ~works
  /\ UNCHANGED <<superVars, token, healthVars, disk, presses, sleeps, deaths, faults, since>>

ChildTo(c) ==
  /\ child' = c
  /\ UNCHANGED <<loop, waited, restarts, rest, ready, fellBack, token, healthVars, disk, boundVars, since>>

Loads == child = "loading" /\ ChildTo("serving")
Wedges == ~works /\ child \in {"loading", "serving"} /\ ChildTo("wedged")
Exits == ~works /\ child \in {"loading", "serving", "wedged"} /\ ChildTo("exited")
-----------------------------------------------------------------------------
(* The supervisor. *)

\* Faulty variants ("mutants" of PROJECT.json), used by no specification.
AfterFailedStartSurrendering ==
  /\ restarts' = restarts + 1 /\ UNCHANGED rest
  /\ IF restarts < MaxRestarts
     THEN loop' = "backoff" /\ UNCHANGED <<waited, fellBack>>
     ELSE loop' = "returned" /\ waited' = 0 /\ fellBack' = TRUE

\* Up to its wait: the backoff, or the rest.
AfterFailedStart ==
  /\ restarts' = restarts + 1 /\ UNCHANGED rest
  /\ IF restarts < MaxRestarts
     THEN loop' = "backoff" /\ UNCHANGED <<waited, fellBack>>
     ELSE loop' = "rest" /\ waited' = 0 /\ fellBack' = TRUE

Spawn ==
  /\ loop = "spawn"
  /\ child' = "loading" /\ loop' = "starting" /\ waited' = 0 /\ ready' = FALSE
  /\ UNCHANGED <<restarts, rest, fellBack, token, healthVars, disk, boundVars, since>>

SpawnFails ==
  /\ loop = "spawn" /\ ~works
  /\ ready' = FALSE
  /\ AfterFailedStart
  /\ UNCHANGED <<child, token, healthVars, disk, boundVars, since>>

BecomesReadyKeepingCount ==
  /\ loop = "starting" /\ child = "serving"
  /\ loop' = "healthy" /\ ready' = TRUE /\ fellBack' = FALSE /\ rest' = RestBase
  /\ UNCHANGED <<restarts, child, waited, token, healthVars, disk, boundVars, since>>

\* A poll of /health is answered: the budget and the rest start over.
BecomesReady ==
  /\ loop = "starting" /\ child = "serving"
  /\ loop' = "healthy" /\ ready' = TRUE /\ fellBack' = FALSE /\ restarts' = 0 /\ rest' = RestBase
  /\ UNCHANGED <<child, waited, token, healthVars, disk, boundVars, since>>

\* stopChild, and a failed start.
TooSlow ==
  /\ loop = "starting" /\ child \in {"loading", "wedged"} /\ waited >= ReadyTicks
  /\ child' = "none"
  /\ AfterFailedStart
  /\ UNCHANGED <<ready, token, healthVars, disk, boundVars, since>>

\* Before or after it was ready.
ChildGone ==
  /\ loop \in {"starting", "healthy"} /\ child = "exited"
  /\ child' = "none"
  /\ AfterFailedStart
  /\ UNCHANGED <<ready, token, healthVars, disk, boundVars, since>>

\* A requested restart is no failed start: the count neither grows nor resets.
Replace ==
  /\ loop \in {"starting", "healthy"} /\ token
  /\ token' = FALSE /\ child' = "none" /\ loop' = "spawn"
  /\ UNCHANGED <<waited, restarts, rest, ready, fellBack, healthVars, disk, boundVars, since>>

\* Nobody takes the token during a backoff.
BackoffOver ==
  /\ loop = "backoff"
  /\ loop' = "spawn"
  /\ UNCHANGED <<child, waited, restarts, rest, ready, fellBack, token, healthVars, disk, boundVars, since>>

RestOver ==
  /\ loop = "rest"
  /\ \/ token /\ token' = FALSE
     \/ waited >= rest /\ UNCHANGED token
  /\ restarts' = 0 /\ rest' = LesserOf(2 * rest, RestMax) /\ loop' = "spawn"
  /\ UNCHANGED <<child, waited, ready, fellBack, healthVars, disk, boundVars, since>>

\* The Restart button: RequestRestart by way of serviceHealth.RestartSidecar.
Press ==
  /\ loop # "off" /\ presses < MaxPresses
  /\ presses' = presses + 1
  /\ token' = TRUE /\ state' = "restarting"
  /\ UNCHANGED <<superVars, fails, grace, mark, due, rung, disk, works, turns, sleeps, deaths, faults, since>>
-----------------------------------------------------------------------------
(* The ladder: run, checkMode, and one rung per count. *)

probeVars == <<superVars, disk, boundVars, since>>

Answered ==
  /\ due /\ child = "serving"
  /\ due' = FALSE /\ fails' = 0 /\ state' = "ok"
  /\ UNCHANGED <<probeVars, token, grace, mark, rung>>

Excused ==
  /\ due /\ child # "serving" /\ grace < Grace
  /\ due' = FALSE /\ state' = "settling"
  /\ UNCHANGED <<probeVars, token, fails, grace, mark, rung>>

\* fails is not told apart beyond the last rung.
Missed(n) ==
  /\ due /\ child # "serving" /\ grace >= Grace
  /\ n = LesserOf(fails + 1, DaemonAt + 1)
  /\ due' = FALSE /\ fails' = n

MissedFew ==
  /\ \E n \in 1..(DaemonAt - 1) :
       /\ Missed(n) /\ n # SidecarAt
       /\ state' = IF n < SidecarAt THEN "settling" ELSE "restarting"
  /\ UNCHANGED <<probeVars, token, grace, mark, rung>>

RestartSidecarRung ==
  /\ Missed(SidecarAt)
  /\ token' = TRUE /\ state' = "restarting"
  /\ UNCHANGED <<probeVars, grace, mark, rung>>

\* The marker file is truncated first, and written then.
RestartDaemonRung ==
  /\ Missed(DaemonAt) /\ mark >= Cooldown
  /\ rung' = "recording" /\ disk' = Cooldown
  /\ UNCHANGED <<superVars, boundVars, since, token, grace, state, mark>>

Stuck ==
  /\ \/ Missed(DaemonAt) /\ mark < Cooldown
     \/ Missed(DaemonAt + 1)
  /\ state' = "stuck"
  /\ UNCHANGED <<probeVars, token, grace, mark, rung>>

RecordedInMemory ==
  /\ rung = "recording"
  /\ mark' = 0
  /\ rung' = "recorded" /\ state' = "restarting"
  /\ UNCHANGED <<superVars, token, fails, grace, due, disk, boundVars, since>>

Recorded ==
  /\ rung = "recording"
  /\ disk' = 0 /\ mark' = 0
  /\ rung' = "recorded" /\ state' = "restarting"
  /\ UNCHANGED <<superVars, token, fails, grace, due, boundVars, since>>

\* A restart that cannot be recorded is not performed.
RecordFails ==
  /\ rung = "recording"
  /\ Fault
  /\ rung' = "none" /\ state' = "stuck"
  /\ UNCHANGED <<superVars, token, fails, grace, mark, due, disk, works, turns, presses, sleeps, deaths, since>>

RestartDaemon ==
  /\ rung = "recorded"
  /\ Gone
  /\ since' = 0
  /\ UNCHANGED <<waited, restarts, rest, ready, fellBack, fails, grace, state, mark, disk, boundVars>>

\* The marker stays.
RestartFails ==
  /\ rung = "recorded"
  /\ Fault
  /\ rung' = "none" /\ state' = "stuck"
  /\ UNCHANGED <<superVars, token, fails, grace, mark, due, disk, works, turns, presses, sleeps, deaths, since>>
-----------------------------------------------------------------------------
(* Time. *)

\* What takes no tick is done before one passes; a working sidecar loads in time.
Settled ==
  /\ loop \notin {"spawn", "backoff"} /\ ~due /\ rung = "none"
  /\ loop \in {"starting", "healthy"} => child # "exited" /\ ~token
  /\ loop = "starting" =>
       child # "serving" /\ waited < (IF child = "loading" /\ works THEN LoadTicks ELSE ReadyTicks)
  /\ loop = "rest" => ~token /\ waited < rest

Passes(ticks) ==
  mark' = Aged(mark, ticks) /\ disk' = Aged(disk, ticks) /\ since' = Aged(since, ticks)

Tick ==
  /\ Settled
  /\ Passes(1)
  /\ grace' = LesserOf(grace + 1, Grace)
  /\ waited' = IF loop \in {"starting", "rest"} THEN waited + 1 ELSE waited
  /\ due' = (loop # "off")
  /\ UNCHANGED <<loop, child, restarts, rest, ready, fellBack, token, fails, state, rung, boundVars>>

\* The machine slept: wokeUp, and the readiness deadline armed again.  The marker
\* ages by the wall clock.
Sleep ==
  /\ sleeps < MaxSleeps /\ loop # "off" /\ Settled
  /\ sleeps' = sleeps + 1
  /\ \E ticks \in 0..Cooldown : Passes(ticks)
  /\ fails' = 0 /\ grace' = 0 /\ due' = TRUE
  /\ waited' = IF loop = "starting" THEN 0 ELSE waited
  /\ UNCHANGED <<loop, child, restarts, rest, ready, fellBack, token, state, rung, works, turns, presses,
                 deaths, faults>>
-----------------------------------------------------------------------------
Supervise ==
  \/ Spawn \/ SpawnFails \/ BecomesReady \/ TooSlow \/ ChildGone \/ Replace \/ BackoffOver \/ RestOver
Watch ==
  \/ Answered \/ Excused \/ MissedFew \/ RestartSidecarRung \/ RestartDaemonRung \/ Stuck
  \/ Recorded \/ RecordFails \/ RestartDaemon \/ RestartFails

Next ==
  \/ DaemonStarts \/ DaemonDies \/ Turn \/ Loads \/ Wedges \/ Exits
  \/ Supervise \/ Press \/ Watch \/ Tick \/ Sleep

Spec == Init /\ [][Next]_vars

\* Two goroutines with bounded waits, time, a service manager that keeps the
\* daemon up, and a sidecar that loads when it works.
FairSpec ==
  /\ Spec
  /\ WF_vars(Supervise) /\ WF_vars(Watch) /\ WF_vars(Tick) /\ WF_vars(DaemonStarts)
  /\ WF_vars(works /\ Loads)
-----------------------------------------------------------------------------
\* Types, and what Ready may be believed: once the child it was said of is gone it
\* holds for a backoff at most, never through a rest or the wait for the next one.
SidecarTypeOK ==
  /\ loop \in {"off", "spawn", "starting", "healthy", "backoff", "rest"}
  /\ child \in {"none", "loading", "serving", "wedged", "exited"}
  /\ (child = "none") = (loop \notin {"starting", "healthy"})
  /\ waited \in Nat /\ restarts \in 0..(MaxRestarts + 1) /\ rest \in RestBase..RestMax
  /\ {token, ready, fellBack, due, works} \subseteq BOOLEAN
  /\ fails \in 0..(DaemonAt + 1) /\ grace \in 0..Grace /\ {mark, disk, since} \subseteq 0..Cooldown
  /\ state \in {"ok", "settling", "restarting", "stuck"} /\ rung \in {"none", "recording", "recorded"}
  /\ ready => loop \in {"off", "spawn", "healthy", "backoff"}

\* "At most one per window, whatever happens in between": two restarts of the
\* daemon by its health check are a cooldown apart, also when one dies between the
\* truncation of the marker and its writing, sleeps, recovers or cannot write it.
OncePerCooldown == [][since' < since => since = Cooldown]_vars

\* The supervisor waits on a child that answered once and answers no more, and the
\* ladder is past its last rung: only a wake or a person ends that.
BeyondHelp == loop = "healthy" /\ child = "wedged" /\ fails > DaemonAt

\* A sidecar that works again comes back by itself, whatever it did before, unless
\* it is beyond help.
Recovers == <>[]works => <>[](ready /\ child = "serving") \/ <>[]BeyondHelp
=============================================================================
