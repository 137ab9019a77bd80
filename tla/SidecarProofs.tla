--------------------------- MODULE SidecarProofs ---------------------------
(***************************************************************************)
(* Theorems about Sidecar, for all its constants: its types with what Ready*)
(* may be believed, and that the health ladder restarts the daemon at most *)
(* once per cooldown whatever happens to the daemon and to its marker file;*)
(* and, at the end, about ProjectList, the list that the sidecar is told.  *)
(***************************************************************************)
EXTENDS Sidecar, ProjectList, TLAPS

\* Ready is never believed of a child that keeps failing because a healthy loop
\* has no failed start on its count, and a count beyond the budget means a rest.
CountInv ==
  /\ loop = "healthy" => restarts = 0
  /\ loop \in {"spawn", "starting", "healthy", "backoff"} => restarts <= MaxRestarts

\* The marker, in the file and in memory, is never older than the restart it
\* remembers, except while the ladder holds the right to the next one.
MarkerInv ==
  /\ disk <= since /\ mark <= since
  /\ due => loop # "off"
  /\ rung # "none" => loop # "off" /\ since = Cooldown
  /\ rung = "recorded" => disk = 0 /\ mark = 0

SidecarInv == SidecarTypeOK /\ CountInv /\ MarkerInv
-----------------------------------------------------------------------------
(* Lemmas. *)

LEMMA Sizes ==
  /\ MaxRestarts \in Nat /\ MaxRestarts > 0 /\ Cooldown \in Nat /\ Cooldown > 0
  /\ SidecarAt \in Nat /\ SidecarAt > 0 /\ DaemonAt \in Nat /\ SidecarAt < DaemonAt
  /\ RestBase \in Nat /\ RestBase > 0 /\ RestMax \in Nat /\ RestBase <= RestMax
  /\ Grace \in Nat
BY SidecarAssumption

\* Ages grow alike: who is younger stays younger, and none passes the cooldown.
LEMMA AgedKeepsOrder ==
  ASSUME NEW a \in 0..Cooldown, NEW b \in 0..Cooldown, a <= b, NEW ticks \in Nat
  PROVE  /\ Aged(a, ticks) \in 0..Cooldown
         /\ Aged(a, ticks) <= Aged(b, ticks)
         /\ b <= Aged(b, ticks)
BY Sizes DEF Aged, LesserOf

LEMMA InitSidecarInv == Init => SidecarInv
BY Sizes DEF Init, Fresh, SidecarInv, SidecarTypeOK, CountInv, MarkerInv

\* A failed start, wherever it comes from.
LEMMA FailedStartInv ==
  ASSUME SidecarInv, AfterFailedStart, loop \in {"spawn", "starting", "healthy"},
         ready' \in BOOLEAN, ready' => ready /\ loop = "healthy", child' = "none",
         UNCHANGED <<token, healthVars, disk, boundVars, since>>
  PROVE  SidecarInv'
<1>1. restarts \in Nat /\ restarts <= MaxRestarts /\ restarts' = restarts + 1 /\ rest' = rest
  BY Sizes DEF SidecarInv, SidecarTypeOK, CountInv, AfterFailedStart
<1>2. CASE restarts < MaxRestarts
  <2>1. loop' = "backoff" /\ waited' = waited /\ fellBack' = fellBack
    BY <1>2 DEF AfterFailedStart
  <2>2. SidecarTypeOK'
    BY <1>1, <1>2, <2>1, Sizes DEF SidecarInv, SidecarTypeOK, healthVars, boundVars
  <2>3. CountInv'
    BY <1>1, <1>2, <2>1, Sizes DEF CountInv
  <2> QED BY <2>1, <2>2, <2>3 DEF SidecarInv, MarkerInv, healthVars
<1>3. CASE ~(restarts < MaxRestarts)
  <2>1. loop' = "rest" /\ waited' = 0 /\ fellBack' = TRUE
    BY <1>3 DEF AfterFailedStart
  <2>2. ~ready'
    BY <1>3, Sizes DEF SidecarInv, CountInv
  <2>3. SidecarTypeOK'
    BY <1>1, <2>1, <2>2, Sizes DEF SidecarInv, SidecarTypeOK, healthVars, boundVars
  <2> QED BY <2>1, <2>3 DEF SidecarInv, CountInv, MarkerInv, healthVars
<1> QED BY <1>2, <1>3

\* The supervisor's steps.
LEMMA SuperviseInv ==
  ASSUME SidecarInv, Supervise
  PROVE  SidecarInv'
<1> USE Sizes
<1>1. CASE Spawn
  BY <1>1 DEF Spawn, SidecarInv, SidecarTypeOK, CountInv, MarkerInv, healthVars, boundVars
<1>2. CASE SpawnFails
  BY <1>2, FailedStartInv DEF SpawnFails, SidecarInv, SidecarTypeOK
<1>3. CASE BecomesReady
  <2>1. restarts' = 0 /\ rest' \in RestBase..RestMax /\ loop' = "healthy" /\ child' = "serving"
    BY <1>3 DEF BecomesReady
  <2>2. {token', ready', fellBack', due', works'} \subseteq BOOLEAN
    BY <1>3 DEF BecomesReady, SidecarInv, SidecarTypeOK, healthVars, boundVars
  <2>3. SidecarTypeOK'
    BY <1>3, <2>1, <2>2 DEF BecomesReady, SidecarInv, SidecarTypeOK, healthVars
  <2> QED BY <1>3, <2>1, <2>3 DEF BecomesReady, SidecarInv, CountInv, MarkerInv, healthVars
<1>4. CASE TooSlow
  BY <1>4, FailedStartInv DEF TooSlow, SidecarInv, SidecarTypeOK
<1>5. CASE ChildGone
  BY <1>5, FailedStartInv DEF ChildGone, SidecarInv, SidecarTypeOK, superVars
<1>6. CASE Replace
  BY <1>6 DEF Replace, SidecarInv, SidecarTypeOK, CountInv, MarkerInv, healthVars, boundVars
<1>7. CASE BackoffOver
  BY <1>7 DEF BackoffOver, SidecarInv, SidecarTypeOK, CountInv, MarkerInv, healthVars, boundVars
<1>8. CASE RestOver
  <2>1. rest' \in RestBase..RestMax
    BY <1>8 DEF RestOver, LesserOf, SidecarInv, SidecarTypeOK
  <2>2. token' \in BOOLEAN
    BY <1>8 DEF RestOver, SidecarInv, SidecarTypeOK
  <2> QED BY <1>8, <2>1, <2>2
       DEF RestOver, SidecarInv, SidecarTypeOK, CountInv, MarkerInv, healthVars, boundVars
<1> QED BY <1>1, <1>2, <1>3, <1>4, <1>5, <1>6, <1>7, <1>8 DEF Supervise

\* What a missed probe leaves.
LEMMA MissedTypes ==
  ASSUME SidecarInv, NEW n, Missed(n)
  PROVE  /\ n \in 1..(DaemonAt + 1)
         /\ due' = FALSE /\ fails' = n /\ fails' \in 0..(DaemonAt + 1)
BY Sizes DEF Missed, LesserOf, SidecarInv, SidecarTypeOK

\* The ladder's steps.
LEMMA WatchInv ==
  ASSUME SidecarInv, Watch
  PROVE  SidecarInv'
<1> USE Sizes
<1>1. CASE Answered \/ Excused
  <2>1. due' = FALSE /\ fails' \in 0..(DaemonAt + 1) /\ state' \in {"ok", "settling"}
    BY <1>1 DEF Answered, Excused, SidecarInv, SidecarTypeOK
  <2>2. UNCHANGED <<probeVars, token, grace, mark, rung>>
    BY <1>1 DEF Answered, Excused
  <2> QED BY <2>1, <2>2 DEF probeVars, SidecarInv, SidecarTypeOK, CountInv, MarkerInv, superVars,
                            boundVars
<1>2. CASE MissedFew
  <2>1. PICK n \in 1..(DaemonAt - 1) :
          Missed(n) /\ state' = (IF n < SidecarAt THEN "settling" ELSE "restarting")
    BY <1>2 DEF MissedFew
  <2>2. due' = FALSE /\ fails' \in 0..(DaemonAt + 1) /\ state' \in {"settling", "restarting"}
    BY <2>1, MissedTypes
  <2> QED BY <1>2, <2>2 DEF MissedFew, probeVars, SidecarInv, SidecarTypeOK, CountInv, MarkerInv,
                            superVars, boundVars
<1>3. CASE RestartSidecarRung
  BY <1>3, MissedTypes DEF RestartSidecarRung, probeVars, SidecarInv, SidecarTypeOK, CountInv,
                           MarkerInv, superVars, boundVars
<1>4. CASE RestartDaemonRung
  <2>1. due' = FALSE /\ fails' \in 0..(DaemonAt + 1) /\ due
    BY <1>4, MissedTypes DEF RestartDaemonRung, Missed
  <2>2. UNCHANGED <<superVars, boundVars, since, token, grace, state, mark>>
    BY <1>4 DEF RestartDaemonRung
  <2>3. mark >= Cooldown /\ mark \in 0..Cooldown /\ since \in 0..Cooldown /\ mark <= since
    BY <1>4 DEF RestartDaemonRung, SidecarInv, SidecarTypeOK, MarkerInv
  <2>4. mark = Cooldown /\ since = Cooldown /\ disk' = Cooldown /\ rung' = "recording"
    BY <1>4, <2>3 DEF RestartDaemonRung
  <2>5. MarkerInv'
    BY <2>1, <2>2, <2>4 DEF SidecarInv, MarkerInv, superVars
  <2>6. SidecarTypeOK'
    BY <2>1, <2>2, <2>4 DEF SidecarInv, SidecarTypeOK, superVars, boundVars
  <2> QED BY <2>2, <2>5, <2>6 DEF SidecarInv, CountInv, superVars
<1>5. CASE Stuck
  <2>1. due' = FALSE /\ fails' \in 0..(DaemonAt + 1)
    BY <1>5, MissedTypes DEF Stuck
  <2> QED BY <1>5, <2>1 DEF Stuck, probeVars, SidecarInv, SidecarTypeOK, CountInv, MarkerInv,
                            superVars, boundVars
<1>6. CASE Recorded
  BY <1>6 DEF Recorded, SidecarInv, SidecarTypeOK, CountInv, MarkerInv, superVars, boundVars
<1>7. CASE RecordFails \/ RestartFails
  BY <1>7 DEF RecordFails, RestartFails, SidecarInv, SidecarTypeOK, CountInv, MarkerInv, superVars
<1>8. CASE RestartDaemon
  <2>1. since' = 0 /\ disk' = 0 /\ mark' = 0
    BY <1>8 DEF RestartDaemon, SidecarInv, MarkerInv
  <2>2. {token', ready', fellBack', due', works'} \subseteq BOOLEAN
    BY <1>8 DEF RestartDaemon, Gone, SidecarInv, SidecarTypeOK, boundVars
  <2>3. {mark', disk', since'} \subseteq 0..Cooldown
    BY <2>1
  <2>4. SidecarTypeOK'
    BY <1>8, <2>2, <2>3 DEF RestartDaemon, Gone, SidecarInv, SidecarTypeOK
  <2> QED BY <1>8, <2>1, <2>4 DEF RestartDaemon, Gone, SidecarInv, CountInv, MarkerInv
<1> QED BY <1>1, <1>2, <1>3, <1>4, <1>5, <1>6, <1>7, <1>8 DEF Watch

\* The three ages, when time passes.
LEMMA PassesInv ==
  ASSUME SidecarInv, NEW ticks \in Nat, Passes(ticks), rung = "none", rung' = "none",
         due' => loop' # "off"
  PROVE  /\ mark' \in 0..Cooldown /\ disk' \in 0..Cooldown /\ since' \in 0..Cooldown
         /\ since <= since'
         /\ MarkerInv'
<1>1. /\ mark \in 0..Cooldown /\ disk \in 0..Cooldown /\ since \in 0..Cooldown
      /\ disk <= since /\ mark <= since
  BY DEF SidecarInv, SidecarTypeOK, MarkerInv
<1>2. mark' = Aged(mark, ticks) /\ disk' = Aged(disk, ticks) /\ since' = Aged(since, ticks)
  BY DEF Passes
<1>3. mark' \in 0..Cooldown /\ mark' <= since'
  BY <1>1, <1>2, AgedKeepsOrder
<1>4. disk' \in 0..Cooldown /\ disk' <= since'
  BY <1>1, <1>2, AgedKeepsOrder
<1>5. since' \in 0..Cooldown /\ since <= since'
  <2>1. since <= since
    BY <1>1
  <2> QED BY <1>1, <1>2, <2>1, AgedKeepsOrder
<1> QED BY <1>3, <1>4, <1>5 DEF MarkerInv

LEMMA TimeInv ==
  ASSUME SidecarInv, Tick \/ Sleep
  PROVE  SidecarInv' /\ since <= since'
<1> USE Sizes
<1>1. rung = "none" /\ rung' = "none"
  BY DEF Tick, Sleep, Settled
<1>2. CASE Tick
  <2>1. due' = (loop # "off") /\ loop' = loop /\ Passes(1)
    BY <1>2 DEF Tick
  <2>2. /\ mark' \in 0..Cooldown /\ disk' \in 0..Cooldown /\ since' \in 0..Cooldown
        /\ since <= since' /\ MarkerInv'
    BY <1>1, <2>1, PassesInv
  <2>3. grace' \in 0..Grace /\ waited' \in Nat
    BY <1>2 DEF Tick, LesserOf, SidecarInv, SidecarTypeOK
  <2> QED BY <1>2, <2>1, <2>2, <2>3 DEF Tick, SidecarInv, SidecarTypeOK, CountInv, boundVars
<1>3. CASE Sleep
  <2>1. PICK ticks \in 0..Cooldown : Passes(ticks)
    BY <1>3 DEF Sleep
  <2>2. due' = TRUE /\ loop' = loop /\ loop # "off"
    BY <1>3 DEF Sleep
  <2>3. /\ mark' \in 0..Cooldown /\ disk' \in 0..Cooldown /\ since' \in 0..Cooldown
        /\ since <= since' /\ MarkerInv'
    BY <1>1, <2>1, <2>2, PassesInv
  <2>4. grace' \in 0..Grace /\ waited' \in Nat /\ fails' \in 0..(DaemonAt + 1)
    BY <1>3 DEF Sleep, SidecarInv, SidecarTypeOK
  <2> QED BY <1>3, <2>2, <2>3, <2>4 DEF Sleep, SidecarInv, SidecarTypeOK, CountInv
<1> QED BY <1>2, <1>3

\* The daemon comes and goes; the machine and the sidecar do as they like.
LEMMA WorldInv ==
  ASSUME SidecarInv, DaemonStarts \/ DaemonDies \/ Turn \/ Loads \/ Wedges \/ Exits \/ Press
  PROVE  SidecarInv'
<1> USE Sizes
<1>1. CASE DaemonStarts
  BY <1>1 DEF DaemonStarts, Fresh, SidecarInv, SidecarTypeOK, CountInv, MarkerInv, boundVars
<1>2. CASE DaemonDies
  BY <1>2 DEF DaemonDies, Gone, SidecarInv, SidecarTypeOK, CountInv, MarkerInv
<1>3. CASE Turn
  BY <1>3 DEF Turn, SidecarInv, SidecarTypeOK, CountInv, MarkerInv, superVars, healthVars
<1>4. CASE Loads \/ Wedges \/ Exits
  BY <1>4 DEF Loads, Wedges, Exits, ChildTo, SidecarInv, SidecarTypeOK, CountInv, MarkerInv,
              healthVars, boundVars
<1>5. CASE Press
  BY <1>5 DEF Press, SidecarInv, SidecarTypeOK, CountInv, MarkerInv, superVars
<1> QED BY <1>1, <1>2, <1>3, <1>4, <1>5

\* The invariant is inductive.
LEMMA SidecarInvStep == SidecarInv /\ [Next]_vars => SidecarInv'
<1> SUFFICES ASSUME SidecarInv, [Next]_vars PROVE SidecarInv'
  OBVIOUS
<1>1. CASE UNCHANGED vars
  BY <1>1 DEF vars, superVars, healthVars, boundVars, SidecarInv, SidecarTypeOK, CountInv, MarkerInv
<1> QED BY <1>1, WorldInv, SuperviseInv, WatchInv, TimeInv DEF Next
-----------------------------------------------------------------------------
(* The theorems. *)

THEOREM SidecarInvariance == Spec => []SidecarInv
BY InitSidecarInv, SidecarInvStep, PTL DEF Spec

\* The types of the supervisor and of the ladder, and what Ready may be believed
\* (Supervisor.Ready, afterFailedStart).
THEOREM SidecarTypeCorrect == Spec => []SidecarTypeOK
<1>1. SidecarInv => SidecarTypeOK
  BY DEF SidecarInv
<1> QED BY <1>1, SidecarInvariance, PTL

\* Two restarts of the daemon by its health check are a cooldown apart
\* (restartDaemonRung, recordDaemonRestart), for any ladder, any number of deaths,
\* sleeps and failed writes.
THEOREM RestartedOncePerCooldown == Spec => OncePerCooldown
<1> DEFINE A == since' < since => since = Cooldown
<1>1. SidecarInv /\ [Next]_vars => [A]_vars
  <2> SUFFICES ASSUME SidecarInv, Next PROVE A
    OBVIOUS
  <2>1. since \in 0..Cooldown /\ Cooldown \in Nat
    BY Sizes DEF SidecarInv, SidecarTypeOK
  <2>2. CASE Tick \/ Sleep
    <3>1. since <= since' /\ since' \in 0..Cooldown
      BY <2>2, TimeInv DEF SidecarInv, SidecarTypeOK
    <3> QED BY <2>1, <3>1
  <2>3. CASE RestartDaemon
    BY <2>3 DEF RestartDaemon, SidecarInv, MarkerInv
  <2>4. CASE since' = since
    BY <2>1, <2>4
  <2>5. DaemonStarts \/ DaemonDies \/ Turn \/ Loads \/ Wedges \/ Exits \/ Press => since' = since
    BY DEF DaemonStarts, DaemonDies, Turn, Loads, Wedges, Exits, ChildTo, Press
  <2>6. Supervise => since' = since
    BY DEF Supervise, Spawn, SpawnFails, BecomesReady, TooSlow, ChildGone, Replace, BackoffOver, RestOver
  <2>7. Watch => since' = since \/ RestartDaemon
    BY DEF Watch, Answered, Excused, MissedFew, RestartSidecarRung, RestartDaemonRung, Stuck,
           Recorded, RecordFails, RestartFails, probeVars
  <2> QED BY <2>2, <2>3, <2>4, <2>5, <2>6, <2>7 DEF Next
<1> QED BY <1>1, SidecarInvariance, PTL DEF Spec, OncePerCooldown
-----------------------------------------------------------------------------
(* ProjectList, for all lists, hooks and bounds: its types, and with them that  *)
(* an empty list never gets past the gate.  That nothing has been posted while  *)
(* no list is declared needs that a goroutine within the gate has declared one. *)

WithinGate == {"compare", "post", "set"}
GateDeclared == \A p \in Posters : at[p] \in WithinGate => declared # Empty

ProjectInv == ProjectTypeOK /\ GateDeclared

Steps == {"idle", "read", "forget", "observe", "compare", "post", "set"}
Carrying == {"forget", "observe", "compare", "post", "set"}

LEMMA InitProjectInv == ListInit => ProjectInv
<1> SUFFICES ASSUME ListInit PROVE ProjectInv
  OBVIOUS
<1>1. /\ at \in [Posters -> Steps] /\ list \in [Posters -> Lists \cup {Empty}]
      /\ \A p \in Posters : at[p] \in {"idle", "observe"} /\ (at[p] = "observe" => list[p] # Empty)
  BY DEF ListInit, Steps, Posters
<1> QED BY <1>1 DEF ListInit, ProjectInv, ProjectTypeOK, GateDeclared, WithinGate, Steps

\* One goroutine goes on while the lists stay as they are.
LEMMA GoesOn ==
  ASSUME ProjectInv, NEW p \in Posters, NEW step \in Steps, Goes(p, step),
         step \in WithinGate => at[p] \in WithinGate,
         step \in Carrying => list[p] # Empty,
         UNCHANGED <<org, stateVars, list>>, told' \in {told, Empty} \cup {list[p]},
         told' # told => told' = Empty \/ (at[p] \in WithinGate /\ alive'), alive' \in BOOLEAN,
         ~alive' => told' = Empty
  PROVE  ProjectInv'
<1>1. at' \in [Posters -> Steps] /\ \A q \in Posters : at'[q] = IF q = p THEN step ELSE at[q]
  BY DEF Goes, ProjectInv, ProjectTypeOK, Steps
<1>2. GateDeclared'
  BY <1>1 DEF ProjectInv, GateDeclared, stateVars
<1>3. declared = Empty => told' = Empty
  BY DEF ProjectInv, ProjectTypeOK, GateDeclared
<1>4. told' \in Lists \cup {Empty}
  BY DEF ProjectInv, ProjectTypeOK
<1> QED BY <1>1, <1>2, <1>3, <1>4 DEF ProjectInv, ProjectTypeOK, stateVars, Steps, Carrying

LEMMA GateInv ==
  ASSUME ProjectInv, NEW p \in Posters, Gate(p)
  PROVE  ProjectInv'
<1>1. CASE Observe(p)
  <2>1. list[p] \in Lists /\ list' = list /\ declared' = list[p] /\ list[p] # Empty
    BY <1>1 DEF Observe, ProjectInv, ProjectTypeOK
  <2>2. at' \in [Posters -> Steps] /\ \A q \in Posters : at'[q] = IF q = p THEN "compare" ELSE at[q]
    BY <1>1 DEF Observe, Goes, ProjectInv, ProjectTypeOK, Steps
  <2>3. UNCHANGED <<org, value, told, alive>>
    BY <1>1 DEF Observe
  <2> QED BY <2>1, <2>2, <2>3 DEF ProjectInv, ProjectTypeOK, GateDeclared, Steps
<1>2. CASE Compare(p)
  <2>1. at[p] = "compare" /\ list[p] # Empty
    BY <1>2 DEF Compare, ProjectInv, ProjectTypeOK
  <2>2. /\ Goes(p, IF value = list[p] THEN "idle" ELSE "post")
        /\ UNCHANGED <<org, stateVars, list, told, alive>>
    BY <1>2 DEF Compare
  <2> QED BY <2>1, <2>2, GoesOn DEF ProjectInv, ProjectTypeOK, WithinGate, Steps
<1>3. CASE Lands(p)
  <2>1. at[p] = "post" /\ list[p] # Empty /\ alive
    BY <1>3 DEF Lands, ProjectInv, ProjectTypeOK
  <2>2. Goes(p, "set") /\ told' = list[p] /\ UNCHANGED <<org, stateVars, list, alive>>
    BY <1>3 DEF Lands
  <2> QED BY <2>1, <2>2, GoesOn DEF WithinGate, Steps
<1>4. CASE PostFails(p)
  <2>1. at[p] = "post"
    BY <1>4 DEF PostFails
  <2>2. /\ Goes(p, "idle") /\ told' \in {told, list[p]} /\ UNCHANGED <<org, stateVars, list, alive>>
        /\ told' # told => alive
    BY <1>4 DEF PostFails
  <2> QED BY <2>1, <2>2, GoesOn DEF ProjectInv, ProjectTypeOK, WithinGate, Steps, Carrying
<1>5. CASE Set(p)
  <2>1. list[p] \in Lists /\ value' = list[p] /\ declared # Empty
    BY <1>5 DEF Set, ProjectInv, ProjectTypeOK, GateDeclared, WithinGate
  <2>2. at' \in [Posters -> Steps] /\ \A q \in Posters : at'[q] = IF q = p THEN "idle" ELSE at[q]
    BY <1>5 DEF Set, Goes, ProjectInv, ProjectTypeOK, Steps
  <2>3. UNCHANGED <<org, declared, told, alive, list>>
    BY <1>5 DEF Set
  <2> QED BY <2>1, <2>2, <2>3 DEF ProjectInv, ProjectTypeOK, GateDeclared, WithinGate, Steps
<1> QED BY <1>1, <1>2, <1>3, <1>4, <1>5 DEF Gate

LEMMA RepostInv ==
  ASSUME ProjectInv, NEW p \in Posters, Repost(p)
  PROVE  ProjectInv'
<1>1. CASE Read(p) /\ declared # Empty
  <2>1. /\ list' \in [Posters -> Lists \cup {Empty}]
        /\ \A q \in Posters : list'[q] = IF q = p THEN declared ELSE list[q]
    BY <1>1 DEF Read, ProjectInv, ProjectTypeOK
  <2>2. at' \in [Posters -> Steps] /\ \A q \in Posters : at'[q] = IF q = p THEN "forget" ELSE at[q]
    BY <1>1 DEF Read, Goes, ProjectInv, ProjectTypeOK, Steps
  <2>3. UNCHANGED <<org, stateVars, told, alive>>
    BY <1>1 DEF Read
  <2> QED BY <1>1, <2>1, <2>2, <2>3
          DEF ProjectInv, ProjectTypeOK, GateDeclared, WithinGate, Steps, stateVars
<1>2. CASE Read(p) /\ declared = Empty
  BY <1>2, GoesOn DEF Read, ProjectInv, ProjectTypeOK, WithinGate, Steps, Carrying
<1>3. CASE Forget(p)
  <2>1. at[p] = "forget"
    BY <1>3 DEF Forget
  <2>2. at' \in [Posters -> Steps] /\ \A q \in Posters : at'[q] = IF q = p THEN "observe" ELSE at[q]
    BY <1>3 DEF Forget, Goes, ProjectInv, ProjectTypeOK, Steps
  <2>3. value' = Empty /\ UNCHANGED <<org, declared, told, alive, list>>
    BY <1>3 DEF Forget
  <2> QED BY <2>1, <2>2, <2>3 DEF ProjectInv, ProjectTypeOK, GateDeclared, WithinGate, Steps
<1> QED BY <1>1, <1>2, <1>3 DEF Repost

LEMMA ProjectInvStep == ProjectInv /\ [ListNext]_listVars => ProjectInv'
<1> SUFFICES ASSUME ProjectInv, [ListNext]_listVars PROVE ProjectInv'
  OBVIOUS
<1>1. ASSUME NEW l \in Lists \cup {Empty}, Change(l) PROVE ProjectInv'
  BY <1>1 DEF Change, stateVars, ProjectInv, ProjectTypeOK, GateDeclared
<1>2. CASE Crash
  BY <1>2 DEF Crash, stateVars, ProjectInv, ProjectTypeOK, GateDeclared
<1>3. ASSUME NEW h \in Hooks, Respawn(h) PROVE ProjectInv'
  <2>1. UNCHANGED <<org, value, declared, told, list>> /\ alive' = TRUE
    BY <1>3 DEF Respawn, stateVars
  <2>2. h \in Posters
    BY DEF Posters, Reposters
  <2>3. /\ at' \in [Posters -> Steps]
        /\ \A q \in Posters : at'[q] = at[q] \/ at'[q] = "read"
    BY <1>3, <2>2 DEF Respawn, Goes, ProjectInv, ProjectTypeOK, Steps
  <2> QED BY <2>1, <2>3 DEF ProjectInv, ProjectTypeOK, GateDeclared, WithinGate, Steps
<1>4. CASE Poll
  <2>1. UNCHANGED <<org, value, declared, told, alive>> /\ org \in Lists /\ "poll" \in Posters
    BY <1>4 DEF Poll, stateVars, Posters, ProjectInv, ProjectTypeOK
  <2>2. /\ list' \in [Posters -> Lists \cup {Empty}]
        /\ \A q \in Posters : list'[q] = IF q = "poll" THEN org ELSE list[q]
    BY <1>4, <2>1 DEF Poll, ProjectInv, ProjectTypeOK
  <2>3. /\ at' \in [Posters -> Steps]
        /\ \A q \in Posters : at'[q] = IF q = "poll" THEN "observe" ELSE at[q]
    BY <1>4, <2>1 DEF Poll, Goes, ProjectInv, ProjectTypeOK, Steps
  <2>4. org # Empty
    BY <1>4 DEF Poll
  <2> QED BY <2>1, <2>2, <2>3, <2>4 DEF ProjectInv, ProjectTypeOK, GateDeclared, WithinGate, Steps
<1>5. CASE FindsNone
  <2>1. "sweep" \in Posters
    BY DEF Posters, Reposters
  <2> QED BY <1>5, <2>1, GoesOn
          DEF FindsNone, ProjectInv, ProjectTypeOK, WithinGate, Steps, Carrying
<1>6. ASSUME NEW p \in Posters, Gate(p) PROVE ProjectInv'
  BY <1>6, GateInv
<1>7. ASSUME NEW p \in Reposters, Repost(p) PROVE ProjectInv'
  BY <1>7, RepostInv DEF Posters
<1>8. CASE UNCHANGED listVars
  BY <1>8 DEF listVars, stateVars, ProjectInv, ProjectTypeOK, GateDeclared
<1> QED BY <1>1, <1>2, <1>3, <1>4, <1>5, <1>6, <1>7, <1>8 DEF ListNext
-----------------------------------------------------------------------------
\* The types; above all, the gate posts no empty list, and the sidecar is told
\* nothing while no list is declared.
THEOREM ProjectTypeCorrect == ListSpec => []ProjectTypeOK
<1>1. ListInit => ProjectInv
  BY InitProjectInv
<1>2. ProjectInv /\ [ListNext]_listVars => ProjectInv'
  BY ProjectInvStep
<1>3. ProjectInv => ProjectTypeOK
  BY DEF ProjectInv
<1> QED BY <1>1, <1>2, <1>3, PTL DEF ListSpec
=============================================================================
