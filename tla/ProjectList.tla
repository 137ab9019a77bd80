---------------------------- MODULE ProjectList ----------------------------
(***************************************************************************)
(* How the sidecar is told the list of projects (daemon/projects.go,       *)
(* wired in Run).  The list lives in the memory of the sidecar process.    *)
(* Four kinds of goroutine post it through one gate, which posts only what *)
(* differs from the list it remembers having posted: the start of the      *)
(* daemon, the settings poll, the supervisor's callback when a new sidecar *)
(* answers, and the attributor when the sidecar says that it has no list.  *)
(* Each lock of projectsState is a step; a post is one step where it lands *)
(* and another where its answer is acted on.                               *)
(***************************************************************************)
EXTENDS Naturals

CONSTANTS
  Lists, Empty,                       \* non-empty lists; no list
  Hooks,                              \* the callback's goroutines, one per respawn
  MaxChanges, MaxCrashes, MaxLost     \* bounds; lost: a post, on a live sidecar

ASSUME ProjectAssumption ==
  Empty \notin Lists /\ {MaxChanges, MaxCrashes, MaxLost} \subseteq Nat

Reposters == Hooks \cup {"sweep"}
Posters == Reposters \cup {"startup", "poll"}

VARIABLES
  org,              \* what resolveProjects answers: the file's list, or Atlas's
  value, declared,  \* projectsState
  told, alive,      \* the list in the sidecar; does it answer?
  at, list,         \* per poster: its next step, its argument
  changes, crashes, lost,
  crossed           \* history: the list remembered as posted is not the one that landed last

stateVars == <<value, declared>>
listBounds == <<changes, crashes, lost>>
listVars == <<org, stateVars, told, alive, at, list, listBounds, crossed>>

Goes(p, step) == at' = [at EXCEPT ![p] = step]
-----------------------------------------------------------------------------
\* Run: the start's resolution is observed before anything is posted; the sidecar
\* may still be loading.
ListInit ==
  /\ org \in Lists \cup {Empty}
  /\ value = Empty /\ declared = org /\ told = Empty /\ alive \in BOOLEAN
  /\ at = [p \in Posters |-> IF p = "startup" /\ org # Empty THEN "observe" ELSE "idle"]
  /\ list = [p \in Posters |-> IF p = "startup" THEN org ELSE Empty]
  /\ changes = 0 /\ crashes = 0 /\ lost = 0 /\ crossed = FALSE

Change(l) ==
  /\ changes < MaxChanges /\ l # org
  /\ changes' = changes + 1 /\ org' = l
  /\ UNCHANGED <<stateVars, told, alive, at, list, crashes, lost, crossed>>

\* The process is lost, and its list with it.
Crash ==
  /\ alive /\ crashes < MaxCrashes
  /\ crashes' = crashes + 1
  /\ alive' = FALSE /\ told' = Empty
  /\ UNCHANGED <<org, stateVars, at, list, changes, lost, crossed>>

\* A new one answers; the supervisor calls back, unless it was its very first start.
Respawn(h) ==
  /\ ~alive
  /\ alive' = TRUE
  /\ \/ crashes = 0 /\ UNCHANGED at
     \/ at[h] = "idle" /\ Goes(h, "read")
  /\ UNCHANGED <<org, stateVars, told, list, listBounds, crossed>>
-----------------------------------------------------------------------------
\* The poll resolves; an empty answer and an unreadable file go no further.
Poll ==
  /\ at["poll"] = "idle" /\ org # Empty
  /\ list' = [list EXCEPT !["poll"] = org] /\ Goes("poll", "observe")
  /\ UNCHANGED <<org, stateVars, told, alive, listBounds, crossed>>

\* drainJob, once a sweep: no list there, though the daemon knows one.
FindsNone ==
  /\ at["sweep"] = "idle" /\ alive /\ told = Empty /\ declared # Empty
  /\ Goes("sweep", "read")
  /\ UNCHANGED <<org, stateVars, told, alive, list, listBounds, crossed>>

(* repostProjectsAfterRespawn: declaredList, forget, and then the gate. *)

\* Faulty variants ("mutants" of PROJECT.json), used by no specification.
ReadAnyway(p) ==
  /\ at[p] = "read"
  /\ Goes(p, "forget") /\ list' = [list EXCEPT ![p] = declared]
  /\ UNCHANGED <<org, stateVars, told, alive, listBounds, crossed>>

Read(p) ==
  /\ at[p] = "read"
  /\ IF declared = Empty THEN Goes(p, "idle") /\ UNCHANGED list
     ELSE Goes(p, "forget") /\ list' = [list EXCEPT ![p] = declared]
  /\ UNCHANGED <<org, stateVars, told, alive, listBounds, crossed>>

ForgetNothing(p) ==
  /\ at[p] = "forget"
  /\ Goes(p, "observe")
  /\ UNCHANGED <<org, stateVars, told, alive, list, listBounds, crossed>>

Forget(p) ==
  /\ at[p] = "forget"
  /\ value' = Empty /\ Goes(p, "observe")
  /\ UNCHANGED <<org, declared, told, alive, list, listBounds, crossed>>

(* postProjectsIfKnownNonEmpty, for a list that is known and not empty. *)

Observe(p) ==
  /\ at[p] = "observe"
  /\ declared' = list[p] /\ Goes(p, "compare")
  /\ UNCHANGED <<org, value, told, alive, list, listBounds, crossed>>

Compare(p) ==
  /\ at[p] = "compare"
  /\ Goes(p, IF value = list[p] THEN "idle" ELSE "post")
  /\ UNCHANGED <<org, stateVars, told, alive, list, listBounds, crossed>>

\* The client tries again until the sidecar answers or its time is up.
Lands(p) ==
  /\ at[p] = "post" /\ alive
  /\ told' = list[p] /\ Goes(p, "set")
  /\ UNCHANGED <<org, stateVars, alive, list, listBounds, crossed>>

\* Nobody answers in time; or an answer, or what it answers to, is lost.
PostFails(p) ==
  /\ at[p] = "post"
  /\ \/ ~alive /\ UNCHANGED <<told, lost>>
     \/ /\ alive /\ lost < MaxLost
        /\ lost' = lost + 1 /\ told' \in {told, list[p]}
  /\ Goes(p, "idle")
  /\ crossed' = (crossed \/ (told' # told /\ value \notin {Empty, told'}))
  /\ UNCHANGED <<org, stateVars, alive, list, changes, crashes>>

Set(p) ==
  /\ at[p] = "set"
  /\ value' = list[p] /\ Goes(p, "idle")
  /\ crossed' = (crossed \/ told # list[p])
  /\ UNCHANGED <<org, declared, told, alive, list, listBounds>>
-----------------------------------------------------------------------------
Gate(p) == Observe(p) \/ Compare(p) \/ Lands(p) \/ PostFails(p) \/ Set(p)
Repost(p) == Read(p) \/ Forget(p)
Works(p) == Gate(p) \/ (p \in Reposters /\ Repost(p))

ListNext ==
  \/ \E l \in Lists \cup {Empty} : Change(l)
  \/ Crash \/ (\E h \in Hooks : Respawn(h))
  \/ Poll \/ FindsNone
  \/ \E p \in Posters : Gate(p)
  \/ \E p \in Reposters : Repost(p)

ListSpec == ListInit /\ [][ListNext]_listVars

\* The poll comes round; the supervisor brings the sidecar back; there is a block
\* to attribute; every goroutine runs, and its post ends.
FairListSpec ==
  /\ ListSpec
  /\ WF_listVars(Poll) /\ WF_listVars(FindsNone) /\ WF_listVars(\E h \in Hooks : Respawn(h))
  /\ \A p \in Posters : WF_listVars(Works(p))
-----------------------------------------------------------------------------
\* Types; who knows no list has posted none.
ProjectTypeOK ==
  /\ {org, value, declared, told} \subseteq Lists \cup {Empty} /\ alive \in BOOLEAN
  /\ at \in [Posters -> {"idle", "read", "forget", "observe", "compare", "post", "set"}]
  /\ list \in [Posters -> Lists \cup {Empty}]
  /\ declared = Empty => told = Empty /\ value = Empty
  /\ ~alive => told = Empty
  /\ \A p \in Posters : at[p] \in {"forget", "observe", "compare", "post", "set"} => list[p] # Empty

\* The list in force reaches the sidecar and stays, over lost posts, crashes and
\* posts of older lists, unless two posts crossed: one was remembered after another
\* had landed.  Then the gate takes the newest list for posted, and an older one may
\* stay - but never none.
ListArrives ==
  <>[](org = Empty \/ told = org \/ (crossed /\ told # Empty /\ value = org))
=============================================================================
