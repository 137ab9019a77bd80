---------------------------- MODULE BlockEmitter ----------------------------
(***************************************************************************)
(* The v2 block path (internal/agent/blocks/emitter.go over state.go):     *)
(* transcripts that advanced are active; a sweep asks the analysis sidecar *)
(* for the closed blocks after each active transcript's cursor, publishes  *)
(* them in chunks, moves the cursor behind what was confirmed, and retires *)
(* what has settled.  Cursors are on disk, the active set is not.          *)
(*                                                                         *)
(* A transcript's blocks are numbered in order; a cursor is the number of  *)
(* the last block emitted.  The watcher's signal (Advance) runs beside two *)
(* sweepers: the timer's Sweep, and the developer page's SweepPath.        *)
(* Time is the age class of an entry's Seen: fresh, settled, a month old;  *)
(* a sweep reads the clock once, so nothing ages during one.               *)
(***************************************************************************)
EXTENDS Integers, FiniteSets, FiniteSetsExt

CONSTANTS
  Transcripts,
  MaxBlocks,     \* bound: blocks of one transcript
  MaxPerSweep,   \* maxPerSweep
  BatchSize,     \* batchSize
  Refusable,     \* numbers of blocks cut for a reason that only a newer binary knows
  None,          \* no transcript
  MaxFaults,     \* bound: failed asks, posts and writes
  MaxRestarts,   \* bound: restarts of the daemon
  MaxPresses     \* bound: presses of the developer page's button

ASSUME EmitterAssumption ==
  /\ IsFiniteSet(Transcripts) /\ None \notin Transcripts
  /\ MaxBlocks \in Nat \ {0} /\ MaxPerSweep \in Nat \ {0} /\ BatchSize \in Nat \ {0}
  /\ Refusable \subseteq Nat /\ IsFiniteSet(Refusable) /\ Cardinality(Refusable) < MaxPerSweep
  /\ MaxFaults \in Nat /\ MaxRestarts \in Nat /\ MaxPresses \in Nat

Sweepers == {"timer", "button"}
Fresh == 0
Settled == 1   \* idle for idleSeconds + settleGrace
Retained == 2  \* idle for cursorRetain
Unseeded == -1 \* a nil cursor

VARIABLES
  begun, closed, \* per transcript: blocks it has, blocks the sidecar has closed
  refused,       \* blocks this binary throws away: none, or with version skew some
  atlas,         \* blocks that reached Atlas
  signal,        \* transcripts that grew since the watcher last looked
  noting,        \* transcripts the signal has noted, not yet activated
  active,        \* Emitter.active
  known,         \* state.entries: the paths that have one
  cursor, seen,  \* their Cursor, and the age of their Seen
  dirty,         \* state.dirty
  disk,          \* the state file
  backfill,      \* KELD_BLOCKS_BACKFILL, read when the process starts
  sweep,         \* per sweeper: its next step and its locals
  keep,          \* the active set as the prune sees it
  faults, restarts, presses,
  skipped,       \* history: up to where a forward-only first sight skipped
  lost           \* history: transcripts a restart or a late retire made inactive

worldVars == <<begun, closed, signal, refused>>
entryVars == <<known, cursor, seen, dirty>>
histVars == <<backfill, restarts, presses, skipped, lost>>
vars == <<worldVars, atlas, noting, active, entryVars, disk, sweep, keep, faults, histVars>>

\* The state file.  The Seen it holds is as old as the last save that a cursor
\* caused, so a load may find any age that is not below memory's.
Empty == [known |-> {}, cursor |-> [t \in Transcripts |-> Unseeded]]
Memory == [known |-> known, cursor |-> cursor]

\* A sweeper: its targets still to sweep (with the cursors they were taken
\* with), the one it is at, the answer's blocks still to publish, the bytes to
\* write.
Sweeper(step, todo, at, page) ==
  [step |-> step, todo |-> todo, at |-> at, page |-> page, image |-> Empty]
Writing(image) == [step |-> "write", todo |-> {}, at |-> None, page |-> {}, image |-> image]
Idle == Sweeper("idle", {}, None, {})

\* The first n blocks of an answer.
First(n, S) == {b \in S : Cardinality({c \in S : c < b}) < n}
\* What Atlas is still missing of t.
Unsent(t) == 1 .. begun[t] \ (atlas[t] \cup 1 .. skipped[t] \cup refused)

Fault == faults < MaxFaults /\ faults' = faults + 1
-----------------------------------------------------------------------------
Init ==
  /\ begun = [t \in Transcripts |-> 0] /\ closed = begun /\ signal = {}
  /\ refused \in {{}, Refusable}
  /\ atlas = [t \in Transcripts |-> {}]
  /\ noting = {} /\ active = {}
  /\ known = {} /\ cursor = Empty.cursor /\ seen = [t \in Transcripts |-> Fresh] /\ dirty = FALSE
  /\ disk = Empty
  /\ backfill \in BOOLEAN
  /\ sweep = [s \in Sweepers |-> Idle] /\ keep = {}
  /\ faults = 0 /\ restarts = 0 /\ presses = 0
  /\ skipped = [t \in Transcripts |-> 0] /\ lost = {}
-----------------------------------------------------------------------------
(* The world: a session writes, time passes. *)

\* A turn is appended: to the open block, or as the first of a new one, which
\* closes those before it.
Write(t) ==
  /\ begun' \in {[begun EXCEPT ![t] = n] : n \in {begun[t], begun[t] + 1} \cap 1 .. MaxBlocks}
  /\ begun[t] = closed[t] => begun'[t] > begun[t]
  /\ closed' = [closed EXCEPT ![t] = begun'[t] - 1]
  /\ signal' = signal \cup {t}
  /\ UNCHANGED <<refused, atlas, noting, active, entryVars, disk, sweep, keep, faults, histVars>>

\* The sidecar settles the last block of a quiet transcript.
Close(t) ==
  /\ closed[t] < begun[t]
  /\ closed' = [closed EXCEPT ![t] = begun[t]]
  /\ UNCHANGED <<begun, signal, refused, atlas, noting, active, entryVars, disk, sweep, keep, faults, histVars>>

\* A transcript stays quiet.  Its last block closes before its entry counts as
\* settled, which is what settleGrace is for, and the watcher, which looks every
\* few seconds, has noted the last turn by then.
Age(t) ==
  /\ t \in known \ (signal \cup noting)
  /\ closed[t] = begun[t]
  /\ \A s \in Sweepers : sweep[s] = Idle
  /\ seen[t] < Retained
  /\ seen' = [seen EXCEPT ![t] = @ + 1]
  /\ UNCHANGED <<worldVars, atlas, noting, active, known, cursor, dirty, disk, sweep, keep, faults,
                 histVars>>
-----------------------------------------------------------------------------
(* The signal: Advance, called from the watcher's poll. *)

\* state.note, under its own lock.  Seen alone does not make the state dirty.
Note(t) ==
  /\ t \in signal \ noting
  /\ signal' = signal \ {t}
  /\ noting' = noting \cup {t}
  /\ known' = known \cup {t}
  /\ dirty' = (dirty \/ t \notin known)
  /\ seen' = [seen EXCEPT ![t] = Fresh]
  /\ UNCHANGED <<begun, closed, refused, atlas, active, cursor, disk, sweep, keep, faults, histVars>>

\* Then the active set, under the emitter's.
Activate(t) ==
  /\ t \in noting
  /\ noting' = noting \ {t}
  /\ active' = active \cup {t}
  /\ lost' = lost \ {t}
  /\ UNCHANGED <<worldVars, atlas, entryVars, disk, sweep, keep, faults, backfill, restarts, presses,
                 skipped>>
-----------------------------------------------------------------------------
(* A sweep. *)

Goto(s, step) == sweep' = [sweep EXCEPT ![s].step = step]
\* The sweep is done with the transcript it is at.
Done(s) == sweep' = [sweep EXCEPT ![s] = Sweeper("next", @.todo, None, {})]

Targets(paths) == {[path |-> t, cursor |-> cursor[t]] : t \in paths \cap known}

\* Sweep takes the active set and its cursors as they are now.
Sweep ==
  /\ sweep["timer"] = Idle
  /\ sweep' = [sweep EXCEPT !["timer"] = Sweeper("next", Targets(active), None, {})]
  /\ UNCHANGED <<worldVars, atlas, noting, active, entryVars, disk, keep, faults, histVars>>

\* SweepPath takes the transcript it is given.
SweepPath(t) ==
  /\ presses < MaxPresses
  /\ presses' = presses + 1
  /\ t \in known /\ sweep["button"] = Idle
  /\ sweep' = [sweep EXCEPT !["button"] = Sweeper("next", Targets({t}), None, {})]
  /\ UNCHANGED <<worldVars, atlas, noting, active, entryVars, disk, keep, faults, backfill, restarts,
                 skipped, lost>>

\* Taking the next target.
Take(s, tgt) == sweep[s].step = "next" /\ tgt \in sweep[s].todo
Drop(s, tgt) == sweep' = [sweep EXCEPT ![s].todo = @ \ {tgt}]

\* Faulty variants ("mutants" of PROJECT.json), used by no specification.
AskFailsRetiring(s, tgt) ==
  /\ Take(s, tgt)
  /\ Fault
  /\ Drop(s, tgt)
  /\ active' = active \ {tgt.path}
  /\ UNCHANGED <<worldVars, atlas, noting, entryVars, disk, keep, histVars>>

\* The sidecar does not answer: nothing moves, the transcript stays active.
AskFails(s, tgt) ==
  /\ Take(s, tgt)
  /\ Fault
  /\ Drop(s, tgt)
  /\ UNCHANGED <<worldVars, atlas, noting, active, entryVars, disk, keep, histVars>>

\* state.advance: a lower cursor, or one for a path without an entry, is ignored.
Raise(t, n) ==
  IF t \in known /\ n > cursor[t]
  THEN cursor' = [cursor EXCEPT ![t] = n] /\ dirty' = TRUE
  ELSE UNCHANGED <<cursor, dirty>>

FirstSight(tgt) == tgt.cursor = Unseeded /\ ~backfill

\* A first sight without backfill asks for no blocks and seeds the cursor at
\* the watermark; the block that is open there will never be emitted.
Seed(s, tgt) ==
  /\ Take(s, tgt) /\ FirstSight(tgt)
  /\ Drop(s, tgt)
  /\ Raise(tgt.path, begun[tgt.path])
  /\ skipped' = IF cursor' # cursor THEN [skipped EXCEPT ![tgt.path] = begun[tgt.path]] ELSE skipped
  /\ UNCHANGED <<worldVars, atlas, noting, active, known, seen, disk, keep, faults, backfill, restarts,
                 presses, lost>>

AnswerPastNext(tgt) == First(MaxPerSweep, {b \in 1 .. closed[tgt.path] : b > tgt.cursor + 1}) \ refused
AnswerFromZero(tgt) == First(MaxPerSweep, {b \in 0 .. closed[tgt.path] : b > tgt.cursor}) \ refused

\* The sidecar's answer: closed blocks after the cursor, oldest first, at most a
\* page of them; what the client cannot read is then dropped from the page.
Answer(tgt) == First(MaxPerSweep, {b \in 1 .. closed[tgt.path] : b > tgt.cursor}) \ refused

\* An answer with no blocks, for a transcript that is not idle long enough.
AskNothing(s, tgt) ==
  /\ Take(s, tgt) /\ ~FirstSight(tgt)
  /\ Answer(tgt) = {} /\ seen[tgt.path] < Settled
  /\ Drop(s, tgt)
  /\ UNCHANGED <<worldVars, atlas, noting, active, entryVars, disk, keep, faults, histVars>>

\* An answer with blocks to publish, or none for a transcript that has settled.
Ask(s, tgt) ==
  /\ Take(s, tgt) /\ ~FirstSight(tgt)
  /\ Answer(tgt) # {} \/ seen[tgt.path] >= Settled
  /\ sweep' = [sweep EXCEPT ![s] = Sweeper(IF Answer(tgt) = {} THEN "retire" ELSE "publish",
                                            @.todo \ {tgt}, tgt.path, Answer(tgt))]
  /\ UNCHANGED <<worldVars, atlas, noting, active, entryVars, disk, keep, faults, histVars>>

\* retire: idleness was read under the other lock.
Retire(s) ==
  /\ sweep[s].step = "retire"
  /\ active' = active \ {sweep[s].at}
  /\ lost' = IF seen[sweep[s].at] = Fresh THEN lost \cup {sweep[s].at} ELSE lost
  /\ Done(s)
  /\ UNCHANGED <<worldVars, atlas, noting, entryVars, disk, keep, faults, backfill, restarts, presses,
                 skipped>>

chunk(s) == First(BatchSize, sweep[s].page)
Arrive(s) == atlas' = [atlas EXCEPT ![sweep[s].at] = @ \cup chunk(s)]
\* On to the next chunk of the page.
NextChunk(s) ==
  IF sweep[s].page = chunk(s)
  THEN Done(s)
  ELSE sweep' = [sweep EXCEPT ![s] = Sweeper("publish", @.todo, @.at, @.page \ chunk(s))]

SendFailsSkipping(s) ==
  /\ sweep[s].step = "publish"
  /\ Fault
  /\ NextChunk(s)
  /\ UNCHANGED <<worldVars, atlas, noting, active, entryVars, disk, keep, histVars>>

\* SendBlocks fails, whether or not the rows arrived: the cursor stays.
SendFails(s) ==
  /\ sweep[s].step = "publish"
  /\ Fault
  /\ Arrive(s) \/ UNCHANGED atlas
  /\ Done(s)
  /\ UNCHANGED <<worldVars, noting, active, entryVars, disk, keep, histVars>>

Send(s) ==
  /\ sweep[s].step = "publish"
  /\ Arrive(s)
  /\ Goto(s, "advance")
  /\ UNCHANGED <<worldVars, noting, active, entryVars, disk, keep, faults, histVars>>

\* Only now the cursor, to the last block of the chunk.
Advance(s) ==
  /\ sweep[s].step = "advance"
  /\ Raise(sweep[s].at, Max(chunk(s)))
  /\ NextChunk(s)
  /\ UNCHANGED <<worldVars, atlas, noting, active, known, seen, disk, keep, faults, histVars>>

\* The timer's sweep looks at the active set once more, for the prune.
Look ==
  /\ sweep["timer"].step = "next" /\ sweep["timer"].todo = {}
  /\ Goto("timer", "prune")
  /\ keep' = active
  /\ UNCHANGED <<worldVars, atlas, noting, active, entryVars, disk, faults, histVars>>

KeptIgnoringActive == {t \in known : seen[t] < Retained}
Kept == {t \in known : t \in keep \/ seen[t] < Retained}

Prune ==
  /\ sweep["timer"].step = "prune"
  /\ known' = Kept
  /\ cursor' = [t \in Transcripts |-> IF t \in Kept THEN cursor[t] ELSE Unseeded]
  /\ seen' = [t \in Transcripts |-> IF t \in Kept THEN seen[t] ELSE Fresh]
  /\ dirty' = (dirty \/ Kept # known)
  /\ keep' = {}
  /\ Goto("timer", "save")
  /\ UNCHANGED <<worldVars, atlas, noting, active, disk, faults, histVars>>

\* save: the state is clean from the moment it is marshalled.
Marshal(s) ==
  /\ \/ sweep[s].step = "save"
     \/ s = "button" /\ sweep[s].step = "next" /\ sweep[s].todo = {}
  /\ sweep' = [sweep EXCEPT ![s] = IF dirty THEN Writing(Memory) ELSE Idle]
  /\ dirty' = FALSE
  /\ UNCHANGED <<worldVars, atlas, noting, active, known, cursor, seen, disk, keep, faults, histVars>>

\* Then it is written.  Two sweepers writing at once share one temporary file
\* and may leave it unreadable.
WriteFile(s) ==
  /\ sweep[s].step = "write"
  /\ \/ disk' = sweep[s].image
     \/ disk' = Empty /\ \E o \in Sweepers \ {s} : sweep[o].step = "write"
  /\ sweep' = [sweep EXCEPT ![s] = Idle]
  /\ UNCHANGED <<worldVars, atlas, noting, active, entryVars, keep, faults, histVars>>

\* Or not: nothing marks the state dirty again.
WriteFails(s) ==
  /\ sweep[s].step = "write"
  /\ Fault
  /\ sweep' = [sweep EXCEPT ![s] = Idle]
  /\ UNCHANGED <<worldVars, atlas, noting, active, entryVars, disk, keep, histVars>>

\* The daemon dies and starts again: newState reads the cursors back, the
\* active set waits for signals.  Bytes not yet signalled will be.
Restart ==
  /\ restarts < MaxRestarts
  /\ restarts' = restarts + 1
  /\ backfill' \in BOOLEAN
  /\ noting' = {} /\ active' = {}
  /\ lost' = lost \cup active \cup noting
  /\ known' = disk.known /\ cursor' = disk.cursor /\ dirty' = FALSE
  /\ seen' \in {age \in [Transcripts -> Fresh .. Retained] :
                 \A t \in Transcripts : IF t \in known' THEN age[t] >= seen[t] ELSE age[t] = Fresh}
  /\ sweep' = [s \in Sweepers |-> Idle] /\ keep' = {}
  /\ UNCHANGED <<worldVars, atlas, disk, faults, presses, skipped>>
-----------------------------------------------------------------------------
Sweeping(s) ==
  \/ \E tgt \in sweep[s].todo : AskFails(s, tgt) \/ Seed(s, tgt) \/ AskNothing(s, tgt) \/ Ask(s, tgt)
  \/ Retire(s) \/ SendFails(s) \/ Send(s) \/ Advance(s)
  \/ Marshal(s) \/ WriteFile(s) \/ WriteFails(s)
  \/ s = "timer" /\ (Look \/ Prune)

Next ==
  \/ \E t \in Transcripts : Write(t) \/ Close(t) \/ Age(t) \/ Note(t) \/ Activate(t) \/ SweepPath(t)
  \/ Sweep
  \/ \E s \in Sweepers : Sweeping(s)
  \/ Restart

Spec == Init /\ [][Next]_vars

\* The watcher polls and the timer ticks; a sweep is sequential code with
\* bounded calls.  Nobody presses the button for certain.
FairSpec ==
  /\ Spec
  /\ WF_vars(Sweep)
  /\ \A t \in Transcripts : WF_vars(Note(t) \/ Activate(t))
  /\ \A s \in Sweepers : WF_vars(Sweeping(s))
-----------------------------------------------------------------------------
Cursors == [Transcripts -> Unseeded .. MaxBlocks]
Numbers == [Transcripts -> 0 .. MaxBlocks]
\* What the state file may hold.
Entries == [known : SUBSET Transcripts, cursor : Cursors]

\* Types; a sweeper has a page exactly while it publishes one.
BlockTypeOK ==
  /\ begun \in Numbers /\ closed \in Numbers /\ skipped \in Numbers
  /\ refused \in {{}, Refusable} /\ atlas \in [Transcripts -> SUBSET (1 .. MaxBlocks)]
  /\ {signal, noting, active, lost, keep} \subseteq SUBSET Transcripts
  /\ Memory \in Entries /\ seen \in [Transcripts -> Fresh .. Retained] /\ dirty \in BOOLEAN
  /\ disk \in Entries /\ backfill \in BOOLEAN
  /\ sweep \in [Sweepers ->
       [step : {"idle", "next", "publish", "advance", "retire", "prune", "save", "write"},
        todo : SUBSET [path : Transcripts, cursor : Unseeded .. MaxBlocks],
        at : Transcripts \cup {None}, page : SUBSET (1 .. MaxBlocks), image : Entries]]
  /\ \A s \in Sweepers : (sweep[s].page # {}) = (sweep[s].step \in {"publish", "advance"})
  /\ faults \in 0 .. MaxFaults /\ restarts \in 0 .. MaxRestarts /\ presses \in 0 .. MaxPresses

\* "The silent-data-loss rule of the whole path" (emitter.go, publish): no
\* cursor, in memory, on disk or on its way there, is past a block that Atlas
\* does not have, but for what a forward-only first sight skipped and for a refused
\* block before a readable one.  Nobody asks for a block behind the cursor again.
Behind(n, t) == 1 .. n \subseteq atlas[t] \cup 1 .. skipped[t] \cup refused
CursorSafe ==
  /\ \A t \in Transcripts : Behind(cursor[t], t) /\ Behind(disk.cursor[t], t)
  /\ \A s \in Sweepers : /\ \A tgt \in sweep[s].todo : Behind(tgt.cursor, tgt.path)
                         /\ \A t \in Transcripts : Behind(sweep[s].image.cursor[t], t)

\* What the order of note and active, and the prune's second look at the active
\* set, are for: an active transcript has an entry, so a sweep does target it.
ActiveHasEntry == active \cup noting \subseteq known

\* A transcript with a block Atlas is missing is active or about to be: failed
\* asks, failed posts, pages and prunes never drop one.  It leaves the active set
\* too early only by a restart, or when it advances between the two locks of a
\* retirement.
StaysActive ==
  \A t \in Transcripts : Unsent(t) # {} => t \in active \cup signal \cup noting \cup lost

\* A closed block of an active transcript reaches Atlas, unless the transcript is
\* lost to the sweep first.
BacklogDrains ==
  \A t \in Transcripts : \A b \in 1 .. MaxBlocks :
    (t \in active /\ b <= closed[t]) ~> (b \notin Unsent(t) \/ t \in lost)
=============================================================================
