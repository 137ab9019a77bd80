------------------------- MODULE BlockEmitterProofs -------------------------
(***************************************************************************)
(* Theorems about BlockEmitter, for all its constants: no cursor, whether  *)
(* in memory, on disk, taken as a target or about to be written, is past a *)
(* block that Atlas misses, and an active transcript has an entry.         *)
(*                                                                         *)
(* BlockInv says of each sweeper what its step still relies on: a page is  *)
(* closed downwards (up to what Atlas has, was skipped or is refused), and *)
(* the chunk whose cursor is next has arrived.  EntryInv says why a prune  *)
(* that saw an older active set loses no transcript activated since: what  *)
(* has just been noted is fresh, and nothing ages during a sweep.          *)
(* SettledInv says that whoever is about to retire a transcript has looked *)
(* at all of it, or will be too late: it has grown since.                  *)
(***************************************************************************)
EXTENDS BlockEmitter, FiniteSetTheorems, TLAPS

Steps == {"idle", "next", "publish", "advance", "retire", "prune", "save", "write"}
SweepRecords ==
  [step : Steps, todo : SUBSET [path : Transcripts, cursor : Unseeded .. MaxBlocks],
   at : Transcripts \cup {None}, page : SUBSET (1 .. MaxBlocks), image : Entries]

WorldTypes ==
  /\ begun \in Numbers /\ closed \in Numbers /\ skipped \in Numbers
  /\ refused \in {{}, Refusable} /\ atlas \in [Transcripts -> SUBSET (1 .. MaxBlocks)]
  /\ signal \subseteq Transcripts /\ noting \subseteq Transcripts
  /\ \A t \in Transcripts : skipped[t] <= begun[t]
EntryTypes ==
  /\ active \subseteq Transcripts /\ lost \subseteq Transcripts /\ keep \subseteq Transcripts
  /\ known \subseteq Transcripts /\ cursor \in Cursors
  /\ seen \in [Transcripts -> Fresh .. Retained] /\ dirty \in BOOLEAN
  /\ disk \in Entries
BoundTypes ==
  /\ backfill \in BOOLEAN
  /\ faults \in 0 .. MaxFaults /\ restarts \in 0 .. MaxRestarts /\ presses \in 0 .. MaxPresses

\* Blocks of t that nobody needs to send any more.
Covered(t) == atlas[t] \cup 1 .. skipped[t] \cup refused

SweeperSafe(s) ==
  /\ sweep[s] \in SweepRecords
  /\ (sweep[s].page # {}) = (sweep[s].step \in {"publish", "advance"})
  /\ sweep[s].step \in {"publish", "advance", "retire"} => sweep[s].at \in Transcripts
  /\ \A tgt \in sweep[s].todo : 1 .. tgt.cursor \subseteq Covered(tgt.path)
  /\ \A t \in Transcripts : 1 .. sweep[s].image.cursor[t] \subseteq Covered(t)
  /\ sweep[s].step \in {"publish", "advance"} =>
       \A b \in sweep[s].page : 1 .. b \subseteq Covered(sweep[s].at) \cup sweep[s].page
  /\ sweep[s].step = "advance" => chunk(s) \subseteq atlas[sweep[s].at]

SweepInv == sweep \in [Sweepers -> SweepRecords] /\ \A s \in Sweepers : SweeperSafe(s)

CursorInv ==
  \A t \in Transcripts : 1 .. cursor[t] \subseteq Covered(t) /\ 1 .. disk.cursor[t] \subseteq Covered(t)

EntryInv ==
  /\ ActiveHasEntry
  /\ \A t \in noting : seen[t] = Fresh
  /\ sweep["timer"].step = "prune" =>
       \A t \in active \cup noting : t \in keep \/ seen[t] < Retained

BlockInv == WorldTypes /\ EntryTypes /\ BoundTypes /\ SweepInv /\ CursorInv /\ EntryInv
-----------------------------------------------------------------------------
(* Sets of block numbers. *)

LEMMA Sizes ==
  /\ MaxBlocks \in Nat /\ MaxBlocks > 0 /\ MaxPerSweep \in Nat /\ MaxPerSweep > 0
  /\ BatchSize \in Nat /\ BatchSize > 0 /\ None \notin Transcripts
  /\ MaxFaults \in Nat /\ MaxRestarts \in Nat /\ MaxPresses \in Nat
BY EmitterAssumption

LEMMA HasLeast ==
  ASSUME NEW S \in SUBSET Nat, S # {}
  PROVE  \E x \in S : \A y \in S : x <= y
<1>1. \E x \in S : \A y \in S : ~(<<y, x>> \in OpToRel(<, Nat))
  BY WFMin, NatLessThanWellFounded
<1>2. \E x \in S : \A y \in S : ~(y < x)
  BY <1>1 DEF OpToRel
<1> QED BY <1>2

LEMMA HasGreatest ==
  ASSUME NEW S \in SUBSET (1 .. MaxBlocks), S # {}
  PROVE  Max(S) \in S /\ \A y \in S : y <= Max(S)
<1> DEFINE T == {n \in Nat : MaxBlocks - n \in S}
<1>1. PICK y \in S : TRUE
  OBVIOUS
<1>2. MaxBlocks - y \in T
  BY <1>1, Sizes
<1>3. PICK x \in T : \A z \in T : x <= z
  BY <1>2, HasLeast
<1>4. MaxBlocks - x \in S /\ \A z \in S : z <= MaxBlocks - x
  <2>1. MaxBlocks - x \in S
    BY <1>3
  <2>2. ASSUME NEW z \in S PROVE z <= MaxBlocks - x
    <3>1. z \in Int /\ MaxBlocks - z \in Nat /\ MaxBlocks - (MaxBlocks - z) = z
      BY <2>2, Sizes
    <3>2. MaxBlocks - z \in T
      BY <2>2, <3>1
    <3>3. x <= MaxBlocks - z /\ x \in Nat
      BY <3>2, <1>3
    <3> QED BY <3>1, <3>3, Sizes
  <2> QED BY <2>1, <2>2
<1> HIDE DEF T
<1>5. \E m \in S : \A z \in S : m >= z
  <2>1. \A z \in S : z \in Int
    BY Sizes
  <2>2. MaxBlocks - x \in Int
    BY <1>4, <2>1
  <2> QED BY <1>4, <2>1, <2>2
<1>6. Max(S) \in S /\ \A z \in S : Max(S) >= z
  BY <1>5 DEF Max
<1>7. S \subseteq Int
  BY Sizes
<1> QED BY <1>6, <1>7

\* The first n of a set of block numbers are closed downwards in it.
LEMMA FirstIsPrefix ==
  ASSUME NEW S \in SUBSET (1 .. MaxBlocks), NEW n \in Nat, n > 0
  PROVE  /\ First(n, S) \subseteq S
         /\ \A b \in First(n, S), c \in S : c < b => c \in First(n, S)
         /\ S # {} => First(n, S) # {}
<1> DEFINE below(b) == {c \in S : c < b}
<1>1. First(n, S) \subseteq S
  BY DEF First
<1>2. S \subseteq Nat /\ IsFiniteSet(S)
  <2>1. IsFiniteSet(1 .. MaxBlocks)
    BY FS_Interval, Sizes
  <2>2. IsFiniteSet(S)
    BY <2>1, FS_Subset
  <2>3. \A c \in S : c \in Nat
    BY Sizes
  <2> QED BY <2>2, <2>3
<1>3. ASSUME NEW b \in First(n, S), NEW c \in S, c < b PROVE c \in First(n, S)
  <2>1. below(b) \subseteq S /\ below(c) \subseteq below(b)
    <3>1. b \in Nat /\ c \in Nat /\ \A d \in S : d \in Nat
      BY <1>1, <1>2, <1>3
    <3>2. \A d \in S : d < c => d < b
      BY <3>1, <1>3
    <3> QED BY <3>2
  <2>2. IsFiniteSet(below(b)) /\ IsFiniteSet(below(c))
    BY <2>1, <1>2, FS_Subset
  <2>3. Cardinality(below(c)) <= Cardinality(below(b))
    BY <2>1, <2>2, FS_Subset
  <2>4. Cardinality(below(c)) \in Nat /\ Cardinality(below(b)) \in Nat
    BY <2>2, FS_CardinalityType
  <2>5. Cardinality(below(b)) < n
    BY <1>3 DEF First
  <2> HIDE DEF below
  <2>6. Cardinality(below(c)) < n
    BY <2>3, <2>4, <2>5
  <2> QED BY <1>3, <2>6 DEF First, below
<1>4. ASSUME S # {} PROVE First(n, S) # {}
  <2>1. PICK x \in S : \A y \in S : x <= y
    BY <1>2, <1>4, HasLeast
  <2>2. below(x) = {}
    <3>1. \A y \in S : y \in Nat
      BY <1>2
    <3>2. \A y \in S : ~(y < x)
      BY <2>1, <3>1
    <3> QED BY <3>2
  <2>3. Cardinality(below(x)) = 0
    BY <2>2, FS_EmptySet
  <2>4. x \in First(n, S)
    BY <2>1, <2>3 DEF First
  <2> QED BY <2>4
<1> QED BY <1>1, <1>3, <1>4
-----------------------------------------------------------------------------
(* What a step owes the sweepers and the cursors. *)

\* Nothing that was covered is uncovered.
Grows ==
  /\ refused' = refused
  /\ \A t \in Transcripts : atlas[t] \subseteq atlas'[t] /\ skipped[t] <= skipped'[t]

LEMMA CoveredGrows ==
  ASSUME WorldTypes, WorldTypes', Grows, NEW t \in Transcripts
  PROVE  Covered(t) \subseteq Covered(t)'
<1>1. skipped[t] \in Int /\ skipped'[t] \in Int /\ skipped[t] <= skipped'[t]
  BY Sizes DEF WorldTypes, Numbers, Grows
<1>2. 1 .. skipped[t] \subseteq 1 .. skipped'[t]
  BY <1>1
<1> QED BY <1>2 DEF Covered, Grows

\* A sweeper that does not move stays safe.
LEMMA SweeperKept ==
  ASSUME WorldTypes, WorldTypes', Grows, NEW s \in Sweepers, SweeperSafe(s), sweep'[s] = sweep[s]
  PROVE  SweeperSafe(s)'
<1>1. \A t \in Transcripts : Covered(t) \subseteq Covered(t)' /\ atlas[t] \subseteq atlas'[t]
  BY CoveredGrows DEF Grows
<1>2. chunk(s)' = chunk(s)
  BY DEF chunk
<1>3. \A tgt \in sweep[s].todo : tgt.path \in Transcripts
  BY DEF SweeperSafe, SweepRecords
<1> QED BY <1>1, <1>2, <1>3 DEF SweeperSafe

OnlyMoves(s) ==
  /\ sweep' \in [Sweepers -> SweepRecords]
  /\ \A o \in Sweepers : o # s => sweep'[o] = sweep[o]

LEMMA OneMoves ==
  ASSUME WorldTypes, WorldTypes', Grows, SweepInv, NEW s \in Sweepers, OnlyMoves(s), SweeperSafe(s)'
  PROVE  SweepInv'
BY SweeperKept DEF SweepInv, OnlyMoves

LEMMA NoneMoves ==
  ASSUME WorldTypes, WorldTypes', Grows, SweepInv, sweep' = sweep
  PROVE  SweepInv'
BY SweeperKept DEF SweepInv

LEMMA CursorsKept ==
  ASSUME WorldTypes, WorldTypes', Grows, CursorInv, cursor' = cursor, disk' = disk
  PROVE  CursorInv'
BY CoveredGrows DEF CursorInv
-----------------------------------------------------------------------------
(* The world, the signal and the clock. *)

\* Steps that leave the sweepers, the cursors and what is covered alone.
LEMMA QuietInv ==
  ASSUME BlockInv, UNCHANGED <<refused, atlas, skipped, cursor, disk, sweep>>, WorldTypes'
  PROVE  SweepInv' /\ CursorInv'
<1>1. Grows
  BY Sizes DEF Grows, BlockInv, WorldTypes, Numbers
<1> QED BY <1>1, NoneMoves, CursorsKept DEF BlockInv

LEMMA WorldInv ==
  ASSUME BlockInv, NEW t \in Transcripts, Write(t) \/ Close(t)
  PROVE  BlockInv'
<1>1. /\ begun' \in Numbers /\ closed' \in Numbers /\ signal' \subseteq Transcripts
      /\ \A u \in Transcripts : begun[u] <= begun'[u]
  <2>1. CASE Write(t)
    <3>1. PICK n \in {begun[t], begun[t] + 1} \cap 1 .. MaxBlocks : begun' = [begun EXCEPT ![t] = n]
      BY <2>1 DEF Write
    <3>2. begun \in Numbers /\ closed \in Numbers /\ begun[t] \in 0 .. MaxBlocks
      BY DEF BlockInv, WorldTypes, Numbers
    <3>3. n \in 1 .. MaxBlocks /\ begun[t] <= n /\ n - 1 \in 0 .. MaxBlocks /\ begun'[t] = n
      BY <3>1, <3>2, Sizes DEF Numbers
    <3>4. begun' \in Numbers /\ \A u \in Transcripts : begun[u] <= begun'[u]
      BY <3>1, <3>2, <3>3 DEF Numbers
    <3>5. closed' \in Numbers
      BY <2>1, <3>2, <3>3 DEF Write, Numbers
    <3> QED BY <2>1, <3>4, <3>5 DEF Write, BlockInv, WorldTypes
  <2>2. CASE Close(t)
    BY <2>2, Sizes DEF Close, BlockInv, WorldTypes, Numbers
  <2> QED BY <2>1, <2>2
<1>2. UNCHANGED <<refused, atlas, noting, active, entryVars, disk, sweep, keep, faults, histVars>>
  BY DEF Write, Close
<1>3. \A u \in Transcripts : skipped'[u] <= begun'[u]
  BY <1>1, <1>2, Sizes DEF BlockInv, WorldTypes, Numbers, histVars
<1>4. WorldTypes'
  BY <1>1, <1>2, <1>3 DEF BlockInv, WorldTypes, histVars
<1>5. SweepInv' /\ CursorInv'
  BY <1>2, <1>4, QuietInv DEF entryVars, histVars
<1>6. EntryTypes' /\ BoundTypes'
  BY <1>2 DEF BlockInv, EntryTypes, BoundTypes, entryVars, histVars
<1>7. EntryInv'
  BY <1>2 DEF BlockInv, EntryInv, ActiveHasEntry, entryVars
<1> QED BY <1>4, <1>5, <1>6, <1>7 DEF BlockInv

LEMMA AgeInv ==
  ASSUME BlockInv, NEW t \in Transcripts, Age(t)
  PROVE  BlockInv'
<1>1. UNCHANGED <<worldVars, atlas, noting, active, known, cursor, dirty, disk, sweep, keep, faults,
                 histVars>>
  BY DEF Age
<1>2. WorldTypes' /\ BoundTypes'
  BY <1>1 DEF BlockInv, WorldTypes, BoundTypes, worldVars, histVars
<1>3. SweepInv' /\ CursorInv'
  BY <1>1, <1>2, QuietInv DEF worldVars, histVars
<1>4. EntryTypes'
  <2>1. seen' \in [Transcripts -> Fresh .. Retained]
    BY DEF Age, BlockInv, EntryTypes, Fresh, Retained
  <2> QED BY <1>1, <2>1 DEF BlockInv, EntryTypes, histVars
<1>5. EntryInv'
  <2>1. sweep["timer"].step = "idle"
    BY DEF Age, Sweepers, Idle, Sweeper
  <2>2. \A u \in noting : seen'[u] = seen[u]
    BY DEF Age, BlockInv, EntryTypes, WorldTypes
  <2> QED BY <1>1, <2>1, <2>2 DEF BlockInv, EntryInv, ActiveHasEntry
<1> QED BY <1>2, <1>3, <1>4, <1>5 DEF BlockInv

LEMMA NoteInv ==
  ASSUME BlockInv, NEW t \in Transcripts, Note(t)
  PROVE  BlockInv'
<1>1. UNCHANGED <<begun, closed, refused, atlas, active, cursor, disk, sweep, keep, faults, histVars>>
  BY DEF Note
<1>2. WorldTypes' /\ BoundTypes'
  BY <1>1 DEF Note, BlockInv, WorldTypes, BoundTypes, histVars
<1>3. SweepInv' /\ CursorInv'
  BY <1>1, <1>2, QuietInv DEF histVars
<1>4. seen' \in [Transcripts -> Fresh .. Retained] /\ seen'[t] = Fresh
      /\ \A u \in Transcripts : u # t => seen'[u] = seen[u]
  BY DEF Note, BlockInv, EntryTypes, Fresh, Retained
<1>5. EntryTypes'
  BY <1>1, <1>4 DEF Note, BlockInv, EntryTypes, histVars
<1>6. EntryInv'
  <2>1. noting' = noting \cup {t} /\ known' = known \cup {t} /\ active' = active /\ noting \subseteq Transcripts
    BY <1>1 DEF Note, BlockInv, WorldTypes
  <2>2. active \subseteq Transcripts /\ sweep' = sweep /\ keep' = keep
    BY <1>1 DEF BlockInv, EntryTypes
  <2>3. \A u \in noting' : seen'[u] = Fresh
    BY <1>4, <2>1 DEF BlockInv, EntryInv
  <2> QED BY <1>4, <2>1, <2>2, <2>3 DEF BlockInv, EntryInv, ActiveHasEntry, Fresh, Retained
<1> QED BY <1>2, <1>3, <1>5, <1>6 DEF BlockInv

LEMMA ActivateInv ==
  ASSUME BlockInv, NEW t \in Transcripts, Activate(t)
  PROVE  BlockInv'
<1>1. UNCHANGED <<worldVars, atlas, entryVars, disk, sweep, keep, faults, backfill, restarts, presses,
                  skipped>>
  BY DEF Activate
<1>2. WorldTypes' /\ BoundTypes' /\ EntryTypes'
  BY <1>1 DEF Activate, BlockInv, WorldTypes, BoundTypes, EntryTypes, worldVars, entryVars
<1>3. SweepInv' /\ CursorInv'
  BY <1>1, <1>2, QuietInv DEF worldVars, entryVars
<1>4. EntryInv'
  BY <1>1 DEF Activate, BlockInv, EntryInv, ActiveHasEntry, entryVars, Fresh, Retained
<1> QED BY <1>2, <1>3, <1>4 DEF BlockInv
-----------------------------------------------------------------------------
(* A sweep. *)

\* Steps that move one sweeper and leave all but the bounds alone.
LEMMA MoveInv ==
  ASSUME BlockInv, NEW s \in Sweepers, OnlyMoves(s), SweeperSafe(s)',
         UNCHANGED <<worldVars, atlas, noting, active, known, cursor, seen, disk, keep, skipped, lost>>,
         dirty' \in BOOLEAN, BoundTypes', s = "timer" => sweep'[s].step # "prune"
  PROVE  BlockInv'
<1>1. WorldTypes' /\ EntryTypes'
  BY DEF BlockInv, WorldTypes, EntryTypes, worldVars
<1>2. Grows
  BY Sizes DEF Grows, BlockInv, WorldTypes, Numbers, worldVars
<1>3. SweepInv'
  BY <1>1, <1>2, OneMoves DEF BlockInv
<1>4. CursorInv'
  BY <1>1, <1>2, CursorsKept DEF BlockInv
<1>5. EntryInv'
  BY DEF OnlyMoves, BlockInv, EntryInv, ActiveHasEntry, Sweepers
<1> QED BY <1>1, <1>3, <1>4, <1>5 DEF BlockInv

LEMMA TargetsSafe ==
  ASSUME BlockInv, NEW paths
  PROVE  /\ Targets(paths) \in SUBSET [path : Transcripts, cursor : Unseeded .. MaxBlocks]
         /\ \A tgt \in Targets(paths) : 1 .. tgt.cursor \subseteq Covered(tgt.path)
BY DEF Targets, BlockInv, EntryTypes, CursorInv, Cursors

LEMMA EmptyTypes ==
  /\ Empty \in Entries
  /\ \A t \in Transcripts : 1 .. Empty.cursor[t] = {}
BY Sizes DEF Empty, Entries, Cursors, Unseeded

LEMMA StartInv ==
  ASSUME BlockInv, NEW s \in Sweepers, NEW paths,
         sweep' = [sweep EXCEPT ![s] = Sweeper("next", Targets(paths), None, {})],
         UNCHANGED <<worldVars, atlas, noting, active, entryVars, disk, keep, skipped, lost>>,
         BoundTypes'
  PROVE  BlockInv'
<1> DEFINE w == Sweeper("next", Targets(paths), None, {})
<1>1. w \in SweepRecords
  BY TargetsSafe, EmptyTypes DEF SweepRecords, Steps, Sweeper
<1>2. w.step = "next" /\ w.todo = Targets(paths) /\ w.page = {} /\ w.image = Empty
  BY DEF Sweeper
<1> HIDE DEF w
<1>3. OnlyMoves(s) /\ sweep'[s] = w
  <2>1. sweep \in [Sweepers -> SweepRecords]
    BY DEF BlockInv, SweepInv
  <2> QED BY <1>1, <2>1 DEF OnlyMoves, w
<1>4. \A t \in Transcripts : Covered(t)' = Covered(t)
  BY DEF Covered, worldVars
<1>5. SweeperSafe(s)'
  <2>1. \A tgt \in w.todo : tgt.path \in Transcripts /\ 1 .. tgt.cursor \subseteq Covered(tgt.path)
    BY <1>2, TargetsSafe
  <2>2. \A tgt \in w.todo : 1 .. tgt.cursor \subseteq Covered(tgt.path)'
    BY <1>4, <2>1
  <2>3. \A t \in Transcripts : 1 .. w.image.cursor[t] \subseteq Covered(t)'
    BY <1>2, EmptyTypes
  <2> QED BY <1>1, <1>2, <1>3, <2>2, <2>3 DEF SweeperSafe
<1>6. sweep'[s].step # "prune"
  BY <1>2, <1>3
<1> QED BY <1>3, <1>5, <1>6, MoveInv DEF entryVars, BlockInv, EntryTypes

\* A sweeper drops a target, or goes to another step, or is done with a transcript.
LEMMA DropMoves ==
  ASSUME SweepInv, NEW s \in Sweepers, NEW tgt, Drop(s, tgt)
  PROVE  /\ OnlyMoves(s) /\ sweep'[s].todo = sweep[s].todo \ {tgt}
         /\ sweep'[s].step = sweep[s].step /\ sweep'[s].at = sweep[s].at
         /\ sweep'[s].page = sweep[s].page /\ sweep'[s].image = sweep[s].image
BY DEF Drop, OnlyMoves, SweepInv, SweepRecords

LEMMA GotoMoves ==
  ASSUME SweepInv, NEW s \in Sweepers, NEW step \in Steps, Goto(s, step)
  PROVE  /\ OnlyMoves(s) /\ sweep'[s].todo = sweep[s].todo
         /\ sweep'[s].step = step /\ sweep'[s].at = sweep[s].at
         /\ sweep'[s].page = sweep[s].page /\ sweep'[s].image = sweep[s].image
BY DEF Goto, OnlyMoves, SweepInv, SweepRecords

LEMMA SweeperMoves ==
  ASSUME SweepInv, NEW s \in Sweepers, NEW step \in Steps,
         NEW todo \in SUBSET [path : Transcripts, cursor : Unseeded .. MaxBlocks],
         NEW at \in Transcripts \cup {None}, NEW page \in SUBSET (1 .. MaxBlocks),
         sweep' = [sweep EXCEPT ![s] = Sweeper(step, todo, at, page)]
  PROVE  /\ OnlyMoves(s) /\ sweep'[s].todo = todo /\ sweep'[s].step = step
         /\ sweep'[s].at = at /\ sweep'[s].page = page /\ sweep'[s].image = Empty
<1> DEFINE w == Sweeper(step, todo, at, page)
<1>1. /\ w \in SweepRecords /\ w.todo = todo /\ w.step = step /\ w.at = at /\ w.page = page
      /\ w.image = Empty
  BY EmptyTypes DEF SweepRecords, Sweeper
<1>2. sweep' = [sweep EXCEPT ![s] = w] /\ sweep \in [Sweepers -> SweepRecords]
  BY DEF SweepInv
<1> HIDE DEF w
<1>3. sweep'[s] = w /\ OnlyMoves(s)
  BY <1>1, <1>2 DEF OnlyMoves
<1> QED BY <1>1, <1>3

LEMMA DoneMoves ==
  ASSUME SweepInv, NEW s \in Sweepers, Done(s)
  PROVE  /\ OnlyMoves(s) /\ sweep'[s].todo = sweep[s].todo /\ sweep'[s].step = "next"
         /\ sweep'[s].page = {} /\ sweep'[s].image = Empty
<1>1. sweep[s].todo \in SUBSET [path : Transcripts, cursor : Unseeded .. MaxBlocks]
  BY DEF SweepInv, SweepRecords
<1>2. sweep' = [sweep EXCEPT ![s] = Sweeper("next", sweep[s].todo, None, {})]
  BY DEF Done
<1>3. "next" \in Steps /\ None \in Transcripts \cup {None} /\ {} \in SUBSET (1 .. MaxBlocks)
  BY DEF Steps
<1> QED BY <1>1, <1>2, <1>3, SweeperMoves

\* A sweeper at rest between two targets, or beyond them, relies on little.
LEMMA RestingSafe ==
  ASSUME SweepInv, NEW s \in Sweepers, OnlyMoves(s),
         \A t \in Transcripts : Covered(t) \subseteq Covered(t)',
         sweep'[s].step \in {"idle", "next", "prune", "save"}, sweep'[s].page = {},
         sweep'[s].todo \subseteq sweep[s].todo, sweep'[s].image \in {Empty, sweep[s].image}
  PROVE  SweeperSafe(s)'
<1>1. sweep'[s] \in SweepRecords /\ sweep[s] \in SweepRecords
  BY DEF OnlyMoves, SweepInv
<1>2. \A tgt \in sweep'[s].todo : 1 .. tgt.cursor \subseteq Covered(tgt.path)'
  BY <1>1 DEF SweepInv, SweeperSafe, SweepRecords
<1>3. \A t \in Transcripts : 1 .. sweep'[s].image.cursor[t] \subseteq Covered(t)'
  BY EmptyTypes DEF SweepInv, SweeperSafe
<1> QED BY <1>1, <1>2, <1>3 DEF SweeperSafe

LEMMA FaultTypes ==
  ASSUME BoundTypes, Fault, UNCHANGED histVars
  PROVE  BoundTypes'
BY Sizes DEF BoundTypes, Fault, histVars

LEMMA SkipTargetInv ==
  ASSUME BlockInv, NEW s \in Sweepers, NEW tgt \in sweep[s].todo, AskFails(s, tgt) \/ AskNothing(s, tgt)
  PROVE  BlockInv'
<1>1. /\ Drop(s, tgt) /\ sweep[s].step = "next"
      /\ UNCHANGED <<worldVars, atlas, noting, active, entryVars, disk, keep, histVars>>
  BY DEF AskFails, AskNothing, Take
<1>2. BoundTypes'
  <2>1. CASE Fault
    BY <1>1, <2>1, FaultTypes DEF BlockInv
  <2>2. CASE UNCHANGED faults
    BY <1>1, <2>2 DEF BlockInv, BoundTypes, histVars
  <2> QED BY <2>1, <2>2 DEF AskFails, AskNothing
<1>3. /\ OnlyMoves(s) /\ sweep'[s].step = "next" /\ sweep'[s].page = {}
      /\ sweep'[s].todo \subseteq sweep[s].todo /\ sweep'[s].image = sweep[s].image
  BY <1>1, DropMoves DEF BlockInv, SweepInv, SweeperSafe
<1>4. \A t \in Transcripts : Covered(t) \subseteq Covered(t)'
  BY <1>1 DEF Covered, worldVars, histVars
<1>5. SweeperSafe(s)'
  BY <1>3, <1>4, RestingSafe DEF BlockInv
<1> QED BY <1>1, <1>2, <1>3, <1>5, MoveInv DEF BlockInv, EntryTypes, entryVars, histVars

LEMMA SeedInv ==
  ASSUME BlockInv, NEW s \in Sweepers, NEW tgt \in sweep[s].todo, Seed(s, tgt)
  PROVE  BlockInv'
<1> DEFINE p == tgt.path
<1>1. p \in Transcripts
  BY DEF BlockInv, SweepInv, SweepRecords
<1>2. /\ Drop(s, tgt) /\ sweep[s].step = "next"
      /\ UNCHANGED <<worldVars, atlas, noting, active, known, seen, disk, keep, faults, backfill,
                     restarts, presses, lost>>
  BY DEF Seed, Take
<1>3. /\ cursor \in Cursors /\ begun \in Numbers /\ skipped \in Numbers /\ dirty \in BOOLEAN
      /\ begun[p] \in 0 .. MaxBlocks /\ skipped[p] <= begun[p]
  BY <1>1 DEF BlockInv, EntryTypes, WorldTypes, Numbers
<1>4. CASE p \in known /\ begun[p] > cursor[p]
  <2>1. cursor' = [cursor EXCEPT ![p] = begun[p]] /\ dirty' = TRUE
    BY <1>4 DEF Seed, Raise
  <2>2. cursor'[p] = begun[p] /\ cursor[p] \in Int /\ cursor' # cursor
    BY <1>1, <1>3, <1>4, <2>1, Sizes DEF Cursors, Unseeded
  <2>3. skipped' = [skipped EXCEPT ![p] = begun[p]]
    BY <2>2 DEF Seed
  <2>4. cursor' \in Cursors /\ skipped' \in Numbers
    BY <1>1, <1>3, <2>1, <2>3, Sizes DEF Cursors, Numbers, Unseeded
  <2>5. \A t \in Transcripts : skipped[t] <= skipped'[t] /\ skipped'[t] <= begun[t]
    BY <1>1, <1>3, <2>3, Sizes DEF Numbers, BlockInv, WorldTypes
  <2>6. WorldTypes'
    BY <1>2, <2>4, <2>5 DEF BlockInv, WorldTypes, worldVars
  <2>7. Grows
    BY <1>2, <2>5 DEF Grows, worldVars
  <2>8. \A t \in Transcripts : Covered(t) \subseteq Covered(t)'
    BY <2>6, <2>7, CoveredGrows DEF BlockInv
  <2>9. CursorInv'
    <3>1. \A t \in Transcripts : t # p => cursor'[t] = cursor[t]
      BY <1>3, <2>1 DEF Cursors
    <3>2. 1 .. cursor'[p] \subseteq Covered(p)'
      BY <1>1, <1>3, <2>2, <2>3 DEF Covered, Numbers
    <3> QED BY <1>2, <2>8, <3>1, <3>2 DEF BlockInv, CursorInv
  <2>10. /\ OnlyMoves(s) /\ sweep'[s].step = "next" /\ sweep'[s].page = {}
         /\ sweep'[s].todo \subseteq sweep[s].todo /\ sweep'[s].image = sweep[s].image
    BY <1>2, DropMoves DEF BlockInv, SweepInv, SweeperSafe
  <2>11. SweepInv'
    <3>1. SweeperSafe(s)'
      BY <2>8, <2>10, RestingSafe DEF BlockInv
    <3> QED BY <3>1, <2>6, <2>7, <2>10, OneMoves DEF BlockInv
  <2>12. EntryTypes' /\ BoundTypes'
    BY <1>2, <2>1, <2>4 DEF BlockInv, EntryTypes, BoundTypes
  <2>13. EntryInv'
    BY <1>2, <2>10 DEF BlockInv, EntryInv, ActiveHasEntry, OnlyMoves, Sweepers
  <2> QED BY <2>6, <2>9, <2>11, <2>12, <2>13 DEF BlockInv
<1>5. CASE ~(p \in known /\ begun[p] > cursor[p])
  <2>1. cursor' = cursor /\ dirty' = dirty /\ skipped' = skipped
    BY <1>5 DEF Seed, Raise
  <2>2. /\ OnlyMoves(s) /\ sweep'[s].step = "next" /\ sweep'[s].page = {}
        /\ sweep'[s].todo \subseteq sweep[s].todo /\ sweep'[s].image = sweep[s].image
    BY <1>2, DropMoves DEF BlockInv, SweepInv, SweeperSafe
  <2>3. \A t \in Transcripts : Covered(t) \subseteq Covered(t)'
    BY <1>2, <2>1 DEF Covered, worldVars
  <2>4. SweeperSafe(s)'
    BY <2>2, <2>3, RestingSafe DEF BlockInv
  <2>5. BoundTypes'
    BY <1>2 DEF BlockInv, BoundTypes
  <2> QED BY <1>2, <1>3, <2>1, <2>2, <2>4, <2>5, MoveInv
<1> QED BY <1>4, <1>5

\* A page is what was asked for: closed downwards up to what is covered.
LEMMA AnswerClosed ==
  ASSUME BlockInv, NEW s \in Sweepers, NEW tgt \in sweep[s].todo
  PROVE  /\ tgt.path \in Transcripts /\ Answer(tgt) \in SUBSET (1 .. MaxBlocks)
         /\ \A b \in Answer(tgt) : 1 .. b \subseteq Covered(tgt.path) \cup Answer(tgt)
<1> DEFINE S == {b \in 1 .. closed[tgt.path] : b > tgt.cursor}
<1>1. /\ tgt.path \in Transcripts /\ tgt.cursor \in Unseeded .. MaxBlocks
      /\ 1 .. tgt.cursor \subseteq Covered(tgt.path)
  BY DEF BlockInv, SweepInv, SweeperSafe, SweepRecords
<1>2. closed[tgt.path] \in 0 .. MaxBlocks /\ tgt.cursor \in Int
  BY <1>1, Sizes DEF BlockInv, WorldTypes, Numbers, Unseeded
<1>3. S \in SUBSET (1 .. MaxBlocks)
  BY <1>2, Sizes
<1>4. Answer(tgt) = First(MaxPerSweep, S) \ refused
  BY DEF Answer
<1>5. /\ First(MaxPerSweep, S) \subseteq S
      /\ \A b \in First(MaxPerSweep, S), c \in S : c < b => c \in First(MaxPerSweep, S)
  BY <1>3, FirstIsPrefix, Sizes
<1>6. ASSUME NEW b \in Answer(tgt), NEW c \in 1 .. b PROVE c \in Covered(tgt.path) \cup Answer(tgt)
  <2>1. b \in S /\ b \in Int /\ c \in Int /\ 1 <= c /\ c <= b /\ b <= closed[tgt.path]
    BY <1>2, <1>3, <1>4, <1>5, <1>6
  <2>2. CASE c <= tgt.cursor
    BY <1>1, <1>2, <2>1, <2>2
  <2>3. CASE c > tgt.cursor
    <3>1. c \in S
      BY <1>2, <2>1, <2>3
    <3>2. c \in First(MaxPerSweep, S)
      BY <1>4, <1>5, <1>6, <2>1, <3>1
    <3> QED BY <1>4, <3>2 DEF Covered
  <2> QED BY <1>2, <2>1, <2>2, <2>3
<1> QED BY <1>1, <1>3, <1>4, <1>5, <1>6

LEMMA AskInv ==
  ASSUME BlockInv, NEW s \in Sweepers, NEW tgt \in sweep[s].todo, Ask(s, tgt)
  PROVE  BlockInv'
<1> DEFINE step == IF Answer(tgt) = {} THEN "retire" ELSE "publish"
           todo == sweep[s].todo \ {tgt}
<1>1. UNCHANGED <<worldVars, atlas, noting, active, entryVars, disk, keep, faults, histVars>>
  BY DEF Ask
<1>2. /\ tgt.path \in Transcripts /\ Answer(tgt) \in SUBSET (1 .. MaxBlocks)
      /\ \A b \in Answer(tgt) : 1 .. b \subseteq Covered(tgt.path) \cup Answer(tgt)
  BY AnswerClosed
<1>3. todo \in SUBSET [path : Transcripts, cursor : Unseeded .. MaxBlocks]
      /\ \A u \in todo : u.path \in Transcripts /\ 1 .. u.cursor \subseteq Covered(u.path)
  BY DEF BlockInv, SweepInv, SweeperSafe, SweepRecords
<1>4. /\ OnlyMoves(s) /\ sweep'[s].todo = todo /\ sweep'[s].step = step
      /\ sweep'[s].at = tgt.path /\ sweep'[s].page = Answer(tgt) /\ sweep'[s].image = Empty
  <2>1. sweep' = [sweep EXCEPT ![s] = Sweeper(step, todo, tgt.path, Answer(tgt))]
    BY DEF Ask
  <2>2. step \in Steps
    BY DEF Steps
  <2> HIDE DEF step, todo
  <2> QED BY <1>2, <1>3, <2>1, <2>2, SweeperMoves DEF BlockInv
<1>5. \A t \in Transcripts : Covered(t)' = Covered(t)
  BY <1>1 DEF Covered, worldVars, histVars
<1>6. SweeperSafe(s)'
  <2>1. sweep'[s] \in SweepRecords
    BY <1>4 DEF OnlyMoves
  <2>2. \A u \in sweep'[s].todo : 1 .. u.cursor \subseteq Covered(u.path)'
    BY <1>3, <1>4, <1>5
  <2>3. \A t \in Transcripts : 1 .. sweep'[s].image.cursor[t] \subseteq Covered(t)'
    BY <1>4, EmptyTypes
  <2>4. \A b \in Answer(tgt) : 1 .. b \subseteq Covered(tgt.path)' \cup Answer(tgt)
    BY <1>2, <1>5
  <2>5. /\ (sweep'[s].page # {}) = (sweep'[s].step \in {"publish", "advance"})
        /\ sweep'[s].step \in {"publish", "retire"} /\ sweep'[s].at \in Transcripts
    BY <1>2, <1>4
  <2>6. sweep'[s].step # "advance"
    BY <1>4
  <2> HIDE DEF step, todo
  <2> QED BY <1>4, <2>1, <2>2, <2>3, <2>4, <2>5, <2>6 DEF SweeperSafe
<1>7. BoundTypes' /\ sweep'[s].step # "prune"
  BY <1>1, <1>4 DEF BlockInv, BoundTypes, histVars
<1> QED BY <1>1, <1>4, <1>6, <1>7, MoveInv DEF BlockInv, EntryTypes, entryVars, histVars

LEMMA RetireInv ==
  ASSUME BlockInv, NEW s \in Sweepers, Retire(s)
  PROVE  BlockInv'
<1>1. /\ Done(s) /\ active' = active \ {sweep[s].at} /\ sweep[s].at \in Transcripts
      /\ UNCHANGED <<worldVars, atlas, noting, entryVars, disk, keep, faults, backfill, restarts,
                     presses, skipped>>
  BY DEF Retire, BlockInv, SweepInv, SweeperSafe
<1>2. lost' \subseteq Transcripts
  BY <1>1 DEF Retire, BlockInv, EntryTypes
<1>3. WorldTypes' /\ EntryTypes' /\ BoundTypes'
  BY <1>1, <1>2 DEF BlockInv, WorldTypes, EntryTypes, BoundTypes, worldVars, entryVars
<1>4. Grows
  BY <1>1, Sizes DEF Grows, BlockInv, WorldTypes, Numbers, worldVars
<1>5. \A t \in Transcripts : Covered(t) \subseteq Covered(t)'
  BY <1>3, <1>4, CoveredGrows DEF BlockInv
<1>6. /\ OnlyMoves(s) /\ sweep'[s].todo = sweep[s].todo /\ sweep'[s].step = "next"
      /\ sweep'[s].page = {} /\ sweep'[s].image = Empty
  BY <1>1, DoneMoves DEF BlockInv
<1>7. SweeperSafe(s)'
  BY <1>5, <1>6, RestingSafe DEF BlockInv
<1>8. SweepInv' /\ CursorInv'
  BY <1>1, <1>3, <1>4, <1>6, <1>7, OneMoves, CursorsKept DEF BlockInv, entryVars
<1>9. EntryInv'
  BY <1>1, <1>6 DEF BlockInv, EntryInv, ActiveHasEntry, OnlyMoves, Sweepers, entryVars
<1> QED BY <1>3, <1>8, <1>9 DEF BlockInv

\* The chunk that is published next.
LEMMA ChunkProperties ==
  ASSUME BlockInv, NEW s \in Sweepers, sweep[s].step \in {"publish", "advance"}
  PROVE  /\ sweep[s].at \in Transcripts /\ sweep[s].page \in SUBSET (1 .. MaxBlocks)
         /\ chunk(s) \subseteq sweep[s].page /\ chunk(s) # {} /\ chunk(s) \subseteq 1 .. MaxBlocks
         /\ \A b \in chunk(s), c \in sweep[s].page : c < b => c \in chunk(s)
         /\ \A b \in sweep[s].page : 1 .. b \subseteq Covered(sweep[s].at) \cup sweep[s].page
<1>1. /\ sweep[s].at \in Transcripts /\ sweep[s].page \in SUBSET (1 .. MaxBlocks)
      /\ sweep[s].page # {}
      /\ \A b \in sweep[s].page : 1 .. b \subseteq Covered(sweep[s].at) \cup sweep[s].page
  BY DEF BlockInv, SweepInv, SweeperSafe, SweepRecords
<1> QED BY <1>1, FirstIsPrefix, Sizes DEF chunk

\* What has arrived.
LEMMA ArriveGrows ==
  ASSUME BlockInv, NEW s \in Sweepers, sweep[s].step = "publish", Arrive(s) \/ UNCHANGED atlas,
         UNCHANGED <<worldVars, noting, skipped>>
  PROVE  WorldTypes' /\ Grows
<1>1. sweep[s].at \in Transcripts /\ chunk(s) \subseteq 1 .. MaxBlocks
  BY ChunkProperties
<1>2. /\ atlas' \in [Transcripts -> SUBSET (1 .. MaxBlocks)]
      /\ \A t \in Transcripts : atlas[t] \subseteq atlas'[t]
  BY <1>1 DEF Arrive, BlockInv, WorldTypes
<1>3. \A t \in Transcripts : skipped[t] <= skipped'[t]
  BY Sizes DEF BlockInv, WorldTypes, Numbers
<1> QED BY <1>2, <1>3 DEF Grows, BlockInv, WorldTypes, worldVars

\* Steps of one sweeper that may cover more: what is left to show of EntryInv.
LEMMA EntryKept ==
  ASSUME BlockInv, NEW s \in Sweepers, OnlyMoves(s), sweep'[s].step # "prune",
         UNCHANGED <<noting, active, known, seen, keep>>
  PROVE  EntryInv'
BY DEF BlockInv, EntryInv, ActiveHasEntry, OnlyMoves, Sweepers

LEMMA SendFailsInv ==
  ASSUME BlockInv, NEW s \in Sweepers, SendFails(s)
  PROVE  BlockInv'
<1>1. /\ sweep[s].step = "publish" /\ Fault /\ Done(s) /\ (Arrive(s) \/ UNCHANGED atlas)
      /\ UNCHANGED <<worldVars, noting, active, entryVars, disk, keep, histVars>>
  BY DEF SendFails
<1>2. WorldTypes' /\ Grows
  BY <1>1, ArriveGrows DEF histVars
<1>3. EntryTypes' /\ BoundTypes'
  BY <1>1, FaultTypes DEF BlockInv, EntryTypes, entryVars, histVars
<1>4. /\ OnlyMoves(s) /\ sweep'[s].todo = sweep[s].todo /\ sweep'[s].step = "next"
      /\ sweep'[s].page = {} /\ sweep'[s].image = Empty
  BY <1>1, DoneMoves DEF BlockInv
<1>5. SweeperSafe(s)'
  BY <1>2, <1>4, RestingSafe, CoveredGrows DEF BlockInv
<1>6. SweepInv' /\ CursorInv'
  BY <1>1, <1>2, <1>4, <1>5, OneMoves, CursorsKept DEF BlockInv, entryVars
<1>7. EntryInv'
  BY <1>1, <1>4, EntryKept DEF entryVars
<1> QED BY <1>2, <1>3, <1>6, <1>7 DEF BlockInv

LEMMA SendInv ==
  ASSUME BlockInv, NEW s \in Sweepers, Send(s)
  PROVE  BlockInv'
<1>1. /\ sweep[s].step = "publish" /\ Arrive(s) /\ Goto(s, "advance")
      /\ UNCHANGED <<worldVars, noting, active, entryVars, disk, keep, faults, histVars>>
  BY DEF Send
<1>2. WorldTypes' /\ Grows
  BY <1>1, ArriveGrows DEF histVars
<1>3. EntryTypes' /\ BoundTypes'
  BY <1>1 DEF BlockInv, EntryTypes, BoundTypes, entryVars, histVars
<1>4. /\ OnlyMoves(s) /\ sweep'[s].todo = sweep[s].todo /\ sweep'[s].step = "advance"
      /\ sweep'[s].at = sweep[s].at /\ sweep'[s].page = sweep[s].page
      /\ sweep'[s].image = sweep[s].image
  BY <1>1, GotoMoves DEF BlockInv, Steps
<1>5. \A t \in Transcripts : Covered(t) \subseteq Covered(t)'
  BY <1>2, CoveredGrows DEF BlockInv
<1>6. chunk(s)' = chunk(s) /\ chunk(s) \subseteq atlas'[sweep[s].at]
  <2>1. chunk(s)' = chunk(s)
    BY <1>4 DEF chunk
  <2>2. sweep[s].at \in Transcripts /\ atlas \in [Transcripts -> SUBSET (1 .. MaxBlocks)]
    BY <1>1, ChunkProperties DEF BlockInv, WorldTypes
  <2> QED BY <1>1, <2>1, <2>2 DEF Arrive
<1>7. SweeperSafe(s)'
  <2>1. sweep'[s] \in SweepRecords /\ SweeperSafe(s)
    BY <1>4 DEF OnlyMoves, BlockInv, SweepInv
  <2>2. \A u \in sweep[s].todo : u.path \in Transcripts
    BY DEF BlockInv, SweepInv, SweepRecords
  <2> QED BY <1>1, <1>4, <1>5, <1>6, <2>1, <2>2 DEF SweeperSafe
<1>8. SweepInv' /\ CursorInv'
  BY <1>1, <1>2, <1>4, <1>7, OneMoves, CursorsKept DEF BlockInv, entryVars
<1>9. EntryInv'
  BY <1>1, <1>4, EntryKept DEF entryVars
<1> QED BY <1>2, <1>3, <1>8, <1>9 DEF BlockInv

\* The cursor goes to the end of a chunk that has arrived.
LEMMA AdvanceInv ==
  ASSUME BlockInv, NEW s \in Sweepers, Advance(s)
  PROVE  BlockInv'
<1> DEFINE p == sweep[s].at
           n == Max(chunk(s))
<1>1. /\ sweep[s].step = "advance" /\ Raise(p, n) /\ NextChunk(s)
      /\ UNCHANGED <<worldVars, atlas, noting, active, known, seen, disk, keep, faults, histVars>>
  BY DEF Advance
<1>2. /\ p \in Transcripts /\ sweep[s].page \in SUBSET (1 .. MaxBlocks)
      /\ chunk(s) \subseteq sweep[s].page /\ chunk(s) # {} /\ chunk(s) \in SUBSET (1 .. MaxBlocks)
      /\ \A b \in chunk(s), c \in sweep[s].page : c < b => c \in chunk(s)
      /\ \A b \in sweep[s].page : 1 .. b \subseteq Covered(p) \cup sweep[s].page
  BY <1>1, ChunkProperties
<1>3. chunk(s) \subseteq atlas[p]
  BY <1>1 DEF BlockInv, SweepInv, SweeperSafe
<1>4. n \in chunk(s) /\ n \in 1 .. MaxBlocks
  BY <1>2, HasGreatest
<1>5. 1 .. n \subseteq Covered(p)
  <2> SUFFICES ASSUME NEW c \in 1 .. n PROVE c \in Covered(p)
    OBVIOUS
  <2>1. c \in Covered(p) \cup sweep[s].page /\ c \in Int /\ n \in Int /\ c <= n
    BY <1>2, <1>4, Sizes
  <2>2. CASE c \in sweep[s].page
    <3>1. c \in chunk(s)
      BY <1>2, <1>4, <2>1, <2>2
    <3> QED BY <1>3, <3>1 DEF Covered
  <2> QED BY <2>1, <2>2
<1> HIDE DEF n
<1>6. WorldTypes' /\ Grows
  BY <1>1, Sizes DEF Grows, BlockInv, WorldTypes, Numbers, worldVars, histVars
<1>7. \A t \in Transcripts : Covered(t)' = Covered(t)
  BY <1>1 DEF Covered, worldVars, histVars
<1>8. /\ cursor' \in Cursors /\ dirty' \in BOOLEAN
      /\ \A t \in Transcripts : cursor'[t] = cursor[t] \/ (t = p /\ cursor'[t] = n)
  <2>1. cursor \in Cursors /\ dirty \in BOOLEAN /\ n \in Unseeded .. MaxBlocks
    BY <1>4, Sizes DEF BlockInv, EntryTypes, Unseeded
  <2>2. CASE cursor' = [cursor EXCEPT ![p] = n] /\ dirty' = TRUE
    BY <1>2, <2>1, <2>2 DEF Cursors
  <2>3. CASE UNCHANGED <<cursor, dirty>>
    BY <2>1, <2>3
  <2> QED BY <1>1, <2>2, <2>3 DEF Raise
<1>9. CursorInv'
  BY <1>1, <1>5, <1>7, <1>8 DEF BlockInv, CursorInv
<1>10. EntryTypes' /\ BoundTypes'
  BY <1>1, <1>8 DEF BlockInv, EntryTypes, BoundTypes, histVars
<1>11. OnlyMoves(s) /\ SweeperSafe(s)' /\ sweep'[s].step # "prune"
  <2>1. CASE sweep[s].page = chunk(s)
    <3>1. /\ OnlyMoves(s) /\ sweep'[s].todo = sweep[s].todo /\ sweep'[s].step = "next"
          /\ sweep'[s].page = {} /\ sweep'[s].image = Empty
      BY <1>1, <2>1, DoneMoves DEF BlockInv, NextChunk
    <3> QED BY <1>7, <3>1, RestingSafe DEF BlockInv
  <2>2. CASE sweep[s].page # chunk(s)
    <3> DEFINE page == sweep[s].page \ chunk(s)
    <3>1. sweep[s].todo \in SUBSET [path : Transcripts, cursor : Unseeded .. MaxBlocks]
      BY DEF BlockInv, SweepInv, SweepRecords
    <3>2. page \in SUBSET (1 .. MaxBlocks) /\ page # {}
      BY <1>2, <2>2
    <3>3. \A b \in page : 1 .. b \subseteq Covered(p) \cup page
      BY <1>2, <1>3 DEF Covered
    <3>4. sweep' = [sweep EXCEPT ![s] = Sweeper("publish", sweep[s].todo, p, page)]
      BY <1>1, <2>2 DEF NextChunk
    <3> HIDE DEF page
    <3>5. /\ OnlyMoves(s) /\ sweep'[s].todo = sweep[s].todo /\ sweep'[s].step = "publish"
          /\ sweep'[s].at = p /\ sweep'[s].page = page /\ sweep'[s].image = Empty
      BY <1>2, <3>1, <3>2, <3>4, SweeperMoves DEF BlockInv, Steps
    <3>6. \A u \in sweep'[s].todo : 1 .. u.cursor \subseteq Covered(u.path)'
      BY <1>7, <3>5 DEF BlockInv, SweepInv, SweeperSafe, SweepRecords
    <3>7. \A t \in Transcripts : 1 .. sweep'[s].image.cursor[t] \subseteq Covered(t)'
      BY <3>5, EmptyTypes
    <3>8. sweep'[s] \in SweepRecords
      BY <3>5 DEF OnlyMoves
    <3>9. \A t \in Transcripts : t = p => \A b \in page : 1 .. b \subseteq Covered(t)' \cup page
      BY <1>7, <3>3
    <3> QED BY <1>2, <3>2, <3>5, <3>6, <3>7, <3>8, <3>9 DEF SweeperSafe
  <2> QED BY <2>1, <2>2
<1>12. SweepInv'
  BY <1>6, <1>11, OneMoves DEF BlockInv
<1>13. EntryInv'
  BY <1>1, <1>11, EntryKept
<1> QED BY <1>6, <1>9, <1>10, <1>12, <1>13 DEF BlockInv
-----------------------------------------------------------------------------
(* The state file, the prune and a restart. *)

LEMMA AtRest ==
  ASSUME SweepInv, NEW s \in Sweepers, sweep' = [sweep EXCEPT ![s] = Idle]
  PROVE  /\ OnlyMoves(s) /\ sweep'[s].todo = {} /\ sweep'[s].step = "idle"
         /\ sweep'[s].page = {} /\ sweep'[s].image = Empty
<1>1. "idle" \in Steps /\ None \in Transcripts \cup {None} /\ {} \in SUBSET (1 .. MaxBlocks)
      /\ {} \in SUBSET [path : Transcripts, cursor : Unseeded .. MaxBlocks]
  BY DEF Steps
<1> QED BY <1>1, SweeperMoves DEF Idle

LEMMA WritingTypes ==
  ASSUME BlockInv
  PROVE  /\ Writing(Memory) \in SweepRecords /\ Writing(Memory).step = "write"
         /\ Writing(Memory).todo = {} /\ Writing(Memory).page = {}
         /\ Writing(Memory).image = Memory /\ Memory.cursor = cursor
<1>1. Memory \in Entries /\ Memory.cursor = cursor
  BY DEF BlockInv, EntryTypes, Memory, Entries
<1> HIDE DEF Memory
<1> QED BY <1>1 DEF Writing, SweepRecords, Steps

LEMMA MarshalInv ==
  ASSUME BlockInv, NEW s \in Sweepers, Marshal(s)
  PROVE  BlockInv'
<1>1. /\ sweep' = [sweep EXCEPT ![s] = IF dirty THEN Writing(Memory) ELSE Idle] /\ dirty' = FALSE
      /\ UNCHANGED <<worldVars, atlas, noting, active, known, cursor, seen, disk, keep, faults, histVars>>
  BY DEF Marshal
<1>2. \A t \in Transcripts : Covered(t)' = Covered(t)
  BY <1>1 DEF Covered, worldVars, histVars
<1>3. CASE dirty
  <2>1. sweep' = [sweep EXCEPT ![s] = Writing(Memory)] /\ sweep \in [Sweepers -> SweepRecords]
    BY <1>1, <1>3 DEF BlockInv, SweepInv
  <2>2. OnlyMoves(s) /\ sweep'[s] = Writing(Memory)
    BY <2>1, WritingTypes DEF OnlyMoves
  <2>3. /\ sweep'[s] \in SweepRecords /\ sweep'[s].step = "write" /\ sweep'[s].todo = {}
        /\ sweep'[s].page = {} /\ sweep'[s].image.cursor = cursor
    BY <2>2, WritingTypes
  <2>4. \A t \in Transcripts : 1 .. sweep'[s].image.cursor[t] \subseteq Covered(t)'
    BY <1>2, <2>3 DEF BlockInv, CursorInv
  <2>5. SweeperSafe(s)'
    BY <2>3, <2>4 DEF SweeperSafe
  <2>6. BoundTypes'
    BY <1>1 DEF BlockInv, BoundTypes, histVars
  <2> QED BY <1>1, <2>2, <2>3, <2>5, <2>6, MoveInv DEF histVars
<1>4. CASE ~dirty
  <2>1. sweep' = [sweep EXCEPT ![s] = Idle]
    BY <1>1, <1>4
  <2>2. /\ OnlyMoves(s) /\ sweep'[s].todo = {} /\ sweep'[s].step = "idle"
        /\ sweep'[s].page = {} /\ sweep'[s].image = Empty
    BY <2>1, AtRest DEF BlockInv
  <2>3. SweeperSafe(s)'
    BY <1>2, <2>2, RestingSafe DEF BlockInv
  <2>4. BoundTypes'
    BY <1>1 DEF BlockInv, BoundTypes, histVars
  <2> QED BY <1>1, <2>2, <2>3, <2>4, MoveInv DEF histVars
<1> QED BY <1>3, <1>4

LEMMA WriteInv ==
  ASSUME BlockInv, NEW s \in Sweepers, WriteFile(s) \/ WriteFails(s)
  PROVE  BlockInv'
<1>1. /\ sweep' = [sweep EXCEPT ![s] = Idle]
      /\ UNCHANGED <<worldVars, atlas, noting, active, entryVars, keep, histVars>>
  BY DEF WriteFile, WriteFails
<1>2. disk' \in {disk, Empty, sweep[s].image}
  BY DEF WriteFile, WriteFails
<1>3. /\ sweep[s].image \in Entries
      /\ \A t \in Transcripts : 1 .. sweep[s].image.cursor[t] \subseteq Covered(t)
  BY DEF BlockInv, SweepInv, SweeperSafe, SweepRecords
<1>4. /\ disk' \in Entries
      /\ \A t \in Transcripts : 1 .. disk'.cursor[t] \subseteq Covered(t)
  BY <1>2, <1>3, EmptyTypes DEF BlockInv, EntryTypes, CursorInv
<1>5. BoundTypes'
  <2>1. CASE Fault
    BY <1>1, <2>1, FaultTypes DEF BlockInv
  <2>2. CASE UNCHANGED faults
    BY <1>1, <2>2 DEF BlockInv, BoundTypes, histVars
  <2> QED BY <2>1, <2>2 DEF WriteFile, WriteFails
<1>6. WorldTypes' /\ EntryTypes'
  BY <1>1, <1>4 DEF BlockInv, WorldTypes, EntryTypes, worldVars, entryVars, histVars
<1>7. \A t \in Transcripts : Covered(t)' = Covered(t)
  BY <1>1 DEF Covered, worldVars, histVars
<1>8. Grows
  BY <1>1, Sizes DEF Grows, BlockInv, WorldTypes, Numbers, worldVars, histVars
<1>9. /\ OnlyMoves(s) /\ sweep'[s].todo = {} /\ sweep'[s].step = "idle"
      /\ sweep'[s].page = {} /\ sweep'[s].image = Empty
  BY <1>1, AtRest DEF BlockInv
<1>10. SweeperSafe(s)'
  BY <1>7, <1>9, RestingSafe DEF BlockInv
<1>11. SweepInv'
  BY <1>6, <1>8, <1>9, <1>10, OneMoves DEF BlockInv
<1>12. CursorInv'
  BY <1>1, <1>4, <1>7 DEF BlockInv, CursorInv, entryVars
<1>13. EntryInv'
  BY <1>1, <1>9, EntryKept DEF entryVars
<1> QED BY <1>5, <1>6, <1>11, <1>12, <1>13 DEF BlockInv

\* The prune sees the active set of now ...
LEMMA LookInv ==
  ASSUME BlockInv, Look
  PROVE  BlockInv'
<1>1. /\ sweep["timer"].step = "next" /\ Goto("timer", "prune") /\ keep' = active
      /\ UNCHANGED <<worldVars, atlas, noting, active, entryVars, disk, faults, histVars>>
  BY DEF Look
<1>2. WorldTypes' /\ EntryTypes' /\ BoundTypes'
  BY <1>1 DEF BlockInv, WorldTypes, EntryTypes, BoundTypes, worldVars, entryVars, histVars
<1>3. \A t \in Transcripts : Covered(t)' = Covered(t)
  BY <1>1 DEF Covered, worldVars, histVars
<1>4. Grows
  BY <1>1, Sizes DEF Grows, BlockInv, WorldTypes, Numbers, worldVars, histVars
<1>5. "timer" \in Sweepers
  BY DEF Sweepers
<1>6. /\ OnlyMoves("timer") /\ sweep'["timer"].todo = sweep["timer"].todo
      /\ sweep'["timer"].step = "prune" /\ sweep'["timer"].page = {}
      /\ sweep'["timer"].image = sweep["timer"].image
  BY <1>1, <1>5, GotoMoves DEF BlockInv, SweepInv, SweeperSafe, Steps
<1>7. SweeperSafe("timer")'
  BY <1>3, <1>5, <1>6, RestingSafe DEF BlockInv
<1>8. SweepInv' /\ CursorInv'
  BY <1>1, <1>2, <1>4, <1>5, <1>6, <1>7, OneMoves, CursorsKept DEF BlockInv, entryVars
<1>9. EntryInv'
  BY <1>1 DEF BlockInv, EntryInv, ActiveHasEntry, entryVars, Fresh, Retained
<1> QED BY <1>2, <1>8, <1>9 DEF BlockInv

\* ... and what has become active since is too fresh to be pruned.
LEMMA PruneInv ==
  ASSUME BlockInv, Prune
  PROVE  BlockInv'
<1>1. /\ sweep["timer"].step = "prune" /\ Goto("timer", "save") /\ keep' = {} /\ known' = Kept
      /\ cursor' = [t \in Transcripts |-> IF t \in Kept THEN cursor[t] ELSE Unseeded]
      /\ seen' = [t \in Transcripts |-> IF t \in Kept THEN seen[t] ELSE Fresh]
      /\ dirty' = (dirty \/ Kept # known)
      /\ UNCHANGED <<worldVars, atlas, noting, active, disk, faults, histVars>>
  BY DEF Prune
<1>2. Kept \subseteq known
  BY DEF Kept
<1>3. WorldTypes' /\ BoundTypes'
  BY <1>1 DEF BlockInv, WorldTypes, BoundTypes, worldVars, histVars
<1>4. EntryTypes'
  <2>1. cursor' \in Cursors
    BY <1>1, Sizes DEF BlockInv, EntryTypes, Cursors, Unseeded
  <2>2. seen' \in [Transcripts -> Fresh .. Retained]
    BY <1>1 DEF BlockInv, EntryTypes, Fresh, Retained
  <2> QED BY <1>1, <1>2, <2>1, <2>2 DEF BlockInv, EntryTypes, histVars
<1>5. \A t \in Transcripts : Covered(t)' = Covered(t)
  BY <1>1 DEF Covered, worldVars, histVars
<1>6. CursorInv'
  <2>1. \A t \in Transcripts : 1 .. cursor'[t] \subseteq Covered(t)
    BY <1>1 DEF BlockInv, CursorInv, Unseeded
  <2> QED BY <1>1, <1>5, <2>1 DEF BlockInv, CursorInv
<1>7. "timer" \in Sweepers
  BY DEF Sweepers
<1>8. /\ OnlyMoves("timer") /\ sweep'["timer"].todo = sweep["timer"].todo
      /\ sweep'["timer"].step = "save" /\ sweep'["timer"].page = {}
      /\ sweep'["timer"].image = sweep["timer"].image
  BY <1>1, <1>7, GotoMoves DEF BlockInv, SweepInv, SweeperSafe, Steps
<1>9. SweeperSafe("timer")'
  BY <1>5, <1>7, <1>8, RestingSafe DEF BlockInv
<1>10. Grows
  BY <1>1, Sizes DEF Grows, BlockInv, WorldTypes, Numbers, worldVars, histVars
<1>11. SweepInv'
  BY <1>3, <1>7, <1>8, <1>9, <1>10, OneMoves DEF BlockInv
<1>12. EntryInv'
  <2>1. active \cup noting \subseteq Kept
    BY <1>1 DEF BlockInv, EntryInv, ActiveHasEntry, Kept
  <2>2. \A t \in noting : seen'[t] = Fresh
    BY <1>1, <2>1 DEF BlockInv, EntryInv, WorldTypes
  <2> QED BY <1>1, <1>8, <2>1, <2>2 DEF EntryInv, ActiveHasEntry
<1> QED BY <1>3, <1>4, <1>6, <1>11, <1>12 DEF BlockInv

LEMMA RestartInv ==
  ASSUME BlockInv, Restart
  PROVE  BlockInv'
<1>1. /\ noting' = {} /\ active' = {} /\ keep' = {} /\ dirty' = FALSE /\ backfill' \in BOOLEAN
      /\ known' = disk.known /\ cursor' = disk.cursor
      /\ sweep' = [s \in Sweepers |-> Idle] /\ seen' \in [Transcripts -> Fresh .. Retained]
      /\ lost' = lost \cup active \cup noting /\ restarts < MaxRestarts /\ restarts' = restarts + 1
      /\ UNCHANGED <<worldVars, atlas, disk, faults, presses, skipped>>
  BY DEF Restart
<1>2. WorldTypes' /\ EntryTypes'
  BY <1>1 DEF BlockInv, WorldTypes, EntryTypes, Entries, worldVars
<1>3. BoundTypes'
  BY <1>1, Sizes DEF BlockInv, BoundTypes
<1>4. \A t \in Transcripts : Covered(t)' = Covered(t)
  BY <1>1 DEF Covered, worldVars
<1>5. CursorInv'
  BY <1>1, <1>4 DEF BlockInv, CursorInv
<1>6. /\ Idle \in SweepRecords /\ Idle.step = "idle" /\ Idle.todo = {} /\ Idle.page = {}
      /\ Idle.image = Empty
  BY EmptyTypes DEF Idle, Sweeper, SweepRecords, Steps
<1>7. \A s \in Sweepers : SweeperSafe(s)'
  <2> SUFFICES ASSUME NEW s \in Sweepers PROVE SweeperSafe(s)'
    OBVIOUS
  <2>1. sweep'[s] = Idle
    BY <1>1
  <2>2. \A t \in Transcripts : 1 .. sweep'[s].image.cursor[t] \subseteq Covered(t)'
    BY <1>6, <2>1, EmptyTypes
  <2> QED BY <1>6, <2>1, <2>2 DEF SweeperSafe
<1>8. SweepInv'
  BY <1>1, <1>6, <1>7 DEF SweepInv
<1>9. EntryInv'
  BY <1>1, <1>6 DEF EntryInv, ActiveHasEntry, Sweepers
<1> QED BY <1>2, <1>3, <1>5, <1>8, <1>9 DEF BlockInv

LEMMA InitBlockInv == Init => BlockInv
<1> SUFFICES ASSUME Init PROVE BlockInv
  OBVIOUS
<1>1. WorldTypes /\ BoundTypes
  BY Sizes DEF Init, WorldTypes, BoundTypes, Numbers
<1>2. EntryTypes
  <2>1. cursor \in Cursors /\ disk \in Entries
    BY EmptyTypes DEF Init, Entries
  <2>2. seen \in [Transcripts -> Fresh .. Retained]
    BY DEF Init, Fresh, Retained
  <2> QED BY <2>1, <2>2 DEF Init, EntryTypes
<1>3. CursorInv
  BY EmptyTypes DEF Init, CursorInv
<1>4. /\ Idle \in SweepRecords /\ Idle.step = "idle" /\ Idle.todo = {} /\ Idle.page = {}
      /\ Idle.image = Empty
  BY EmptyTypes DEF Idle, Sweeper, SweepRecords, Steps
<1>5. \A s \in Sweepers : SweeperSafe(s)
  <2> SUFFICES ASSUME NEW s \in Sweepers PROVE SweeperSafe(s)
    OBVIOUS
  <2>1. sweep[s] = Idle
    BY DEF Init
  <2>2. \A t \in Transcripts : 1 .. sweep[s].image.cursor[t] \subseteq Covered(t)
    BY <1>4, <2>1, EmptyTypes
  <2> QED BY <1>4, <2>1, <2>2 DEF SweeperSafe
<1>6. SweepInv
  BY <1>4, <1>5 DEF Init, SweepInv
<1>7. EntryInv
  BY <1>4 DEF Init, EntryInv, ActiveHasEntry, Sweepers
<1> QED BY <1>1, <1>2, <1>3, <1>6, <1>7 DEF BlockInv

LEMMA PressTypes ==
  ASSUME BlockInv, presses < MaxPresses, presses' = presses + 1, UNCHANGED <<faults, backfill, restarts>>
  PROVE  BoundTypes'
BY Sizes DEF BlockInv, BoundTypes

\* The invariant is inductive.
LEMMA BlockInvStep == BlockInv /\ [Next]_vars => BlockInv'
<1> SUFFICES ASSUME BlockInv, [Next]_vars PROVE BlockInv'
  OBVIOUS
<1>1. ASSUME NEW t \in Transcripts, Write(t) \/ Close(t) \/ Age(t) \/ Note(t) \/ Activate(t)
      PROVE  BlockInv'
  BY <1>1, WorldInv, AgeInv, NoteInv, ActivateInv
<1>2. ASSUME NEW t \in Transcripts, SweepPath(t) PROVE BlockInv'
  <2>1. /\ sweep' = [sweep EXCEPT !["button"] = Sweeper("next", Targets({t}), None, {})]
        /\ UNCHANGED <<worldVars, atlas, noting, active, entryVars, disk, keep, skipped, lost>>
        /\ presses < MaxPresses /\ presses' = presses + 1 /\ UNCHANGED <<faults, backfill, restarts>>
    BY <1>2 DEF SweepPath
  <2> QED BY <2>1, StartInv, PressTypes DEF Sweepers
<1>3. CASE Sweep
  <2>1. /\ sweep' = [sweep EXCEPT !["timer"] = Sweeper("next", Targets(active), None, {})]
        /\ UNCHANGED <<worldVars, atlas, noting, active, entryVars, disk, keep, faults, histVars>>
    BY <1>3 DEF Sweep
  <2>2. BoundTypes'
    BY <2>1 DEF BlockInv, BoundTypes, histVars
  <2> QED BY <2>1, <2>2, StartInv DEF Sweepers, histVars
<1>4. ASSUME NEW s \in Sweepers, Sweeping(s) PROVE BlockInv'
  <2>1. ASSUME NEW tgt \in sweep[s].todo,
               AskFails(s, tgt) \/ Seed(s, tgt) \/ AskNothing(s, tgt) \/ Ask(s, tgt)
        PROVE  BlockInv'
    BY <2>1, SkipTargetInv, SeedInv, AskInv
  <2> QED BY <1>4, <2>1, RetireInv, SendFailsInv, SendInv, AdvanceInv, MarshalInv, WriteInv, LookInv,
             PruneInv DEF Sweeping
<1>5. CASE Restart
  BY <1>5, RestartInv
<1>6. CASE UNCHANGED vars
  <2>1. WorldTypes' /\ EntryTypes' /\ BoundTypes'
    BY <1>6 DEF vars, BlockInv, WorldTypes, EntryTypes, BoundTypes, worldVars, entryVars, histVars
  <2>2. SweepInv' /\ CursorInv'
    BY <1>6, <2>1, QuietInv DEF vars, worldVars, entryVars, histVars
  <2>3. EntryInv'
    BY <1>6 DEF vars, BlockInv, EntryInv, ActiveHasEntry, entryVars
  <2> QED BY <2>1, <2>2, <2>3 DEF BlockInv
<1> QED BY <1>1, <1>2, <1>3, <1>4, <1>5, <1>6 DEF Next
-----------------------------------------------------------------------------
(* Why nothing that Atlas misses is forgotten. *)

\* A transcript nobody will come back to is closed and sent.  An entry that is
\* not fresh belongs to a quiet transcript.  And who is about to retire a
\* transcript has seen that nothing is left of it, or has been overtaken by a new
\* turn, which the signal or a fresh entry shows.
SettledInv ==
  /\ \A t \in Transcripts :
       t \in active \cup signal \cup noting \cup lost \/ (closed[t] = begun[t] /\ Unsent(t) = {})
  /\ \A t \in Transcripts : seen[t] = Fresh \/ closed[t] = begun[t] \/ t \in signal \cup lost
  /\ \A s \in Sweepers : \A t \in Transcripts :
       sweep[s].step = "retire" /\ sweep[s].at = t =>
         seen[t] = Fresh \/ Unsent(t) = {} \/ t \in signal \cup lost

\* An answer without blocks means that all closed blocks are covered: too few are
\* refused to fill a page.
LEMMA NothingLeft ==
  ASSUME BlockInv, NEW s \in Sweepers, NEW tgt \in sweep[s].todo, Answer(tgt) = {}
  PROVE  tgt.path \in Transcripts /\ 1 .. closed[tgt.path] \subseteq Covered(tgt.path)
<1> DEFINE S == {b \in 1 .. closed[tgt.path] : b > tgt.cursor}
           F == First(MaxPerSweep, S)
           below(c) == {d \in S : d < c}
<1>1. /\ tgt.path \in Transcripts /\ tgt.cursor \in Unseeded .. MaxBlocks
      /\ 1 .. tgt.cursor \subseteq Covered(tgt.path)
  BY DEF BlockInv, SweepInv, SweeperSafe, SweepRecords
<1>2. closed[tgt.path] \in 0 .. MaxBlocks /\ tgt.cursor \in Int
  BY <1>1, Sizes DEF BlockInv, WorldTypes, Numbers, Unseeded
<1>3. S \in SUBSET Nat /\ F \subseteq S
  BY <1>2 DEF First
<1>4. F \subseteq refused /\ F \subseteq Refusable
  BY DEF Answer, BlockInv, WorldTypes
<1>5. IsFiniteSet(Refusable) /\ Cardinality(Refusable) < MaxPerSweep /\ MaxPerSweep \in Nat
  BY EmitterAssumption
<1> HIDE DEF S, F
<1>6. S \subseteq F
  <2> SUFFICES ASSUME S \ F # {} PROVE FALSE
    OBVIOUS
  <2>1. PICK c \in S \ F : \A d \in S \ F : c <= d
    BY <1>3, HasLeast
  <2>2. below(c) \subseteq Refusable
    <3>1. c \in Nat /\ \A d \in S : d \in Nat
      BY <1>3, <2>1
    <3>2. \A d \in S : d < c => d \in F
      BY <2>1, <3>1
    <3> QED BY <1>4, <3>2
  <2> HIDE DEF below
  <2>3. Cardinality(below(c)) <= Cardinality(Refusable) /\ IsFiniteSet(below(c))
    BY <1>5, <2>2, FS_Subset
  <2>4. Cardinality(below(c)) \in Nat /\ Cardinality(Refusable) \in Nat
    BY <1>5, <2>3, FS_CardinalityType
  <2>5. Cardinality(below(c)) < MaxPerSweep
    BY <1>5, <2>3, <2>4
  <2> QED BY <2>1, <2>5 DEF below, F, First
<1>7. 1 .. closed[tgt.path] \subseteq 1 .. tgt.cursor \cup S
  BY <1>2 DEF S
<1> QED BY <1>1, <1>4, <1>6, <1>7 DEF Covered

\* What Atlas misses of a transcript that does not grow only gets less.
LEMMA UnsentShrinks ==
  ASSUME WorldTypes, WorldTypes', Grows, NEW t \in Transcripts, begun'[t] = begun[t]
  PROVE  Unsent(t)' \subseteq Unsent(t)
BY CoveredGrows DEF Unsent, Covered

\* Steps that leave the signal and the active set alone, make nobody retire, and
\* age no entry.
LEMMA SettledKept ==
  ASSUME BlockInv, WorldTypes', SettledInv, Grows,
         UNCHANGED <<begun, closed, signal, noting, active, lost>>,
         \A t \in Transcripts : seen'[t] \in {seen[t], Fresh},
         \A s \in Sweepers : sweep'[s].step = "retire" =>
           sweep[s].step = "retire" /\ sweep'[s].at = sweep[s].at
  PROVE  SettledInv'
<1>1. \A t \in Transcripts : Unsent(t)' \subseteq Unsent(t)
  BY UnsentShrinks DEF BlockInv
<1>2. \A t \in Transcripts : Unsent(t) = {} => Unsent(t)' = {}
  BY <1>1
<1> HIDE DEF Unsent
<1> QED BY <1>2 DEF SettledInv

\* The world, the signal and the clock.
LEMMA SettledWorld ==
  ASSUME BlockInv, WorldTypes', SettledInv, NEW t \in Transcripts,
         Write(t) \/ Close(t) \/ Age(t) \/ Note(t) \/ Activate(t)
  PROVE  SettledInv'
<1>0. begun \in Numbers /\ closed \in Numbers /\ seen \in [Transcripts -> Fresh .. Retained]
      /\ \A u \in noting : seen[u] = Fresh
  BY DEF BlockInv, WorldTypes, EntryTypes, EntryInv
<1>1. \A u \in Transcripts : begun'[u] = begun[u] => Unsent(u)' = Unsent(u)
  BY DEF Unsent, Write, Close, Age, Note, Activate, worldVars, histVars
<1>2. UNCHANGED sweep
  BY DEF Write, Close, Age, Note, Activate
<1>3. CASE Write(t)
  <2>1. UNCHANGED <<noting, active, lost, seen>> /\ signal' = signal \cup {t}
    BY <1>3 DEF Write, entryVars, histVars
  <2>2. \A u \in Transcripts : u # t => begun'[u] = begun[u] /\ closed'[u] = closed[u]
    BY <1>0, <1>3 DEF Write, Numbers
  <2> HIDE DEF Unsent
  <2> QED BY <1>1, <1>2, <2>1, <2>2 DEF SettledInv
<1>4. CASE Close(t)
  <2>1. UNCHANGED <<begun, noting, active, lost, seen, signal>>
    BY <1>4 DEF Close, entryVars, histVars
  <2>2. closed'[t] = begun'[t] /\ \A u \in Transcripts : u # t => closed'[u] = closed[u]
    BY <1>0, <1>4 DEF Close, Numbers
  <2> HIDE DEF Unsent
  <2> QED BY <1>1, <1>2, <2>1, <2>2 DEF SettledInv
<1>5. CASE Age(t)
  <2>1. UNCHANGED <<begun, closed, noting, active, lost, signal>> /\ closed[t] = begun[t]
    BY <1>5 DEF Age, worldVars, histVars
  <2>2. \A u \in Transcripts : u # t => seen'[u] = seen[u]
    BY <1>0, <1>5 DEF Age
  <2>3. \A s \in Sweepers : sweep[s].step = "idle"
    BY <1>5 DEF Age, Idle, Sweeper
  <2> HIDE DEF Unsent
  <2> QED BY <1>1, <1>2, <2>1, <2>2, <2>3 DEF SettledInv
<1>6. CASE Note(t)
  <2>1. /\ UNCHANGED <<begun, closed, active, lost>>
        /\ noting' = noting \cup {t} /\ signal' = signal \ {t}
    BY <1>6 DEF Note, histVars
  <2>2. seen'[t] = Fresh /\ \A u \in Transcripts : u # t => seen'[u] = seen[u]
    BY <1>0, <1>6 DEF Note
  <2> HIDE DEF Unsent
  <2> QED BY <1>1, <1>2, <2>1, <2>2 DEF SettledInv
<1>7. CASE Activate(t)
  <2>1. /\ UNCHANGED <<begun, closed, signal, seen>> /\ seen[t] = Fresh
        /\ noting' = noting \ {t} /\ active' = active \cup {t} /\ lost' = lost \ {t}
    BY <1>0, <1>7 DEF Activate, worldVars, entryVars
  <2> HIDE DEF Unsent
  <2> QED BY <1>1, <1>2, <2>1 DEF SettledInv
<1> QED BY <1>3, <1>4, <1>5, <1>6, <1>7

\* A sweeper that moves without retiring anything.
LEMMA SettledMove ==
  ASSUME BlockInv, WorldTypes', SettledInv, Grows, NEW s \in Sweepers, OnlyMoves(s),
         UNCHANGED <<worldVars, noting, active, seen, lost>>,
         sweep'[s].step # "retire"
  PROVE  SettledInv'
<1>1. \A o \in Sweepers : sweep'[o].step = "retire" =>
        sweep[o].step = "retire" /\ sweep'[o].at = sweep[o].at
  BY DEF OnlyMoves
<1> QED BY <1>1, SettledKept DEF worldVars

\* The answer: who goes on to retire has seen that nothing is left.
LEMMA SettledAsk ==
  ASSUME BlockInv, WorldTypes', SettledInv, NEW s \in Sweepers, NEW tgt \in sweep[s].todo, Ask(s, tgt)
  PROVE  SettledInv'
<1>1. /\ Answer(tgt) # {} \/ seen[tgt.path] >= Settled
      /\ UNCHANGED <<worldVars, atlas, noting, active, entryVars, disk, keep, faults, histVars>>
  BY DEF Ask
<1>2. \A t \in Transcripts : Unsent(t)' = Unsent(t)
  BY <1>1 DEF Unsent, worldVars, histVars
<1>3. /\ \A o \in Sweepers : o # s => sweep'[o] = sweep[o]
      /\ sweep'[s].step = IF Answer(tgt) = {} THEN "retire" ELSE "publish"
      /\ sweep'[s].at = tgt.path
  BY DEF Ask, BlockInv, SweepInv, Sweeper
<1>4. ASSUME Answer(tgt) = {}
      PROVE  \/ seen[tgt.path] = Fresh \/ Unsent(tgt.path) = {} \/ tgt.path \in signal \cup lost
  <2>1. tgt.path \in Transcripts /\ 1 .. closed[tgt.path] \subseteq Covered(tgt.path)
    BY <1>4, NothingLeft
  <2>2. closed[tgt.path] = begun[tgt.path] => Unsent(tgt.path) = {}
    BY <2>1 DEF Unsent, Covered
  <2> QED BY <2>1, <2>2 DEF SettledInv
<1> HIDE DEF Unsent
<1> QED BY <1>1, <1>2, <1>3, <1>4 DEF SettledInv, worldVars, entryVars, histVars

\* A retirement: the transcript has nothing left, or is known to be lost.
LEMMA SettledRetire ==
  ASSUME BlockInv, WorldTypes', SettledInv, NEW s \in Sweepers, Retire(s)
  PROVE  SettledInv'
<1> DEFINE p == sweep[s].at
<1>1. /\ p \in Transcripts /\ sweep[s].step = "retire" /\ Done(s) /\ active' = active \ {p}
      /\ lost' = IF seen[p] = Fresh THEN lost \cup {p} ELSE lost
      /\ UNCHANGED <<worldVars, atlas, noting, entryVars, skipped>>
  BY DEF Retire, BlockInv, SweepInv, SweeperSafe
<1>2. \A t \in Transcripts : Unsent(t)' = Unsent(t)
  BY <1>1 DEF Unsent, worldVars
<1>3. /\ \A o \in Sweepers : o # s => sweep'[o] = sweep[o]
      /\ sweep'[s].step = "next"
  BY <1>1, DoneMoves DEF BlockInv, OnlyMoves
<1>4. seen[p] = Fresh \/ Unsent(p) = {} \/ p \in signal \cup lost
  BY <1>1 DEF SettledInv
<1>5. seen[p] = Fresh \/ closed[p] = begun[p] \/ p \in signal \cup lost
  BY <1>1 DEF SettledInv
<1>6. lost \subseteq lost' /\ (seen[p] = Fresh => p \in lost')
  BY <1>1
<1> HIDE DEF Unsent, p
<1> QED BY <1>1, <1>2, <1>3, <1>4, <1>5, <1>6 DEF SettledInv, worldVars, entryVars

\* A restart loses what was active.
LEMMA SettledRestart ==
  ASSUME BlockInv, SettledInv, Restart
  PROVE  SettledInv'
<1>1. /\ noting' = {} /\ active' = {} /\ lost' = lost \cup active \cup noting
      /\ sweep' = [s \in Sweepers |-> Idle]
      /\ UNCHANGED <<worldVars, atlas, skipped>>
  BY DEF Restart
<1>2. \A t \in Transcripts : Unsent(t)' = Unsent(t)
  BY <1>1 DEF Unsent, worldVars
<1>3. \A s \in Sweepers : sweep'[s].step = "idle"
  BY <1>1 DEF Idle, Sweeper
<1> HIDE DEF Unsent
<1> QED BY <1>1, <1>2, <1>3 DEF SettledInv, worldVars

\* SettledInv is inductive, given BlockInv.
LEMMA SettledInvStep == BlockInv /\ BlockInv' /\ SettledInv /\ [Next]_vars => SettledInv'
<1> SUFFICES ASSUME BlockInv, BlockInv', SettledInv, [Next]_vars PROVE SettledInv'
  OBVIOUS
<1>0. WorldTypes' /\ SweepInv
  BY DEF BlockInv
<1>1. \A t \in Transcripts : skipped[t] <= skipped[t]
  BY Sizes DEF BlockInv, WorldTypes, Numbers
<1>2. ASSUME NEW t \in Transcripts, SweepPath(t) PROVE SettledInv'
  <2>1. \A o \in Sweepers : sweep'[o].step = "retire" =>
          sweep[o].step = "retire" /\ sweep'[o].at = sweep[o].at
    BY <1>0, <1>2 DEF SweepPath, SweepInv, Sweeper
  <2>2. UNCHANGED <<worldVars, atlas, noting, active, entryVars, skipped, lost>>
    BY <1>2 DEF SweepPath
  <2>3. Grows
    BY <1>1, <2>2 DEF Grows, worldVars
  <2> QED BY <1>0, <2>1, <2>2, <2>3, SettledKept DEF worldVars, entryVars
<1>3. CASE Sweep
  <2>1. \A o \in Sweepers : sweep'[o].step = "retire" =>
          sweep[o].step = "retire" /\ sweep'[o].at = sweep[o].at
    BY <1>0, <1>3 DEF Sweep, SweepInv, Sweeper
  <2>2. UNCHANGED <<worldVars, atlas, noting, active, entryVars, histVars>>
    BY <1>3 DEF Sweep
  <2>3. Grows
    BY <1>1, <2>2 DEF Grows, worldVars, histVars
  <2> QED BY <1>0, <2>1, <2>2, <2>3, SettledKept DEF worldVars, entryVars, histVars
<1>4. ASSUME NEW s \in Sweepers, Sweeping(s) PROVE SettledInv'
  <2>1. ASSUME NEW tgt \in sweep[s].todo, AskFails(s, tgt) \/ AskNothing(s, tgt) PROVE SettledInv'
    <3>1. /\ Drop(s, tgt) /\ sweep[s].step = "next"
          /\ UNCHANGED <<worldVars, atlas, noting, active, entryVars, histVars>>
      BY <2>1 DEF AskFails, AskNothing, Take
    <3>2. Grows
      BY <1>1, <3>1 DEF Grows, worldVars, histVars
    <3>3. OnlyMoves(s) /\ sweep'[s].step = "next"
      BY <1>0, <3>1, DropMoves
    <3> QED BY <1>0, <3>1, <3>2, <3>3, SettledMove DEF entryVars, histVars
  <2>2. ASSUME NEW tgt \in sweep[s].todo, Seed(s, tgt) PROVE SettledInv'
    <3>1. /\ Drop(s, tgt) /\ sweep[s].step = "next"
          /\ UNCHANGED <<worldVars, atlas, noting, active, seen, lost>>
      BY <2>2 DEF Seed, Take
    <3>2. \A t \in Transcripts : skipped[t] <= skipped'[t]
      <4>1. /\ skipped' = skipped \/ skipped' = [skipped EXCEPT ![tgt.path] = begun[tgt.path]]
            /\ skipped \in Numbers /\ \A t \in Transcripts : skipped[t] <= begun[t]
        BY <2>2 DEF Seed, BlockInv, WorldTypes
      <4> QED BY <1>1, <4>1 DEF Numbers
    <3>3. Grows
      BY <3>1, <3>2 DEF Grows, worldVars
    <3>4. OnlyMoves(s) /\ sweep'[s].step = "next"
      BY <1>0, <3>1, DropMoves
    <3> QED BY <1>0, <3>1, <3>3, <3>4, SettledMove
  <2>3. ASSUME NEW tgt \in sweep[s].todo, Ask(s, tgt) PROVE SettledInv'
    BY <1>0, <2>3, SettledAsk
  <2>4. CASE Retire(s)
    BY <1>0, <2>4, SettledRetire
  <2>5. CASE SendFails(s) \/ Send(s)
    <3>1. /\ sweep[s].step = "publish" /\ (Arrive(s) \/ UNCHANGED atlas)
          /\ (Done(s) \/ Goto(s, "advance"))
          /\ UNCHANGED <<worldVars, noting, active, entryVars, histVars>>
      BY <2>5 DEF SendFails, Send
    <3>2. Grows
      BY <3>1, ArriveGrows DEF histVars
    <3>3. OnlyMoves(s) /\ sweep'[s].step # "retire"
      BY <1>0, <3>1, DoneMoves, GotoMoves DEF Steps
    <3> QED BY <1>0, <3>1, <3>2, <3>3, SettledMove DEF entryVars, histVars
  <2>6. CASE Advance(s)
    <3>1. NextChunk(s) /\ UNCHANGED <<worldVars, atlas, noting, active, seen, histVars>>
      BY <2>6 DEF Advance
    <3>2. Grows
      BY <1>1, <3>1 DEF Grows, worldVars, histVars
    <3>3. \A o \in Sweepers : sweep'[o].step = "retire" =>
            sweep[o].step = "retire" /\ sweep'[o].at = sweep[o].at
      BY <1>0, <3>1 DEF NextChunk, Done, Sweeper, SweepInv
    <3> QED BY <1>0, <3>1, <3>2, <3>3, SettledKept DEF worldVars, histVars
  <2>7. CASE Marshal(s) \/ WriteFile(s) \/ WriteFails(s)
    <3>1. /\ sweep' \in {[sweep EXCEPT ![s] = Idle], [sweep EXCEPT ![s] = Writing(Memory)]}
          /\ UNCHANGED <<worldVars, atlas, noting, active, seen, histVars>>
      BY <2>7 DEF Marshal, WriteFile, WriteFails, entryVars
    <3>2. Grows
      BY <1>1, <3>1 DEF Grows, worldVars, histVars
    <3>3. \A o \in Sweepers : sweep'[o].step = "retire" =>
            sweep[o].step = "retire" /\ sweep'[o].at = sweep[o].at
      BY <1>0, <3>1 DEF Idle, Writing, Sweeper, SweepInv
    <3> QED BY <1>0, <3>1, <3>2, <3>3, SettledKept DEF worldVars, histVars
  <2>8. CASE Look \/ Prune
    <3>1. /\ Goto("timer", "prune") \/ Goto("timer", "save")
          /\ UNCHANGED <<worldVars, atlas, noting, active, histVars>>
          /\ \A t \in Transcripts : seen'[t] \in {seen[t], Fresh}
      BY <2>8 DEF Look, Prune, entryVars
    <3>2. Grows
      BY <1>1, <3>1 DEF Grows, worldVars, histVars
    <3>3. \A o \in Sweepers : sweep'[o].step = "retire" =>
            sweep[o].step = "retire" /\ sweep'[o].at = sweep[o].at
      BY <1>0, <3>1, GotoMoves DEF OnlyMoves, Sweepers, Steps
    <3> QED BY <1>0, <3>1, <3>2, <3>3, SettledKept DEF worldVars, histVars
  <2> QED BY <1>4, <2>1, <2>2, <2>3, <2>4, <2>5, <2>6, <2>7, <2>8 DEF Sweeping
<1>5. CASE UNCHANGED vars
  <2>1. Grows
    BY <1>1, <1>5 DEF Grows, vars, worldVars, histVars
  <2> QED BY <1>0, <1>5, <2>1, SettledKept DEF vars, worldVars, entryVars, histVars
<1> QED BY <1>0, <1>2, <1>3, <1>4, <1>5, SettledWorld, SettledRestart DEF Next
-----------------------------------------------------------------------------
(* The theorems. *)

\* Every reachable state satisfies the invariant.
THEOREM BlockInvariance == Spec => []BlockInv
<1>1. Init => BlockInv
  BY InitBlockInv
<1>2. BlockInv /\ [Next]_vars => BlockInv'
  BY BlockInvStep
<1> QED BY <1>1, <1>2, PTL DEF Spec

\* No cursor is past a block that Atlas misses: publish first, then advance, on
\* pages that are closed downwards.
THEOREM CursorsSafe == Spec => []CursorSafe
<1>1. BlockInv => CursorSafe
  BY DEF BlockInv, CursorInv, SweepInv, SweeperSafe, CursorSafe, Behind, Covered
<1> QED BY <1>1, BlockInvariance, PTL

\* An active transcript has an entry, whatever the prune saw.
THEOREM ActiveHasEntryAlways == Spec => []ActiveHasEntry
<1>1. BlockInv => ActiveHasEntry
  BY DEF BlockInv, EntryInv
<1> QED BY <1>1, BlockInvariance, PTL

\* The types.
THEOREM BlockTypeCorrect == Spec => []BlockTypeOK
<1>1. BlockInv => BlockTypeOK
  <2> SUFFICES ASSUME BlockInv PROVE BlockTypeOK
    OBVIOUS
  <2>1. Memory \in Entries
    BY DEF BlockInv, EntryTypes, Memory, Entries
  <2>2. /\ sweep \in [Sweepers -> SweepRecords]
        /\ \A s \in Sweepers : (sweep[s].page # {}) = (sweep[s].step \in {"publish", "advance"})
    BY DEF BlockInv, SweepInv, SweeperSafe
  <2> HIDE DEF Memory
  <2> QED BY <2>1, <2>2
          DEF BlockInv, WorldTypes, EntryTypes, BoundTypes, BlockTypeOK, SweepRecords, Steps
<1> QED BY <1>1, BlockInvariance, PTL

\* A transcript with a block that Atlas misses stays active, or is about to be:
\* no page, no failure, no prune and no retirement forgets one, but for a restart
\* and for a turn that falls between the two locks of a retirement.
THEOREM ActiveUntilSent == Spec => []StaysActive
<1>1. Init => SettledInv
  BY DEF Init, SettledInv, Unsent, Idle, Sweeper
<1>2. BlockInv /\ BlockInv' /\ SettledInv /\ [Next]_vars => SettledInv'
  BY SettledInvStep
<1>3. SettledInv => StaysActive
  BY DEF SettledInv, StaysActive
<1> QED BY <1>1, <1>2, <1>3, BlockInvariance, PTL DEF Spec
=============================================================================
