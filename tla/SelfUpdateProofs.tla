-------------------------- MODULE SelfUpdateProofs --------------------------
(***************************************************************************)
(* Theorems about SelfUpdate, for all releases and bounds, wherever the    *)
(* process dies: a copy of the agent is left, no attempt installs a        *)
(* release that a start has begun to roll back, and what a daemon at rest  *)
(* uses is of one version, but for the keld beside a release without one,  *)
(* unless one of four named mishaps mixed it.                              *)
(***************************************************************************)
EXTENDS SelfUpdate, TLAPS

Arts == {"sidecar", "keld", "agent"}
Steps == {"off", "idle", "fetch", "displace", "install", "record", "migrate", "restart", "undo",
          "restore", "commit"}

JobTypes ==
  /\ DOMAIN job = {"to", "todo", "had", "moves", "errs", "restored", "starting"}
  /\ job.to \in Versions /\ job.todo \in Seq(Arts) /\ job.had \in BOOLEAN
  /\ job.moves \in Seq([art : Arts, had : BOOLEAN])
  /\ job.errs \in BOOLEAN /\ job.restored \in BOOLEAN /\ job.starting \in BOOLEAN

MarkerTypes ==
  /\ DOMAIN marker = {"pending", "to", "prev", "stale", "recent", "failed"}
  /\ marker.pending \in BOOLEAN /\ marker.stale \in BOOLEAN /\ marker.recent \in BOOLEAN
  /\ marker.to \in Versions /\ marker.prev \in Seq(Arts)
  /\ marker.failed \in Seq(Versions) /\ Len(marker.failed) <= MaxFailed

DiskTypes ==
  /\ place \in [Arts -> Versions \cup {None}] /\ parked \in [Arts -> Versions \cup {None}]
  /\ service \in {"first", "own"}

StepTypes ==
  /\ running \in Versions \cup {None} /\ step \in Steps
  /\ (running = None) <=> (step = "off")
  /\ hasSidecar \in BOOLEAN
  /\ pin \in Versions /\ kit \in {Arts, {"keld", "agent"}}

\* What may be left of a plan.
Plans == {<<"sidecar", "keld", "agent">>, <<"keld", "agent">>, <<"sidecar", "agent">>, <<"agent">>}

\* Where an attempt is in its work, and what its next step relies on.
PhaseInv ==
  /\ step \in {"displace", "install"} => job.todo \in Plans
  /\ step = "record" => job.todo = <<>>
  /\ step = "install" => place[art] = None /\ (job.had => parked[art] # None)
  /\ step \in {"record", "migrate"} => place["agent"] = job.to
  /\ step = "restore" => job.moves # <<>> /\ move.had /\ parked[move.art] # None
  /\ step \in {"off", "idle", "fetch", "commit"} => job.moves = <<>>

Types == JobTypes /\ MarkerTypes /\ DiskTypes /\ StepTypes /\ PhaseInv

LEMMA Constants ==
  /\ Base \in Versions /\ None \notin Versions /\ MaxFailed \in Nat /\ MaxFailed > 0
BY UpdateAssumption

LEMMA ArtsAre == Artifacts = Arts
BY DEF Artifacts, Arts

\* The job and the marker of a daemon at rest.
LEMMA NoJobTypes ==
  /\ DOMAIN NoJob = {"to", "todo", "had", "moves", "errs", "restored", "starting"}
  /\ NoJob.to \in Versions /\ NoJob.todo = <<>> /\ NoJob.had = FALSE /\ NoJob.moves = <<>>
  /\ NoJob.errs = FALSE /\ NoJob.restored = FALSE /\ NoJob.starting = FALSE
  /\ NoJob.todo \in Seq(Arts) /\ NoJob.moves \in Seq([art : Arts, had : BOOLEAN])
BY Constants DEF NoJob

LEMMA NoMarkerTypes ==
  /\ DOMAIN NoMarker = {"pending", "to", "prev", "stale", "recent", "failed"}
  /\ NoMarker.pending = FALSE /\ NoMarker.to \in Versions /\ NoMarker.prev \in Seq(Arts)
  /\ NoMarker.stale = FALSE /\ NoMarker.recent = FALSE
  /\ NoMarker.failed \in Seq(Versions) /\ Len(NoMarker.failed) <= MaxFailed
BY Constants DEF NoMarker

\* A state that could not be read is saved over.
LEMMA LostMarker ==
  ASSUME marker' = NoMarker \/ marker' = [NoMarker EXCEPT !.recent = TRUE]
  PROVE  MarkerTypes' /\ marker'.pending = FALSE
<1>1. /\ DOMAIN marker' = DOMAIN NoMarker /\ marker'.pending = FALSE /\ marker'.to = NoMarker.to
      /\ marker'.prev = NoMarker.prev /\ marker'.stale = FALSE /\ marker'.recent \in BOOLEAN
      /\ marker'.failed = NoMarker.failed
  BY NoMarkerTypes
<1> QED BY <1>1, NoMarkerTypes DEF MarkerTypes

LEMMA RestTypes == ASSUME job' = NoJob PROVE JobTypes' /\ job'.moves = <<>>
BY NoJobTypes DEF JobTypes

\* Swap.Rollback goes over the completed moves backwards.
LEMMA UndoingJob ==
  ASSUME JobTypes, Undoing
  PROVE  /\ JobTypes' /\ step' = "undo" /\ job'.to = job.to /\ job'.starting = job.starting
         /\ Len(job'.moves) = Len(job.moves)
         /\ \A i \in DOMAIN job'.moves : \E j \in DOMAIN job.moves : job'.moves[i] = job.moves[j]
<1> DEFINE M == [art : Arts, had : BOOLEAN]
           back == Reverse(job.moves)
<1>1. /\ step' = "undo" /\ job'.todo = <<>> /\ job'.moves = back /\ job'.to = job.to
      /\ job'.starting = job.starting /\ job'.had = job.had /\ job'.errs = job.errs
      /\ job'.restored = job.restored /\ DOMAIN job' = DOMAIN job
  BY DEF Undoing, JobTypes
<1>2. job.moves \in Seq(M) /\ Len(job.moves) \in Nat
  BY DEF JobTypes
<1>3. back = [i \in 1 .. Len(job.moves) |-> job.moves[(Len(job.moves) - i) + 1]]
  BY DEF Reverse
<1> HIDE DEF M, back
<1>4. /\ back \in Seq(M) /\ Len(back) = Len(job.moves)
      /\ \A i \in DOMAIN back : \E j \in DOMAIN job.moves : back[i] = job.moves[j]
  <2>1. \A i \in 1 .. Len(job.moves) : (Len(job.moves) - i) + 1 \in 1 .. Len(job.moves)
    BY <1>2
  <2>2. \A i \in 1 .. Len(job.moves) : back[i] = job.moves[(Len(job.moves) - i) + 1]
    BY <1>3
  <2>3. back \in [1 .. Len(job.moves) -> M]
    BY <1>2, <1>3, <2>1
  <2>4. DOMAIN back = 1 .. Len(job.moves) /\ DOMAIN job.moves = 1 .. Len(job.moves)
    BY <1>2, <2>3
  <2>5. back \in Seq(M) /\ Len(back) = Len(job.moves)
    BY <1>2, <2>3
  <2> QED BY <2>1, <2>2, <2>4, <2>5
<1>5. <<>> \in Seq(Arts)
  OBVIOUS
<1> QED BY <1>1, <1>4, <1>5 DEF JobTypes, M

Attempting == step \in {"fetch", "displace", "install", "record"}

\* AgentKept, and why a step back never takes the last copy: an entry says that
\* no agent was displaced only where another copy is parked, or none is in use.
SwapInv ==
  /\ AgentKept
  /\ step \in {"displace", "install"} => \A i \in DOMAIN job.moves : job.moves[i].art # "agent"
  /\ \A i, j \in DOMAIN job.moves :
       job.moves[i].art = "agent" /\ job.moves[j].art = "agent" => job.moves[i].had = job.moves[j].had
  /\ step # "restart" =>
       \A i \in DOMAIN job.moves :
         job.moves[i].art = "agent" /\ ~job.moves[i].had => service = "first" \/ parked["agent"] # None
  /\ step = "commit" /\ service = "own" => place["agent"] # None

\* NotRetried, and why a start recognises the release it has begun to roll back:
\* the marker names it until the list of failures does.
RetryInv ==
  /\ Attempting => ~job.starting /\ ~marker.pending /\ job.to \notin rolled
  /\ Attempting \/ step = "migrate" \/ (step \in {"undo", "restore"} /\ ~job.starting) =>
       pin \notin rolled
  /\ step = "migrate" =>
       service = "first" /\ marker.pending /\ marker.to = job.to /\ marker.to \notin rolled
  /\ step \in {"undo", "restore"} =>
       (job.starting => marker.pending) /\ (marker.pending => service = "first" \/ marker.stale)
  /\ step = "commit" => marker.pending /\ marker.to \notin rolled
  /\ pin \in rolled => (marker.pending /\ marker.to = pin) \/ (~marker.pending /\ HasFailed(pin))
  /\ marker.pending /\ marker.to \in rolled => marker.stale \/ service = "first"
  /\ marker.pending /\ ~marker.stale /\ service = "own" => place["agent"] = marker.to
  /\ service = "first" =>
       /\ running # None => running = Base
       /\ marker.pending => marker.to # Base
       /\ Attempting \/ step = "migrate" => job.to # Base

LEMMA At == ASSUME NEW S, NEW s \in Seq(S), NEW i \in DOMAIN s PROVE s[i] \in S
OBVIOUS

LEMMA TailOf ==
  ASSUME NEW S, NEW s \in Seq(S), s # <<>>
  PROVE  /\ Tail(s) \in Seq(S) /\ Len(Tail(s)) = Len(s) - 1 /\ Head(s) = s[1] /\ 1 \in DOMAIN s
         /\ \A i \in DOMAIN Tail(s) : i + 1 \in DOMAIN s /\ Tail(s)[i] = s[i + 1]
<1>1. Len(s) \in Nat /\ Len(s) # 0 /\ DOMAIN s = 1 .. Len(s)
  OBVIOUS
<1>2. Tail(s) \in Seq(S) /\ Len(Tail(s)) = Len(s) - 1
  OBVIOUS
<1>3. DOMAIN Tail(s) = 1 .. (Len(s) - 1)
  BY <1>2
<1>4. \A i \in 1 .. (Len(s) - 1) : Tail(s)[i] = s[i + 1]
  BY <1>1
<1> QED BY <1>1, <1>2, <1>3, <1>4

LEMMA AppendOf ==
  ASSUME NEW S, NEW s \in Seq(S), NEW x \in S
  PROVE  /\ Append(s, x) \in Seq(S) /\ Len(Append(s, x)) = Len(s) + 1
         /\ \A i \in DOMAIN Append(s, x) : (i \in DOMAIN s /\ Append(s, x)[i] = s[i])
                                           \/ (i = Len(s) + 1 /\ Append(s, x)[i] = x)
<1>1. Len(s) \in Nat /\ DOMAIN s = 1 .. Len(s)
  OBVIOUS
<1>2. Append(s, x) \in Seq(S) /\ Len(Append(s, x)) = Len(s) + 1
  OBVIOUS
<1>3. DOMAIN Append(s, x) = 1 .. (Len(s) + 1)
  BY <1>2
<1>4. \A i \in 1 .. (Len(s) + 1) : Append(s, x)[i] = IF i <= Len(s) THEN s[i] ELSE x
  BY <1>1
<1> QED BY <1>1, <1>2, <1>3, <1>4

\* One move is done with, well or not.
LEMMA HandledJob ==
  ASSUME JobTypes, job.moves # <<>>, NEW bad \in BOOLEAN, Handled(bad)
  PROVE  /\ JobTypes' /\ job'.to = job.to /\ job'.starting = job.starting
         /\ job'.moves = Tail(job.moves)
<1>1. /\ DOMAIN job' = DOMAIN job /\ job'.to = job.to /\ job'.starting = job.starting
      /\ job'.moves = Tail(job.moves) /\ job'.todo = job.todo /\ job'.had = job.had
  BY DEF Handled, JobTypes
<1>2. job'.errs = (job.errs \/ bad)
  BY DEF Handled, JobTypes
<1>3. job'.restored = (job.restored \/ ~bad)
  BY DEF Handled, JobTypes
<1>4. (job.errs \/ bad) \in BOOLEAN /\ (job.restored \/ ~bad) \in BOOLEAN
  OBVIOUS
<1>5. job'.errs \in BOOLEAN /\ job'.restored \in BOOLEAN
  BY <1>2, <1>3, <1>4
<1>6. Tail(job.moves) \in Seq([art : Arts, had : BOOLEAN])
  BY TailOf DEF JobTypes
<1> QED BY <1>1, <1>5, <1>6 DEF JobTypes

LEMMA MoveTypes ==
  ASSUME JobTypes, job.moves # <<>>
  PROVE  move = job.moves[1] /\ 1 \in DOMAIN job.moves /\ move.art \in Arts /\ move.had \in BOOLEAN
<1>1. move = job.moves[1] /\ 1 \in DOMAIN job.moves
  BY TailOf DEF JobTypes, move
<1>2. job.moves \in Seq([art : Arts, had : BOOLEAN])
  BY DEF JobTypes
<1>3. job.moves[1] \in [art : Arts, had : BOOLEAN]
  BY <1>1, <1>2, At
<1> QED BY <1>1, <1>3

LEMMA PlanSets ==
  /\ ToSet(<<>>) = {} /\ ToSet(<<"agent">>) = {"agent"}
  /\ ToSet(<<"keld", "agent">>) = {"keld", "agent"}
  /\ ToSet(<<"sidecar", "agent">>) = {"sidecar", "agent"}
  /\ ToSet(<<"sidecar", "keld", "agent">>) = {"sidecar", "keld", "agent"}
<1>1. \A s : ToSet(s) = {s[i] : i \in DOMAIN s}
  BY DEF ToSet
<1>2. /\ DOMAIN <<>> = {} /\ DOMAIN <<"agent">> = {1} /\ DOMAIN <<"keld", "agent">> = {1, 2}
      /\ DOMAIN <<"sidecar", "agent">> = {1, 2} /\ DOMAIN <<"sidecar", "keld", "agent">> = {1, 2, 3}
  OBVIOUS
<1> QED BY <1>1, <1>2

LEMMA PlansSeq == \A s \in Plans : s \in Seq(Arts)
<1>1. /\ <<"sidecar", "keld", "agent">> \in Seq(Arts) /\ <<"keld", "agent">> \in Seq(Arts)
      /\ <<"sidecar", "agent">> \in Seq(Arts) /\ <<"agent">> \in Seq(Arts)
  BY DEF Arts
<1> QED BY <1>1, Zenon DEF Plans

LEMMA Prefixed ==
  ASSUME NEW S, NEW x \in S, NEW y \in S, NEW z \in S
  PROVE  <<x>> \o <<z>> = <<x, z>> /\ <<x>> \o <<y, z>> = <<x, y, z>>
<1>1. <<x>> \in Seq(S) /\ <<z>> \in Seq(S) /\ <<y, z>> \in Seq(S)
      /\ Len(<<x>>) = 1 /\ Len(<<z>>) = 1 /\ Len(<<y, z>>) = 2
  OBVIOUS
<1>2. <<x>> \o <<z>> = <<x, z>>
  <2> DEFINE s == <<x>> \o <<z>>
  <2>1. s \in Seq(S) /\ Len(s) = 2 /\ s[1] = x /\ s[2] = z
    BY <1>1
  <2> HIDE DEF s
  <2>2. s = <<x, z>>
    BY <2>1
  <2> QED BY <2>2 DEF s
<1>3. <<x>> \o <<y, z>> = <<x, y, z>>
  <2> DEFINE s == <<x>> \o <<y, z>>
  <2>1. s \in Seq(S) /\ Len(s) = 3 /\ s[1] = x /\ s[2] = y /\ s[3] = z
    BY <1>1
  <2> HIDE DEF s
  <2>2. s = <<x, y, z>>
    BY <2>1
  <2> QED BY <2>2 DEF s
<1> QED BY <1>2, <1>3

LEMMA PlanTypes ==
  ASSUME NEW v, hasSidecar \in BOOLEAN
  PROVE  /\ Plan(v) \in Plans
         /\ \A a \in Arts : (a = "sidecar" => hasSidecar) /\ (a = "keld" => v \notin Keldless)
                          => a \in ToSet(Plan(v))
<1>1. <<"sidecar">> \o <<"agent">> = <<"sidecar", "agent">>
      /\ <<"sidecar">> \o <<"keld", "agent">> = <<"sidecar", "keld", "agent">>
      /\ <<>> \o <<"agent">> = <<"agent">> /\ <<>> \o <<"keld", "agent">> = <<"keld", "agent">>
  <2>1. "sidecar" \in Arts /\ "keld" \in Arts /\ "agent" \in Arts
    BY DEF Arts
  <2>2. <<"keld", "agent">> \in Seq(Arts) /\ <<"agent">> \in Seq(Arts)
    BY DEF Arts
  <2>3. <<"sidecar">> \o <<"agent">> = <<"sidecar", "agent">>
        /\ <<"sidecar">> \o <<"keld", "agent">> = <<"sidecar", "keld", "agent">>
    BY <2>1, Prefixed
  <2> QED BY <2>2, <2>3
<1>2. Plan(v) = IF hasSidecar
                THEN IF v \in Keldless THEN <<"sidecar", "agent">> ELSE <<"sidecar", "keld", "agent">>
                ELSE IF v \in Keldless THEN <<"agent">> ELSE <<"keld", "agent">>
  BY <1>1, Zenon DEF Plan
<1> QED BY <1>2, PlanSets DEF Plans, Arts

\* The artifact in hand, and what is left after it.
LEMMA ArtTypes ==
  ASSUME PhaseInv, step \in {"displace", "install"}
  PROVE  /\ art \in Arts /\ Tail(job.todo) \in Seq(Arts)
         /\ ToSet(job.todo) = {art} \cup ToSet(Tail(job.todo)) /\ art \notin ToSet(Tail(job.todo))
         /\ Len(job.todo) = 1 => art = "agent" /\ Tail(job.todo) = <<>>
         /\ Len(job.todo) # 1 => art # "agent" /\ Tail(job.todo) \in Plans
<1>1. job.todo \in Plans
  BY DEF PhaseInv
<1> DEFINE KA == <<"keld", "agent">>
           A == <<"agent">>
<1>2. KA \in Seq(Arts) /\ A \in Seq(Arts) /\ <<>> \in Seq(Arts) /\ KA \in Plans /\ A \in Plans
  BY DEF Arts, Plans
<1>3. CASE job.todo = <<"sidecar", "keld", "agent">>
  <2>1. art = "sidecar" /\ Tail(job.todo) = KA /\ Len(job.todo) # 1
    BY <1>3 DEF art
  <2>2. art \in Arts /\ art # "agent"
    BY <2>1 DEF Arts
  <2>3. ToSet(job.todo) = {"sidecar", "keld", "agent"} /\ ToSet(Tail(job.todo)) = {"keld", "agent"}
    BY <1>3, <2>1, PlanSets
  <2> QED BY <1>2, <2>1, <2>2, <2>3
<1>4. CASE job.todo = KA
  <2>1. art = "keld" /\ Tail(job.todo) = A /\ Len(job.todo) # 1
    BY <1>4 DEF art
  <2>2. art \in Arts /\ art # "agent"
    BY <2>1 DEF Arts
  <2>3. ToSet(job.todo) = {"keld", "agent"} /\ ToSet(Tail(job.todo)) = {"agent"}
    BY <1>4, <2>1, PlanSets
  <2> QED BY <1>2, <2>1, <2>2, <2>3
<1>5. CASE job.todo = <<"sidecar", "agent">>
  <2>1. art = "sidecar" /\ Tail(job.todo) = A /\ Len(job.todo) # 1
    BY <1>5 DEF art
  <2>2. art \in Arts /\ art # "agent"
    BY <2>1 DEF Arts
  <2>3. ToSet(job.todo) = {"sidecar", "agent"} /\ ToSet(Tail(job.todo)) = {"agent"}
    BY <1>5, <2>1, PlanSets
  <2> QED BY <1>2, <2>1, <2>2, <2>3
<1>6. CASE job.todo = A
  <2>1. art = "agent" /\ Tail(job.todo) = <<>> /\ Len(job.todo) = 1
    BY <1>6 DEF art
  <2>2. art \in Arts
    BY <2>1 DEF Arts
  <2>3. ToSet(job.todo) = {"agent"} /\ ToSet(Tail(job.todo)) = {}
    BY <1>6, <2>1, PlanSets
  <2> QED BY <1>2, <2>1, <2>2, <2>3
<1> QED BY <1>1, <1>3, <1>4, <1>5, <1>6 DEF Plans

\* The record of one more completed move.
LEMMA InstalledJob ==
  ASSUME JobTypes, PhaseInv, step = "install",
         job' = [job EXCEPT !.todo = Tail(@), !.moves = Append(@, [art |-> art, had |-> job.had])]
  PROVE  /\ JobTypes' /\ job'.to = job.to /\ job'.starting = job.starting
         /\ job'.todo = Tail(job.todo) /\ Len(job'.moves) = Len(job.moves) + 1
         /\ \A i \in DOMAIN job'.moves :
              \/ i \in DOMAIN job.moves /\ job'.moves[i] = job.moves[i]
              \/ i = Len(job.moves) + 1 /\ job'.moves[i].art = art /\ job'.moves[i].had = job.had
<1> DEFINE M == [art : Arts, had : BOOLEAN]
           m == [art |-> art, had |-> job.had]
<1>1. /\ DOMAIN job' = DOMAIN job /\ job'.to = job.to /\ job'.starting = job.starting
      /\ job'.had = job.had /\ job'.errs = job.errs /\ job'.restored = job.restored
      /\ job'.todo = Tail(job.todo)
  BY DEF JobTypes
<1>2. job'.moves = Append(job.moves, m)
  BY DEF JobTypes
<1>3. m \in M /\ m.art = art /\ m.had = job.had
  BY ArtTypes DEF JobTypes
<1>4. job.moves \in Seq(M)
  BY DEF JobTypes
<1> HIDE DEF M, m
<1>5. Append(job.moves, m) \in Seq(M)
  BY <1>3, <1>4, AppendOf
<1>6. JobTypes'
  BY <1>1, <1>2, <1>5, ArtTypes DEF JobTypes, M
<1>7. /\ Len(job'.moves) = Len(job.moves) + 1
      /\ \A i \in DOMAIN job'.moves :
           \/ i \in DOMAIN job.moves /\ job'.moves[i] = job.moves[i]
           \/ i = Len(job.moves) + 1 /\ job'.moves[i] = m
  BY <1>2, <1>3, <1>4, AppendOf
<1> QED BY <1>1, <1>3, <1>6, <1>7

\* The marker an attempt leaves for the next start.
LEMMA ParkedTypes == ASSUME NEW moves PROVE Parked(moves) \in Seq(Arts)
<1>1. \A a \in Arts : Displaced(a, moves) \in Seq(Arts)
  BY DEF Displaced
<1>2. Displaced("sidecar", moves) \in Seq(Arts) /\ Displaced("keld", moves) \in Seq(Arts)
      /\ Displaced("agent", moves) \in Seq(Arts)
  BY <1>1 DEF Arts
<1>3. Displaced("sidecar", moves) \o Displaced("keld", moves) \in Seq(Arts)
  BY <1>2
<1> QED BY <1>2, <1>3 DEF Parked

LEMMA RecordedMarker ==
  ASSUME JobTypes, MarkerTypes, marker' = Staged(marker) \/ marker' = Staged(NoMarker)
  PROVE  MarkerTypes' /\ marker'.pending = TRUE /\ marker'.stale = FALSE /\ marker'.to = job.to
         /\ marker'.prev = Parked(job.moves)
<1>1. ASSUME NEW s, DOMAIN s = {"pending", "to", "prev", "stale", "recent", "failed"},
             s.recent \in BOOLEAN, s.failed \in Seq(Versions), Len(s.failed) <= MaxFailed,
             marker' = Staged(s)
      PROVE  MarkerTypes' /\ marker'.pending = TRUE /\ marker'.stale = FALSE /\ marker'.to = job.to
             /\ marker'.prev = Parked(job.moves)
  <2>1. /\ DOMAIN marker' = DOMAIN s /\ marker'.pending = TRUE /\ marker'.stale = FALSE
        /\ marker'.to = job.to /\ marker'.prev = Parked(job.moves)
        /\ marker'.recent = s.recent /\ marker'.failed = s.failed
    BY <1>1 DEF Staged
  <2> QED BY <1>1, <2>1, ParkedTypes DEF MarkerTypes, JobTypes
<1>2. CASE marker' = Staged(marker)
  BY <1>1, <1>2 DEF MarkerTypes
<1>3. CASE marker' = Staged(NoMarker)
  BY <1>1, <1>3, NoMarkerTypes
<1> QED BY <1>2, <1>3

\* The marker after a confirmation or a rollback.
LEMMA SettledMarker ==
  ASSUME MarkerTypes, NEW failed \in Seq(Versions), Len(failed) <= MaxFailed,
         marker' = Settled(failed)
  PROVE  MarkerTypes' /\ marker'.pending = FALSE /\ marker'.to = marker.to
         /\ marker'.failed = failed
<1>1. /\ DOMAIN marker' = DOMAIN marker /\ marker'.pending = FALSE /\ marker'.stale = FALSE
      /\ marker'.to = marker.to /\ marker'.prev = <<>> /\ marker'.recent = marker.recent
      /\ marker'.failed = failed
  BY DEF MarkerTypes, Settled
<1>2. <<>> \in Seq(Arts)
  OBVIOUS
<1> QED BY <1>1, <1>2 DEF MarkerTypes

\* MarkFailed keeps the newest failure, and no more than MaxFailed.
LEMMA MarkedTypes ==
  ASSUME MarkerTypes, NEW v \in Versions
  PROVE  /\ Marked(v) \in Seq(Versions) /\ Len(Marked(v)) <= MaxFailed
         /\ v \in ToSet(Marked(v))
<1> DEFINE all == Append(marker.failed, v)
           n == IF Len(all) > MaxFailed THEN MaxFailed ELSE Len(all)
           m == Len(all) - n + 1
<1>1. marker.failed \in Seq(Versions) /\ Len(marker.failed) <= MaxFailed
  BY DEF MarkerTypes
<1>2. CASE HasFailed(v)
  BY <1>1, <1>2 DEF Marked, HasFailed
<1>3. CASE ~HasFailed(v)
  <2>1. Marked(v) = SubSeq(all, m, Len(all))
    BY <1>3 DEF Marked
  <2>2. all \in Seq(Versions) /\ Len(all) \in Nat /\ Len(all) > 0 /\ all[Len(all)] = v
    BY <1>1
  <2> HIDE DEF all
  <2>3. n \in Nat /\ n > 0 /\ n <= MaxFailed /\ n <= Len(all) /\ m \in Nat /\ m > 0
        /\ Len(all) - m + 1 = n /\ m <= Len(all)
    <3> DEFINE L == Len(all)
    <3>1. L \in Nat /\ L > 0 /\ n = IF L > MaxFailed THEN MaxFailed ELSE L
      BY <2>2
    <3>2. m = L - n + 1
      OBVIOUS
    <3> HIDE DEF n, m, L
    <3>3. /\ n \in Nat /\ n > 0 /\ n <= MaxFailed /\ n <= L /\ m \in Nat /\ m > 0
          /\ L - m + 1 = n /\ m <= L
      BY <3>1, <3>2, Constants
    <3> QED BY <3>3 DEF L
  <2> HIDE DEF n, m
  <2>4. SubSeq(all, m, Len(all)) = [i \in 1 .. n |-> all[i + m - 1]]
    BY <2>2, <2>3
  <2> DEFINE s == SubSeq(all, m, Len(all))
  <2>5. s \in [1 .. n -> Versions]
    BY <2>2, <2>3, <2>4
  <2>6. s \in Seq(Versions) /\ Len(s) = n /\ DOMAIN s = 1 .. n
    <3> HIDE DEF s
    <3> QED BY <2>3, <2>5
  <2>7. s[n] = v
    <3>1. n + m - 1 = Len(all) /\ n \in 1 .. n
      BY <2>2, <2>3
    <3> QED BY <3>1, <2>2, <2>4
  <2>8. v \in ToSet(s)
    <3>1. n \in DOMAIN s
      BY <2>3, <2>6
    <3> QED BY <3>1, <2>7 DEF ToSet
  <2> QED BY <2>1, <2>3, <2>6, <2>8
<1> QED BY <1>2, <1>3

LEMMA InitTypes == Init => Types
<1> SUFFICES ASSUME Init PROVE Types
  OBVIOUS
<1>1. JobTypes
  BY NoJobTypes DEF Init, JobTypes
<1>2. MarkerTypes
  BY Constants DEF Init, MarkerTypes, NoMarker
<1>3. DiskTypes
  BY Constants, ArtsAre DEF Init, DiskTypes
<1>4. StepTypes
  BY Constants, ArtsAre DEF Init, StepTypes, Steps
<1>5. PhaseInv
  BY NoJobTypes DEF Init, PhaseInv
<1> QED BY <1>1, <1>2, <1>3, <1>4, <1>5 DEF Types

LEMMA AgentType == ASSUME DiskTypes PROVE Agent \in Versions \cup {None}
BY Constants DEF DiskTypes, Agent, InUse, Arts

\* Nothing of the daemon moves: the world, the clocks.
LEMMA OutsideTypes ==
  ASSUME Types, (\E v \in Versions : Pin(v)) \/ Deadline \/ Interval
  PROVE  Types' /\ UNCHANGED <<diskVars, running, step, job>>
<1>1. UNCHANGED <<diskVars, running, step, job>>
  BY DEF Pin, Deadline, Interval
<1>2. JobTypes' /\ DiskTypes' /\ PhaseInv'
  BY <1>1 DEF Types, JobTypes, DiskTypes, PhaseInv, diskVars, art, move
<1>3. MarkerTypes'
  BY DEF Pin, Deadline, Interval, Types, MarkerTypes
<1>4. StepTypes'
  BY <1>1 DEF Pin, Deadline, Interval, worldVars, Types, StepTypes
<1> QED BY <1>1, <1>2, <1>3, <1>4 DEF Types

\* The process comes to rest, or ends.
LEMMA RestingTypes ==
  ASSUME StepTypes, DiskTypes', MarkerTypes', UNCHANGED worldVars, hasSidecar' \in BOOLEAN,
         Stop \/ (Idle /\ running' \in Versions)
  PROVE  Types'
<1>1. job' = NoJob /\ JobTypes' /\ job'.moves = <<>>
  BY RestTypes DEF Stop, Idle
<1>2. StepTypes'
  BY Constants DEF Stop, Idle, StepTypes, Steps, worldVars
<1>3. PhaseInv'
  BY <1>1 DEF Stop, Idle, PhaseInv
<1> QED BY <1>1, <1>2, <1>3 DEF Types

\* A step back begins: no phase but its own says anything.
LEMMA UndoingTypes ==
  ASSUME Types, Undoing, DiskTypes', MarkerTypes', running' = running, UNCHANGED worldVars,
         hasSidecar' = hasSidecar, step # "off"
  PROVE  Types'
<1>1. JobTypes' /\ step' = "undo"
  BY UndoingJob DEF Types
<1>2. StepTypes'
  BY <1>1 DEF Types, StepTypes, Steps, worldVars
<1>3. PhaseInv'
  BY <1>1 DEF PhaseInv
<1> QED BY <1>1, <1>2, <1>3 DEF Types

\* A new job of one field, for an attempt and for a start.
LEMMA FetchJob ==
  ASSUME NEW v \in Versions, job' = [NoJob EXCEPT !.to = v]
  PROVE  JobTypes' /\ job'.to = v /\ job'.moves = <<>> /\ job'.starting = FALSE
<1>1. /\ DOMAIN job' = DOMAIN NoJob /\ job'.to = v /\ job'.todo = NoJob.todo
      /\ job'.had = NoJob.had /\ job'.moves = NoJob.moves /\ job'.errs = NoJob.errs
      /\ job'.restored = NoJob.restored /\ job'.starting = NoJob.starting
  BY NoJobTypes
<1> QED BY <1>1, NoJobTypes DEF JobTypes

LEMMA CommitJob ==
  ASSUME NEW prev \in Seq(Arts), job' = [NoJob EXCEPT !.starting = TRUE, !.todo = prev]
  PROVE  JobTypes' /\ job'.moves = <<>> /\ job'.starting = TRUE
<1>1. /\ DOMAIN job' = DOMAIN NoJob /\ job'.to = NoJob.to /\ job'.todo = prev
      /\ job'.had = NoJob.had /\ job'.moves = NoJob.moves /\ job'.errs = NoJob.errs
      /\ job'.restored = NoJob.restored /\ job'.starting = TRUE
  BY NoJobTypes
<1> QED BY <1>1, NoJobTypes DEF JobTypes

\* rollBack moves back whatever the marker says was displaced.
LEMMA RollBackJob ==
  ASSUME NEW prev \in Seq(Arts),
         job' = [NoJob EXCEPT !.starting = TRUE,
                              !.moves = [i \in DOMAIN prev |-> [art |-> prev[i], had |-> TRUE]]]
  PROVE  /\ JobTypes' /\ job'.starting = TRUE
         /\ \A i \in DOMAIN job'.moves : job'.moves[i].had = TRUE
<1> DEFINE back == [i \in DOMAIN prev |-> [art |-> prev[i], had |-> TRUE]]
           M == [art : Arts, had : BOOLEAN]
<1>1. /\ DOMAIN job' = DOMAIN NoJob /\ job'.to = NoJob.to /\ job'.todo = NoJob.todo
      /\ job'.had = NoJob.had /\ job'.moves = back /\ job'.errs = NoJob.errs
      /\ job'.restored = NoJob.restored /\ job'.starting = TRUE
  BY NoJobTypes
<1>2. \A i \in DOMAIN prev : prev[i] \in Arts
  BY At
<1>3. Len(prev) \in Nat /\ DOMAIN prev = 1 .. Len(prev)
  OBVIOUS
<1>4. back \in [1 .. Len(prev) -> M] /\ \A i \in DOMAIN back : back[i].had = TRUE
  BY <1>2, <1>3
<1>5. back \in Seq(M)
  <2> HIDE DEF back, M
  <2> QED BY <1>3, <1>4
<1> QED BY <1>1, <1>4, <1>5, NoJobTypes DEF JobTypes

LEMMA AttemptTypes ==
  ASSUME Types,
         \/ Maybe \/ Fetch \/ FetchFails \/ Displace \/ DisplaceFails \/ Install \/ InstallFails
         \/ Record \/ RecordFails \/ Migrate \/ MigrateFails \/ Restart
  PROVE  Types'
<1>0. /\ JobTypes /\ MarkerTypes /\ DiskTypes /\ StepTypes /\ PhaseInv
      /\ pin \in Versions /\ (step # "off" => running \in Versions)
  BY DEF Types, StepTypes
<1>1. CASE Maybe
  <2>1. JobTypes' /\ job'.moves = <<>>
    BY <1>0, <1>1, FetchJob DEF Maybe
  <2>2. MarkerTypes'
    <3>1. CASE marker' = marker \/ marker' = [marker EXCEPT !.recent = TRUE]
      BY <1>0, <3>1 DEF MarkerTypes
    <3> QED BY <1>1, <3>1, LostMarker DEF Maybe
  <2>3. DiskTypes' /\ StepTypes'
    BY <1>0, <1>1 DEF Maybe, DiskTypes, StepTypes, Steps, diskVars, worldVars
  <2>4. PhaseInv'
    BY <1>1, <2>1 DEF Maybe, PhaseInv
  <2> QED BY <2>1, <2>2, <2>3, <2>4 DEF Types
<1>2. CASE Fetch
  <2>1. DOMAIN job' = DOMAIN job /\ job'.todo = Plan(job.to) /\ job'.to = job.to
        /\ job'.had = job.had /\ job'.moves = job.moves /\ job'.errs = job.errs
        /\ job'.restored = job.restored /\ job'.starting = job.starting
    BY <1>0, <1>2 DEF Fetch, JobTypes
  <2>2. Plan(job.to) \in Plans
    BY <1>0, PlanTypes DEF StepTypes
  <2>3. JobTypes'
    <3>1. Plan(job.to) \in Seq(Arts)
      BY <2>2, PlansSeq
    <3> QED BY <1>0, <2>1, <3>1 DEF JobTypes
  <2>4. MarkerTypes' /\ DiskTypes' /\ StepTypes'
    BY <1>0, <1>2 DEF Fetch, MarkerTypes, DiskTypes, StepTypes, Steps, diskVars, worldVars
  <2>5. step' = "displace"
    BY <1>2 DEF Fetch
  <2>6. PhaseInv'
    BY <2>1, <2>2, <2>5 DEF PhaseInv
  <2> QED BY <2>3, <2>4, <2>6 DEF Types
<1>3. CASE FetchFails
  BY <1>0, <1>3, UndoingTypes DEF FetchFails, MarkerTypes, DiskTypes, Types, diskVars, worldVars
<1>4. CASE Displace
  <2>1. step = "displace" /\ step' = "install" /\ art \in Arts
    BY <1>0, <1>4, ArtTypes DEF Displace
  <2>2. job' = [job EXCEPT !.had = place[art] # None]
    BY <1>4 DEF Displace
  <2>3. DOMAIN job' = DOMAIN job /\ job'.todo = job.todo /\ job'.to = job.to
        /\ job'.moves = job.moves /\ job'.errs = job.errs
        /\ job'.restored = job.restored /\ job'.starting = job.starting
    BY <1>0, <2>2 DEF JobTypes
  <2>4. job'.had = (place[art] # None) /\ job'.had \in BOOLEAN
    BY <1>0, <2>2 DEF JobTypes
  <2>5. JobTypes'
    BY <1>0, <2>3, <2>4 DEF JobTypes
  <2>6. DiskTypes' /\ place'[art] = None /\ (place[art] # None => parked'[art] # None)
    BY <1>0, <1>4, <2>1 DEF Displace, DiskTypes
  <2>7. MarkerTypes' /\ StepTypes'
    BY <1>0, <1>4 DEF Displace, MarkerTypes, StepTypes, Steps, worldVars
  <2>8. art' = art
    BY <2>3 DEF art
  <2>9. PhaseInv'
    <3>1. job'.todo \in Plans
      BY <1>0, <2>1, <2>3 DEF PhaseInv
    <3> QED BY <2>1, <2>4, <2>6, <2>8, <3>1 DEF PhaseInv
  <2> QED BY <2>5, <2>6, <2>7, <2>9 DEF Types
<1>5. CASE DisplaceFails
  <2>1. DiskTypes'
    BY <1>0, <1>5, ArtTypes DEF DisplaceFails, DiskTypes
  <2> QED BY <1>0, <1>5, <2>1, UndoingTypes DEF DisplaceFails, MarkerTypes, Types, worldVars
<1>6. CASE Install
  <2>1. step = "install" /\ art \in Arts
    BY <1>0, <1>6, ArtTypes DEF Install
  <2>2. /\ JobTypes' /\ job'.to = job.to /\ job'.todo = Tail(job.todo)
    BY <1>0, <1>6, InstalledJob DEF Install
  <2>3. DiskTypes' /\ place'[art] = job.to
    BY <1>0, <1>6, <2>1 DEF Install, DiskTypes, JobTypes
  <2>4. MarkerTypes' /\ StepTypes'
    BY <1>0, <1>6 DEF Install, MarkerTypes, StepTypes, Steps, worldVars
  <2>6. CASE Len(job.todo) = 1
    <3>1. art = "agent" /\ step' = "record" /\ Tail(job.todo) = <<>>
      BY <1>0, <1>6, <2>1, <2>6, ArtTypes DEF Install
    <3>2. PhaseInv'
      BY <2>2, <2>3, <3>1 DEF PhaseInv
    <3> QED BY <2>2, <2>3, <2>4, <3>2 DEF Types
  <2>7. CASE Len(job.todo) # 1
    <3>1. step' = "displace"
      BY <1>6, <2>7 DEF Install
    <3>2. job'.todo \in Plans
      BY <1>0, <2>1, <2>2, <2>7, ArtTypes
    <3>3. PhaseInv'
      BY <3>1, <3>2 DEF PhaseInv
    <3> QED BY <2>2, <2>3, <2>4, <3>3 DEF Types
  <2> QED BY <2>6, <2>7
<1>7. CASE InstallFails
  <2>1. DiskTypes'
    BY <1>0, <1>7, ArtTypes DEF InstallFails, DiskTypes
  <2> QED BY <1>0, <1>7, <2>1, UndoingTypes DEF InstallFails, MarkerTypes, Types, worldVars
<1>8. CASE Record
  <2>1. place["agent"] = job.to
    BY <1>0, <1>8 DEF Record, PhaseInv
  <2>2. MarkerTypes'
    BY <1>0, <1>8, RecordedMarker DEF Record
  <2>3. JobTypes' /\ DiskTypes' /\ StepTypes'
    BY <1>0, <1>8 DEF Record, JobTypes, DiskTypes, StepTypes, Steps, diskVars, worldVars
  <2>4. PhaseInv'
    BY <1>8, <2>1 DEF Record, PhaseInv, diskVars
  <2> QED BY <2>2, <2>3, <2>4 DEF Types
<1>9. CASE RecordFails
  BY <1>0, <1>9, UndoingTypes DEF RecordFails, MarkerTypes, DiskTypes, Types, diskVars, worldVars
<1>10. CASE Migrate
  <2>1. JobTypes' /\ MarkerTypes' /\ DiskTypes' /\ StepTypes'
    BY <1>0, <1>10 DEF Migrate, JobTypes, MarkerTypes, DiskTypes, StepTypes, Steps, worldVars
  <2>2. PhaseInv'
    BY <1>10 DEF Migrate, PhaseInv
  <2> QED BY <2>1, <2>2 DEF Types
<1>11. CASE MigrateFails
  BY <1>0, <1>11, UndoingTypes DEF MigrateFails, MarkerTypes, DiskTypes, Types, diskVars, worldVars
<1>12. CASE Restart
  BY <1>0, <1>12, RestingTypes DEF Restart, StepTypes, MarkerTypes, DiskTypes, diskVars
<1> QED BY <1>1, <1>2, <1>3, <1>4, <1>5, <1>6, <1>7, <1>8, <1>9, <1>10, <1>11, <1>12

LEMMA UndoTypes ==
  ASSUME Types,
         UndoNew \/ UndoMissing \/ UndoClear \/ UndoRestore \/ UndoFails \/ UndoDone
  PROVE  Types'
<1>0. /\ JobTypes /\ MarkerTypes /\ DiskTypes /\ StepTypes /\ PhaseInv
      /\ pin \in Versions /\ (step # "off" => running \in Versions)
  BY DEF Types, StepTypes
<1>1. ASSUME NEW bad \in BOOLEAN, Handled(bad), job.moves # <<>>, step \in {"undo", "restore"},
             step' = "undo", UNCHANGED <<marker, running, worldVars, hasSidecar>>, DiskTypes'
      PROVE  Types'
  <2>1. JobTypes'
    BY <1>0, <1>1, HandledJob
  <2>2. MarkerTypes' /\ StepTypes' /\ PhaseInv'
    BY <1>0, <1>1 DEF MarkerTypes, StepTypes, Steps, PhaseInv, worldVars
  <2> QED BY <1>1, <2>1, <2>2 DEF Types
<1>2. CASE UndoNew
  <2>1. DiskTypes'
    BY <1>0, <1>2, MoveTypes DEF UndoNew, DiskTypes
  <2> QED BY <1>1, <1>2, <2>1 DEF UndoNew
<1>3. CASE UndoMissing
  <2>1. DiskTypes'
    BY <1>0, <1>3 DEF UndoMissing, DiskTypes, diskVars
  <2> QED BY <1>1, <1>3, <2>1 DEF UndoMissing
<1>4. CASE UndoClear
  <2>1. JobTypes' /\ MarkerTypes' /\ StepTypes'
    BY <1>0, <1>4 DEF UndoClear, JobTypes, MarkerTypes, StepTypes, Steps, worldVars
  <2>2. DiskTypes'
    BY <1>0, <1>4, MoveTypes DEF UndoClear, DiskTypes
  <2>3. job' = job /\ parked' = parked /\ move' = move
    BY <1>4 DEF UndoClear, move
  <2>4. PhaseInv'
    BY <1>4, <2>3 DEF UndoClear, PhaseInv
  <2> QED BY <2>1, <2>2, <2>4 DEF Types
<1>5. CASE UndoRestore
  <2>1. job.moves # <<>>
    BY <1>0, <1>5 DEF UndoRestore, PhaseInv
  <2>2. DiskTypes'
    BY <1>0, <1>5, <2>1, MoveTypes DEF UndoRestore, DiskTypes
  <2> QED BY <1>1, <1>5, <2>1, <2>2 DEF UndoRestore
<1>6. CASE UndoFails
  <2>1. DiskTypes'
    BY <1>0, <1>6 DEF UndoFails, DiskTypes, diskVars
  <2> QED BY <1>1, <1>6, <2>1 DEF UndoFails
<1>7. CASE UndoDone
  <2>1. MarkerTypes' /\ DiskTypes'
    BY <1>0, <1>7, LostMarker DEF UndoDone, MarkerTypes, DiskTypes, diskVars
  <2> QED BY <1>0, <1>7, <2>1, RestingTypes DEF UndoDone, StepTypes
<1> QED BY <1>2, <1>3, <1>4, <1>5, <1>6, <1>7

LEMMA StartTypes ==
  ASSUME Types, Start \/ Drop \/ Confirmed \/ RolledBack \/ RolledBackUnsaved \/ Die \/ DieLate
  PROVE  Types'
<1>0. /\ JobTypes /\ MarkerTypes /\ DiskTypes /\ StepTypes /\ PhaseInv
      /\ pin \in Versions /\ (step # "off" => running \in Versions)
  BY DEF Types, StepTypes
<1>1. CASE Start
  <2>1. MarkerTypes' /\ DiskTypes' /\ UNCHANGED worldVars
    BY <1>0, <1>1 DEF Start, MarkerTypes, DiskTypes, diskVars
  <2>2. running' = Agent /\ Agent \in Versions
    BY <1>0, <1>1, AgentType DEF Start, CanStart
  <2>3. marker.prev \in Seq(Arts)
    BY <1>0 DEF MarkerTypes
  <2>4. CASE Ready
    BY <1>0, <2>1, <2>2, <2>4, RestingTypes DEF Ready
  <2>5. CASE /\ step' = "commit" /\ hasSidecar' = hasSidecar
             /\ job' = [NoJob EXCEPT !.starting = TRUE, !.todo = marker.prev]
    <3>1. JobTypes' /\ job'.moves = <<>>
      BY <2>3, <2>5, CommitJob
    <3>2. StepTypes' /\ PhaseInv'
      BY <1>0, <2>1, <2>2, <2>5, <3>1, Constants DEF StepTypes, Steps, PhaseInv, worldVars
    <3> QED BY <2>1, <3>1, <3>2 DEF Types
  <2>6. CASE /\ step' = "undo" /\ hasSidecar' = hasSidecar
             /\ job' = [NoJob EXCEPT !.starting = TRUE,
                                     !.moves = [i \in DOMAIN marker.prev |->
                                                  [art |-> marker.prev[i], had |-> TRUE]]]
    <3>1. JobTypes'
      BY <2>3, <2>6, RollBackJob
    <3>2. StepTypes' /\ PhaseInv'
      BY <1>0, <2>1, <2>2, <2>6, Constants DEF StepTypes, Steps, PhaseInv, worldVars
    <3> QED BY <2>1, <3>1, <3>2 DEF Types
  <2> QED BY <1>1, <2>4, <2>5, <2>6 DEF Start
<1>2. CASE Drop
  <2>1. job' = [job EXCEPT !.todo = Tail(@)] /\ job.todo \in Seq(Arts) /\ job.todo # <<>>
    BY <1>0, <1>2 DEF Drop, JobTypes
  <2>2. Tail(job.todo) \in Seq(Arts) /\ art = job.todo[1] /\ art \in Arts
    BY <2>1, TailOf, At DEF art
  <2>3. JobTypes' /\ job'.moves = job.moves
    BY <1>0, <2>1, <2>2 DEF JobTypes
  <2>4. DiskTypes'
    BY <1>0, <1>2, <2>2 DEF Drop, DiskTypes
  <2>5. MarkerTypes' /\ StepTypes'
    BY <1>0, <1>2 DEF Drop, MarkerTypes, StepTypes, worldVars
  <2>6. PhaseInv'
    BY <1>0, <1>2, <2>3 DEF Drop, PhaseInv
  <2> QED BY <2>3, <2>4, <2>5, <2>6 DEF Types
<1>3. CASE Confirmed
  <2>1. MarkerTypes'
    BY <1>0, <1>3, SettledMarker DEF Confirmed, MarkerTypes
  <2> QED BY <1>0, <1>3, <2>1, RestingTypes DEF Confirmed, Ready, StepTypes, DiskTypes, diskVars
<1>4. CASE RolledBack
  <2>1. MarkerTypes'
    BY <1>0, <1>4, SettledMarker, MarkedTypes DEF RolledBack, MarkerTypes
  <2>2. DiskTypes' /\ UNCHANGED worldVars
    BY <1>0, <1>4 DEF RolledBack, DiskTypes, diskVars
  <2>3. hasSidecar' \in BOOLEAN /\ (Stop \/ (Idle /\ running' \in Versions))
    BY <1>0, <1>4 DEF RolledBack, Ready, StepTypes
  <2> QED BY <1>0, <2>1, <2>2, <2>3, RestingTypes
<1>5. CASE RolledBackUnsaved
  BY <1>0, <1>5, RestingTypes DEF RolledBackUnsaved, Ready, MarkerTypes, DiskTypes, diskVars
<1>6. CASE Die
  BY <1>0, <1>6, RestingTypes DEF Die, StepTypes, MarkerTypes, DiskTypes, diskVars
<1>7. CASE DieLate
  BY <1>0, <1>7, RestingTypes DEF DieLate, StepTypes, MarkerTypes, DiskTypes, diskVars
<1> QED BY <1>1, <1>2, <1>3, <1>4, <1>5, <1>6, <1>7

LEMMA TypesStep == Types /\ [Next]_vars => Types'
<1> SUFFICES ASSUME Types, [Next]_vars PROVE Types'
  OBVIOUS
<1>1. CASE UNCHANGED vars
  BY <1>1 DEF vars, diskVars, worldVars, Types, JobTypes, MarkerTypes, DiskTypes, StepTypes,
     PhaseInv, art, move
<1>2. CASE Next
  <2>1. CASE Work
    <3>1. \/ Maybe \/ Fetch \/ FetchFails \/ Displace \/ DisplaceFails \/ Install \/ InstallFails
          \/ Record \/ RecordFails \/ Migrate \/ MigrateFails \/ Restart
          \/ UndoNew \/ UndoMissing \/ UndoClear \/ UndoRestore \/ UndoFails \/ UndoDone
          \/ Drop \/ Confirmed \/ RolledBack \/ RolledBackUnsaved
      BY <2>1, Zenon DEF Work
    <3> QED BY <3>1, AttemptTypes, UndoTypes, StartTypes
  <2> QED BY <1>2, <2>1, OutsideTypes, StartTypes DEF Next
<1> QED BY <1>1, <1>2

\* A step back with no more moves to undo than before: SwapInv asks about the
\* agent's parked copy only.
LEMMA FewerMoves ==
  ASSUME SwapInv, AgentKept', service' = service, step # "restart", step' \in {"undo", "restore"},
         \A i \in DOMAIN job'.moves : \E j \in DOMAIN job.moves : job'.moves[i] = job.moves[j],
         \/ parked'["agent"] = parked["agent"]
         \/ \A i \in DOMAIN job.moves : job.moves[i].art = "agent" => job.moves[i].had
  PROVE  SwapInv'
BY DEF SwapInv

LEMMA RestingSwap ==
  ASSUME SwapInv, UNCHANGED diskVars, Stop \/ Idle
  PROVE  SwapInv'
<1>1. job'.moves = <<>> /\ step' \in {"idle", "off"}
  BY NoJobTypes DEF Stop, Idle
<1>2. DOMAIN job'.moves = {}
  BY <1>1
<1>3. AgentKept'
  BY DEF SwapInv, AgentKept, diskVars
<1> QED BY <1>1, <1>2, <1>3 DEF SwapInv

LEMMA UndoingSwap ==
  ASSUME JobTypes, SwapInv, AgentKept', Undoing, service' = service, step # "restart",
         parked'["agent"] = parked["agent"] \/ step \in {"displace", "install"}
  PROVE  SwapInv'
<1>1. /\ step' = "undo"
      /\ \A i \in DOMAIN job'.moves : \E j \in DOMAIN job.moves : job'.moves[i] = job.moves[j]
  BY UndoingJob
<1>2. step \in {"displace", "install"} =>
        \A i \in DOMAIN job.moves : job.moves[i].art = "agent" => job.moves[i].had
  BY DEF SwapInv
<1> QED BY <1>1, <1>2, FewerMoves

LEMMA HandledSwap ==
  ASSUME JobTypes, SwapInv, AgentKept', NEW bad \in BOOLEAN, Handled(bad), job.moves # <<>>,
         service' = service, step \in {"undo", "restore"}, step' \in {"undo", "restore"},
         \/ parked'["agent"] = parked["agent"]
         \/ \A i \in DOMAIN job.moves : job.moves[i].art = "agent" => job.moves[i].had
  PROVE  SwapInv'
<1>1. job'.moves = Tail(job.moves)
  BY HandledJob
<1>2. \A i \in DOMAIN Tail(job.moves) :
        i + 1 \in DOMAIN job.moves /\ Tail(job.moves)[i] = job.moves[i + 1]
  BY TailOf DEF JobTypes
<1>3. \A i \in DOMAIN job'.moves : \E j \in DOMAIN job.moves : job'.moves[i] = job.moves[j]
  BY <1>1, <1>2
<1> QED BY <1>3, FewerMoves

LEMMA AttemptSwap ==
  ASSUME Types, SwapInv,
         \/ Maybe \/ Fetch \/ FetchFails \/ Displace \/ DisplaceFails \/ Install \/ InstallFails
         \/ Record \/ RecordFails \/ Migrate \/ MigrateFails \/ Restart
  PROVE  SwapInv'
<1>0. JobTypes /\ DiskTypes /\ PhaseInv /\ AgentKept
  BY DEF Types, SwapInv
<1>1. CASE Maybe
  <2>1. job'.moves = <<>>
    BY <1>1, FetchJob DEF Maybe, Types, StepTypes
  <2>2. DOMAIN job'.moves = {}
    BY <2>1
  <2>3. AgentKept'
    BY <1>0, <1>1 DEF Maybe, AgentKept, diskVars
  <2> QED BY <1>1, <2>2, <2>3 DEF Maybe, SwapInv
<1>2. CASE Fetch
  <2>1. job'.moves = <<>>
    BY <1>0, <1>2 DEF Fetch, JobTypes, PhaseInv
  <2>2. DOMAIN job'.moves = {}
    BY <2>1
  <2>3. AgentKept'
    BY <1>0, <1>2 DEF Fetch, AgentKept, diskVars
  <2> QED BY <1>2, <2>2, <2>3 DEF Fetch, SwapInv
<1>3. CASE FetchFails
  <2>1. AgentKept'
    BY <1>0, <1>3 DEF FetchFails, AgentKept, diskVars
  <2> QED BY <1>0, <1>3, <2>1, UndoingSwap DEF FetchFails, diskVars
<1>4. CASE Displace
  <2>1. art \in Arts /\ job'.moves = job.moves
    BY <1>0, <1>4, ArtTypes DEF Displace, JobTypes
  <2>2. AgentKept'
    BY <1>0, <1>4, <2>1 DEF Displace, AgentKept, DiskTypes, Arts
  <2> QED BY <1>4, <2>1, <2>2 DEF Displace, SwapInv
<1>5. CASE DisplaceFails
  <2>1. AgentKept'
    BY <1>0, <1>5, ArtTypes DEF DisplaceFails, AgentKept, DiskTypes, Arts
  <2> QED BY <1>0, <1>5, <2>1, UndoingSwap DEF DisplaceFails
<1>6. CASE Install
  <2>1. step = "install" /\ art \in Arts /\ place[art] = None
    BY <1>0, <1>6, ArtTypes DEF Install, PhaseInv
  <2>2. /\ \A i \in DOMAIN job'.moves :
             \/ i \in DOMAIN job.moves /\ job'.moves[i] = job.moves[i]
             \/ i = Len(job.moves) + 1 /\ job'.moves[i].art = art /\ job'.moves[i].had = job.had
    BY <1>0, <1>6, InstalledJob DEF Install
  <2>3. AgentKept'
    BY <1>0, <1>6, <2>1, Constants DEF Install, AgentKept, DiskTypes, JobTypes, Arts
  <2>4. \A i \in DOMAIN job.moves : job.moves[i].art # "agent"
    BY <2>1 DEF SwapInv
  <2>5. \A i \in DOMAIN job'.moves :
          job'.moves[i].art = "agent" =>
            i = Len(job.moves) + 1 /\ art = "agent" /\ job'.moves[i].had = job.had
    BY <2>2, <2>4
  <2>6. step' \in {"displace", "install"} => art # "agent"
    BY <1>0, <1>6, <2>1, ArtTypes DEF Install
  <2>7. art = "agent" => service' = "first" \/ parked'["agent"] # None
    <3>1. service' = service /\ parked' = parked
      BY <1>6 DEF Install
    <3>2. art = "agent" => place["agent"] = None
      BY <2>1
    <3> QED BY <1>0, <3>1, <3>2 DEF AgentKept, DiskTypes
  <2>8. step' # "commit"
    BY <1>6 DEF Install
  <2> QED BY <2>3, <2>5, <2>6, <2>7, <2>8 DEF SwapInv
<1>7. CASE InstallFails
  <2>1. AgentKept'
    BY <1>0, <1>7, ArtTypes DEF InstallFails, AgentKept, DiskTypes, PhaseInv, Arts
  <2> QED BY <1>0, <1>7, <2>1, UndoingSwap DEF InstallFails
<1>8. CASE Record
  <2>1. AgentKept'
    BY <1>0, <1>8 DEF Record, AgentKept, diskVars
  <2> QED BY <1>8, <2>1 DEF Record, SwapInv, diskVars
<1>9. CASE RecordFails
  <2>1. AgentKept'
    BY <1>0, <1>9 DEF RecordFails, AgentKept, diskVars
  <2> QED BY <1>0, <1>9, <2>1, UndoingSwap DEF RecordFails, diskVars
<1>10. CASE Migrate
  <2>1. place["agent"] \in Versions
    BY <1>0, <1>10 DEF Migrate, PhaseInv, JobTypes
  <2>2. AgentKept'
    BY <1>10, <2>1, Constants DEF Migrate, AgentKept
  <2> QED BY <1>10, <2>2 DEF Migrate, SwapInv
<1>11. CASE MigrateFails
  <2>1. AgentKept'
    BY <1>0, <1>11 DEF MigrateFails, AgentKept, diskVars
  <2> QED BY <1>0, <1>11, <2>1, UndoingSwap DEF MigrateFails, diskVars
<1>12. CASE Restart
  BY <1>12, RestingSwap DEF Restart
<1> QED BY <1>1, <1>2, <1>3, <1>4, <1>5, <1>6, <1>7, <1>8, <1>9, <1>10, <1>11, <1>12

LEMMA UndoSwap ==
  ASSUME Types, SwapInv,
         UndoNew \/ UndoMissing \/ UndoClear \/ UndoRestore \/ UndoFails \/ UndoDone
  PROVE  SwapInv'
<1>0. JobTypes /\ DiskTypes /\ PhaseInv /\ AgentKept
  BY DEF Types, SwapInv
<1>1. CASE UndoNew
  <2>1. move = job.moves[1] /\ 1 \in DOMAIN job.moves /\ move.art \in Arts
    BY <1>0, <1>1, MoveTypes DEF UndoNew
  <2>2. move.art = "agent" => service = "first" \/ parked["agent"] # None
    BY <1>1, <2>1 DEF UndoNew, SwapInv
  <2>3. AgentKept'
    BY <1>0, <1>1, <2>1, <2>2 DEF UndoNew, AgentKept, DiskTypes, Arts
  <2> QED BY <1>0, <1>1, <2>3, HandledSwap DEF UndoNew
<1>2. CASE UndoMissing
  <2>1. AgentKept'
    BY <1>0, <1>2 DEF UndoMissing, AgentKept, diskVars
  <2> QED BY <1>0, <1>2, <2>1, HandledSwap DEF UndoMissing, diskVars
<1>3. CASE UndoClear
  <2>1. move.art \in Arts
    BY <1>0, <1>3, MoveTypes DEF UndoClear
  <2>2. AgentKept'
    BY <1>0, <1>3, <2>1 DEF UndoClear, AgentKept, DiskTypes, Arts
  <2> QED BY <1>3, <2>2, FewerMoves DEF UndoClear
<1>4. CASE UndoRestore
  <2>1. job.moves # <<>> /\ move.had /\ parked[move.art] # None
    BY <1>0, <1>4 DEF UndoRestore, PhaseInv
  <2>2. move = job.moves[1] /\ 1 \in DOMAIN job.moves /\ move.art \in Arts
    BY <1>0, <2>1, MoveTypes
  <2>3. AgentKept'
    BY <1>0, <1>4, <2>1, <2>2 DEF UndoRestore, AgentKept, DiskTypes, Arts
  <2>4. CASE move.art = "agent"
    <3>1. \A i \in DOMAIN job.moves : job.moves[i].art = "agent" => job.moves[i].had
      BY <2>1, <2>2, <2>4 DEF SwapInv
    <3> QED BY <1>0, <1>4, <2>1, <2>3, <3>1, HandledSwap DEF UndoRestore
  <2>5. CASE move.art # "agent"
    <3>1. parked'["agent"] = parked["agent"]
      BY <1>0, <1>4, <2>2, <2>5 DEF UndoRestore, DiskTypes, Arts
    <3> QED BY <1>0, <1>4, <2>1, <2>3, <3>1, HandledSwap DEF UndoRestore
  <2> QED BY <2>4, <2>5
<1>5. CASE UndoFails
  <2>1. AgentKept'
    BY <1>0, <1>5 DEF UndoFails, AgentKept, diskVars
  <2> QED BY <1>0, <1>5, <2>1, HandledSwap DEF UndoFails, diskVars
<1>6. CASE UndoDone
  BY <1>6, RestingSwap DEF UndoDone
<1> QED BY <1>1, <1>2, <1>3, <1>4, <1>5, <1>6

LEMMA StartSwap ==
  ASSUME Types, SwapInv, Start \/ Drop \/ Confirmed \/ RolledBack \/ RolledBackUnsaved \/ Die \/ DieLate
  PROVE  SwapInv'
<1>0. JobTypes /\ MarkerTypes /\ DiskTypes /\ PhaseInv /\ AgentKept
  BY DEF Types, SwapInv
<1>1. CASE Start
  <2>1. AgentKept' /\ UNCHANGED diskVars
    BY <1>0, <1>1 DEF Start, AgentKept, diskVars
  <2>2. marker.prev \in Seq(Arts)
    BY <1>0 DEF MarkerTypes
  <2>3. CASE Ready
    BY <2>1, <2>3, RestingSwap DEF Ready
  <2>4. CASE step' = "commit" /\ job' = [NoJob EXCEPT !.starting = TRUE, !.todo = marker.prev]
    <3>1. job'.moves = <<>>
      BY <2>2, <2>4, CommitJob
    <3>2. DOMAIN job'.moves = {}
      BY <3>1
    <3>3. service' = "own" => place'["agent"] # None
      BY <1>1, <2>1 DEF Start, CanStart, Agent, InUse, diskVars
    <3> QED BY <2>1, <2>4, <3>2, <3>3 DEF SwapInv
  <2>5. CASE /\ step' = "undo"
             /\ job' = [NoJob EXCEPT !.starting = TRUE,
                                     !.moves = [i \in DOMAIN marker.prev |->
                                                  [art |-> marker.prev[i], had |-> TRUE]]]
    <3>1. \A i \in DOMAIN job'.moves : job'.moves[i].had = TRUE
      BY <2>2, <2>5, RollBackJob
    <3> QED BY <2>1, <2>5, <3>1 DEF SwapInv
  <2> QED BY <1>1, <2>3, <2>4, <2>5 DEF Start
<1>2. CASE Drop
  <2>1. job.moves = <<>> /\ job'.moves = job.moves /\ step' = "commit" /\ step = "commit"
    BY <1>0, <1>2 DEF Drop, JobTypes, PhaseInv
  <2>2. DOMAIN job'.moves = {}
    BY <2>1
  <2>3. place' = place /\ service' = service
    BY <1>2 DEF Drop
  <2>4. AgentKept'
    BY <2>1, <2>3 DEF SwapInv, AgentKept
  <2> QED BY <2>1, <2>2, <2>3, <2>4 DEF SwapInv
<1>3. CASE Confirmed
  BY <1>3, RestingSwap DEF Confirmed, Ready
<1>4. CASE RolledBack
  BY <1>4, RestingSwap DEF RolledBack, Ready
<1>5. CASE RolledBackUnsaved
  BY <1>5, RestingSwap DEF RolledBackUnsaved, Ready
<1>6. CASE Die
  BY <1>6, RestingSwap DEF Die
<1>7. CASE DieLate
  BY <1>7, RestingSwap DEF DieLate
<1> QED BY <1>1, <1>2, <1>3, <1>4, <1>5, <1>6, <1>7

LEMMA SwapStep == Types /\ SwapInv /\ [Next]_vars => SwapInv'
<1> SUFFICES ASSUME Types, SwapInv, [Next]_vars PROVE SwapInv'
  OBVIOUS
<1>1. CASE UNCHANGED <<diskVars, running, step, job>>
  BY <1>1 DEF diskVars, SwapInv, AgentKept
<1>2. CASE Work
  <2>1. \/ Maybe \/ Fetch \/ FetchFails \/ Displace \/ DisplaceFails \/ Install \/ InstallFails
        \/ Record \/ RecordFails \/ Migrate \/ MigrateFails \/ Restart
        \/ UndoNew \/ UndoMissing \/ UndoClear \/ UndoRestore \/ UndoFails \/ UndoDone
        \/ Drop \/ Confirmed \/ RolledBack \/ RolledBackUnsaved
    BY <1>2, Zenon DEF Work
  <2> QED BY <2>1, AttemptSwap, UndoSwap, StartSwap
<1> QED BY <1>1, <1>2, OutsideTypes, StartSwap DEF Next, vars

\* Nothing that RetryInv relates moves but the phase, which ends or goes back.
LEMMA QuietRetry ==
  ASSUME RetryInv, UNCHANGED <<place, service, rolled, pin>>,
         marker'.pending = marker.pending, marker'.to = marker.to,
         marker'.stale = marker.stale, marker'.failed = marker.failed,
         running' \in {running, None}, step' \in {"idle", "off", "restart"}
  PROVE  RetryInv'
BY DEF RetryInv, Attempting, HasFailed

LEMMA OutsideRetry ==
  ASSUME Types, RetryInv, (\E v \in Versions : Pin(v)) \/ Deadline \/ Interval
  PROVE  RetryInv'
<1>0. MarkerTypes
  BY DEF Types
<1>1. CASE \E v \in Versions : Pin(v)
  <2>1. /\ UNCHANGED <<place, service, marker, running, step, job>> /\ rolled' = {}
    BY <1>1 DEF Pin, diskVars
  <2> QED BY <2>1 DEF RetryInv, Attempting
<1>2. CASE Deadline
  <2>1. /\ marker'.pending = marker.pending /\ marker'.to = marker.to /\ marker'.stale = TRUE
        /\ marker'.failed = marker.failed
    BY <1>0, <1>2 DEF Deadline, MarkerTypes
  <2> QED BY <1>2, <2>1 DEF Deadline, diskVars, worldVars, RetryInv, Attempting, HasFailed
<1>3. CASE Interval
  <2>1. /\ marker'.pending = marker.pending /\ marker'.to = marker.to
        /\ marker'.stale = marker.stale /\ marker'.failed = marker.failed
    BY <1>0, <1>3 DEF Interval, MarkerTypes
  <2> QED BY <1>3, <2>1 DEF Interval, diskVars, worldVars, RetryInv, Attempting, HasFailed
<1> QED BY <1>1, <1>2, <1>3

LEMMA AttemptRetry ==
  ASSUME Types, RetryInv,
         \/ Maybe \/ Fetch \/ FetchFails \/ Displace \/ DisplaceFails \/ Install \/ InstallFails
         \/ Record \/ RecordFails \/ Migrate \/ MigrateFails \/ Restart
  PROVE  RetryInv'
<1>0. JobTypes /\ MarkerTypes /\ DiskTypes /\ StepTypes /\ PhaseInv
  BY DEF Types
\* While an attempt works on the files, no marker is pending.
<1> DEFINE Same == /\ UNCHANGED <<service, rolled, pin, running, marker>>
                   /\ job'.to = job.to /\ job'.starting = job.starting
<1>a. ASSUME Same, Attempting, step' \in {"displace", "install", "record", "undo"} PROVE RetryInv'
  BY <1>a DEF RetryInv, Attempting, HasFailed
<1>1. CASE Maybe
  <2>1. marker'.pending = FALSE
    <3>1. CASE marker' = marker \/ marker' = [marker EXCEPT !.recent = TRUE]
      BY <1>0, <1>1, <3>1 DEF Maybe, Decide, MarkerTypes
    <3> QED BY <1>1, <3>1, LostMarker DEF Maybe
  <2>2. job'.to = pin /\ job'.starting = FALSE
    BY <1>0, <1>1, FetchJob DEF Maybe, StepTypes
  <2>3. pin # running /\ ~HasFailed(pin) /\ ~marker.pending /\ running # None
    BY <1>0, <1>1 DEF Maybe, Decide, StepTypes
  <2>4. pin \notin rolled
    BY <2>3 DEF RetryInv
  <2> QED BY <1>1, <2>1, <2>2, <2>3, <2>4
          DEF Maybe, diskVars, worldVars, RetryInv, Attempting, HasFailed
<1>2. CASE Fetch
  <2>1. job'.to = job.to /\ job'.starting = job.starting
    BY <1>0, <1>2 DEF Fetch, JobTypes
  <2> QED BY <1>2, <1>a, <2>1 DEF Fetch, Attempting, diskVars, worldVars
<1>3. CASE FetchFails
  BY <1>0, <1>3, <1>a, UndoingJob DEF FetchFails, Attempting, diskVars, worldVars
<1>4. CASE Displace
  <2>1. job'.to = job.to /\ job'.starting = job.starting
    BY <1>0, <1>4 DEF Displace, JobTypes
  <2> QED BY <1>4, <1>a, <2>1 DEF Displace, Attempting, worldVars
<1>5. CASE DisplaceFails
  BY <1>0, <1>5, <1>a, UndoingJob DEF DisplaceFails, Attempting, worldVars
<1>6. CASE Install
  <2>1. job'.to = job.to /\ job'.starting = job.starting
    BY <1>0, <1>6, InstalledJob DEF Install
  <2> QED BY <1>6, <1>a, <2>1 DEF Install, Attempting, worldVars
<1>7. CASE InstallFails
  BY <1>0, <1>7, <1>a, UndoingJob DEF InstallFails, Attempting, worldVars
<1>8. CASE Record
  <2>1. place["agent"] = job.to
    BY <1>0, <1>8 DEF Record, PhaseInv
  <2>2. /\ marker'.pending = TRUE /\ marker'.to = job.to /\ marker'.stale = FALSE
    BY <1>0, <1>8, RecordedMarker DEF Record
  <2>3. job' = job /\ UNCHANGED <<place, service, rolled, pin, running>>
    BY <1>8 DEF Record, diskVars, worldVars
  <2>4. Attempting /\ step' = IF service = "first" THEN "migrate" ELSE "restart"
    BY <1>8 DEF Record, Attempting
  <2> QED BY <2>1, <2>2, <2>3, <2>4 DEF RetryInv, Attempting, HasFailed
<1>9. CASE RecordFails
  BY <1>0, <1>9, <1>a, UndoingJob DEF RecordFails, Attempting, diskVars, worldVars
<1>10. CASE Migrate
  <2>1. place["agent"] = job.to
    BY <1>0, <1>10 DEF Migrate, PhaseInv
  <2> QED BY <1>10, <2>1 DEF Migrate, worldVars, RetryInv, Attempting, HasFailed
<1>11. CASE MigrateFails
  <2>1. step' = "undo" /\ job'.to = job.to /\ step = "migrate"
    BY <1>0, <1>11, UndoingJob DEF MigrateFails
  <2> QED BY <1>11, <2>1 DEF MigrateFails, diskVars, worldVars, RetryInv, Attempting, HasFailed
<1>12. CASE Restart
  BY <1>12, QuietRetry DEF Restart, Stop, Idle, diskVars, worldVars
<1> QED BY <1>1, <1>2, <1>3, <1>4, <1>5, <1>6, <1>7, <1>8, <1>9, <1>10, <1>11, <1>12

LEMMA UndoRetry ==
  ASSUME Types, RetryInv,
         UndoNew \/ UndoMissing \/ UndoClear \/ UndoRestore \/ UndoFails \/ UndoDone
  PROVE  RetryInv'
<1>0. JobTypes /\ PhaseInv
  BY DEF Types
\* The agent's file moves only under a marker that is past its deadline, or that
\* belongs to the other place, or under none.
<1>1. ASSUME step \in {"undo", "restore"}, step' \in {"undo", "restore"},
             UNCHANGED <<service, marker, running, pin, rolled>>, job'.starting = job.starting
      PROVE  RetryInv'
  BY <1>1 DEF RetryInv, Attempting, HasFailed
<1>2. CASE UndoNew
  BY <1>0, <1>1, <1>2, HandledJob DEF UndoNew, worldVars
<1>3. CASE UndoMissing
  BY <1>0, <1>1, <1>3, HandledJob DEF UndoMissing, diskVars, worldVars
<1>4. CASE UndoClear
  BY <1>1, <1>4 DEF UndoClear, worldVars
<1>5. CASE UndoRestore
  BY <1>0, <1>1, <1>5, HandledJob DEF UndoRestore, PhaseInv, worldVars
<1>6. CASE UndoFails
  BY <1>0, <1>1, <1>6, HandledJob DEF UndoFails, diskVars, worldVars
<1>7. CASE UndoDone
  <2>1. CASE marker' = marker
    BY <1>7, <2>1, QuietRetry DEF UndoDone, Idle, diskVars, worldVars
  <2>2. CASE marker' = NoMarker
    <3>1. marker'.pending = FALSE
      BY <2>2, LostMarker
    <3> QED BY <1>7, <3>1 DEF UndoDone, Idle, diskVars, worldVars, RetryInv, Attempting
  <2> QED BY <1>7, <2>1, <2>2 DEF UndoDone
<1> QED BY <1>2, <1>3, <1>4, <1>5, <1>6, <1>7

\* What a start finds and does.
LEMMA StartRetry ==
  ASSUME Types, RetryInv, Start
  PROVE  RetryInv'
<1>0. MarkerTypes
  BY DEF Types
<1>1. /\ UNCHANGED <<place, service, marker, pin>> /\ running' = Agent /\ Agent # None
      /\ service = "first" => Agent = Base
      /\ service # "first" => Agent = place["agent"]
  BY DEF Start, CanStart, diskVars, worldVars, Agent, InUse
<1>2. service \in {"first", "own"} /\ marker.prev \in Seq(Arts)
  BY <1>0 DEF Types, DiskTypes, MarkerTypes
<1>3. CASE Ready /\ UNCHANGED rolled
  BY <1>1, <1>3 DEF Ready, Idle, RetryInv, Attempting, HasFailed
<1>4. CASE /\ marker.pending /\ Agent = marker.to /\ ~marker.stale
           /\ step' = "commit" /\ UNCHANGED rolled
  <2>1. service # "first"
    BY <1>1, <1>4 DEF RetryInv
  <2>2. marker.to \notin rolled
    BY <1>4, <2>1 DEF RetryInv
  <2> QED BY <1>1, <1>4, <2>1, <2>2 DEF RetryInv, Attempting, HasFailed
<1>5. CASE /\ marker.pending /\ (Agent # marker.to \/ marker.stale)
           /\ step' = "undo" /\ rolled' = rolled \cup {marker.to} /\ job'.starting = TRUE
  <2>1. service = "first" \/ marker.stale
    BY <1>1, <1>2, <1>5 DEF RetryInv
  <2>2. pin \in rolled => marker.to = pin
    BY <1>5 DEF RetryInv
  <2> QED BY <1>1, <1>5, <2>1, <2>2 DEF RetryInv, Attempting, HasFailed
<1> QED BY <1>2, <1>3, <1>4, <1>5, RollBackJob DEF Start

LEMMA ConfirmRetry ==
  ASSUME Types, RetryInv, Drop \/ Confirmed \/ RolledBack \/ RolledBackUnsaved \/ Die \/ DieLate
  PROVE  RetryInv'
<1>0. JobTypes /\ MarkerTypes /\ StepTypes
  BY DEF Types
<1>1. CASE Drop
  <2>1. step' = step /\ step = "commit" /\ UNCHANGED <<place, service, marker, running, pin, rolled>>
    BY <1>1 DEF Drop, worldVars
  <2> QED BY <2>1 DEF RetryInv, Attempting, HasFailed
<1>2. CASE Confirmed
  <2>1. /\ step = "commit" /\ step' = "idle"
        /\ UNCHANGED <<place, service, running, pin, rolled>>
    BY <1>2 DEF Confirmed, Ready, Idle, diskVars, worldVars
  <2>2. CASE marker' = Settled(marker.failed)
    <3>1. marker'.pending = FALSE /\ marker'.failed = marker.failed
      BY <1>0, <2>2, SettledMarker DEF MarkerTypes
    <3>2. pin \notin rolled
      BY <2>1 DEF RetryInv
    <3> QED BY <2>1, <3>1, <3>2 DEF RetryInv, Attempting, HasFailed
  <2>3. CASE marker' = marker
    BY <2>1, <2>3, QuietRetry
  <2> QED BY <1>2, <2>2, <2>3 DEF Confirmed
<1>3. CASE RolledBack
  <2>1. /\ step = "undo" /\ job.starting /\ step' \in {"idle", "off"}
        /\ UNCHANGED <<place, service, pin, rolled>> /\ running' \in {running, None}
    BY <1>3 DEF RolledBack, Stop, Ready, Idle, diskVars, worldVars
  <2>2. marker.to \in Versions
    BY <1>0 DEF MarkerTypes
  <2>3. marker'.pending = FALSE /\ marker'.failed = Marked(marker.to)
    BY <1>0, <1>3, <2>2, SettledMarker, MarkedTypes DEF RolledBack
  <2>4. marker.pending /\ marker.to \in ToSet(marker'.failed)
    BY <1>0, <2>1, <2>2, <2>3, MarkedTypes DEF RetryInv
  <2>5. pin \in rolled => pin \in ToSet(marker'.failed)
    BY <2>4 DEF RetryInv
  <2> QED BY <2>1, <2>3, <2>5 DEF RetryInv, Attempting, HasFailed
<1>4. CASE RolledBackUnsaved
  BY <1>4, QuietRetry DEF RolledBackUnsaved, Ready, Idle, diskVars, worldVars
<1>5. CASE Die
  BY <1>5, QuietRetry DEF Die, Stop, diskVars, worldVars
<1>6. CASE DieLate
  BY <1>6, QuietRetry DEF DieLate, Stop, diskVars, worldVars
<1> QED BY <1>1, <1>2, <1>3, <1>4, <1>5, <1>6

LEMMA RetryStep == Types /\ RetryInv /\ [Next]_vars => RetryInv'
<1> SUFFICES ASSUME Types, RetryInv, [Next]_vars PROVE RetryInv'
  OBVIOUS
<1>1. CASE UNCHANGED vars
  BY <1>1 DEF vars, diskVars, worldVars, RetryInv, Attempting, HasFailed
<1>2. CASE Work
  <2>1. \/ Maybe \/ Fetch \/ FetchFails \/ Displace \/ DisplaceFails \/ Install \/ InstallFails
        \/ Record \/ RecordFails \/ Migrate \/ MigrateFails \/ Restart
        \/ UndoNew \/ UndoMissing \/ UndoClear \/ UndoRestore \/ UndoFails \/ UndoDone
        \/ Drop \/ Confirmed \/ RolledBack \/ RolledBackUnsaved
    BY <1>2, Zenon DEF Work
  <2> QED BY <2>1, AttemptRetry, UndoRetry, ConfirmRetry
<1> QED BY <1>1, <1>2, OutsideRetry, StartRetry, ConfirmRetry DEF Next
-----------------------------------------------------------------------------

LEMMA InitInv == Init => SwapInv /\ RetryInv
<1> SUFFICES ASSUME Init PROVE SwapInv /\ RetryInv
  OBVIOUS
<1>1. job.moves = <<>> /\ DOMAIN job.moves = {} /\ step = "idle"
  BY NoJobTypes DEF Init
<1>2. marker.pending = FALSE /\ rolled = {} /\ running = Base
  BY DEF Init, NoMarker
<1>3. service = "own" => place["agent"] = Base
  BY ArtsAre DEF Init, Arts
<1>4. SwapInv
  BY <1>1, <1>3, Constants DEF SwapInv, AgentKept
<1>5. RetryInv
  BY <1>1, <1>2 DEF RetryInv, Attempting
<1> QED BY <1>4, <1>5

\* The inductive invariant: the types, where each phase is, and the two
\* arguments about the agent's copies and about the failures remembered.
THEOREM UpdateInvariance == Spec => [](Types /\ SwapInv /\ RetryInv)
<1>1. Init => Types /\ SwapInv /\ RetryInv
  BY InitTypes, InitInv
<1>2. Types /\ SwapInv /\ RetryInv /\ [Next]_vars => (Types /\ SwapInv /\ RetryInv)'
  BY TypesStep, SwapStep, RetryStep
<1> QED BY <1>1, <1>2, PTL DEF Spec

\* Wherever an update, a rollback or the process ends, a copy of the agent that
\* the service starts is left in place or parked.
THEOREM AgentAlwaysKept == Spec => []AgentKept
<1>1. SwapInv => AgentKept
  BY DEF SwapInv
<1> QED BY <1>1, UpdateInvariance, PTL

\* A release that a start began to roll back is not installed again until the pin
\* moves, whatever failed since and however few failures are remembered.
THEOREM NeverRetried == Spec => []NotRetried
<1>1. RetryInv => NotRetried
  BY DEF RetryInv, Attempting, NotRetried
<1> QED BY <1>1, UpdateInvariance, PTL

-----------------------------------------------------------------------------
(* One version in use.  An update that nothing can mix is told by the level    *)
(* every artifact goes back to: while a swap or its undoing is under way, what *)
(* they had before; while a marker is pending, what the next start's rollback  *)
(* yields; at rest, what is there.  A level is of one version but for the keld *)
(* beside a release that has none.                                             *)

Levels == {w \in [kit -> Versions] :
  /\ service = "first" => w["agent"] = Base
  /\ \A a \in kit : w[a] = w["agent"] \/ (a = "keld" /\ w["agent"] \in Keldless)}
Counts(a) == service = "own" \/ a = "sidecar"

Swapping == step \in {"displace", "install", "record", "migrate"}
InSwap == Swapping \/ (step \in {"undo", "restore"} /\ ~job.starting)
Moved(a) == \E i \in DOMAIN job.moves : job.moves[i].art = a
Found(a) == IF step = "install" /\ a = art THEN IF job.had THEN parked[a] ELSE None ELSE place[a]
\* Undoing the moves leaves a at version v.
Was(a, v) ==
  /\ \A i \in DOMAIN job.moves : job.moves[i].art = a =>
       v = IF job.moves[i].had THEN parked[a] ELSE None
  /\ ~Moved(a) => v = Found(a)
\* What the rollback of a start makes of a.
Yield(a) == IF a \in ToSet(marker.prev) /\ parked[a] # None THEN parked[a] ELSE place[a]

SwapOne == InSwap =>
  /\ \E w \in Levels : \A a \in kit : Counts(a) => Was(a, w[a])
  /\ \A i, j \in DOMAIN job.moves : job.moves[i].art = job.moves[j].art => i = j
  /\ \A i \in DOMAIN job.moves : job.moves[i].had => parked[job.moves[i].art] # None
  /\ marker.pending => service = "first" /\ ("sidecar" \in kit => "sidecar" \in ToSet(marker.prev))
\* What the attempt has replaced, and that it leaves out no more than a keld.
DoneOne == Swapping =>
  /\ ~job.starting
  /\ \A i \in DOMAIN job.moves :
       place[job.moves[i].art] = job.to /\ job.moves[i].art \notin ToSet(job.todo)
  /\ \A a \in kit : Moved(a) \/ a \in ToSet(job.todo) \/ (a = "keld" /\ job.to \in Keldless)
\* A process that may attempt an update knows of the sidecar.
KnownOne ==
  "sidecar" \in kit /\ (InSwap \/ step \in {"fetch", "restart"} \/ (step = "idle" /\ ~marker.pending))
    => hasSidecar
RestOne == ~marker.pending /\ step \in {"off", "idle", "fetch", "restart"} =>
  \E w \in Levels : \A a \in kit : Counts(a) => place[a] = w[a]
Proven ==
  \A a \in kit : place[a] \in Versions /\ (place[a] = marker.to \/ (a = "keld" /\ marker.to \in Keldless))
ProvenOne ==
  /\ marker.pending /\ ~marker.stale /\ service = "own" => Proven
  /\ step = "commit" => service = "own" /\ Proven
PendingOne == marker.pending /\ step # "commit" =>
  \E w \in Levels : \A a \in kit : Counts(a) => Yield(a) = w[a]
StartOne == step \in {"undo", "restore"} /\ job.starting =>
  /\ \A i \in DOMAIN job.moves : job.moves[i].had /\ job.moves[i].art \in ToSet(marker.prev)
  /\ \A a \in ToSet(marker.prev) : parked[a] = None \/ Moved(a)

Aligned == SwapOne /\ DoneOne /\ KnownOne /\ RestOne /\ ProvenOne /\ PendingOne /\ StartOne
OneInv == blame = {} => Aligned

LEMMA KitTypes ==
  ASSUME StepTypes
  PROVE  /\ kit \subseteq Arts /\ "agent" \in kit
         /\ \A w \in Levels : \A a \in kit : w[a] \in Versions /\ w[a] # None
         /\ service = "first" => \A w \in Levels : "sidecar" \in kit => w["sidecar"] = Base
BY Constants DEF StepTypes, Arts, Levels

\* A sidecar in its place, when Confirm is over, is found there.
LEMMA ReadyKnown == ASSUME Ready, place["sidecar"] # None PROVE KnownOne'
BY DEF Ready, KnownOne

LEMMA MovesAt ==
  ASSUME JobTypes
  PROVE  \A i \in DOMAIN job.moves : job.moves[i].art \in Arts /\ job.moves[i].had \in BOOLEAN
<1> DEFINE M == [art : Arts, had : BOOLEAN]
<1>1. job.moves \in Seq(M)
  BY DEF JobTypes
<1>2. \A m \in M : m.art \in Arts /\ m.had \in BOOLEAN
  OBVIOUS
<1> HIDE DEF M
<1>3. \A i \in DOMAIN job.moves : job.moves[i] \in M
  BY <1>1, At
<1> QED BY <1>2, <1>3

LEMMA TailMoves ==
  ASSUME JobTypes, job.moves # <<>>, job'.moves = Tail(job.moves)
  PROVE  /\ \A i \in DOMAIN job'.moves :
              i \in Int /\ i + 1 \in DOMAIN job.moves /\ i + 1 # 1 /\ job'.moves[i] = job.moves[i + 1]
         /\ \A j \in DOMAIN job.moves : j = 1 \/ \E i \in DOMAIN job'.moves : job'.moves[i] = job.moves[j]
<1>1. job.moves \in Seq([art : Arts, had : BOOLEAN])
  BY DEF JobTypes
<1>2. /\ Len(job'.moves) = Len(job.moves) - 1
      /\ \A i \in DOMAIN job'.moves : i + 1 \in DOMAIN job.moves /\ job'.moves[i] = job.moves[i + 1]
      /\ job'.moves \in Seq([art : Arts, had : BOOLEAN])
  BY <1>1, TailOf
<1>3. DOMAIN job.moves = 1 .. Len(job.moves) /\ DOMAIN job'.moves = 1 .. (Len(job.moves) - 1)
      /\ Len(job.moves) \in Nat
  BY <1>1, <1>2
<1>4. ASSUME NEW j \in DOMAIN job.moves, j # 1
      PROVE  j - 1 \in DOMAIN job'.moves /\ (j - 1) + 1 = j
  BY <1>3, <1>4
<1>5. \A i \in DOMAIN job'.moves : i \in Int /\ i + 1 # 1
  BY <1>3
<1> QED BY <1>2, <1>4, <1>5

\* Swap.Rollback undoes every move, and each once.
LEMMA UndoingAll ==
  ASSUME JobTypes, Undoing
  PROVE  /\ \A a : Moved(a)' <=> Moved(a)
         /\ (\A i, j \in DOMAIN job.moves : job.moves[i].art = job.moves[j].art => i = j) =>
              \A i, j \in DOMAIN job'.moves : job'.moves[i].art = job'.moves[j].art => i = j
<1> DEFINE n == Len(job.moves)
<1>1. job'.moves = Reverse(job.moves) /\ n \in Nat /\ DOMAIN job.moves = 1 .. n
  BY DEF Undoing, JobTypes
<1>2. job'.moves = [i \in 1 .. n |-> job.moves[(n - i) + 1]]
  BY <1>1 DEF Reverse
<1> HIDE DEF n
<1>3. DOMAIN job'.moves = 1 .. n
  BY <1>2
<1>4. \A i \in 1 .. n : (n - i) + 1 \in 1 .. n /\ (n - ((n - i) + 1)) + 1 = i
  BY <1>1
<1>5. \A i \in 1 .. n : job'.moves[i] = job.moves[(n - i) + 1]
  BY <1>2
<1>6. \A i \in 1 .. n : job.moves[i] = job'.moves[(n - i) + 1]
  BY <1>4, <1>5
<1>7. \A a : Moved(a)' <=> Moved(a)
  <2>1. \A i \in 1 .. n : \E j \in 1 .. n : job'.moves[i] = job.moves[j]
    BY <1>4, <1>5
  <2>2. \A j \in 1 .. n : \E i \in 1 .. n : job'.moves[i] = job.moves[j]
    <3> SUFFICES ASSUME NEW j \in 1 .. n PROVE \E i \in 1 .. n : job'.moves[i] = job.moves[j]
      OBVIOUS
    <3>1. (n - j) + 1 \in 1 .. n /\ job'.moves[(n - j) + 1] = job.moves[j]
      BY <1>4, <1>6
    <3> QED BY <3>1
  <2>3. DOMAIN job.moves = DOMAIN job'.moves /\ DOMAIN job.moves = 1 .. n
    BY <1>1, <1>3
  <2>4. ASSUME NEW a, Moved(a) PROVE Moved(a)'
    <3>1. PICK j \in 1 .. n : job.moves[j].art = a
      BY <2>3, <2>4 DEF Moved
    <3>2. PICK i \in 1 .. n : job'.moves[i] = job.moves[j]
      BY <2>2
    <3> QED BY <2>3, <3>1, <3>2 DEF Moved
  <2>5. ASSUME NEW a, Moved(a)' PROVE Moved(a)
    <3>1. PICK i \in 1 .. n : job'.moves[i].art = a
      BY <2>3, <2>5 DEF Moved
    <3>2. PICK j \in 1 .. n : job'.moves[i] = job.moves[j]
      BY <2>1
    <3> QED BY <2>3, <3>1, <3>2 DEF Moved
  <2> QED BY <2>4, <2>5
<1>8. \A i, j \in 1 .. n : (n - i) + 1 = (n - j) + 1 => i = j
  BY <1>1
<1>9. ASSUME \A i, j \in 1 .. n : job.moves[i].art = job.moves[j].art => i = j,
             NEW i \in 1 .. n, NEW j \in 1 .. n, job'.moves[i].art = job'.moves[j].art
      PROVE  i = j
  <2>1. (n - i) + 1 = (n - j) + 1
    BY <1>4, <1>5, <1>9
  <2> QED BY <1>8, <2>1
<1> QED BY <1>1, <1>3, <1>7, <1>9

\* An attempt gives up: what every artifact goes back to stays the same.
LEMMA UndoingOne ==
  ASSUME Types, Aligned, Swapping, Undoing, UNCHANGED <<service, marker, kit, hasSidecar>>,
         \A a \in Arts : Moved(a) => parked'[a] = parked[a],
         \A a \in Arts : ~Moved(a) => place'[a] = Found(a),
         marker.pending => UNCHANGED <<place, parked>>
  PROVE  Aligned'
<1>0. JobTypes /\ MarkerTypes
  BY DEF Types
<1>1. /\ step' = "undo" /\ job'.starting = job.starting /\ job.starting = FALSE
      /\ \A i \in DOMAIN job'.moves : \E j \in DOMAIN job.moves : job'.moves[i] = job.moves[j]
  BY <1>0, UndoingJob DEF Aligned, DoneOne, JobTypes
<1>2. InSwap /\ step # "commit"
  BY DEF InSwap, Swapping
<1>3. PICK w \in Levels : \A a \in kit : Counts(a) => Was(a, w[a])
  BY <1>2 DEF Aligned, SwapOne
<1>4. \A i \in DOMAIN job.moves : job.moves[i].art \in Arts
  BY <1>0, MovesAt
<1>kit. kit \subseteq Arts
  BY KitTypes DEF Types
<1>5. \A a \in Arts : \A v : Was(a, v) => Was(a, v)'
  <2> SUFFICES ASSUME NEW a \in Arts, NEW v, Was(a, v) PROVE Was(a, v)'
    OBVIOUS
  <2>1. Moved(a)' <=> Moved(a)
    BY <1>0, UndoingAll
  <2>2. ASSUME NEW i \in DOMAIN job'.moves, job'.moves[i].art = a
        PROVE  v = IF job'.moves[i].had THEN parked'[a] ELSE None
    <3>1. PICK j \in DOMAIN job.moves : job'.moves[i] = job.moves[j]
      BY <1>1
    <3>2. Moved(a) /\ v = IF job.moves[j].had THEN parked[a] ELSE None
      BY <2>2, <3>1 DEF Was, Moved
    <3> QED BY <3>1, <3>2
  <2>3. ~Moved(a)' => v = Found(a)'
    BY <1>1, <2>1 DEF Was, Found
  <2> QED BY <2>2, <2>3 DEF Was
<1>6. SwapOne'
  <2>1. /\ w \in Levels'
        /\ \A a \in kit' : Counts(a)' => Was(a, w[a])'
    BY <1>3, <1>5, <1>kit DEF Levels, Counts
  <2>2. \A i, j \in DOMAIN job'.moves : job'.moves[i].art = job'.moves[j].art => i = j
    BY <1>0, <1>2, UndoingAll DEF Aligned, SwapOne
  <2>3. \A i \in DOMAIN job'.moves : job'.moves[i].had => parked'[job'.moves[i].art] # None
    <3> SUFFICES ASSUME NEW i \in DOMAIN job'.moves, job'.moves[i].had
                 PROVE  parked'[job'.moves[i].art] # None
      OBVIOUS
    <3>1. PICK j \in DOMAIN job.moves : job'.moves[i] = job.moves[j]
      BY <1>1
    <3>2. parked[job.moves[j].art] # None /\ Moved(job.moves[j].art) /\ job.moves[j].art \in Arts
      BY <1>2, <1>4, <3>1 DEF Aligned, SwapOne, Moved
    <3> QED BY <3>1, <3>2
  <2>4. marker'.pending => service' = "first" /\ ("sidecar" \in kit' => "sidecar" \in ToSet(marker'.prev))
    BY <1>2 DEF Aligned, SwapOne
  <2> QED BY <2>1, <2>2, <2>3, <2>4 DEF SwapOne
<1>7. DoneOne' /\ KnownOne' /\ RestOne' /\ StartOne'
  BY <1>1, <1>2 DEF Aligned, DoneOne, KnownOne, RestOne, StartOne, Swapping
<1>8. ProvenOne' /\ PendingOne'
  <2>1. marker.pending => \A a \in Arts : Yield(a)' = Yield(a)
    BY DEF Yield
  <2>2. PendingOne'
    BY <1>1, <1>2, <1>kit, <2>1 DEF Aligned, PendingOne, Levels, Counts
  <2>3. ProvenOne'
    BY <1>1, <1>2 DEF Aligned, ProvenOne, Proven
  <2> QED BY <2>2, <2>3
<1> QED BY <1>6, <1>7, <1>8 DEF Aligned

\* One move is undone, and its artifact is what it goes back to.
LEMMA HandledOne ==
  ASSUME Types, RetryInv, Aligned, step \in {"undo", "restore"}, job.moves # <<>>,
         Handled(FALSE), step' = "undo", UNCHANGED <<service, marker, kit, hasSidecar>>,
         \A a \in Arts : a # move.art => place'[a] = place[a] /\ parked'[a] = parked[a],
         place'[move.art] = IF move.had THEN parked[move.art] ELSE None,
         parked'[move.art] = None \/ (~move.had /\ parked'[move.art] = parked[move.art]),
         move.had => parked[move.art] # None
  PROVE  Aligned'
<1>0. JobTypes /\ MarkerTypes
  BY DEF Types
<1>1. /\ move = job.moves[1] /\ 1 \in DOMAIN job.moves /\ move.art \in Arts
  BY <1>0, MoveTypes
<1> SUFFICES ASSUME NEW back \in Arts, back = move.art PROVE Aligned'
  BY <1>1
<1>2. job'.starting = job.starting /\ job'.moves = Tail(job.moves)
  BY <1>0, HandledJob
<1>3. /\ \A i \in DOMAIN job'.moves :
           i \in Int /\ i + 1 \in DOMAIN job.moves /\ i + 1 # 1 /\ job'.moves[i] = job.moves[i + 1]
      /\ \A j \in DOMAIN job.moves : j = 1 \/ \E i \in DOMAIN job'.moves : job'.moves[i] = job.moves[j]
  BY <1>0, <1>2, TailMoves
<1>4. \A i \in DOMAIN job.moves : job.moves[i].art \in Arts
  BY <1>0, MovesAt
<1>5. \A a \in Arts : a # back => (Moved(a)' <=> Moved(a))
  BY <1>1, <1>3 DEF Moved
<1>6. \A a : Moved(a)' => Moved(a)
  BY <1>3 DEF Moved
<1>7. marker.pending /\ ~job.starting =>
        service = "first" /\ ("sidecar" \in kit => "sidecar" \in ToSet(marker.prev))
  BY DEF Aligned, SwapOne, InSwap
<1>kit. /\ kit \subseteq Arts /\ kit' = kit
      /\ \A w \in Levels : \A a \in kit : w[a] # None
  BY KitTypes DEF Types
<1>8. ASSUME ~job.starting PROVE SwapOne'
  <2>1. InSwap /\ ~Swapping
    BY <1>8 DEF InSwap, Swapping
  <2>2. PICK w \in Levels : \A a \in kit : Counts(a) => Was(a, w[a])
    BY <2>1 DEF Aligned, SwapOne
  <2>3. \A i \in DOMAIN job.moves : job.moves[i].art = back => i = 1
    BY <1>1, <2>1 DEF Aligned, SwapOne
  <2>4. ~Moved(back)'
    BY <1>3, <2>3 DEF Moved
  <2>5. ASSUME NEW a \in Arts, NEW v, Was(a, v) PROVE Was(a, v)'
    <3>1. CASE a = back
      <4>1. v = IF move.had THEN parked[a] ELSE None
        BY <1>1, <2>5, <3>1 DEF Was
      <4>2. Found(a)' = v
        BY <3>1, <4>1 DEF Found
      <4> QED BY <2>4, <3>1, <4>2 DEF Was, Moved
    <3>2. CASE a # back
      <4>1. Found(a)' = Found(a) /\ parked'[a] = parked[a]
        BY <3>2 DEF Found
      <4>2. \A i \in DOMAIN job'.moves : job'.moves[i].art = a =>
              v = IF job'.moves[i].had THEN parked'[a] ELSE None
        BY <1>3, <2>5, <4>1 DEF Was
      <4> QED BY <1>5, <2>5, <3>2, <4>1, <4>2 DEF Was
    <3> QED BY <3>1, <3>2
  <2>6. /\ w \in Levels'
        /\ \A a \in kit' : Counts(a)' => Was(a, w[a])'
    BY <1>kit, <2>2, <2>5 DEF Levels, Counts
  <2>7. \A i, j \in DOMAIN job'.moves : job'.moves[i].art = job'.moves[j].art => i = j
    <3> SUFFICES ASSUME NEW i \in DOMAIN job'.moves, NEW j \in DOMAIN job'.moves,
                        job'.moves[i].art = job'.moves[j].art
                 PROVE  i = j
      OBVIOUS
    <3>1. /\ i + 1 \in DOMAIN job.moves /\ job'.moves[i] = job.moves[i + 1]
          /\ j + 1 \in DOMAIN job.moves /\ job'.moves[j] = job.moves[j + 1]
          /\ i \in Int /\ j \in Int
      BY <1>3
    <3>2. \A k, l \in DOMAIN job.moves : job.moves[k].art = job.moves[l].art => k = l
      BY <2>1 DEF Aligned, SwapOne
    <3>3. i + 1 = j + 1
      BY <3>1, <3>2
    <3> QED BY <3>1, <3>3
  <2>8. ASSUME NEW i \in DOMAIN job'.moves, job'.moves[i].had
        PROVE  parked'[job'.moves[i].art] # None
    <3>1. i + 1 \in DOMAIN job.moves /\ i + 1 # 1 /\ job'.moves[i] = job.moves[i + 1]
      BY <1>3
    <3>2. job.moves[i + 1].art \in Arts /\ job.moves[i + 1].art # back
      BY <1>4, <2>3, <3>1
    <3>3. parked[job.moves[i + 1].art] # None
      BY <2>1, <2>8, <3>1 DEF Aligned, SwapOne
    <3> QED BY <3>1, <3>2, <3>3
  <2> QED BY <1>7, <1>8, <2>6, <2>7, <2>8 DEF SwapOne
<1>9. ASSUME job.starting
      PROVE  StartOne' /\ move.had /\ back \in ToSet(marker.prev) /\ parked'[back] = None
  <2>1. /\ \A i \in DOMAIN job.moves : job.moves[i].had /\ job.moves[i].art \in ToSet(marker.prev)
        /\ \A a \in ToSet(marker.prev) : parked[a] = None \/ Moved(a)
    BY <1>9 DEF Aligned, StartOne
  <2>2. move.had /\ back \in ToSet(marker.prev) /\ parked'[back] = None
    BY <1>1, <2>1
  <2>3. ToSet(marker.prev) \subseteq Arts
    BY <1>0 DEF MarkerTypes, ToSet
  <2>4. \A i \in DOMAIN job'.moves : job'.moves[i].had /\ job'.moves[i].art \in ToSet(marker.prev)
    BY <1>3, <2>1
  <2>5. \A a \in ToSet(marker.prev) : parked'[a] = None \/ Moved(a)'
    BY <1>5, <2>1, <2>2, <2>3
  <2> QED BY <2>2, <2>4, <2>5 DEF StartOne
<1>10. PendingOne'
  <2> SUFFICES ASSUME marker.pending PROVE PendingOne'
    BY DEF PendingOne
  <2>1. PICK w \in Levels : \A a \in kit : Counts(a) => Yield(a) = w[a]
    BY DEF Aligned, PendingOne
  <2>2. \A a \in Arts : a # back => Yield(a)' = Yield(a)
    BY DEF Yield
  <2>3. back \in kit /\ Counts(back) => Yield(back)' = Yield(back)
    <3> SUFFICES ASSUME back \in kit, Counts(back) PROVE Yield(back)' = Yield(back)
      OBVIOUS
    <3>1. CASE job.starting
      BY <1>9, <3>1 DEF Yield
    <3>2. CASE ~job.starting
      <4>1. service = "first" /\ back = "sidecar" /\ back \in ToSet(marker.prev)
        BY <1>7, <3>2 DEF Counts
      <4>2. PICK u \in Levels : \A a \in kit : Counts(a) => Was(a, u[a])
        BY <3>2 DEF Aligned, SwapOne, InSwap
      <4>3. u[back] # None
        BY <1>kit
      <4>4. u[back] = IF move.had THEN parked[back] ELSE None
        BY <1>1, <4>2 DEF Was
      <4>5. move.had
        BY <4>3, <4>4
      <4> QED BY <4>1, <4>5 DEF Yield
    <3> QED BY <3>1, <3>2
  <2>4. w \in Levels' /\ \A a \in kit' : Counts(a)' => Yield(a)' = w[a]
    BY <1>1, <1>kit, <2>1, <2>2, <2>3 DEF Levels, Counts
  <2> QED BY <2>4 DEF PendingOne
<1>11. SwapOne'
  BY <1>2, <1>8 DEF SwapOne, InSwap, Swapping
<1>12. StartOne'
  BY <1>2, <1>9 DEF StartOne
<1>13. DoneOne' /\ KnownOne' /\ RestOne'
  BY <1>2 DEF Aligned, DoneOne, KnownOne, InSwap, RestOne, Swapping
<1>14. ProvenOne'
  BY <1>0 DEF ProvenOne, RetryInv
<1> QED BY <1>10, <1>11, <1>12, <1>13, <1>14 DEF Aligned

LEMMA UndoOne ==
  ASSUME Types, RetryInv, OneInv,
         UndoNew \/ UndoMissing \/ UndoClear \/ UndoRestore \/ UndoFails \/ UndoDone
  PROVE  OneInv'
<1>0. JobTypes /\ MarkerTypes /\ DiskTypes /\ PhaseInv
  BY DEF Types
<1>1. CASE UndoFails
  <2>1. blame' # {}
    BY <1>1 DEF UndoFails
  <2> QED BY <2>1 DEF OneInv
<1> SUFFICES ASSUME ~UndoFails, Aligned PROVE Aligned'
  BY <1>1 DEF OneInv, UndoNew, UndoMissing, UndoClear, UndoRestore, UndoDone
<1>kit. kit \subseteq Arts
  BY KitTypes DEF Types
<1>2. CASE UndoNew
  <2>1. move.art \in Arts
    BY <1>0, <1>2, MoveTypes DEF UndoNew
  <2>2. /\ Handled(FALSE) /\ step' = "undo" /\ step = "undo" /\ job.moves # <<>> /\ ~move.had
        /\ UNCHANGED <<service, marker, parked, kit, hasSidecar>>
        /\ place' = [place EXCEPT ![move.art] = None]
    BY <1>2 DEF UndoNew, worldVars
  <2>3. \A a \in Arts : a # move.art => place'[a] = place[a] /\ parked'[a] = parked[a]
    BY <1>0, <2>2 DEF DiskTypes
  <2>4. place'[move.art] = IF move.had THEN parked[move.art] ELSE None
    BY <1>0, <2>1, <2>2 DEF DiskTypes
  <2> QED BY <2>2, <2>3, <2>4, HandledOne
<1>3. CASE UndoRestore
  <2>1. move.art \in Arts /\ move.had /\ parked[move.art] # None /\ job.moves # <<>>
    BY <1>0, <1>3, MoveTypes DEF UndoRestore, PhaseInv
  <2>2. /\ Handled(FALSE) /\ step' = "undo" /\ step = "restore"
        /\ UNCHANGED <<service, marker, kit, hasSidecar>>
        /\ place' = [place EXCEPT ![move.art] = parked[move.art]]
        /\ parked' = [parked EXCEPT ![move.art] = None]
    BY <1>3 DEF UndoRestore, worldVars
  <2>3. \A a \in Arts : a # move.art => place'[a] = place[a] /\ parked'[a] = parked[a]
    BY <1>0, <2>2 DEF DiskTypes
  <2>4. /\ place'[move.art] = IF move.had THEN parked[move.art] ELSE None
        /\ parked'[move.art] = None
    BY <1>0, <2>1, <2>2 DEF DiskTypes
  <2> QED BY <2>1, <2>2, <2>3, <2>4, HandledOne
<1>4. CASE UndoMissing
  <2>1. /\ Handled(TRUE) /\ step' = "undo" /\ step = "undo" /\ job.moves # <<>> /\ move.had
        /\ UNCHANGED <<place, parked, service, marker, kit, hasSidecar>> /\ parked[move.art] = None
    BY <1>4 DEF UndoMissing, diskVars, worldVars
  <2>2. move = job.moves[1] /\ 1 \in DOMAIN job.moves
    BY <1>0, <2>1, MoveTypes
  <2>3. job.starting = TRUE
    <3>1. ~InSwap
      BY <2>1, <2>2 DEF Aligned, SwapOne
    <3> QED BY <1>0, <2>1, <3>1 DEF InSwap, JobTypes
  <2>4. job'.starting = TRUE /\ job'.moves = Tail(job.moves)
    BY <1>0, <2>1, <2>3, HandledJob
  <2>5. /\ \A i \in DOMAIN job'.moves :
             i + 1 \in DOMAIN job.moves /\ job'.moves[i] = job.moves[i + 1]
        /\ \A j \in DOMAIN job.moves : j = 1 \/ \E i \in DOMAIN job'.moves : job'.moves[i] = job.moves[j]
    BY <1>0, <2>1, <2>4, TailMoves
  <2>6. StartOne'
    <3>1. /\ \A i \in DOMAIN job.moves : job.moves[i].had /\ job.moves[i].art \in ToSet(marker.prev)
          /\ \A a \in ToSet(marker.prev) : parked[a] = None \/ Moved(a)
      BY <2>1, <2>3 DEF Aligned, StartOne
    <3>2. \A a : a # move.art => (Moved(a) => Moved(a)')
      BY <2>2, <2>5 DEF Moved
    <3> QED BY <2>1, <2>5, <3>1, <3>2 DEF StartOne
  <2>7. PendingOne'
    <3>1. \A a \in Arts : Yield(a)' = Yield(a)
      BY <2>1 DEF Yield
    <3> QED BY <1>kit, <2>1, <3>1 DEF Aligned, PendingOne, Levels, Counts
  <2>8. KnownOne' /\ ProvenOne'
    BY <2>1, <2>4 DEF Aligned, KnownOne, InSwap, Swapping, ProvenOne, Proven
  <2> QED BY <2>1, <2>4, <2>6, <2>7, <2>8
          DEF Aligned, SwapOne, InSwap, Swapping, DoneOne, RestOne
<1>5. CASE UndoClear
  <2>1. /\ step' = "restore" /\ step = "undo" /\ job.moves # <<>> /\ move.had
        /\ parked[move.art] # None
        /\ UNCHANGED <<parked, service, marker, job, kit, hasSidecar>>
        /\ place' = [place EXCEPT ![move.art] = None]
    BY <1>5 DEF UndoClear, worldVars
  <2>2. move = job.moves[1] /\ 1 \in DOMAIN job.moves /\ move.art \in Arts
    BY <1>0, <2>1, MoveTypes
  <2>3. \A a \in Arts : a # move.art => place'[a] = place[a]
    BY <1>0, <2>1 DEF DiskTypes
  <2>4. Moved(move.art) /\ (\A a : Moved(a)' <=> Moved(a))
    BY <2>1, <2>2 DEF Moved
  <2>5. \A a \in Arts : \A v : Was(a, v) => Was(a, v)'
    BY <2>1, <2>3, <2>4 DEF Was, Found
  <2>6. SwapOne'
    <3>1. InSwap' => InSwap
      BY <2>1 DEF InSwap, Swapping
    <3>2. InSwap => \E w \in Levels' : \A a \in kit' : Counts(a)' => Was(a, w[a])'
      BY <1>kit, <2>1, <2>5 DEF Aligned, SwapOne, Levels, Counts
    <3> QED BY <2>1, <3>1, <3>2 DEF Aligned, SwapOne
  <2>7. StartOne'
    BY <2>1, <2>4 DEF Aligned, StartOne
  <2>8. PendingOne'
    <3> SUFFICES ASSUME marker.pending PROVE PendingOne'
      BY <2>1 DEF PendingOne
    <3>1. \A a \in Arts : a # move.art => Yield(a)' = Yield(a)
      BY <2>1, <2>3 DEF Yield
    <3>2. move.art \in kit /\ Counts(move.art) => move.art \in ToSet(marker.prev)
      <4>1. CASE job.starting
        BY <2>1, <2>2, <4>1 DEF Aligned, StartOne
      <4>2. CASE ~job.starting
        BY <2>1, <4>2 DEF Aligned, SwapOne, InSwap, Counts
      <4> QED BY <4>1, <4>2
    <3>3. \A a \in kit : a = move.art /\ Counts(a) => Yield(a)' = Yield(a)
      BY <2>1, <3>2 DEF Yield
    <3> QED BY <1>kit, <2>1, <2>2, <3>1, <3>3 DEF Aligned, PendingOne, Levels, Counts
  <2>9. DoneOne' /\ KnownOne' /\ RestOne' /\ ProvenOne'
    BY <2>1 DEF Aligned, DoneOne, KnownOne, InSwap, RestOne, ProvenOne, Swapping, RetryInv
  <2> QED BY <2>6, <2>7, <2>8, <2>9 DEF Aligned
<1>6. CASE UndoDone
  <2>1. /\ step' = "idle" /\ step = "undo" /\ job.moves = <<>> /\ ~job.starting
        /\ UNCHANGED <<place, parked, service, kit, hasSidecar>>
        /\ marker' = marker \/ marker' = NoMarker
    BY <1>6 DEF UndoDone, Idle, diskVars, worldVars
  <2>2. \A a : ~Moved(a)
    BY <2>1 DEF Moved
  <2>3. PICK w \in Levels : \A a \in kit : Counts(a) => Was(a, w[a])
    BY <2>1 DEF Aligned, SwapOne, InSwap
  <2>4. \A a \in kit : Counts(a) => place[a] = w[a]
    BY <2>1, <2>2, <2>3 DEF Was, Found
  <2>5. RestOne'
    BY <2>1, <2>3, <2>4 DEF RestOne, Levels, Counts
  <2>6. KnownOne'
    BY <2>1 DEF Aligned, KnownOne, InSwap, Swapping
  <2>7. PendingOne' /\ ProvenOne'
    <3>1. CASE marker' = marker
      <4>1. \A a \in Arts : Yield(a)' = Yield(a)
        BY <2>1, <3>1 DEF Yield
      <4> QED BY <1>kit, <2>1, <3>1, <4>1
              DEF Aligned, PendingOne, ProvenOne, Proven, Levels, Counts
    <3>2. CASE marker' = NoMarker
      BY <2>1, <3>2, LostMarker DEF PendingOne, ProvenOne
    <3> QED BY <2>1, <3>1, <3>2
  <2> QED BY <2>1, <2>5, <2>6, <2>7 DEF Aligned, SwapOne, InSwap, Swapping, DoneOne, StartOne
<1> QED BY <1>2, <1>3, <1>4, <1>5, <1>6

\* Nothing on disk moves, and no attempt is under way.
LEMMA QuietOne ==
  ASSUME Types, Aligned, KnownOne', UNCHANGED <<place, parked, service, kit>>, step # "commit",
         marker'.pending = marker.pending,
         marker.pending => /\ marker'.to = marker.to /\ marker'.prev = marker.prev
                           /\ marker'.stale = marker.stale,
         step' \in {"off", "idle", "fetch"},
         marker.pending \/ step \in {"off", "idle", "fetch", "restart"}
  PROVE  Aligned'
<1>1. marker.pending => \A a \in Arts : Yield(a)' = Yield(a)
  BY DEF Yield
<1>2. kit \subseteq Arts
  BY KitTypes DEF Types
<1>3. PendingOne'
  BY <1>1, <1>2 DEF Aligned, PendingOne, Levels, Counts
<1>4. RestOne'
  BY DEF Aligned, RestOne, Levels, Counts
<1>5. ProvenOne'
  BY DEF Aligned, ProvenOne, Proven
<1> QED BY <1>3, <1>4, <1>5 DEF Aligned, SwapOne, InSwap, Swapping, DoneOne, StartOne

\* The artifact in hand has not been moved yet.
LEMMA ArtNext ==
  ASSUME Types, Aligned, step \in {"displace", "install"}
  PROVE  /\ art \in Arts /\ art \in ToSet(job.todo) /\ ~Moved(art)
         /\ DOMAIN job.moves = 1 .. Len(job.moves) /\ Len(job.moves) \in Nat
<1>1. art \in Arts /\ art \in ToSet(job.todo)
  BY ArtTypes DEF Types
<1>2. ~Moved(art)
  BY <1>1 DEF Aligned, DoneOne, Swapping, Moved
<1> QED BY <1>1, <1>2 DEF Types, JobTypes

\* The outgoing artifact's version is kept in .prev.
LEMMA DisplaceOne ==
  ASSUME Types, RetryInv, Aligned, Displace
  PROVE  Aligned'
<1>0. JobTypes /\ DiskTypes
  BY DEF Types
<1>1. /\ step = "displace" /\ step' = "install" /\ UNCHANGED <<service, marker, kit, hasSidecar>>
      /\ ~marker.pending /\ Swapping
  BY DEF Displace, RetryInv, Attempting, Swapping, worldVars
<1>2. /\ job'.moves = job.moves /\ job'.to = job.to /\ job'.starting = job.starting
      /\ job'.todo = job.todo
  BY <1>0 DEF Displace, JobTypes
<1>3. job'.had = (place[art] # None)
  BY <1>0 DEF Displace, JobTypes
<1>4. art \in Arts /\ ~Moved(art) /\ art' = art
  BY <1>1, <1>2, ArtNext DEF art
<1>5. \A a \in Arts : a # art => place'[a] = place[a] /\ parked'[a] = parked[a]
  BY <1>0 DEF Displace, DiskTypes
<1>6. place[art] # None => parked'[art] = place[art]
  BY <1>0, <1>4 DEF Displace, DiskTypes
<1>7. \A a \in Arts : Found(a)' = Found(a)
  BY <1>1, <1>3, <1>4, <1>5, <1>6 DEF Found
<1>8. \A a : Moved(a)' <=> Moved(a)
  BY <1>2 DEF Moved
<1>9. \A i \in DOMAIN job.moves : job.moves[i].art \in Arts /\ job.moves[i].art # art
  BY <1>0, <1>4, MovesAt DEF Moved
<1>10. \A a \in Arts : \A v : Was(a, v) => Was(a, v)'
  <2> SUFFICES ASSUME NEW a \in Arts, NEW v, Was(a, v) PROVE Was(a, v)'
    OBVIOUS
  <2>1. \A i \in DOMAIN job'.moves : job'.moves[i].art = a =>
          v = IF job'.moves[i].had THEN parked'[a] ELSE None
    BY <1>2, <1>5, <1>9 DEF Was
  <2> QED BY <1>7, <1>8, <2>1 DEF Was
<1>11. SwapOne'
  <2>1. InSwap
    BY <1>1 DEF InSwap
  <2>2. kit \subseteq Arts
    BY KitTypes DEF Types
  <2>3. \E w \in Levels' : \A a \in kit' : Counts(a)' => Was(a, w[a])'
    BY <1>1, <1>10, <2>1, <2>2 DEF Aligned, SwapOne, Levels, Counts
  <2> QED BY <1>1, <1>2, <1>5, <1>9, <2>1, <2>3 DEF Aligned, SwapOne
<1>12. DoneOne' /\ KnownOne'
  BY <1>1, <1>2, <1>5, <1>8, <1>9 DEF Aligned, DoneOne, KnownOne, InSwap
<1> QED BY <1>1, <1>11, <1>12 DEF Aligned, RestOne, ProvenOne, PendingOne, StartOne

\* The new artifact is in, and the move says what it goes back to.
LEMMA InstallOne ==
  ASSUME Types, RetryInv, Aligned, Install
  PROVE  Aligned'
<1>0. JobTypes /\ DiskTypes /\ PhaseInv
  BY DEF Types
<1>1. /\ step = "install" /\ step' \in {"record", "displace"}
      /\ UNCHANGED <<service, marker, parked, kit, hasSidecar>>
      /\ ~marker.pending /\ Swapping /\ InSwap
      /\ place' = [place EXCEPT ![art] = job.to]
  BY DEF Install, RetryInv, Attempting, Swapping, InSwap, worldVars
<1> DEFINE n == Len(job.moves)
<1>2. art \in Arts /\ ~Moved(art) /\ DOMAIN job.moves = 1 .. n /\ n \in Nat
  BY <1>1, ArtNext
<1>3. /\ job'.to = job.to /\ job'.starting = job.starting /\ job'.todo = Tail(job.todo)
      /\ \A i \in DOMAIN job'.moves :
           \/ i \in DOMAIN job.moves /\ job'.moves[i] = job.moves[i]
           \/ i = n + 1 /\ job'.moves[i].art = art /\ job'.moves[i].had = job.had
      /\ Len(job'.moves) = n + 1 /\ JobTypes'
  BY <1>0, <1>1, InstalledJob DEF Install
<1>4. DOMAIN job'.moves = 1 .. (n + 1)
  BY <1>3 DEF JobTypes
<1>5. \A i \in DOMAIN job.moves : job.moves[i].art \in Arts /\ job.moves[i].art # art
  BY <1>0, <1>2, MovesAt DEF Moved
<1>6. place'[art] = job.to /\ (\A a \in Arts : a # art => place'[a] = place[a])
  BY <1>0, <1>1, <1>2 DEF DiskTypes
<1>7. /\ \A i \in DOMAIN job.moves : i \in DOMAIN job'.moves /\ job'.moves[i] = job.moves[i]
      /\ n + 1 \in DOMAIN job'.moves /\ job'.moves[n + 1].art = art /\ job'.moves[n + 1].had = job.had
  <2>1. \A i \in 1 .. n : i \in 1 .. (n + 1) /\ i # n + 1
    BY <1>2
  <2>2. n + 1 \in 1 .. (n + 1) /\ n + 1 \notin 1 .. n
    BY <1>2
  <2> QED BY <1>2, <1>3, <1>4, <2>1, <2>2
<1>8. \A a \in Arts : Moved(a)' <=> Moved(a) \/ a = art
  BY <1>3, <1>7 DEF Moved
<1>9. \A a \in Arts : \A v : Was(a, v) => Was(a, v)'
  <2> SUFFICES ASSUME NEW a \in Arts, NEW v, Was(a, v) PROVE Was(a, v)'
    OBVIOUS
  <2>1. CASE a = art
    <3>1. v = IF job.had THEN parked[a] ELSE None
      BY <1>1, <1>2, <2>1 DEF Was, Found
    <3>2. \A i \in DOMAIN job'.moves : job'.moves[i].art = a =>
            v = IF job'.moves[i].had THEN parked'[a] ELSE None
      BY <1>1, <1>3, <1>5, <2>1, <3>1
    <3> QED BY <1>8, <2>1, <3>2 DEF Was
  <2>2. CASE a # art
    <3>1. \A i \in DOMAIN job'.moves : job'.moves[i].art = a =>
            v = IF job'.moves[i].had THEN parked'[a] ELSE None
      BY <1>1, <1>3, <2>2 DEF Was
    <3>2. Found(a)' = Found(a)
      BY <1>1, <1>6, <2>2 DEF Found
    <3> QED BY <1>8, <2>2, <3>1, <3>2 DEF Was
  <2> QED BY <2>1, <2>2
<1>10. SwapOne'
  <2>0. kit \subseteq Arts
    BY KitTypes DEF Types
  <2>1. \E w \in Levels' : \A a \in kit' : Counts(a)' => Was(a, w[a])'
    BY <1>1, <1>9, <2>0 DEF Aligned, SwapOne, Levels, Counts
  <2>2. \A i, j \in DOMAIN job'.moves : job'.moves[i].art = job'.moves[j].art => i = j
    BY <1>1, <1>3, <1>5 DEF Aligned, SwapOne
  <2>3. job.had => parked[art] # None
    BY <1>0, <1>1 DEF PhaseInv
  <2>4. \A i \in DOMAIN job'.moves : job'.moves[i].had => parked'[job'.moves[i].art] # None
    BY <1>1, <1>3, <2>3 DEF Aligned, SwapOne
  <2> QED BY <1>1, <2>1, <2>2, <2>4 DEF SwapOne
<1>11. DoneOne'
  <2>0. ToSet(job.todo) = {art} \cup ToSet(job'.todo) /\ art \notin ToSet(job'.todo) /\ kit \subseteq Arts
    BY <1>0, <1>1, <1>3, ArtTypes, KitTypes DEF Types
  <2>1. \A i \in DOMAIN job'.moves :
          place'[job'.moves[i].art] = job'.to /\ job'.moves[i].art \notin ToSet(job'.todo)
    BY <1>1, <1>2, <1>3, <1>5, <1>6, <2>0 DEF Aligned, DoneOne
  <2>2. \A a \in kit' :
          Moved(a)' \/ a \in ToSet(job'.todo) \/ (a = "keld" /\ job'.to \in Keldless)
    BY <1>1, <1>3, <1>8, <2>0 DEF Aligned, DoneOne
  <2> QED BY <1>1, <1>3, <2>1, <2>2 DEF Aligned, DoneOne
<1> QED BY <1>1, <1>10, <1>11
        DEF Aligned, KnownOne, InSwap, Swapping, RestOne, ProvenOne, PendingOne, StartOne

LEMMA ConcatOf ==
  ASSUME NEW S, NEW s \in Seq(S), NEW t \in Seq(S)
  PROVE  s \o t \in Seq(S) /\ ToSet(s \o t) = ToSet(s) \cup ToSet(t)
<1> DEFINE m == Len(s)
           n == Len(t)
<1>1. /\ s \o t \in Seq(S) /\ Len(s \o t) = m + n /\ m \in Nat /\ n \in Nat
      /\ DOMAIN s = 1 .. m /\ DOMAIN t = 1 .. n
  OBVIOUS
<1>2. DOMAIN (s \o t) = 1 .. (m + n)
  BY <1>1
<1>3. \A i \in 1 .. (m + n) : (s \o t)[i] = IF i <= m THEN s[i] ELSE t[i - m]
  BY <1>1
<1> HIDE DEF m, n
<1>4. \A i \in 1 .. m : i \in 1 .. (m + n) /\ i <= m
  BY <1>1
<1>5. \A i \in 1 .. n : i + m \in 1 .. (m + n) /\ ~(i + m <= m) /\ (i + m) - m = i
  BY <1>1
<1>6. \A i \in 1 .. (m + n) : IF i <= m THEN i \in 1 .. m ELSE i - m \in 1 .. n
  BY <1>1
<1>7. \A i \in 1 .. m : (s \o t)[i] = s[i]
  BY <1>3, <1>4
<1>8. \A i \in 1 .. n : (s \o t)[i + m] = t[i]
  BY <1>3, <1>5
<1>9. ToSet(s \o t) \subseteq ToSet(s) \cup ToSet(t)
  BY <1>1, <1>2, <1>3, <1>6 DEF ToSet
<1>10. ToSet(s) \subseteq ToSet(s \o t)
  BY <1>1, <1>2, <1>4, <1>7 DEF ToSet
<1>11. ToSet(t) \subseteq ToSet(s \o t)
  <2>1. SUFFICES ASSUME NEW i \in 1 .. n PROVE t[i] \in ToSet(s \o t)
    BY <1>1 DEF ToSet
  <2>2. i + m \in DOMAIN (s \o t) /\ (s \o t)[i + m] = t[i]
    BY <1>2, <1>5, <1>8
  <2> QED BY <2>2 DEF ToSet
<1> QED BY <1>1, <1>9, <1>10, <1>11

\* What a marker names as displaced.
LEMMA ParkedOf ==
  ASSUME NEW moves
  PROVE  ToSet(Parked(moves)) = {a \in Arts : [art |-> a, had |-> TRUE] \in ToSet(moves)}
<1> DEFINE d(a) == Displaced(a, moves)
           In(a) == [art |-> a, had |-> TRUE] \in ToSet(moves)
<1>1. ASSUME NEW a \in Arts
      PROVE  d(a) \in Seq(Arts) /\ ToSet(d(a)) = IF In(a) THEN {a} ELSE {}
  <2> DEFINE one == <<a>>
  <2>1. CASE In(a)
    <3>1. d(a) = one
      BY <2>1 DEF Displaced
    <3>2. one \in Seq(Arts) /\ DOMAIN one = {1} /\ one[1] = a
      BY <1>1
    <3>3. ToSet(one) = {a}
      BY <3>2 DEF ToSet
    <3> QED BY <2>1, <3>1, <3>2, <3>3
  <2>2. CASE ~In(a)
    <3>1. d(a) = <<>>
      BY <2>2 DEF Displaced
    <3>2. ToSet(<<>>) = {} /\ <<>> \in Seq(Arts)
      BY DEF ToSet
    <3> QED BY <2>2, <3>1, <3>2
  <2> QED BY <2>1, <2>2
<1>2. Parked(moves) = (d("sidecar") \o d("keld")) \o d("agent")
  BY DEF Parked
<1> HIDE DEF d, In
<1>3. \A a \in {"sidecar", "keld", "agent"} :
        d(a) \in Seq(Arts) /\ ToSet(d(a)) = IF In(a) THEN {a} ELSE {}
  BY <1>1 DEF Arts
<1>4. /\ d("sidecar") \o d("keld") \in Seq(Arts)
      /\ ToSet(d("sidecar") \o d("keld")) = ToSet(d("sidecar")) \cup ToSet(d("keld"))
  BY <1>3, ConcatOf
<1>5. ToSet(Parked(moves)) = ToSet(d("sidecar") \o d("keld")) \cup ToSet(d("agent"))
  <2> DEFINE x == d("sidecar") \o d("keld")
             y == d("agent")
  <2>1. x \in Seq(Arts) /\ y \in Seq(Arts)
    BY <1>3, <1>4
  <2> HIDE DEF x, y
  <2>2. ToSet(x \o y) = ToSet(x) \cup ToSet(y)
    BY <2>1, ConcatOf
  <2> QED BY <1>2, <2>2 DEF x, y
<1>6. ToSet(Parked(moves)) = {a \in {"sidecar", "keld", "agent"} : In(a)}
  BY <1>3, <1>4, <1>5
<1> QED BY <1>6 DEF In, Arts

\* The marker names what the next start moves back, which is all the attempt
\* displaced.
LEMMA RecordOne ==
  ASSUME Types, RetryInv, Aligned, Record
  PROVE  Aligned'
<1>0. JobTypes /\ MarkerTypes /\ PhaseInv /\ kit \subseteq Arts
  BY KitTypes DEF Types
<1>1. /\ step = "record" /\ Swapping /\ InSwap /\ ~marker.pending
      /\ UNCHANGED <<place, parked, service, job, kit, hasSidecar>>
      /\ step' = IF service = "first" THEN "migrate" ELSE "restart"
  BY DEF Record, Swapping, InSwap, RetryInv, Attempting, diskVars, worldVars
<1>2. /\ marker'.pending = TRUE /\ marker'.stale = FALSE /\ marker'.to = job.to
      /\ marker'.prev = Parked(job.moves)
  BY <1>0, RecordedMarker DEF Record
\* What has moved is of the new version; the marker names it if it was displaced.
<1>3. \A i \in DOMAIN job.moves : place[job.moves[i].art] = job.to
  BY <1>1 DEF Aligned, DoneOne
<1>4. \A a \in kit : Moved(a) \/ (a = "keld" /\ job.to \in Keldless)
  BY <1>0, <1>1, PlanSets DEF Aligned, DoneOne, PhaseInv
<1>5. \A a \in Arts :
        a \in ToSet(marker'.prev) <=> \E i \in DOMAIN job.moves : job.moves[i].art = a /\ job.moves[i].had
  <2> DEFINE M == [art : Arts, had : BOOLEAN]
  <2>1. job.moves \in Seq(M)
    BY <1>0 DEF JobTypes
  <2>2. \A m \in M : \A a : m = [art |-> a, had |-> TRUE] <=> m.art = a /\ m.had
    OBVIOUS
  <2> HIDE DEF M
  <2>3. \A i \in DOMAIN job.moves : job.moves[i] \in M
    BY <2>1, At
  <2>4. \A a \in Arts : a \in ToSet(marker'.prev) <=> [art |-> a, had |-> TRUE] \in ToSet(job.moves)
    BY <1>2, ParkedOf
  <2>5. ASSUME NEW a \in Arts
        PROVE  [art |-> a, had |-> TRUE] \in ToSet(job.moves) <=>
                 \E i \in DOMAIN job.moves : job.moves[i].art = a /\ job.moves[i].had
    <3> DEFINE x == [art |-> a, had |-> TRUE]
    <3>1. \A m \in M : m = x <=> m.art = a /\ m.had
      BY <2>2
    <3> HIDE DEF x
    <3>2. x \in ToSet(job.moves) <=> \E i \in DOMAIN job.moves : job.moves[i] = x
      BY DEF ToSet
    <3>3. x \in ToSet(job.moves) <=>
            \E i \in DOMAIN job.moves : job.moves[i].art = a /\ job.moves[i].had
      BY <2>3, <3>1, <3>2, Zenon
    <3> QED BY <3>3 DEF x
  <2> QED BY <2>4, <2>5
<1>6. PICK w \in Levels : \A a \in kit : Counts(a) => Was(a, w[a])
  BY <1>1 DEF Aligned, SwapOne
<1>7. \A a \in kit : w[a] \in Versions /\ w[a] # None
  BY KitTypes DEF Types
\* What has moved and counts was displaced, from the level it goes back to.
<1>8. ASSUME NEW a \in kit, Counts(a), Moved(a)
      PROVE  a \in ToSet(marker'.prev) /\ parked[a] = w[a]
  <2>1. PICK i \in DOMAIN job.moves : job.moves[i].art = a
    BY <1>8 DEF Moved
  <2>2. w[a] = IF job.moves[i].had THEN parked[a] ELSE None
    BY <1>6, <1>8, <2>1 DEF Was
  <2>3. job.moves[i].had
    BY <1>7, <2>2
  <2> QED BY <1>0, <1>5, <2>1, <2>2, <2>3
<1>9. ASSUME NEW a \in kit, Counts(a), ~Moved(a)
      PROVE  a \notin ToSet(marker'.prev) /\ place[a] = w[a]
  BY <1>0, <1>1, <1>5, <1>6, <1>9 DEF Was, Found, Moved
<1>10. PendingOne'
  <2>1. \A a \in kit : Counts(a) => Yield(a)' = w[a]
    BY <1>1, <1>7, <1>8, <1>9 DEF Yield
  <2> QED BY <1>1, <1>6, <2>1 DEF PendingOne, Levels, Counts
<1>11. SwapOne'
  <2> SUFFICES ASSUME InSwap' PROVE SwapOne'
    BY DEF SwapOne
  <2>1. step' = "migrate" /\ service = "first"
    BY <1>1 DEF InSwap, Swapping
  <2>2. \A a \in kit : \A v : Was(a, v) => Was(a, v)'
    BY <1>1, <2>1 DEF Was, Found, Moved
  <2>3. \E u \in Levels' : \A a \in kit' : Counts(a)' => Was(a, u[a])'
    BY <1>1, <1>6, <2>2 DEF Levels, Counts
  <2>4. "sidecar" \in kit => "sidecar" \in ToSet(marker'.prev)
    BY <1>4, <1>8 DEF Counts
  <2> QED BY <1>1, <2>1, <2>3, <2>4 DEF Aligned, SwapOne
<1>12. ProvenOne'
  <2>1. service = "own" =>
          \A a \in kit :
            place[a] \in Versions /\ (place[a] = job.to \/ (a = "keld" /\ job.to \in Keldless))
    <3> SUFFICES ASSUME service = "own", NEW a \in kit
                 PROVE  place[a] \in Versions /\ (place[a] = job.to \/ (a = "keld" /\ job.to \in Keldless))
      OBVIOUS
    <3>1. CASE Moved(a)
      BY <1>0, <1>3, <3>1 DEF Moved, JobTypes
    <3>2. CASE ~Moved(a)
      BY <1>4, <1>7, <1>9, <3>2 DEF Counts
    <3> QED BY <3>1, <3>2
  <2> QED BY <1>1, <1>2, <2>1 DEF ProvenOne, Proven
<1>13. DoneOne' /\ KnownOne' /\ RestOne' /\ StartOne'
  <2>1. \A a : Moved(a)' <=> Moved(a)
    BY <1>1 DEF Moved
  <2> QED BY <1>1, <1>2, <2>1 DEF Aligned, DoneOne, KnownOne, InSwap, Swapping, RestOne, StartOne
<1> QED BY <1>10, <1>11, <1>12, <1>13 DEF Aligned

LEMMA AttemptOne ==
  ASSUME Types, RetryInv, OneInv,
         \/ Maybe \/ Fetch \/ FetchFails \/ Displace \/ DisplaceFails \/ Install \/ InstallFails
         \/ Record \/ RecordFails \/ Migrate \/ MigrateFails \/ Restart
  PROVE  OneInv'
<1>0. JobTypes /\ MarkerTypes /\ DiskTypes /\ PhaseInv
  BY DEF Types
\* A step that blames something leaves nothing to show.
<1>1. SUFFICES ASSUME blame' = {} PROVE Aligned'
  BY DEF OneInv
<1>2. blame = {}
  BY <1>1 DEF Maybe, Fetch, FetchFails, Displace, DisplaceFails, Install, InstallFails, Record,
              RecordFails, Migrate, MigrateFails, Restart
<1>3. Aligned
  BY <1>2 DEF OneInv
<1>kit. kit \subseteq Arts /\ StepTypes
  BY KitTypes DEF Types
<1>4. CASE Maybe
  <2>1. /\ step = "idle" /\ step' = "fetch" /\ ~marker.pending
        /\ UNCHANGED <<place, parked, service, kit, hasSidecar>>
    BY <1>4 DEF Maybe, Decide, diskVars, worldVars
  <2>2. marker'.pending = FALSE
    <3>1. CASE marker' = [marker EXCEPT !.recent = TRUE] \/ marker' = marker
      BY <1>0, <2>1, <3>1 DEF MarkerTypes
    <3>2. CASE marker' = [NoMarker EXCEPT !.recent = TRUE]
      BY <3>2, LostMarker
    <3> QED BY <1>4, <3>1, <3>2 DEF Maybe
  <2>3. KnownOne'
    BY <1>3, <2>1 DEF Aligned, KnownOne, InSwap, Swapping
  <2>4. marker.pending = FALSE
    BY <1>0, <2>1 DEF MarkerTypes
  <2> QED BY <1>3, <2>1, <2>2, <2>3, <2>4, QuietOne
<1>5. CASE Fetch \/ FetchFails
  <2>1. /\ step = "fetch" /\ step' \in {"displace", "undo"} /\ ~job.starting /\ ~marker.pending
        /\ UNCHANGED <<place, parked, service, marker, kit, hasSidecar>>
    BY <1>5 DEF Fetch, FetchFails, Undoing, diskVars, worldVars, RetryInv, Attempting
  <2>2. job'.moves = <<>> /\ job'.starting = job.starting /\ job'.to = job.to
    <3>1. CASE Fetch
      BY <1>0, <3>1 DEF Fetch, JobTypes, PhaseInv
    <3>2. CASE FetchFails
      <4>1. JobTypes' /\ Len(job'.moves) = Len(job.moves) /\ job.moves = <<>>
            /\ job'.starting = job.starting /\ job'.to = job.to
        BY <1>0, <2>1, <3>2, UndoingJob DEF FetchFails, PhaseInv
      <4>2. job'.moves \in Seq([art : Arts, had : BOOLEAN]) /\ Len(job'.moves) = 0
        BY <4>1 DEF JobTypes
      <4> QED BY <4>1, <4>2
    <3> QED BY <1>5, <3>1, <3>2
  <2>3. DOMAIN job'.moves = {}
    BY <2>2
  <2>4. \A a : ~Moved(a)' /\ Found(a)' = place[a]
    BY <2>1, <2>3 DEF Moved, Found
  <2>5. PICK w \in Levels : \A a \in kit : Counts(a) => place[a] = w[a]
    BY <1>3, <2>1 DEF Aligned, RestOne
  <2>6. SwapOne'
    <3>1. \A a \in kit' : Counts(a)' => Was(a, w[a])'
      BY <2>1, <2>3, <2>4, <2>5 DEF Was, Counts
    <3>2. w \in Levels'
      BY <2>1, <2>5 DEF Levels
    <3> QED BY <2>1, <2>3, <3>1, <3>2 DEF SwapOne
  <2>7. KnownOne'
    BY <1>3, <2>1 DEF Aligned, KnownOne
  <2>8. DoneOne'
    <3>1. CASE step' = "displace"
      <4>1. job'.todo = Plan(job.to) /\ hasSidecar \in BOOLEAN
        BY <1>0, <1>5, <1>kit, <3>1 DEF Fetch, FetchFails, Undoing, JobTypes, StepTypes
      <4>2. \A a \in Arts : (a = "sidecar" => hasSidecar) /\ (a = "keld" => job.to \notin Keldless)
                             => a \in ToSet(job'.todo)
        BY <4>1, PlanTypes
      <4>3. "sidecar" \in kit => hasSidecar
        BY <1>3, <2>1 DEF Aligned, KnownOne
      <4> QED BY <1>kit, <2>1, <2>2, <2>3, <4>2, <4>3 DEF DoneOne
    <3>2. CASE step' = "undo"
      BY <3>2 DEF DoneOne, Swapping
    <3> QED BY <2>1, <3>1, <3>2
  <2> QED BY <2>1, <2>2, <2>6, <2>7, <2>8 DEF Aligned, RestOne, ProvenOne, PendingOne, StartOne
<1>7. CASE Displace
  BY <1>3, <1>7, DisplaceOne
<1>8. CASE DisplaceFails
  <2>1. /\ step = "displace" /\ Swapping /\ Undoing
        /\ UNCHANGED <<service, marker, place, kit, hasSidecar>>
        /\ ~marker.pending /\ parked' \in {parked, [parked EXCEPT ![art] = None]}
    BY <1>8 DEF DisplaceFails, Swapping, RetryInv, Attempting, worldVars
  <2>2. ~Moved(art)
    BY <1>3, <2>1, ArtNext
  <2>3. \A a \in Arts : Moved(a) => parked'[a] = parked[a]
    BY <1>0, <2>1, <2>2 DEF DiskTypes
  <2>4. \A a \in Arts : Found(a) = place'[a]
    BY <2>1 DEF Found
  <2> QED BY <1>3, <2>1, <2>3, <2>4, UndoingOne
<1>9. CASE Install
  BY <1>3, <1>9, InstallOne
<1>10. CASE InstallFails
  <2>1. /\ step = "install" /\ Swapping /\ Undoing /\ UNCHANGED <<service, marker, kit, hasSidecar>>
        /\ ~marker.pending
    BY <1>10 DEF InstallFails, Swapping, RetryInv, Attempting, worldVars
  <2>2. \/ /\ job.had /\ place' = [place EXCEPT ![art] = parked[art]]
           /\ parked' = [parked EXCEPT ![art] = None]
        \/ ~job.had /\ UNCHANGED <<place, parked>>
    BY <1>1, <1>10 DEF InstallFails
  <2>3. ~Moved(art) /\ art \in Arts /\ place[art] = None
    BY <1>0, <1>3, <2>1, ArtNext DEF PhaseInv
  <2>4. \A a \in Arts : Moved(a) => parked'[a] = parked[a]
    BY <1>0, <2>2, <2>3 DEF DiskTypes
  <2>5. \A a \in Arts : Found(a) = place'[a]
    BY <1>0, <2>1, <2>2, <2>3 DEF Found, DiskTypes
  <2> QED BY <1>3, <2>1, <2>4, <2>5, UndoingOne
<1>11. CASE Record
  BY <1>3, <1>11, RecordOne
<1>12. CASE RecordFails \/ MigrateFails
  <2>1. /\ step \in {"record", "migrate"} /\ Swapping /\ Undoing
        /\ UNCHANGED <<service, marker, place, parked, kit, hasSidecar>>
    BY <1>12 DEF RecordFails, MigrateFails, Swapping, diskVars, worldVars
  <2>2. \A a \in Arts : Found(a) = place'[a]
    BY <2>1 DEF Found
  <2> QED BY <1>3, <2>1, <2>2, UndoingOne
<1>13. CASE Migrate
  BY <1>1, <1>13 DEF Migrate
<1>14. CASE Restart
  <2>1. /\ step = "restart" /\ step' \in {"off", "idle"}
        /\ UNCHANGED <<place, parked, service, marker, kit, hasSidecar>>
    BY <1>14 DEF Restart, Stop, Idle, diskVars, worldVars
  <2>2. KnownOne'
    BY <1>3, <2>1 DEF Aligned, KnownOne, InSwap, Swapping
  <2> QED BY <1>3, <2>1, <2>2, QuietOne
<1> QED BY <1>4, <1>5, <1>7, <1>8, <1>9, <1>10, <1>11, <1>12, <1>13, <1>14

\* What a start finds of an unproven update, and what it begins.
LEMMA StartsOne ==
  ASSUME Types, RetryInv, Aligned, Start
  PROVE  Aligned'
<1>0. MarkerTypes /\ DiskTypes /\ step = "off" /\ kit \subseteq Arts
  BY KitTypes DEF Types, StepTypes, Start
<1>1. /\ UNCHANGED <<place, parked, service, marker, kit>>
      /\ service = "first" => Agent = Base
  BY DEF Start, diskVars, worldVars, Agent, InUse
<1>2. CASE Ready
  <2>1. step' = "idle" /\ place' = place
    BY <1>1, <1>2 DEF Ready, Idle
  <2>2. CASE marker.pending
    <3>1. KnownOne'
      BY <1>1, <2>1, <2>2 DEF KnownOne, InSwap, Swapping
    <3> QED BY <1>0, <1>1, <2>1, <2>2, <3>1, QuietOne
  <2>3. CASE ~marker.pending
    <3>1. PICK w \in Levels : \A a \in kit : Counts(a) => place[a] = w[a]
      BY <1>0, <2>3 DEF Aligned, RestOne
    <3>2. "sidecar" \in kit => place["sidecar"] # None
      BY <3>1, KitTypes DEF Types, Counts
    <3>3. KnownOne'
      BY <1>1, <1>2, <3>2, ReadyKnown DEF KnownOne
    <3> QED BY <1>0, <1>1, <2>1, <2>3, <3>3, QuietOne
  <2> QED BY <2>2, <2>3
<1>3. CASE /\ marker.pending /\ Agent = marker.to /\ ~marker.stale
           /\ step' = "commit"
  <2>1. service = "own"
    BY <1>0, <1>1, <1>3 DEF RetryInv, DiskTypes
  <2>2. Proven
    BY <1>3, <2>1 DEF Aligned, ProvenOne
  <2> QED BY <1>1, <1>3, <2>1, <2>2
          DEF Aligned, SwapOne, InSwap, Swapping, DoneOne, KnownOne, RestOne, ProvenOne, Proven,
              PendingOne, StartOne
<1>4. CASE /\ marker.pending
           /\ step' = "undo"
           /\ job' = [NoJob EXCEPT !.starting = TRUE,
                                   !.moves = [i \in DOMAIN marker.prev |->
                                                [art |-> marker.prev[i], had |-> TRUE]]]
  <2>1. marker.prev \in Seq(Arts)
    BY <1>0 DEF MarkerTypes
  <2>2. job'.starting = TRUE
    BY <1>4, <2>1, RollBackJob
  <2>3. job'.moves = [i \in DOMAIN marker.prev |-> [art |-> marker.prev[i], had |-> TRUE]]
    BY <1>4, NoJobTypes
  <2>4. StartOne'
    <3>1. \A i \in DOMAIN job'.moves : job'.moves[i].had /\ job'.moves[i].art \in ToSet(marker.prev)
      BY <2>3 DEF ToSet
    <3>2. \A a \in ToSet(marker.prev) : Moved(a)'
      BY <2>3 DEF ToSet, Moved
    <3> QED BY <1>1, <3>1, <3>2 DEF StartOne
  <2>5. PendingOne'
    <3>1. \A a \in Arts : Yield(a)' = Yield(a)
      BY <1>1 DEF Yield
    <3> QED BY <1>0, <1>1, <3>1 DEF Aligned, PendingOne, Levels, Counts
  <2> QED BY <1>1, <1>4, <2>2, <2>4, <2>5
          DEF Aligned, SwapOne, InSwap, Swapping, DoneOne, KnownOne, RestOne, ProvenOne, Proven
<1> QED BY <1>2, <1>3, <1>4 DEF Start

LEMMA ConfirmOne ==
  ASSUME Types, RetryInv, OneInv,
         Start \/ Drop \/ Confirmed \/ RolledBack \/ RolledBackUnsaved \/ Die \/ DieLate
  PROVE  OneInv'
<1>0. JobTypes /\ MarkerTypes /\ DiskTypes /\ StepTypes
  BY DEF Types
<1>1. SUFFICES ASSUME blame' = {} PROVE Aligned'
  BY DEF OneInv
<1>2. blame = {}
  BY <1>1 DEF Start, Drop, Confirmed, RolledBack, RolledBackUnsaved, Die, DieLate
<1>3. Aligned
  BY <1>2 DEF OneInv
<1>4. CASE Start
  BY <1>3, <1>4, StartsOne
<1>kit. kit \subseteq Arts
  BY KitTypes DEF Types
<1>5. CASE Drop
  <2>1. step = "commit" /\ step' = "commit" /\ UNCHANGED <<place, service, marker, kit, hasSidecar>>
    BY <1>5 DEF Drop, worldVars
  <2> QED BY <1>3, <2>1
          DEF Aligned, SwapOne, InSwap, Swapping, DoneOne, KnownOne, RestOne, ProvenOne, Proven,
              PendingOne, StartOne
<1>6. CASE Confirmed
  <2>1. /\ step = "commit" /\ step' = "idle" /\ marker' = Settled(marker.failed) /\ Ready
        /\ UNCHANGED <<place, parked, service, kit>>
    BY <1>1, <1>6 DEF Confirmed, Ready, Idle, diskVars, worldVars
  <2>2. marker'.pending = FALSE
    BY <1>0, <2>1, SettledMarker DEF MarkerTypes
  <2>3. service = "own" /\ Proven
    BY <1>3, <2>1 DEF Aligned, ProvenOne
  <2>4. RestOne'
    <3> DEFINE w == [a \in kit |-> place[a]]
    <3>1. w \in Levels'
      BY <2>1, <2>3, KitTypes DEF Types, Proven, Levels
    <3> QED BY <2>1, <3>1 DEF RestOne
  <2>5. KnownOne'
    BY <2>1, <2>3, Constants, ReadyKnown DEF Proven, KnownOne
  <2> QED BY <2>1, <2>2, <2>4, <2>5
          DEF Aligned, SwapOne, InSwap, Swapping, DoneOne, ProvenOne, PendingOne, StartOne
<1>7. CASE RolledBack
  <2>1. /\ step = "undo" /\ job.starting /\ job.moves = <<>>
        /\ (step' = "idle" /\ Ready) \/ step' = "off"
        /\ UNCHANGED <<place, parked, service, kit>> /\ marker.pending
        /\ marker' = Settled(Marked(marker.to))
    BY <1>7 DEF RolledBack, Stop, Ready, Idle, diskVars, worldVars, RetryInv
  <2>2. marker'.pending = FALSE
    BY <1>0, <2>1, SettledMarker, MarkedTypes DEF MarkerTypes
  <2>3. \A a \in ToSet(marker.prev) : parked[a] = None
    BY <1>3, <2>1 DEF Aligned, StartOne, Moved
  <2>4. \A a : Yield(a) = place[a]
    BY <2>3 DEF Yield
  <2>5. PICK w \in Levels : \A a \in kit : Counts(a) => place[a] = w[a]
    BY <1>3, <2>1, <2>4 DEF Aligned, PendingOne
  <2>6. RestOne'
    BY <2>1, <2>5 DEF RestOne, Levels, Counts
  <2>7. KnownOne'
    <3>1. "sidecar" \in kit => place["sidecar"] # None
      BY <2>5, KitTypes DEF Types, Counts
    <3> QED BY <2>1, <3>1, ReadyKnown DEF KnownOne, InSwap, Swapping
  <2> QED BY <2>1, <2>2, <2>6, <2>7
          DEF Aligned, SwapOne, InSwap, Swapping, DoneOne, ProvenOne, PendingOne, StartOne
<1>8. CASE RolledBackUnsaved
  <2>1. /\ step = "undo" /\ step' = "idle" /\ marker.pending
        /\ UNCHANGED <<place, parked, service, marker, kit>>
    BY <1>8 DEF RolledBackUnsaved, Ready, Idle, diskVars, worldVars, RetryInv
  <2>2. KnownOne'
    BY <2>1 DEF KnownOne, InSwap, Swapping
  <2> QED BY <1>3, <2>1, <2>2, QuietOne
<1>9. CASE Die
  <2>1. /\ step' = "off" /\ UNCHANGED <<place, parked, service, marker, kit, hasSidecar>>
        /\ step # "off" /\ step # "commit"
    BY <1>0, <1>1, <1>9 DEF Die, Stop, diskVars, worldVars, StepTypes
  <2>2. KnownOne'
    BY <2>1 DEF KnownOne, InSwap, Swapping
  \* An attempt that has displaced nothing, or whose marker is written.
  <2>3. job.starting \/ marker.pending \/ (job.moves = <<>> /\ ~(step = "install" /\ job.had))
    BY <1>1, <1>9 DEF Die
  <2>4. CASE marker.pending \/ step \in {"off", "idle", "fetch", "restart"}
    BY <1>3, <2>1, <2>2, <2>4, QuietOne
  <2>5. CASE ~(marker.pending \/ step \in {"off", "idle", "fetch", "restart"})
    <3>1. InSwap
      BY <1>0, <2>1, <2>5 DEF RetryInv, InSwap, Swapping, StepTypes, Steps
    <3>2. ~job.starting
      BY <1>3, <2>5, <3>1 DEF RetryInv, InSwap, Aligned, DoneOne
    <3>3. PICK w \in Levels : \A a \in kit : Counts(a) => Was(a, w[a])
      BY <1>3, <3>1 DEF Aligned, SwapOne
    <3>4. \A a \in kit : Counts(a) => Found(a) = w[a]
      BY <2>3, <2>5, <3>2, <3>3 DEF Was, Moved
    <3>5. \A a \in Arts : step = "install" /\ a = art => Found(a) = place[a]
      BY <1>0, <2>3, <2>5, <3>2 DEF Types, PhaseInv, Found
    <3>6. \A a \in kit : Counts(a) => place[a] = w[a]
      BY <1>kit, <3>4, <3>5 DEF Found
    <3>7. RestOne'
      BY <2>1, <3>3, <3>6 DEF RestOne, Levels, Counts
    <3> QED BY <2>1, <2>2, <2>5, <3>7
            DEF Aligned, SwapOne, InSwap, Swapping, DoneOne, ProvenOne, PendingOne, StartOne
  <2> QED BY <2>4, <2>5
<1>10. CASE DieLate
  <2>1. /\ step = "idle" /\ step' = "off"
        /\ UNCHANGED <<place, parked, service, marker, kit, hasSidecar>>
    BY <1>10 DEF DieLate, Stop, diskVars, worldVars
  <2>2. KnownOne'
    BY <2>1 DEF KnownOne, InSwap, Swapping
  <2> QED BY <1>3, <2>1, <2>2, QuietOne
<1> QED BY <1>4, <1>5, <1>6, <1>7, <1>8, <1>9, <1>10

LEMMA OutsideOne ==
  ASSUME Types, OneInv, (\E v \in Versions : Pin(v)) \/ Deadline \/ Interval
  PROVE  OneInv'
<1>1. UNCHANGED <<place, parked, service, running, step, job, kit, hasSidecar, blame>>
  BY DEF Pin, Deadline, Interval, diskVars, worldVars
<1>2. /\ marker'.pending = marker.pending /\ marker'.to = marker.to /\ marker'.prev = marker.prev
      /\ marker'.stale = marker.stale \/ marker'.stale = TRUE
  BY DEF Pin, Deadline, Interval, Types, MarkerTypes
<1>3. /\ \A a : (Yield(a)' = Yield(a)) /\ (Moved(a)' <=> Moved(a))
      /\ \A a, v : Was(a, v)' <=> Was(a, v)
      /\ Levels' = Levels /\ \A a : Counts(a)' <=> Counts(a)
  BY <1>1, <1>2 DEF Yield, Moved, Was, Found, art, Levels, Counts
<1> SUFFICES ASSUME Aligned PROVE Aligned'
  BY <1>1 DEF OneInv
<1>4. SwapOne' /\ KnownOne'
  BY <1>1, <1>2, <1>3 DEF Aligned, SwapOne, KnownOne, InSwap, Swapping
<1>5. PendingOne' /\ RestOne'
  BY <1>1, <1>2, <1>3 DEF Aligned, PendingOne, RestOne
<1>6. DoneOne' /\ ProvenOne' /\ StartOne'
  BY <1>1, <1>2, <1>3 DEF Aligned, DoneOne, Swapping, ProvenOne, Proven, StartOne
<1> QED BY <1>4, <1>5, <1>6 DEF Aligned

LEMMA OneStep == Types /\ RetryInv /\ OneInv /\ [Next]_vars => OneInv'
<1> SUFFICES ASSUME Types, RetryInv, OneInv, [Next]_vars PROVE OneInv'
  OBVIOUS
<1>1. CASE UNCHANGED vars
  <2>1. UNCHANGED <<place, parked, service, step, job, marker, kit, hasSidecar, blame>>
    BY <1>1 DEF vars, diskVars, worldVars
  <2>2. /\ \A a : (Yield(a)' = Yield(a)) /\ (Moved(a)' <=> Moved(a))
        /\ \A a, v : Was(a, v)' <=> Was(a, v)
        /\ Levels' = Levels /\ \A a : Counts(a)' <=> Counts(a)
    BY <2>1 DEF Yield, Moved, Was, Found, art, Levels, Counts
  <2> QED BY <2>1, <2>2 DEF OneInv, Aligned, SwapOne, KnownOne, InSwap, Swapping, DoneOne, RestOne,
                            ProvenOne, Proven, PendingOne, StartOne
<1>2. CASE Work
  <2>1. \/ Maybe \/ Fetch \/ FetchFails \/ Displace \/ DisplaceFails \/ Install \/ InstallFails
        \/ Record \/ RecordFails \/ Migrate \/ MigrateFails \/ Restart
        \/ UndoNew \/ UndoMissing \/ UndoClear \/ UndoRestore \/ UndoFails \/ UndoDone
        \/ Drop \/ Confirmed \/ RolledBack \/ RolledBackUnsaved
    BY <1>2, Zenon DEF Work
  <2> QED BY <2>1, AttemptOne, UndoOne, ConfirmOne
<1> QED BY <1>1, <1>2, OutsideOne, ConfirmOne DEF Next

LEMMA InitOne == Init => OneInv
<1> SUFFICES ASSUME Init PROVE Aligned
  BY DEF OneInv
<1>1. /\ step = "idle" /\ marker.pending = FALSE /\ service \in {"first", "own"}
      /\ kit \in {Arts, {"keld", "agent"}} /\ hasSidecar = ("sidecar" \in kit)
  BY ArtsAre DEF Init, NoMarker
<1>2. \A a \in kit : Counts(a) => place[a] = Base
  BY <1>1, ArtsAre DEF Init, Counts, Arts
<1>3. RestOne
  <2> DEFINE w == [a \in kit |-> Base]
  <2>1. w \in Levels
    BY <1>1, Constants DEF Levels, Arts
  <2> QED BY <1>2, <2>1 DEF RestOne
<1>4. KnownOne
  BY <1>1 DEF KnownOne
<1> QED BY <1>1, <1>3, <1>4
        DEF Aligned, SwapOne, InSwap, Swapping, DoneOne, ProvenOne, PendingOne, StartOne

\* With no update pending, what the machine was installed with is of one version,
\* but for the keld beside a release that has none: whatever failed, timed out or
\* was rolled back, and however often, unless one of the four ways of mixing
\* versions that blame names has been taken.
THEOREM OneVersionAtRest == Spec => []OneVersion
<1>1. Init => OneInv
  BY InitOne
<1>2. Types /\ RetryInv /\ OneInv /\ [Next]_vars => OneInv'
  BY OneStep
<1>3. Types /\ OneInv => OneVersion
  <2> SUFFICES ASSUME Types, Aligned, step = "idle", ~marker.pending, NEW a \in kit
               PROVE  InUse(a) = Agent \/ (a = "keld" /\ Agent \in Keldless)
    BY DEF OneVersion, OneInv
  <2>1. PICK w \in Levels : \A x \in kit : Counts(x) => place[x] = w[x]
    BY DEF Aligned, RestOne
  <2>2. service \in {"first", "own"} /\ "agent" \in kit
    BY KitTypes DEF Types, DiskTypes
  <2>3. w["agent"] = Agent
    BY <2>1, <2>2 DEF InUse, Agent, Levels, Counts
  <2>4. InUse(a) = w[a] \/ InUse(a) = Agent
    BY <2>1, <2>2 DEF InUse, Agent, Counts
  <2> QED BY <2>1, <2>3, <2>4 DEF Levels
<1> QED BY <1>1, <1>2, <1>3, UpdateInvariance, PTL DEF Spec

LEMMA TypesImply == Types => UpdateTypeOK
<1> SUFFICES ASSUME Types PROVE UpdateTypeOK
  OBVIOUS
<1>0. JobTypes /\ MarkerTypes /\ DiskTypes /\ StepTypes /\ PhaseInv
  BY DEF Types
<1>1. \A S : \A s \in Seq(S) : ToSet(s) \subseteq S
  BY DEF ToSet
<1>2. place \in Copies /\ parked \in Copies /\ service \in {"first", "own"}
  BY <1>0, ArtsAre DEF DiskTypes, Copies
<1>3. /\ {marker.pending, marker.stale, marker.recent} \subseteq BOOLEAN /\ marker.to \in Versions
      /\ ToSet(marker.prev) \subseteq Artifacts
      /\ ToSet(marker.failed) \subseteq Versions /\ Len(marker.failed) <= MaxFailed
  BY <1>0, <1>1, ArtsAre DEF MarkerTypes
<1>4. /\ running \in Versions \cup {None} /\ (running = None) = (step = "off")
      /\ hasSidecar \in BOOLEAN /\ kit \subseteq Artifacts
      /\ step \in {"off", "idle", "fetch", "displace", "install", "record", "migrate", "restart",
                   "undo", "restore", "commit"}
  BY <1>0, ArtsAre DEF StepTypes, Steps, Arts
<1>5. /\ job.to \in Versions /\ {job.had, job.errs, job.restored, job.starting} \subseteq BOOLEAN
      /\ ToSet(job.todo) \subseteq Artifacts
  BY <1>0, <1>1, ArtsAre DEF JobTypes
<1>6. ToSet(job.moves) \subseteq Moves
  <2>1. job.moves \in Seq(Moves)
    BY <1>0, ArtsAre DEF JobTypes, Moves
  <2> QED BY <1>1, <2>1
<1>7. step = "restore" => parked[move.art] # None
  BY <1>0 DEF PhaseInv
<1> QED BY <1>2, <1>3, <1>4, <1>5, <1>6, <1>7 DEF UpdateTypeOK

\* The updater's types; nothing is restored but from a parked copy, and no more
\* failures are remembered than MaxFailed.
THEOREM UpdateTypeCorrect == Spec => []UpdateTypeOK
BY TypesImply, UpdateInvariance, PTL
=============================================================================
