------------------------- MODULE AttributionProofs -------------------------
(***************************************************************************)
(* Theorems about Attributor, for all jobs, conditions of the sidecar and  *)
(* bounds: its types, that no published block loses its attribution        *)
(* unnoticed, and that every set-aside is paid for by sweeps without an    *)
(* answer.                                                                 *)
(***************************************************************************)
EXTENDS Attributor, FiniteSetTheorems, TLAPS

Steps == {"ask", "hold", "retry", "degrade", "publish", "delete"}
Copies == [job : Jobs, file : Files]
Statuses == {"none", "degraded", "answered"}

Types ==
  /\ AttribTypeOK /\ todo \in Seq(Copies)
  /\ errors \in [Jobs -> 0 .. MaxAttempts] /\ skews \in [Jobs -> 0 .. MaxAttempts]

LEMMA Constants ==
  /\ Jobs \subseteq Nat /\ IsFiniteSet(Jobs) /\ MaxAttempts \in Nat /\ MaxAttempts > 0
  /\ MaxPerSweep \in Nat /\ MaxPerSweep > 0
BY AttributorAssumption

LEMMA At == ASSUME NEW S, NEW s \in Seq(S), NEW i \in DOMAIN s PROVE s[i] \in S
OBVIOUS

\* The file names in their order: the store is listed completely, each job once.
LEMMA ListedTypes ==
  ASSUME Types
  PROVE  /\ Cardinality(DOMAIN store) \in Nat /\ Cardinality(DOMAIN store) <= Cardinality(Jobs)
         /\ Cardinality(Jobs) \in Nat
         /\ DOMAIN store # {} => Cardinality(DOMAIN store) > 0
         /\ Len(Listed) = Cardinality(DOMAIN store)
         /\ \A i \in 1 .. Len(Listed) :
              Listed[i].job \in DOMAIN store /\ Listed[i].file = store[Listed[i].job]
              /\ Listed[i] \in Copies
<1> DEFINE D == DOMAIN store
           n == Cardinality(D)
           Ahead(j) == {k \in D : k < j}
<1>1. D \subseteq Jobs /\ D \subseteq Nat /\ IsFiniteSet(D) /\ n \in Nat
      /\ n <= Cardinality(Jobs) /\ Cardinality(Jobs) \in Nat
  BY Constants, FS_Subset, FS_CardinalityType DEF Types, AttribTypeOK
<1>2. D # {} => n > 0
  BY <1>1, FS_EmptySet
<1>3. \A j \in D : Before(j) = Cardinality(Ahead(j)) /\ Ahead(j) \subseteq D /\ IsFiniteSet(Ahead(j))
  BY <1>1, FS_Subset DEF Before
<1> HIDE DEF D, n
\* Before is a bijection with 0 .. n - 1, for no two jobs have as many before them.
<1>4. \A j \in D : Before(j) \in 0 .. n - 1
  <2> SUFFICES ASSUME NEW j \in D PROVE Before(j) \in 0 .. n - 1
    OBVIOUS
  <2>1. Cardinality(Ahead(j)) \in Nat /\ Cardinality(Ahead(j)) <= n
        /\ (Cardinality(Ahead(j)) = n => Ahead(j) = D)
    BY <1>1, <1>3, FS_Subset, FS_CardinalityType DEF n
  <2>2. j \notin Ahead(j)
    BY <1>1
  <2> QED BY <1>1, <1>3, <2>1, <2>2
<1>5. ASSUME NEW j \in D, NEW k \in D, j < k PROVE Before(j) # Before(k)
  <2>1. Ahead(j) \subseteq Ahead(k) /\ j \in Ahead(k) /\ j \notin Ahead(j)
    <3>1. \A a, b, c \in Nat : a < b /\ b < c => a < c
      OBVIOUS
    <3>2. j \in Nat /\ k \in Nat /\ ~(j < j)
      BY <1>1
    <3>3. \A l \in D : l < j => l < k
      BY <1>1, <1>5, <3>1, <3>2
    <3> QED BY <1>5, <3>2, <3>3
  <2>2. Cardinality(Ahead(j)) # Cardinality(Ahead(k))
    BY <1>3, <2>1, FS_Subset
  <2> QED BY <1>3, <2>2
<1>6. \A i \in 0 .. n - 1 : \E j \in D : Before(j) = i
  <2> DEFINE f == [j \in D |-> Before(j)]
  <2>1. f \in Injection(D, 0 .. n - 1)
    <3>1. f \in [D -> 0 .. n - 1]
      BY <1>4
    <3>2. \A j, k \in D : f[j] = f[k] => j = k
      <4> SUFFICES ASSUME NEW j \in D, NEW k \in D, Before(j) = Before(k) PROVE j = k
        OBVIOUS
      <4>1. j < k \/ k < j \/ j = k
        BY <1>1
      <4> QED BY <1>5, <4>1
    <3> QED BY <3>1, <3>2 DEF Injection, IsInjective
  <2>2. IsFiniteSet(0 .. n - 1) /\ Cardinality(0 .. n - 1) = n
    <3>1. n - 1 \in Int /\ 0 \in Int /\ (IF 0 > n - 1 THEN 0 ELSE (n - 1) - 0 + 1) = n
      BY <1>1
    <3> HIDE DEF n
    <3> QED BY <3>1, FS_Interval
  <2>3. f \in Surjection(D, 0 .. n - 1)
    <3> HIDE DEF f
    <3> QED BY <2>1, <2>2, FS_Injection DEF n
  <2> QED BY <2>3 DEF Surjection
<1>7. \A i \in 1 .. n : Nth(i) \in D
  <2> SUFFICES ASSUME NEW i \in 1 .. n PROVE Nth(i) \in D
    OBVIOUS
  <2>1. i - 1 \in 0 .. n - 1
    BY <1>1
  <2>2. \E j \in D : Before(j) = i - 1
    BY <1>6, <2>1
  <2> QED BY <2>2 DEF Nth, D
<1>8. Listed = [i \in 1 .. n |-> [job |-> Nth(i), file |-> store[Nth(i)]]]
  BY DEF Listed, n, D
<1>9. Len(Listed) = n
  BY <1>1, <1>8
<1>10. \A j \in D : store[j] \in Files
  BY DEF Types, AttribTypeOK, D
<1>11. \A i \in 1 .. n :
         Listed[i].job \in D /\ Listed[i].file = store[Listed[i].job] /\ Listed[i] \in Copies
  BY <1>1, <1>7, <1>8, <1>10 DEF Copies
<1> QED BY <1>1, <1>2, <1>9, <1>11 DEF n, D

\* The store with one file written, and with one gone.
LEMMA Written ==
  ASSUME Types, NEW j \in Jobs, NEW f \in Files, store' = With(j, f)
  PROVE  /\ DOMAIN store' = DOMAIN store \cup {j} /\ DOMAIN store' \subseteq Jobs
         /\ \A k \in DOMAIN store' : store'[k] = IF k = j THEN f ELSE store[k]
         /\ \A k \in DOMAIN store' : store'[k] \in Files
BY DEF With, Types, AttribTypeOK

LEMMA Removed ==
  ASSUME Types, NEW j, store' = Without(j)
  PROVE  /\ DOMAIN store' = DOMAIN store \ {j} /\ DOMAIN store' \subseteq Jobs
         /\ \A k \in DOMAIN store' : store'[k] = store[k]
         /\ \A k \in DOMAIN store' : store'[k] \in Files
BY DEF Without, Types, AttribTypeOK

\* The first of the listed copies, and the others.
LEMMA InHand ==
  ASSUME Types, todo # <<>>
  PROVE  /\ job \in Jobs /\ file \in Files /\ 1 \in DOMAIN todo
         /\ Tail(todo) \in Seq(Copies) /\ Len(Tail(todo)) <= MaxPerSweep
         /\ \A i \in DOMAIN Tail(todo) : i + 1 \in DOMAIN todo /\ Tail(todo)[i] = todo[i + 1]
         /\ \A i \in DOMAIN Tail(todo) : Tail(todo)[i] \in Copies
<1>1. todo \in Seq(Copies) /\ Len(todo) <= MaxPerSweep /\ Len(todo) \in Nat /\ MaxPerSweep \in Nat
  BY Constants DEF Types, AttribTypeOK
<1>2. 1 \in DOMAIN todo /\ todo[1] \in Copies
  BY <1>1, At
<1>3. Tail(todo) \in Seq(Copies) /\ Len(Tail(todo)) = Len(todo) - 1
  BY <1>1
<1>4. \A i \in DOMAIN Tail(todo) : i + 1 \in DOMAIN todo /\ Tail(todo)[i] = todo[i + 1]
  <2>1. DOMAIN Tail(todo) = 1 .. (Len(todo) - 1) /\ DOMAIN todo = 1 .. Len(todo)
    BY <1>1, <1>3
  <2> QED BY <1>1, <2>1
<1>5. job \in Jobs /\ file \in Files
  BY <1>2 DEF job, file, Copies
<1>6. \A i \in DOMAIN Tail(todo) : Tail(todo)[i] \in Copies
  BY <1>3, At
<1> QED BY <1>1, <1>2, <1>3, <1>4, <1>5, <1>6

\* A count of what met the block of the job in hand.
LEMMA Counted ==
  ASSUME Types, todo # <<>>, NEW f \in [Jobs -> 0 .. MaxAttempts]
  PROVE  /\ Count(f) \in [Jobs -> 0 .. MaxAttempts]
         /\ \A j \in Jobs : Count(f)[j] >= f[j]
         /\ Count(f)[job] = IF f[job] < MaxAttempts THEN f[job] + 1 ELSE f[job]
<1>1. job \in Jobs /\ MaxAttempts \in Nat
  BY InHand, Constants
<1>2. Count(f) = [f EXCEPT ![job] = IF @ < MaxAttempts THEN @ + 1 ELSE @]
  BY DEF Count, job
<1>3. \A j \in Jobs : f[j] \in 0 .. MaxAttempts
  OBVIOUS
<1>4. \A j \in Jobs :
        Count(f)[j] = IF j = job THEN IF f[j] < MaxAttempts THEN f[j] + 1 ELSE f[j] ELSE f[j]
  BY <1>2
<1>5. \A j \in Jobs : Count(f)[j] \in 0 .. MaxAttempts /\ Count(f)[j] >= f[j]
  BY <1>1, <1>3, <1>4
<1>6. Count(f) \in [Jobs -> 0 .. MaxAttempts]
  BY <1>2, <1>5
<1> QED BY <1>1, <1>4, <1>5, <1>6
\* The daemon's other parts leave the job in hand alone.
LEMMA HandTypes ==
  ASSUME Types, todo # <<>>, todo' = [todo EXCEPT ![1].file.degraded = TRUE]
  PROVE  /\ todo' \in Seq(Copies) /\ Len(todo') = Len(todo) /\ DOMAIN todo' = DOMAIN todo
         /\ \A i \in DOMAIN todo : todo'[i].job = todo[i].job
                                   /\ todo'[i].file.attempts = todo[i].file.attempts
<1>1. todo \in Seq(Copies) /\ 1 \in DOMAIN todo /\ Len(todo) \in Nat
  BY InHand DEF Types
<1> DEFINE c == [todo[1] EXCEPT !.file.degraded = TRUE]
<1>2. todo' = [todo EXCEPT ![1] = c]
  OBVIOUS
<1>3. todo[1] \in Copies
  BY <1>1
<1>4. c \in Copies /\ c.job = todo[1].job /\ c.file.attempts = todo[1].file.attempts
  BY <1>3 DEF Copies, Files
<1> HIDE DEF c
<1>5. DOMAIN todo' = 1 .. Len(todo) /\ DOMAIN todo = 1 .. Len(todo)
      /\ \A i \in 1 .. Len(todo) : todo'[i] = IF i = 1 THEN c ELSE todo[i]
  <2>1. DOMAIN todo = 1 .. Len(todo)
    BY <1>1
  <2>2. DOMAIN todo' = DOMAIN todo
    BY <1>2, Zenon
  <2>3. \A i \in DOMAIN todo : todo'[i] = IF i = 1 THEN c ELSE todo[i]
    BY <1>2, Zenon
  <2> QED BY <2>1, <2>2, <2>3
<1>6. \A i \in 1 .. Len(todo) : todo[i] \in Copies
  BY <1>1
<1>7. todo' \in [1 .. Len(todo) -> Copies]
  BY <1>2, <1>4, <1>5, <1>6
<1>8. todo' \in Seq(Copies) /\ Len(todo') = Len(todo)
  BY <1>1, <1>7
<1>9. \A i \in DOMAIN todo : todo'[i].job = todo[i].job
                           /\ todo'[i].file.attempts = todo[i].file.attempts
  BY <1>4, <1>5
<1> QED BY <1>5, <1>8, <1>9

LEMMA InitTypes == Init => Types
<1> SUFFICES ASSUME Init PROVE Types
  OBVIOUS
<1>1. DOMAIN store = {} /\ DOMAIN atlas = {} /\ todo = <<>> /\ DOMAIN todo = {} /\ Len(todo) = 0
  BY DEF Init
<1>2. Cardinality(Jobs) \in Nat /\ MaxAttempts \in Nat
  BY Constants, FS_CardinalityType
<1>3. {bad, handed, forgotten} \subseteq SUBSET Jobs
  BY DEF Init
<1>4. /\ errors \in [Jobs -> 0 .. MaxAttempts] /\ skews \in [Jobs -> 0 .. MaxAttempts]
  BY <1>2 DEF Init
<1>5. /\ step = "ask" /\ offset = 0 /\ reposted = FALSE
      /\ side \in Conditions /\ list \in BOOLEAN /\ declared \in BOOLEAN
  BY DEF Init
<1>6. AttribTypeOK
  <2>1. DOMAIN store \subseteq Jobs /\ \A j \in DOMAIN store : store[j] \in Files
    BY <1>1
  <2>2. Len(todo) <= MaxPerSweep /\ \A i \in DOMAIN todo : todo[i] \in [job : Jobs, file : Files]
    BY <1>1, Constants
  <2>3. DOMAIN atlas \subseteq Jobs /\ \A j \in DOMAIN atlas : atlas[j] \in Rows
    BY <1>1
  <2>4. offset \in 0 .. Cardinality(Jobs) /\ reposted \in BOOLEAN
    <3>1. offset \in 0 .. Cardinality(Jobs)
      BY <1>2, <1>5
    <3>2. reposted \in BOOLEAN
      BY <1>5, Zenon
    <3> QED BY <3>1, <3>2
  <2> QED BY <1>3, <1>5, <2>1, <2>2, <2>3, <2>4 DEF AttribTypeOK
<1> QED BY <1>1, <1>4, <1>6 DEF Types

\* Any new store of files, row and set of names keeps the types, with the next
\* step of the job in hand.
LEMMA Keeps ==
  ASSUME Types,
         DOMAIN store' \subseteq Jobs, \A j \in DOMAIN store' : store'[j] \in Files,
         {bad', handed', forgotten'} \subseteq SUBSET Jobs,
         todo' \in Seq(Copies), Len(todo') <= MaxPerSweep,
         step' \in Steps, todo' = <<>> => step' = "ask",
         offset' \in 0 .. Cardinality(Jobs), reposted' \in BOOLEAN,
         side' \in Conditions, list' \in BOOLEAN, declared' \in BOOLEAN,
         DOMAIN atlas' \subseteq Jobs, \A j \in DOMAIN atlas' : atlas'[j] \in Rows,
         errors' \in [Jobs -> 0 .. MaxAttempts], skews' \in [Jobs -> 0 .. MaxAttempts]
  PROVE  Types'
<1>1. \A i \in DOMAIN todo' : todo'[i] \in [job : Jobs, file : Files]
  BY At DEF Copies
<1> QED BY <1>1 DEF Types, AttribTypeOK, Steps

LEMMA Arrived ==
  ASSUME Types, NEW j \in Jobs, NEW row \in Rows, Arrive(j, row)
  PROVE  /\ DOMAIN atlas' = DOMAIN atlas \cup {j} /\ DOMAIN atlas' \subseteq Jobs
         /\ \A k \in DOMAIN atlas' : atlas'[k] = IF k = j THEN row ELSE atlas[k]
         /\ \A k \in DOMAIN atlas' : atlas'[k] \in Rows
BY DEF Arrive, Types, AttribTypeOK

LEMMA EmitterTypes ==
  ASSUME Types, NEW j \in Jobs, Publish(j) \/ Schedule(j) \/ ScheduleFails(j)
  PROVE  Types'
<1>0. /\ UNCHANGED <<bad, sweepVars, sideVars, histVars>>
  BY DEF Publish, Schedule, ScheduleFails
<1>1. CASE Publish(j)
  <2>1. Arrive(j, [matches |-> TRUE, status |-> "none"]) /\ store' = store
        /\ handed' = handed \cup {j} /\ forgotten' = forgotten \ {j}
    BY <1>1 DEF Publish
  <2>2. [matches |-> TRUE, status |-> "none"] \in Rows
    BY DEF Rows
  <2>3. DOMAIN atlas' \subseteq Jobs /\ \A k \in DOMAIN atlas' : atlas'[k] \in Rows
    BY <2>1, <2>2, Arrived
  <2> QED BY <1>0, <2>1, <2>3, Keeps DEF Types, AttribTypeOK, Steps, sweepVars, sideVars, histVars
<1>2. CASE Schedule(j)
  <2>1. store' = With(j, Fresh) /\ handed' = handed \ {j} /\ UNCHANGED <<atlas, forgotten>>
    BY <1>2 DEF Schedule
  <2>2. Fresh \in Files
    BY Constants DEF Fresh, Files
  <2>3. DOMAIN store' \subseteq Jobs /\ \A k \in DOMAIN store' : store'[k] \in Files
    BY <2>1, <2>2, Written
  <2> QED BY <1>0, <2>1, <2>3, Keeps DEF Types, AttribTypeOK, Steps, sweepVars, sideVars, histVars
<1>3. CASE ScheduleFails(j)
  <2>1. handed' = handed \ {j} /\ forgotten' = forgotten \cup {j} /\ UNCHANGED <<store, atlas>>
    BY <1>3 DEF ScheduleFails
  <2> QED BY <1>0, <2>1, Keeps DEF Types, AttribTypeOK, Steps, sweepVars, sideVars, histVars
<1> QED BY <1>1, <1>2, <1>3

LEMMA SliceTypes ==
  ASSUME Types, List
  PROVE  /\ todo' \in Seq(Copies) /\ Len(todo') <= MaxPerSweep /\ todo' # <<>>
         /\ offset' \in 0 .. Cardinality(Jobs)
         /\ \A i \in DOMAIN todo' : todo'[i].job \in DOMAIN store /\ todo'[i].file = store[todo'[i].job]
<1> DEFINE total == Len(Listed)
           n == IF total < MaxPerSweep THEN total ELSE MaxPerSweep
           at(i) == (((offset % total) + i - 1) % total) + 1
<1>1. total \in Nat /\ total > 0 /\ total <= Cardinality(Jobs) /\ Cardinality(Jobs) \in Nat
  BY ListedTypes DEF List
<1>2. n \in Nat /\ n > 0 /\ n <= MaxPerSweep
  BY <1>1, Constants
<1>3. offset \in Nat
  BY <1>1 DEF Types, AttribTypeOK
<1>4. todo' = [i \in 1 .. n |-> Listed[at(i)]] /\ offset' = ((offset % total) + n) % total
  BY DEF List, NextOffset
<1> HIDE DEF total, n
<1>5. \A i \in 1 .. n : at(i) \in 1 .. total
  <2> SUFFICES ASSUME NEW i \in 1 .. n PROVE at(i) \in 1 .. total
    OBVIOUS
  <2>1. offset % total \in Nat
    BY <1>1, <1>3
  <2>2. (offset % total) + i - 1 \in Nat
    BY <1>2, <2>1
  <2>3. ((offset % total) + i - 1) % total \in 0 .. total - 1
    BY <1>1, <2>2
  <2> QED BY <1>1, <2>3
<1>6. \A i \in 1 .. n :
        /\ Listed[at(i)] \in Copies
        /\ Listed[at(i)].job \in DOMAIN store /\ Listed[at(i)].file = store[Listed[at(i)].job]
  BY <1>5, ListedTypes DEF total
<1> HIDE DEF at
<1>7. todo' \in [1 .. n -> Copies] /\ DOMAIN todo' = 1 .. n
  BY <1>4, <1>6
<1>8. todo' \in Seq(Copies) /\ Len(todo') = n
  BY <1>2, <1>7
<1>9. todo' # <<>>
  BY <1>2, <1>8
<1>10. offset' \in 0 .. Cardinality(Jobs)
  <2>1. offset % total \in Nat
    BY <1>1, <1>3
  <2>2. (offset % total) + n \in Nat
    BY <1>2, <2>1
  <2>3. ((offset % total) + n) % total \in 0 .. total - 1
    BY <1>1, <2>2
  <2> QED BY <1>1, <1>4, <2>3
<1>11. \A i \in DOMAIN todo' : todo'[i].job \in DOMAIN store /\ todo'[i].file = store[todo'[i].job]
  BY <1>4, <1>6, <1>7
<1> QED BY <1>2, <1>8, <1>9, <1>10, <1>11

LEMMA AskTypes ==
  ASSUME Types, List \/ AskNoBlock \/ AskError \/ AskRepost \/ Ask
  PROVE  Types'
<1>1. CASE List
  <2>1. /\ UNCHANGED <<store, bad, handed, step, sideVars, atlas, histVars, forgotten>>
        /\ reposted' = FALSE
    BY <1>1 DEF List
  <2> QED BY <1>1, <2>1, SliceTypes, Keeps DEF Types, AttribTypeOK, Steps, sideVars, histVars
<1>2. CASE AskNoBlock \/ AskError
  <2>1. /\ UNCHANGED <<store, bad, handed, todo, offset, reposted, sideVars, atlas, forgotten>>
        /\ step' = "retry" /\ todo # <<>>
        /\ errors' \in {errors, Count(errors)} /\ skews' \in {skews, Count(skews)}
    BY <1>2 DEF AskNoBlock, AskError, Asking
  <2>2. errors' \in [Jobs -> 0 .. MaxAttempts] /\ skews' \in [Jobs -> 0 .. MaxAttempts]
    BY <2>1, Counted DEF Types
  <2> QED BY <2>1, <2>2, Keeps DEF Types, AttribTypeOK, Steps, sideVars
<1>3. CASE AskRepost
  <2>1. /\ UNCHANGED <<store, bad, handed, todo, offset, side, declared, atlas, histVars, forgotten>>
        /\ step' = "hold" /\ todo # <<>> /\ reposted' = TRUE /\ list' \in {list, TRUE}
    BY <1>3 DEF AskRepost, Asking
  <2> QED BY <2>1, Keeps DEF Types, AttribTypeOK, Steps, histVars
<1>4. CASE Ask
  <2>1. /\ UNCHANGED <<store, bad, handed, todo, offset, reposted, sideVars, atlas, histVars, forgotten>>
        /\ step' \in Answers /\ todo # <<>>
    BY <1>4 DEF Ask, Asking
  <2>2. Answers \subseteq Steps
    BY DEF Answers, Steps
  <2> QED BY <2>1, <2>2, Keeps DEF Types, AttribTypeOK, Steps, sideVars, histVars
<1> QED BY <1>1, <1>2, <1>3, <1>4

\* The job in hand is done with for this sweep.
LEMMA DoneTypes ==
  ASSUME Types, NextJob, step # "ask",
         DOMAIN store' \subseteq Jobs, \A j \in DOMAIN store' : store'[j] \in Files,
         {bad', forgotten'} \subseteq SUBSET Jobs,
         UNCHANGED <<handed, offset, reposted, sideVars, atlas, histVars>>
  PROVE  Types'
<1>1. todo # <<>> /\ todo' = Tail(todo) /\ step' = "ask"
  BY DEF NextJob, Types, AttribTypeOK
<1>2. todo' \in Seq(Copies) /\ Len(todo') <= MaxPerSweep
  BY <1>1, InHand
<1> QED BY <1>1, <1>2, Keeps DEF Types, AttribTypeOK, Steps, sideVars, histVars

LEMMA AnswerTypes ==
  ASSUME Types, Hold \/ Retry \/ WriteFails \/ Degrade \/ Republish \/ RepublishFails \/ Delete
  PROVE  Types'
<1>0. todo # <<>> /\ step # "ask" /\ job \in Jobs /\ file \in Files /\ 1 \in DOMAIN todo
      /\ {bad, handed, forgotten} \subseteq SUBSET Jobs
  <2>1. step # "ask"
    BY DEF Hold, Retry, WriteFails, Degrade, Republish, RepublishFails, Delete
  <2> QED BY <2>1, InHand DEF Types, AttribTypeOK
<1>a. \A status \in Statuses : Rebuilt(status) \in Rows
  BY DEF Rebuilt, Rows, Statuses
<1>1. CASE Hold
  <2>1. store' = With(job, file) /\ NextJob
        /\ UNCHANGED <<bad, handed, offset, reposted, sideVars, atlas, histVars, forgotten>>
    BY <1>1 DEF Hold
  <2> QED BY <1>0, <2>1, Written, DoneTypes
<1>2. CASE Retry
  <2> DEFINE spent == [file EXCEPT !.attempts = @ + 1]
  <2>1. /\ NextJob /\ UNCHANGED <<handed, offset, reposted, sideVars, atlas, histVars, forgotten>>
        /\ IF spent.attempts >= MaxAttempts
           THEN bad' = bad \cup {job} /\ store' = Without(job)
           ELSE store' = With(job, spent) /\ UNCHANGED bad
    BY <1>2 DEF Retry
  <2>2. CASE spent.attempts >= MaxAttempts
    <3>1. bad' = bad \cup {job} /\ store' = Without(job)
      BY <2>1, <2>2
    <3>2. DOMAIN store' \subseteq Jobs /\ \A k \in DOMAIN store' : store'[k] \in Files
      BY <3>1, Removed
    <3>3. {bad', forgotten'} \subseteq SUBSET Jobs
      BY <1>0, <2>1, <3>1
    <3> QED BY <1>0, <2>1, <3>2, <3>3, DoneTypes
  <2>3. CASE ~(spent.attempts >= MaxAttempts)
    <3>1. spent \in Files
      BY <1>0, <2>3, Constants DEF Files
    <3> QED BY <1>0, <2>1, <2>3, <3>1, Written, DoneTypes
  <2> QED BY <2>2, <2>3
<1>3. CASE WriteFails
  <2>1. /\ NextJob
        /\ UNCHANGED <<store, bad, handed, offset, reposted, sideVars, atlas, histVars, forgotten>>
    BY <1>3 DEF WriteFails
  <2> QED BY <1>0, <2>1, DoneTypes DEF Types, AttribTypeOK
<1>4. CASE Degrade
  <2>1. /\ Arrive(job, Rebuilt("degraded")) /\ todo' = [todo EXCEPT ![1].file.degraded = TRUE]
        /\ step' = "hold"
        /\ UNCHANGED <<store, bad, handed, offset, reposted, sideVars, histVars, forgotten>>
    BY <1>4 DEF Degrade
  <2>2. todo' \in Seq(Copies) /\ Len(todo') = Len(todo) /\ todo' # <<>>
    <3>1. todo' \in Seq(Copies) /\ Len(todo') = Len(todo) /\ DOMAIN todo' = DOMAIN todo
      BY <1>0, <2>1, HandTypes
    <3> QED BY <1>0, <3>1
  <2>3. DOMAIN atlas' \subseteq Jobs /\ \A k \in DOMAIN atlas' : atlas'[k] \in Rows
    BY <1>0, <1>a, <2>1, Arrived DEF Statuses
  <2> QED BY <2>1, <2>2, <2>3, Keeps DEF Types, AttribTypeOK, Steps, sideVars, histVars
<1>5. CASE Republish
  <2>1. /\ Arrive(job, Rebuilt("answered")) /\ step' = "delete"
        /\ UNCHANGED <<store, bad, handed, todo, offset, reposted, sideVars, histVars, forgotten>>
    BY <1>5 DEF Republish
  <2>2. DOMAIN atlas' \subseteq Jobs /\ \A k \in DOMAIN atlas' : atlas'[k] \in Rows
    BY <1>0, <1>a, <2>1, Arrived DEF Statuses
  <2> QED BY <1>0, <2>1, <2>2, Keeps DEF Types, AttribTypeOK, Steps, sideVars, histVars
<1>6. CASE RepublishFails
  <2>1. /\ (\E s \in Statuses : Arrive(job, Rebuilt(s))) \/ UNCHANGED atlas
        /\ step' = "hold"
        /\ UNCHANGED <<store, bad, handed, todo, offset, reposted, sideVars, histVars, forgotten>>
    BY <1>6 DEF RepublishFails, Statuses
  <2>2. DOMAIN atlas' \subseteq Jobs /\ \A k \in DOMAIN atlas' : atlas'[k] \in Rows
    BY <1>0, <1>a, <2>1, Arrived DEF Types, AttribTypeOK
  <2> QED BY <1>0, <2>1, <2>2, Keeps DEF Types, AttribTypeOK, Steps, sideVars, histVars
<1>7. CASE Delete
  <2>1. /\ store' = Without(job) /\ NextJob /\ forgotten' \in {forgotten, forgotten \cup {job}}
        /\ UNCHANGED <<bad, handed, offset, reposted, sideVars, atlas, histVars>>
    BY <1>7 DEF Delete
  <2> QED BY <1>0, <2>1, Removed, DoneTypes
<1> QED BY <1>1, <1>2, <1>3, <1>4, <1>5, <1>6, <1>7

LEMMA OtherTypes ==
  ASSUME Types, Change \/ Restart \/ UNCHANGED vars
  PROVE  Types'
<1>1. CASE Change
  <2>1. /\ side' \in Conditions /\ list' = (list /\ side # "down")
        /\ UNCHANGED <<store, bad, handed, sweepVars, declared, atlas, histVars, forgotten>>
    BY <1>1 DEF Change
  <2>2. list' \in BOOLEAN
    BY <2>1
  <2> QED BY <2>1, <2>2, Keeps DEF Types, AttribTypeOK, Steps, sweepVars, histVars
<1>2. CASE Restart
  <2>1. /\ handed' = {} /\ forgotten' = forgotten \cup handed
        /\ todo' = <<>> /\ step' = "ask" /\ offset' = 0 /\ reposted' = FALSE
        /\ UNCHANGED <<store, bad, sideVars, atlas, histVars>>
    BY <1>2 DEF Restart
  <2>2. todo' \in Seq(Copies) /\ Len(todo') <= MaxPerSweep /\ 0 \in 0 .. Cardinality(Jobs)
    BY <2>1, Constants, FS_CardinalityType
  <2> QED BY <2>1, <2>2, Keeps DEF Types, AttribTypeOK, Steps, sideVars, histVars
<1>3. CASE UNCHANGED vars
  BY <1>3, Keeps DEF vars, Types, AttribTypeOK, Steps, sweepVars, sideVars, histVars
<1> QED BY <1>1, <1>2, <1>3

LEMMA TypesStep == Types /\ [Next]_vars => Types'
<1> SUFFICES ASSUME Types, [Next]_vars PROVE Types'
  OBVIOUS
<1>1. CASE Drain
  BY <1>1, AskTypes, AnswerTypes DEF Drain
<1> QED BY <1>1, EmitterTypes, OtherTypes DEF Next
-----------------------------------------------------------------------------
(* Attribution is kept: every step that takes a block out of one place where it *)
(* is somebody's business puts it into another, or has just answered for it.     *)

\* No block's row becomes unattributed, and none gets lost.
LEMMA StaysKept ==
  ASSUME AttributionKept,
         \A j \in DOMAIN atlas' : atlas'[j].status = "none" =>
            j \in DOMAIN atlas /\ atlas[j].status = "none",
         DOMAIN store \cup bad \cup handed \cup forgotten
           \subseteq DOMAIN store' \cup bad' \cup handed' \cup forgotten'
  PROVE  AttributionKept'
BY DEF AttributionKept

LEMMA KeptStep == Types /\ AttributionKept /\ [Next]_vars => AttributionKept'
<1> SUFFICES ASSUME Types, AttributionKept, [Next]_vars PROVE AttributionKept'
  OBVIOUS
<1>1. ASSUME NEW j \in Jobs, Publish(j) PROVE AttributionKept'
  <2>1. /\ handed' = handed \cup {j} /\ forgotten' = forgotten \ {j} /\ UNCHANGED <<store, bad>>
        /\ \A k \in DOMAIN atlas' : k = j \/ (k \in DOMAIN atlas /\ atlas'[k] = atlas[k])
    BY <1>1 DEF Publish, Arrive
  <2> QED BY <2>1 DEF AttributionKept
<1>2. ASSUME NEW j \in Jobs, Schedule(j) PROVE AttributionKept'
  <2>1. DOMAIN store' = DOMAIN store \cup {j} /\ handed' = handed \ {j}
        /\ UNCHANGED <<bad, atlas, forgotten>>
    BY <1>2 DEF Schedule, With
  <2> QED BY <2>1, StaysKept
<1>3. ASSUME NEW j \in Jobs, ScheduleFails(j) PROVE AttributionKept'
  <2>1. forgotten' = forgotten \cup {j} /\ handed' = handed \ {j} /\ UNCHANGED <<bad, atlas, store>>
    BY <1>3 DEF ScheduleFails
  <2> QED BY <2>1, StaysKept
<1>4. CASE Hold
  <2>1. DOMAIN store' = DOMAIN store \cup {job} /\ UNCHANGED <<bad, handed, atlas, forgotten>>
    BY <1>4 DEF Hold, With
  <2> QED BY <2>1, StaysKept
<1>5. CASE Retry
  <2>1. \/ bad' = bad \cup {job} /\ DOMAIN store' = DOMAIN store \ {job}
        \/ DOMAIN store' = DOMAIN store \cup {job} /\ bad' = bad
    BY <1>5 DEF Retry, With, Without
  <2>2. UNCHANGED <<handed, atlas, forgotten>>
    BY <1>5 DEF Retry
  <2> QED BY <2>1, <2>2, StaysKept
\* A row that the sweep sends says what is known of the projects.
<1>6. CASE Degrade \/ Republish \/ RepublishFails
  <2>1. /\ (\E s \in {"degraded", "answered"} : Arrive(job, Rebuilt(s))) \/ UNCHANGED atlas
        /\ UNCHANGED <<store, bad, handed, forgotten>>
    BY <1>6 DEF Degrade, Republish, RepublishFails
  <2>2. \A k \in DOMAIN atlas' : atlas'[k].status = "none" =>
          k \in DOMAIN atlas /\ atlas[k].status = "none"
    BY <2>1 DEF Arrive, Rebuilt
  <2> QED BY <2>1, <2>2, StaysKept
<1>7. CASE Delete
  <2>1. /\ DOMAIN store' = DOMAIN store \ {job} /\ UNCHANGED <<bad, handed, atlas>>
        /\ forgotten' = IF job \in DOMAIN store /\ atlas[job].status = "none" /\ job \notin handed
                        THEN forgotten \cup {job} ELSE forgotten
    BY <1>7 DEF Delete, Without
  <2> QED BY <2>1 DEF AttributionKept
<1>8. CASE Restart
  <2>1. handed' = {} /\ forgotten' = forgotten \cup handed /\ UNCHANGED <<store, bad, atlas>>
    BY <1>8 DEF Restart
  <2> QED BY <2>1, StaysKept
<1>9. CASE Change \/ List \/ AskNoBlock \/ AskError \/ AskRepost \/ Ask \/ WriteFails \/ UNCHANGED vars
  <2>1. UNCHANGED <<store, bad, handed, atlas, forgotten>>
    BY <1>9 DEF Change, List, AskNoBlock, AskError, AskRepost, Ask, WriteFails, vars
  <2> QED BY <2>1, StaysKept
<1> QED BY <1>1, <1>2, <1>3, <1>4, <1>5, <1>6, <1>7, <1>8, <1>9 DEF Next, Drain
-----------------------------------------------------------------------------
(* Attempts are paid for.  A copy that a sweep holds may be older than the      *)
(* file, but no copy carries more attempts than its block has met; and what is   *)
(* about to be counted has been met already.                                     *)

Met(j) == errors[j] + skews[j]

EarnedInv ==
  /\ QuarantineEarned
  /\ \A i \in DOMAIN todo : todo[i].file.attempts <= Met(todo[i].job)
  /\ step = "retry" => file.attempts + 1 <= Met(job)

LEMMA MetTypes == ASSUME Types, NEW j \in Jobs PROVE Met(j) \in Nat
<1>1. MaxAttempts \in Nat /\ errors[j] \in 0 .. MaxAttempts /\ skews[j] \in 0 .. MaxAttempts
  BY Constants DEF Types
<1> QED BY <1>1 DEF Met

LEMMA TodoTypes ==
  ASSUME Types, NEW i \in DOMAIN todo
  PROVE  todo[i].job \in Jobs /\ todo[i].file.attempts \in Nat
         /\ todo[i].file.attempts + 1 <= MaxAttempts
<1>1. todo[i] \in Copies /\ MaxAttempts \in Nat
  BY At, Constants DEF Types
<1> QED BY <1>1 DEF Copies, Files

\* The history of the blocks stays; the copies in hand are among those before.
LEMMA StaysEarned ==
  ASSUME Types, EarnedInv, UNCHANGED histVars,
         \A j \in DOMAIN store' :
           \/ j \in DOMAIN store /\ store'[j] = store[j]
           \/ j \in Jobs /\ store'[j].attempts <= Met(j),
         \A j \in bad' : j \in bad \/ Met(j) >= MaxAttempts,
         \A i \in DOMAIN todo' :
           \/ \E k \in DOMAIN todo : todo'[i].job = todo[k].job
                                   /\ todo'[i].file.attempts = todo[k].file.attempts
           \/ todo'[i].file.attempts <= Met(todo'[i].job),
         step' # "retry"
  PROVE  EarnedInv'
<1>1. \A j : Met(j)' = Met(j)
  BY DEF Met, histVars
<1>2. \A j \in DOMAIN store' : store'[j].attempts <= Met(j)
  BY DEF EarnedInv, QuarantineEarned, Met
<1>3. \A j \in bad' : Met(j) >= MaxAttempts
  BY DEF EarnedInv, QuarantineEarned, Met
<1>4. \A i \in DOMAIN todo' : todo'[i].file.attempts <= Met(todo'[i].job)
  BY DEF EarnedInv
<1>5. \A i \in DOMAIN todo' : todo'[i].file.attempts <= errors'[todo'[i].job] + skews'[todo'[i].job]
  BY <1>4 DEF Met, histVars
<1>6. QuarantineEarned'
  BY <1>2, <1>3 DEF QuarantineEarned, Met, histVars
<1> QED BY <1>5, <1>6 DEF EarnedInv, Met

LEMMA NextEarned ==
  ASSUME Types, EarnedInv, UNCHANGED histVars, NextJob, step # "ask",
         \A j \in DOMAIN store' :
           \/ j \in DOMAIN store /\ store'[j] = store[j]
           \/ j \in Jobs /\ store'[j].attempts <= Met(j),
         \A j \in bad' : j \in bad \/ Met(j) >= MaxAttempts
  PROVE  EarnedInv'
<1>1. todo # <<>> /\ todo' = Tail(todo) /\ step' = "ask"
  BY DEF NextJob, Types, AttribTypeOK
<1>2. \A i \in DOMAIN todo' : i + 1 \in DOMAIN todo /\ todo'[i] = todo[i + 1]
  BY <1>1, InHand
<1> QED BY <1>1, <1>2, StaysEarned

LEMMA EarnedStep == Types /\ EarnedInv /\ [Next]_vars => EarnedInv'
<1> SUFFICES ASSUME Types, EarnedInv, [Next]_vars PROVE EarnedInv'
  OBVIOUS
\* A file is rewritten with the copy a sweep holds.
<1>0. ASSUME NEW i \in DOMAIN todo PROVE todo[i].file.attempts <= Met(todo[i].job)
  BY DEF EarnedInv
<1>1. CASE AskNoBlock \/ AskError
  <2>1. /\ UNCHANGED <<store, bad, todo>> /\ step' = "retry" /\ todo # <<>>
        /\ \/ errors' = Count(errors) /\ skews' = skews
           \/ skews' = Count(skews) /\ errors' = errors
    BY <1>1 DEF AskNoBlock, AskError, Asking
  <2>2. job \in Jobs /\ 1 \in DOMAIN todo /\ MaxAttempts \in Nat
    BY <2>1, InHand, Constants
  <2>3. /\ errors \in [Jobs -> 0 .. MaxAttempts] /\ skews \in [Jobs -> 0 .. MaxAttempts]
        /\ \A j \in Jobs : errors[j] \in Nat /\ skews[j] \in Nat
    BY <2>2 DEF Types
  <2>4. \A j \in Jobs : errors'[j] \in Nat /\ skews'[j] \in Nat /\ errors'[j] + skews'[j] >= Met(j)
    <3> SUFFICES ASSUME NEW j \in Jobs
                 PROVE errors'[j] \in Nat /\ skews'[j] \in Nat /\ errors'[j] + skews'[j] >= Met(j)
      OBVIOUS
    <3>1. CASE errors' = Count(errors) /\ skews' = skews
      <4>1. Count(errors)[j] \in Nat /\ Count(errors)[j] >= errors[j]
        BY <2>1, <2>2, <2>3, Counted
      <4> QED BY <2>3, <3>1, <4>1 DEF Met
    <3>2. CASE skews' = Count(skews) /\ errors' = errors
      <4>1. Count(skews)[j] \in Nat /\ Count(skews)[j] >= skews[j]
        BY <2>1, <2>2, <2>3, Counted
      <4> QED BY <2>3, <3>2, <4>1 DEF Met
    <3> QED BY <2>1, <3>1, <3>2
  <2>5. file.attempts \in Nat /\ file.attempts + 1 <= MaxAttempts /\ file.attempts <= Met(job)
    BY <1>0, <2>2, TodoTypes DEF job, file
  <2>6. file.attempts + 1 <= errors'[job] + skews'[job]
    <3>1. CASE errors' = Count(errors) /\ skews' = skews
      <4>1. errors'[job] = IF errors[job] < MaxAttempts THEN errors[job] + 1 ELSE errors[job]
        BY <2>1, <2>3, <3>1, Counted
      <4> QED BY <2>2, <2>3, <2>5, <3>1, <4>1 DEF Met
    <3>2. CASE skews' = Count(skews) /\ errors' = errors
      <4>1. skews'[job] = IF skews[job] < MaxAttempts THEN skews[job] + 1 ELSE skews[job]
        BY <2>1, <2>3, <3>2, Counted
      <4> QED BY <2>2, <2>3, <2>5, <3>2, <4>1 DEF Met
    <3> QED BY <2>1, <3>1, <3>2
  <2>7. /\ \A j \in DOMAIN store : j \in Jobs /\ store[j].attempts \in Nat
        /\ bad \subseteq Jobs
    BY Constants DEF Types, AttribTypeOK, Files
  <2>8. QuarantineEarned'
    <3>1. \A j \in DOMAIN store : store[j].attempts <= Met(j)
      BY DEF EarnedInv, QuarantineEarned, Met
    <3>2. \A j \in bad : Met(j) >= MaxAttempts
      BY DEF EarnedInv, QuarantineEarned, Met
    <3>3. \A j \in DOMAIN store : store[j].attempts <= errors'[j] + skews'[j]
      BY <2>4, <2>7, <3>1, MetTypes
    <3>4. \A j \in bad : errors'[j] + skews'[j] >= MaxAttempts
      BY <2>2, <2>4, <2>7, <3>2, MetTypes
    <3> QED BY <2>1, <3>3, <3>4 DEF QuarantineEarned
  <2>9. \A i \in DOMAIN todo : todo[i].file.attempts <= errors'[todo[i].job] + skews'[todo[i].job]
    BY <1>0, <2>4, TodoTypes, MetTypes
  <2> QED BY <2>1, <2>6, <2>8, <2>9 DEF EarnedInv, Met, job, file
<1>2. CASE List
  <2>1. UNCHANGED <<store, bad, step, histVars>> /\ todo = <<>>
    BY <1>2 DEF List
  <2>2. \A i \in DOMAIN todo' : todo'[i].file.attempts <= Met(todo'[i].job)
    BY <1>2, SliceTypes DEF EarnedInv, QuarantineEarned, Met
  <2> QED BY <2>1, <2>2, StaysEarned DEF Types, AttribTypeOK
<1>3. CASE AskRepost \/ Ask \/ Republish \/ RepublishFails
  <2>1. UNCHANGED <<store, bad, todo, histVars>>
    BY <1>3 DEF AskRepost, Ask, Republish, RepublishFails
  <2>2. step' # "retry"
    BY <1>3 DEF AskRepost, Ask, Republish, RepublishFails, Answers
  <2> QED BY <2>1, <2>2, StaysEarned
<1>4. CASE Hold
  <2>1. /\ NextJob /\ UNCHANGED <<bad, histVars>> /\ step = "hold" /\ store' = With(job, file)
    BY <1>4 DEF Hold
  <2>2. job \in Jobs /\ file \in Files /\ file.attempts <= Met(job)
    BY <1>0, <2>1, InHand DEF Types, AttribTypeOK, job, file
  <2> QED BY <2>1, <2>2, NextEarned DEF With
<1>5. CASE Retry
  <2> DEFINE spent == [file EXCEPT !.attempts = @ + 1]
  <2>1. /\ NextJob /\ UNCHANGED histVars /\ step = "retry"
        /\ IF spent.attempts >= MaxAttempts
           THEN bad' = bad \cup {job} /\ store' = Without(job)
           ELSE store' = With(job, spent) /\ UNCHANGED bad
    BY <1>5 DEF Retry
  <2>2. job \in Jobs /\ file \in Files /\ MaxAttempts \in Nat
    BY <2>1, InHand, Constants DEF Types, AttribTypeOK
  <2>3. spent.attempts = file.attempts + 1 /\ spent.attempts \in Nat /\ spent.attempts <= Met(job)
    BY <2>1, <2>2 DEF Files, EarnedInv
  <2> HIDE DEF spent
  <2>4. CASE spent.attempts >= MaxAttempts
    <3>1. bad' = bad \cup {job} /\ store' = Without(job)
      BY <2>1, <2>4
    <3>2. Met(job) >= MaxAttempts
      BY <2>2, <2>3, <2>4, MetTypes
    <3>3. \A j \in DOMAIN store' : j \in DOMAIN store /\ store'[j] = store[j]
      BY <3>1 DEF Without
    <3> QED BY <2>1, <3>1, <3>2, <3>3, NextEarned
  <2>5. CASE ~(spent.attempts >= MaxAttempts)
    <3>1. store' = With(job, spent) /\ UNCHANGED bad
      BY <2>1, <2>5
    <3>2. \A j \in DOMAIN store' :
            \/ j \in DOMAIN store /\ store'[j] = store[j]
            \/ j \in Jobs /\ store'[j].attempts <= Met(j)
      BY <2>2, <2>3, <3>1 DEF With
    <3> QED BY <2>1, <3>1, <3>2, NextEarned
  <2> QED BY <2>4, <2>5
<1>6. CASE WriteFails
  <2>1. NextJob /\ step # "ask" /\ UNCHANGED <<store, bad, histVars>>
    BY <1>6 DEF WriteFails
  <2> QED BY <2>1, NextEarned
<1>7. CASE Degrade
  <2>1. /\ todo' = [todo EXCEPT ![1].file.degraded = TRUE] /\ step' = "hold" /\ step = "degrade"
        /\ UNCHANGED <<store, bad, histVars>>
    BY <1>7 DEF Degrade
  <2>2. todo # <<>>
    BY <2>1 DEF Types, AttribTypeOK
  <2>3. DOMAIN todo' = DOMAIN todo
        /\ \A i \in DOMAIN todo : todo'[i].job = todo[i].job
                                  /\ todo'[i].file.attempts = todo[i].file.attempts
    BY <2>1, <2>2, HandTypes
  <2> QED BY <2>1, <2>3, StaysEarned
<1>8. CASE Delete
  <2>1. NextJob /\ step = "delete" /\ store' = Without(job) /\ UNCHANGED <<bad, histVars>>
    BY <1>8 DEF Delete
  <2>2. \A j \in DOMAIN store' : j \in DOMAIN store /\ store'[j] = store[j]
    BY <2>1 DEF Without
  <2> QED BY <2>1, <2>2, NextEarned
<1>9. CASE Restart
  <2>1. todo' = <<>> /\ step' = "ask" /\ UNCHANGED <<store, bad, histVars>>
    BY <1>9 DEF Restart
  <2> QED BY <2>1, StaysEarned
<1>10. ASSUME NEW j \in Jobs, Schedule(j) PROVE EarnedInv'
  <2>1. store' = With(j, Fresh) /\ UNCHANGED <<bad, todo, step, histVars>>
    BY <1>10 DEF Schedule, sweepVars
  <2>2. Fresh.attempts = 0 /\ 0 <= Met(j)
    BY MetTypes DEF Fresh
  <2>3. \A k \in DOMAIN store' : (k \in DOMAIN store /\ store'[k] = store[k])
                               \/ (k \in Jobs /\ store'[k].attempts <= Met(k))
    BY <2>1, <2>2 DEF With
  <2>4. CASE step # "retry"
    BY <2>1, <2>3, <2>4, StaysEarned
  <2>5. CASE step = "retry"
    <3>1. UNCHANGED <<file, job>>
      BY <2>1 DEF file, job
    <3>2. \A k \in DOMAIN store' : store'[k].attempts <= Met(k)
      BY <2>3 DEF EarnedInv, QuarantineEarned, Met
    <3>3. QuarantineEarned'
      BY <2>1, <3>2 DEF EarnedInv, QuarantineEarned, Met, histVars
    <3> QED BY <2>1, <3>1, <3>3 DEF EarnedInv, Met, histVars
  <2> QED BY <2>4, <2>5
<1>11. ASSUME UNCHANGED <<store, bad, todo, step, histVars>> PROVE EarnedInv'
  BY <1>11 DEF EarnedInv, QuarantineEarned, Met, histVars, file, job
<1>12. CASE Change \/ (\E j \in Jobs : Publish(j) \/ ScheduleFails(j)) \/ UNCHANGED vars
  BY <1>11, <1>12 DEF Change, Publish, ScheduleFails, vars, sweepVars
<1> QED BY <1>1, <1>2, <1>3, <1>4, <1>5, <1>6, <1>7, <1>8, <1>9, <1>10, <1>12 DEF Next, Drain
-----------------------------------------------------------------------------
LEMMA InitInv == Init => AttributionKept /\ EarnedInv
<1> SUFFICES ASSUME Init PROVE AttributionKept /\ EarnedInv
  OBVIOUS
<1>1. DOMAIN store = {} /\ DOMAIN atlas = {} /\ DOMAIN todo = {} /\ bad = {} /\ step = "ask"
  BY DEF Init
<1> QED BY <1>1 DEF AttributionKept, EarnedInv, QuarantineEarned

\* One invariant for all: the types, the custody of every published block and that
\* attempts are earned.
THEOREM AttributorInvariance == Spec => [](Types /\ AttributionKept /\ EarnedInv)
<1>1. Init => Types /\ AttributionKept /\ EarnedInv
  BY InitTypes, InitInv
<1>2. Types /\ AttributionKept /\ EarnedInv /\ [Next]_vars => (Types /\ AttributionKept /\ EarnedInv)'
  BY TypesStep, KeptStep, EarnedStep
<1> QED BY <1>1, <1>2, PTL DEF Spec

\* Types; no job's file ever carries MaxAttempts attempts, and every listed slice
\* is of at most MaxPerSweep jobs, of the store as it was listed.
THEOREM AttribTypeCorrect == Spec => []AttribTypeOK
<1>1. Types => AttribTypeOK
  BY DEF Types
<1> QED BY <1>1, AttributorInvariance, PTL

\* A published block without an attribution is scheduled, about to be, set aside
\* or one of those a crash, a failed write or a late delete took away.
THEOREM NoBlockUnattributed == Spec => []AttributionKept
BY AttributorInvariance, PTL

\* No interleaving of Schedule with a sweep's write-backs makes up an attempt: a
\* file's attempts, and a set-aside, are paid for by sweeps without an answer.
THEOREM QuarantineIsEarned == Spec => []QuarantineEarned
<1>1. EarnedInv => QuarantineEarned
  BY DEF EarnedInv
<1> QED BY <1>1, AttributorInvariance, PTL
=============================================================================
