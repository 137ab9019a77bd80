---------------------------- MODULE EnrichQueue ----------------------------
(***************************************************************************)
(* The daemon's bounded, deduplicating work queue                          *)
(* (internal/agent/queue/queue.go) and the consumers that take jobs off    *)
(* it.  A job is its dedup key: two jobs with one key are the same work.   *)
(*                                                                         *)
(* Offer, Complete and Close run under q.mu, so each is one step.  Next is *)
(* TWO steps: the receive from the channel takes no lock, and only then is *)
(* the key deleted from inflight under q.mu; an Offer can fall in between. *)
(*                                                                         *)
(* Restart is the death of the process and its next life: the queue is     *)
(* memory, so the new one starts from New.                                 *)
(***************************************************************************)
EXTENDS Naturals, Sequences, FiniteSets

CONSTANTS
  Keys,       \* dedup keys (Job.Key)
  Consumers,  \* goroutines that loop over Next
  Capacity,   \* cap(q.ch)
  RecentCap,  \* q.recentCap
  None        \* "no job in hand"

ASSUME QueueAssumption ==
  /\ Capacity \in Nat \ {0}
  /\ RecentCap \in Nat
  /\ None \notin Keys

VARIABLES
  ch,        \* q.ch, the buffered channel, oldest first
  inflight,  \* q.inflight
  recent,    \* q.recent with the order of q.recentQ
  closed,    \* q.closed
  hand       \* what each consumer holds: [pc, key]

queueVars == <<ch, inflight, recent, closed, hand>>

Elements(s) == {s[i] : i \in DOMAIN s}

QueuedKeys == Elements(ch)

Remembered == Elements(recent)

Idle == [pc |-> "idle", key |-> None]
Holding(phase, k) == [pc |-> phase, key |-> k]

ReceivedKeys == {hand[c].key : c \in {d \in Consumers : hand[d].pc = "received"}}
-----------------------------------------------------------------------------
Init ==
  /\ ch = <<>>
  /\ inflight = {}
  /\ recent = <<>>
  /\ closed = FALSE
  /\ hand = [c \in Consumers |-> Idle]

\* Faulty variants, named in PROJECT.json under "mutants": each is the
\* definition below it with one plausible bug, and is used by no specification.
OutcomeOffByOne(k) ==
  IF closed THEN "closed"
  ELSE IF k \in inflight \cup Remembered THEN "duplicate"
  ELSE IF Len(ch) <= Capacity THEN "accepted"
  ELSE "full"

OutcomeForgetful(k) ==
  IF closed THEN "closed"
  ELSE IF k \in inflight THEN "duplicate"
  ELSE IF Len(ch) < Capacity THEN "accepted"
  ELSE "full"

\* Why an Offer of k would or would not enqueue, tested in the code's order.
Outcome(k) ==
  IF closed THEN "closed"
  ELSE IF k \in inflight \cup Remembered THEN "duplicate"
  ELSE IF Len(ch) < Capacity THEN "accepted"
  ELSE "full"

TakenOnOrFull(outcome) == outcome # "closed"

TakenOnAccepted(outcome) == outcome = "accepted"

\* The daemon has assumed responsibility: the caller may drop its own copy.
TakenOn(outcome) == outcome \in {"accepted", "duplicate"}

Offer(k) ==
  /\ IF Outcome(k) = "accepted"
       THEN /\ ch' = Append(ch, k)
            /\ inflight' = inflight \cup {k}
       ELSE UNCHANGED <<ch, inflight>>
  /\ UNCHANGED <<recent, closed, hand>>

ReceiveUnmarking(c) ==
  /\ hand[c] = Idle
  /\ ch # <<>>
  /\ ch' = Tail(ch)
  /\ inflight' = inflight \ {Head(ch)}
  /\ hand' = [hand EXCEPT ![c] = Holding("received", Head(ch))]
  /\ UNCHANGED <<recent, closed>>

\* The first half of Next: the receive, with no lock held.  A closed channel
\* still delivers what it buffered.
Receive(c) ==
  /\ hand[c] = Idle
  /\ ch # <<>>
  /\ ch' = Tail(ch)
  /\ hand' = [hand EXCEPT ![c] = Holding("received", Head(ch))]
  /\ UNCHANGED <<inflight, recent, closed>>

ReleaseKeepingMark(c) ==
  /\ hand[c].pc = "received"
  /\ hand' = [hand EXCEPT ![c] = Holding("working", hand[c].key)]
  /\ UNCHANGED <<ch, inflight, recent, closed>>

\* The second half: delete(q.inflight, key) under the lock, and Next returns.
Release(c) ==
  /\ hand[c].pc = "received"
  /\ inflight' = inflight \ {hand[c].key}
  /\ hand' = [hand EXCEPT ![c] = Holding("working", hand[c].key)]
  /\ UNCHANGED <<ch, recent, closed>>

RememberAgain(k) ==
  LET longer == Append(recent, k)
  IN  IF Len(longer) > RecentCap THEN Tail(longer) ELSE longer

\* markRecentLocked: remember k, forgetting the oldest key past the bound.
Remember(k) ==
  IF RecentCap = 0 \/ k \in Remembered
    THEN recent
    ELSE LET longer == Append(recent, k)
         IN  IF Len(longer) > RecentCap THEN Tail(longer) ELSE longer

\* The consumer finished its job with a real result and calls Complete.
Complete(c) ==
  /\ hand[c].pc = "working"
  /\ recent' = Remember(hand[c].key)
  /\ hand' = [hand EXCEPT ![c] = Idle]
  /\ UNCHANGED <<ch, inflight, closed>>

\* The consumer goes back to Next without completing its job.
Abandon(c) ==
  /\ hand[c].pc = "working"
  /\ hand' = [hand EXCEPT ![c] = Idle]
  /\ UNCHANGED <<ch, inflight, recent, closed>>

\* The consumer returns for good: Next answered ok=false, or it noticed Done
\* while it waited with a job in hand.
Exit(c) ==
  /\ closed
  /\ \/ hand[c] = Idle /\ ch = <<>>
     \/ hand[c].pc = "working"
  /\ hand' = [hand EXCEPT ![c] = Holding("exited", None)]
  /\ UNCHANGED <<ch, inflight, recent, closed>>

Close ==
  /\ closed' = TRUE
  /\ UNCHANGED <<ch, inflight, recent, hand>>

Restart ==
  /\ ch' = <<>>
  /\ inflight' = {}
  /\ recent' = <<>>
  /\ closed' = FALSE
  /\ hand' = [c \in Consumers |-> Idle]

Consume(c) == Receive(c) \/ Release(c) \/ Complete(c) \/ Abandon(c) \/ Exit(c)

Next ==
  \/ \E k \in Keys : Offer(k)
  \/ \E c \in Consumers : Consume(c)
  \/ Close
  \/ Restart

\* A consumer is a goroutine that loops over Next and bounds every job with a
\* timeout, so it always gets to its next step.
Fairness == \A c \in Consumers : WF_queueVars(Consume(c))

Spec == Init /\ [][Next]_queueVars

FairSpec == Spec /\ Fairness
-----------------------------------------------------------------------------
Hands ==
  {Idle, Holding("exited", None)} \cup [pc : {"received", "working"}, key : Keys]

QueueTypes ==
  /\ ch \in Seq(Keys)
  /\ inflight \subseteq Keys
  /\ recent \in Seq(Keys)
  /\ closed \in BOOLEAN
  /\ hand \in [Consumers -> Hands]

Bounded ==
  /\ Len(ch) <= Capacity
  /\ Len(recent) <= RecentCap
  /\ \A i, j \in DOMAIN recent : recent[i] = recent[j] => i = j

\* The types, with the two bounds that make the queue a load-protection floor, and
\* no key remembered twice (evicting one copy would forget a key still listed).
QueueTypeOK == QueueTypes /\ Bounded

MarksExact == inflight = QueuedKeys \cup ReceivedKeys

NoDoubleQueue ==
  /\ \A i, j \in DOMAIN ch : ch[i] = ch[j] => i = j
  /\ QueuedKeys \cap ReceivedKeys = {}
  /\ \A c, d \in Consumers :
       /\ hand[c].pc = "received" /\ hand[d].pc = "received"
       /\ hand[c].key = hand[d].key
       => c = d

\* inflight holds exactly the keys that are in the channel or between the two
\* halves of Next: one key too many would answer "duplicate" to that prompt
\* forever, one too few would queue it twice.  And each of them is there once, so
\* what delete(inflight) removes is always the receiver's own mark.
InflightExact == MarksExact /\ NoDoubleQueue

\* A key the queue remembers as completed is never queued anew, and a closed
\* queue never grows (Offer would panic on a send to a closed channel).
NeverRequeued ==
  [][/\ \A k \in Remembered : k \in QueuedKeys' => k \in QueuedKeys
     /\ closed /\ closed' => QueuedKeys' \subseteq QueuedKeys]_queueVars

\* Every key leaves inflight again while the queue is open: a prompt is refused
\* as a duplicate only while its job is really queued.  (Not so once the queue
\* is closed: a consumer that notices Done returns and leaves the channel as
\* it is.  Nothing is accepted then either.)
InflightReleased ==
  \A k \in Keys : k \in inflight ~> (closed \/ k \notin inflight)
=============================================================================
