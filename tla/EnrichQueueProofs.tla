------------------------- MODULE EnrichQueueProofs -------------------------
(***************************************************************************)
(* Proofs about EnrichQueue for every set of keys and consumers, every     *)
(* capacity and every recent bound: its types and bounds, the exactness of *)
(* inflight, and the action property NeverRequeued.                        *)
(*                                                                         *)
(* QueueInv is inductive as the conjunction: MarksExact needs              *)
(* NoDoubleQueue to know that removing the received key from inflight      *)
(* does not remove a mark of another queued copy, and NoDoubleQueue needs  *)
(* MarksExact to know that a key with a copy in the channel is refused.    *)
(***************************************************************************)
EXTENDS EnrichQueue, TLAPS

QueueInv ==
  /\ QueueTypes
  /\ MarksExact
  /\ NoDoubleQueue
  /\ Bounded

-----------------------------------------------------------------------------
(* Lemmas about the sequences the queue is built from.                     *)

\* Appending adds exactly one element.
LEMMA AppendElements ==
  ASSUME NEW S, NEW s \in Seq(S), NEW e \in S
  PROVE  /\ Append(s, e) \in Seq(S)
         /\ Len(Append(s, e)) = Len(s) + 1
         /\ Elements(Append(s, e)) = Elements(s) \cup {e}
<1>1. /\ Append(s, e) \in Seq(S)
      /\ Len(Append(s, e)) = Len(s) + 1
      /\ Len(s) \in Nat
      /\ DOMAIN s = 1 .. Len(s) /\ DOMAIN Append(s, e) = 1 .. Len(s) + 1
      /\ \A i \in 1 .. Len(s) : Append(s, e)[i] = s[i]
      /\ Append(s, e)[Len(s) + 1] = e
  OBVIOUS
<1>2. ASSUME NEW x \in Elements(Append(s, e))
      PROVE  x \in Elements(s) \cup {e}
  BY <1>1 DEF Elements
<1>3. ASSUME NEW x \in Elements(s)
      PROVE  x \in Elements(Append(s, e))
  <2>1. PICK i \in 1 .. Len(s) : x = s[i]
    BY <1>1 DEF Elements
  <2>2. i \in 1 .. Len(s) + 1 /\ Append(s, e)[i] = x
    BY <2>1, <1>1
  <2> QED BY <2>2, <1>1 DEF Elements
<1>4. e \in Elements(Append(s, e))
  <2>1. Len(s) + 1 \in 1 .. Len(s) + 1
    BY <1>1
  <2> QED BY <2>1, <1>1 DEF Elements
<1> QED BY <1>1, <1>2, <1>3, <1>4

\* A sequence without repetitions keeps that when a new element is appended.
LEMMA AppendDistinct ==
  ASSUME NEW S, NEW s \in Seq(S), NEW e \in S, e \notin Elements(s),
         \A i, j \in DOMAIN s : s[i] = s[j] => i = j
  PROVE  \A i, j \in DOMAIN Append(s, e) :
           Append(s, e)[i] = Append(s, e)[j] => i = j
BY DEF Elements

\* Taking the head of a sequence without repetitions removes exactly it.
LEMMA TailElements ==
  ASSUME NEW S, NEW s \in Seq(S), s # <<>>,
         \A i, j \in DOMAIN s : s[i] = s[j] => i = j
  PROVE  /\ Tail(s) \in Seq(S)
         /\ Head(s) \in Elements(s)
         /\ Len(Tail(s)) = Len(s) - 1
         /\ Elements(Tail(s)) = Elements(s) \ {Head(s)}
         /\ \A i, j \in DOMAIN Tail(s) : Tail(s)[i] = Tail(s)[j] => i = j
<1>1. /\ Tail(s) \in Seq(S)
      /\ Len(Tail(s)) = Len(s) - 1
      /\ DOMAIN Tail(s) = 1 .. Len(s) - 1
      /\ \A i \in 1 .. Len(s) - 1 : Tail(s)[i] = s[i + 1]
      /\ DOMAIN s = 1 .. Len(s) /\ Len(s) \in Nat /\ Len(s) >= 1
      /\ Head(s) = s[1]
  OBVIOUS
<1>2. Head(s) \in Elements(s)
  BY <1>1 DEF Elements
<1>3. Elements(Tail(s)) = Elements(s) \ {Head(s)}
  <2>1. ASSUME NEW x \in Elements(Tail(s))
        PROVE  x \in Elements(s) \ {Head(s)}
    BY <1>1 DEF Elements
  <2>2. ASSUME NEW x \in Elements(s), x # Head(s)
        PROVE  x \in Elements(Tail(s))
    <3>1. PICK i \in 1 .. Len(s) : x = s[i]
      BY <1>1 DEF Elements
    <3>2. i - 1 \in 1 .. Len(s) - 1 /\ Tail(s)[i - 1] = x
      BY <3>1, <2>2, <1>1
    <3> QED BY <3>2, <1>1 DEF Elements
  <2> QED BY <2>1, <2>2
<1>4. \A i, j \in DOMAIN Tail(s) : Tail(s)[i] = Tail(s)[j] => i = j
  BY <1>1
<1> QED BY <1>1, <1>2, <1>3, <1>4

\* Remember keeps the memory a bounded sequence of distinct keys.
LEMMA RememberBounded ==
  ASSUME QueueTypes, Bounded, NEW k \in Keys
  PROVE  /\ Remember(k) \in Seq(Keys)
         /\ Len(Remember(k)) <= RecentCap
         /\ \A i, j \in DOMAIN Remember(k) :
              Remember(k)[i] = Remember(k)[j] => i = j
<1> DEFINE longer == Append(recent, k)
<1>1. recent \in Seq(Keys) /\ Len(recent) \in Nat /\ RecentCap \in Nat
      /\ Len(recent) <= RecentCap
  BY QueueAssumption DEF QueueTypes, Bounded
<1>2. CASE RecentCap = 0 \/ k \in Remembered
  BY <1>1, <1>2 DEF Remember, Bounded
<1>3. CASE RecentCap # 0 /\ k \notin Remembered
  <2>1. /\ longer \in Seq(Keys) /\ longer # <<>>
        /\ Len(longer) = Len(recent) + 1
        /\ \A i, j \in DOMAIN longer : longer[i] = longer[j] => i = j
    <3>1. k \notin Elements(recent)
      BY <1>3 DEF Remembered
    <3>2. /\ longer \in Seq(Keys)
          /\ Len(longer) = Len(recent) + 1
      BY <1>1, AppendElements
    <3>3. \A i, j \in DOMAIN recent : recent[i] = recent[j] => i = j
      BY DEF Bounded
    <3>4. \A i, j \in DOMAIN longer : longer[i] = longer[j] => i = j
      BY <1>1, <3>1, <3>3, AppendDistinct
    <3>5. longer # <<>>
      BY <3>2, <1>1
    <3> QED BY <3>2, <3>4, <3>5
  <2>2. CASE Len(longer) > RecentCap
    <3>1. Remember(k) = Tail(longer)
      BY <1>3, <2>2 DEF Remember
    <3>2. /\ Tail(longer) \in Seq(Keys)
          /\ Len(Tail(longer)) = Len(longer) - 1
          /\ \A i, j \in DOMAIN Tail(longer) :
               Tail(longer)[i] = Tail(longer)[j] => i = j
      <4> HIDE DEF longer
      <4> QED BY <2>1, TailElements
    <3> QED BY <1>1, <2>1, <3>1, <3>2
  <2>3. CASE ~(Len(longer) > RecentCap)
    <3>1. Remember(k) = longer
      BY <1>3, <2>3 DEF Remember
    <3> QED BY <1>1, <2>1, <2>3, <3>1
  <2> QED BY <2>2, <2>3
<1> QED BY <1>2, <1>3
-----------------------------------------------------------------------------
(* The inductive invariant.                                                *)

\* A new queue satisfies it.
LEMMA InitQueueInv == Init => QueueInv
<1> SUFFICES ASSUME Init PROVE QueueInv
  OBVIOUS
<1> USE QueueAssumption DEF Init
<1>1. QueueTypes
  <2>1. <<>> \in Seq(Keys)
    OBVIOUS
  <2>2. [c \in Consumers |-> Idle] \in [Consumers -> Hands]
    BY DEF Hands
  <2> QED BY <2>1, <2>2 DEF QueueTypes
<1>2. MarksExact
  BY DEF MarksExact, QueuedKeys, Elements, ReceivedKeys, Idle
<1>3. NoDoubleQueue
  BY DEF NoDoubleQueue, QueuedKeys, Elements, ReceivedKeys, Idle
<1>4. Bounded
  BY DEF Bounded
<1> QED BY <1>1, <1>2, <1>3, <1>4 DEF QueueInv

\* Offer: the only way a key enters the channel.
LEMMA OfferQueueInv ==
  ASSUME QueueInv, NEW k \in Keys, Offer(k)
  PROVE  QueueInv'
<1> USE QueueAssumption
<1>1. CASE Outcome(k) = "accepted"
  <2>1. /\ ch' = Append(ch, k) /\ inflight' = inflight \cup {k}
        /\ UNCHANGED <<recent, closed, hand>>
    BY <1>1 DEF Offer
  <2>2. k \notin inflight /\ Len(ch) < Capacity
    BY <1>1 DEF Outcome
  <2>3. ch \in Seq(Keys) /\ QueueTypes /\ MarksExact /\ NoDoubleQueue /\ Bounded
    BY DEF QueueInv, QueueTypes
  <2>4. k \notin QueuedKeys /\ k \notin ReceivedKeys
    BY <2>2, <2>3 DEF MarksExact
  <2>5. /\ ch' \in Seq(Keys) /\ Len(ch') = Len(ch) + 1
        /\ QueuedKeys' = QueuedKeys \cup {k}
        /\ ReceivedKeys' = ReceivedKeys
    BY <2>1, <2>3, AppendElements DEF QueuedKeys, ReceivedKeys
  <2>6. \A i, j \in DOMAIN ch' : ch'[i] = ch'[j] => i = j
    BY <2>1, <2>3, <2>4, AppendDistinct DEF QueuedKeys, NoDoubleQueue
  <2>7. QueueTypes'
    BY <2>1, <2>3, <2>5 DEF QueueTypes
  <2>8. MarksExact'
    BY <2>1, <2>3, <2>5 DEF MarksExact
  <2>9. NoDoubleQueue'
    BY <2>1, <2>3, <2>4, <2>5, <2>6 DEF NoDoubleQueue
  <2>10. Bounded'
    BY <2>1, <2>2, <2>3, <2>5 DEF Bounded
  <2> QED BY <2>7, <2>8, <2>9, <2>10 DEF QueueInv
<1>2. CASE Outcome(k) # "accepted"
  BY <1>2 DEF Offer, QueueInv, QueueTypes, MarksExact, NoDoubleQueue,
              Bounded, QueuedKeys, ReceivedKeys
<1> QED BY <1>1, <1>2

\* Receive: the key moves from the channel to the hand, and stays in inflight.
LEMMA ReceiveQueueInv ==
  ASSUME QueueInv, NEW c \in Consumers, Receive(c)
  PROVE  QueueInv'
<1> DEFINE k == Head(ch)
<1>1. /\ hand[c] = Idle /\ ch # <<>> /\ ch' = Tail(ch)
      /\ hand' = [hand EXCEPT ![c] = Holding("received", k)]
      /\ UNCHANGED <<inflight, recent, closed>>
  BY DEF Receive
<1>2. QueueTypes /\ MarksExact /\ NoDoubleQueue /\ Bounded /\ ch \in Seq(Keys)
      /\ hand \in [Consumers -> Hands]
  BY DEF QueueInv, QueueTypes
<1>3. /\ ch' \in Seq(Keys) /\ Len(ch') = Len(ch) - 1 /\ Len(ch) \in Nat
      /\ k \in QueuedKeys /\ QueuedKeys' = QueuedKeys \ {k}
      /\ \A i, j \in DOMAIN ch' : ch'[i] = ch'[j] => i = j
  BY <1>1, <1>2, TailElements DEF QueuedKeys, NoDoubleQueue
<1>4. k \in Keys
  BY <1>1, <1>2
<1>5. k \notin ReceivedKeys
  BY <1>2, <1>3 DEF NoDoubleQueue
<1>6. /\ hand'[c].pc = "received" /\ hand'[c].key = k
      /\ \A d \in Consumers \ {c} : hand'[d] = hand[d]
      /\ hand[c].pc # "received"
      /\ hand' \in [Consumers -> Hands]
  BY <1>1, <1>2, <1>4 DEF Holding, Idle, Hands
<1> HIDE DEF k
<1>7. ReceivedKeys' = ReceivedKeys \cup {k}
  BY <1>6 DEF ReceivedKeys
<1>8. QueueTypes'
  BY <1>1, <1>2, <1>3, <1>6 DEF QueueTypes
<1>9. MarksExact'
  BY <1>1, <1>2, <1>3, <1>7 DEF MarksExact
<1>10. NoDoubleQueue'
  <2>1. ASSUME NEW d \in Consumers, NEW e \in Consumers,
               hand'[d].pc = "received", hand'[e].pc = "received",
               hand'[d].key = hand'[e].key
        PROVE  d = e
    <3>1. CASE d # c /\ e # c
      BY <2>1, <3>1, <1>2, <1>6 DEF NoDoubleQueue
    <3>2. ASSUME NEW x \in Consumers \ {c}, hand[x].pc = "received"
          PROVE  hand[x].key # k
      BY <3>2, <1>5 DEF ReceivedKeys
    <3> QED BY <2>1, <3>1, <3>2, <1>6
  <2> QED BY <2>1, <1>2, <1>3, <1>7 DEF NoDoubleQueue
<1>11. Bounded'
  BY <1>1, <1>2, <1>3, QueueAssumption DEF Bounded
<1> QED BY <1>8, <1>9, <1>10, <1>11 DEF QueueInv

\* Release: what is deleted from inflight is the receiver's own mark.
LEMMA ReleaseQueueInv ==
  ASSUME QueueInv, NEW c \in Consumers, Release(c)
  PROVE  QueueInv'
<1> DEFINE k == hand[c].key
<1>1. /\ hand[c].pc = "received"
      /\ inflight' = inflight \ {k}
      /\ hand' = [hand EXCEPT ![c] = Holding("working", k)]
      /\ UNCHANGED <<ch, recent, closed>>
  BY DEF Release
<1>2. QueueTypes /\ MarksExact /\ NoDoubleQueue /\ Bounded
      /\ hand \in [Consumers -> Hands]
  BY DEF QueueInv, QueueTypes
<1>3. k \in Keys
  BY <1>1, <1>2 DEF Hands, Idle, Holding
<1>4. k \in ReceivedKeys /\ k \notin QueuedKeys
  BY <1>1, <1>2 DEF ReceivedKeys, NoDoubleQueue
<1>5. /\ hand'[c].pc = "working"
      /\ \A d \in Consumers \ {c} : hand'[d] = hand[d]
      /\ hand' \in [Consumers -> Hands]
  BY <1>1, <1>2, <1>3 DEF Holding, Hands
<1>6. \A d \in Consumers \ {c} : hand[d].pc = "received" => hand[d].key # k
  BY <1>1, <1>2 DEF NoDoubleQueue
<1> HIDE DEF k
<1>7. ReceivedKeys' = ReceivedKeys \ {k}
  <2>1. \A x \in ReceivedKeys' : x \in ReceivedKeys /\ x # k
    BY <1>5, <1>6 DEF ReceivedKeys
  <2>2. \A x \in ReceivedKeys : x # k => x \in ReceivedKeys'
    BY <1>5 DEF ReceivedKeys, k
  <2> QED BY <2>1, <2>2
<1>8. QueuedKeys' = QueuedKeys
  BY <1>1 DEF QueuedKeys
<1>9. QueueTypes'
  BY <1>1, <1>2, <1>5 DEF QueueTypes
<1>10. MarksExact'
  BY <1>1, <1>2, <1>4, <1>7, <1>8 DEF MarksExact
<1>11. NoDoubleQueue'
  BY <1>1, <1>2, <1>5, <1>7, <1>8 DEF NoDoubleQueue
<1>12. Bounded'
  BY <1>1, <1>2 DEF Bounded
<1> QED BY <1>9, <1>10, <1>11, <1>12 DEF QueueInv

\* A hand that was not between the halves of Next and is not now leaves the
\* received keys alone: so with Complete, Abandon and Exit.
LEMMA EmptyHandQueueInv ==
  ASSUME QueueInv, NEW c \in Consumers, NEW h \in {Idle, Holding("exited", None)},
         hand[c].pc # "received", hand' = [hand EXCEPT ![c] = h],
         UNCHANGED <<ch, inflight, closed>>,
         recent' \in Seq(Keys), Len(recent') <= RecentCap,
         \A i, j \in DOMAIN recent' : recent'[i] = recent'[j] => i = j
  PROVE  QueueInv'
<1>1. QueueTypes /\ MarksExact /\ NoDoubleQueue /\ Bounded
      /\ hand \in [Consumers -> Hands]
  BY DEF QueueInv, QueueTypes
<1>2. /\ hand'[c].pc # "received"
      /\ \A d \in Consumers \ {c} : hand'[d] = hand[d]
      /\ hand' \in [Consumers -> Hands]
  BY <1>1 DEF Idle, Holding, Hands
<1>3. ReceivedKeys' = ReceivedKeys
  <2>1. \A d \in Consumers : (hand'[d].pc = "received") = (hand[d].pc = "received")
    BY <1>2
  <2>2. \A d \in Consumers : hand[d].pc = "received" => hand'[d] = hand[d]
    BY <1>2
  <2> QED BY <2>1, <2>2 DEF ReceivedKeys
<1>4. QueuedKeys' = QueuedKeys
  BY DEF QueuedKeys
<1>5. QueueTypes'
  BY <1>1, <1>2 DEF QueueTypes
<1>6. MarksExact'
  BY <1>1, <1>3, <1>4 DEF MarksExact
<1>7. NoDoubleQueue'
  BY <1>1, <1>2, <1>3, <1>4 DEF NoDoubleQueue
<1>8. Bounded'
  BY <1>1 DEF Bounded
<1> QED BY <1>5, <1>6, <1>7, <1>8 DEF QueueInv

\* Complete, Abandon and Exit empty the hand; only Complete touches recent.
LEMMA DoneQueueInv ==
  ASSUME QueueInv, NEW c \in Consumers, Complete(c) \/ Abandon(c) \/ Exit(c)
  PROVE  QueueInv'
<1>1. /\ QueueTypes /\ Bounded /\ hand \in [Consumers -> Hands]
      /\ recent \in Seq(Keys) /\ Len(recent) <= RecentCap
      /\ \A i, j \in DOMAIN recent : recent[i] = recent[j] => i = j
  BY DEF QueueInv, QueueTypes, Bounded
<1>2. CASE Complete(c)
  <2>1. hand[c].pc = "working" /\ hand[c].key \in Keys
    BY <1>1, <1>2 DEF Complete, Hands, Idle, Holding
  <2>2. /\ recent' = Remember(hand[c].key)
        /\ hand' = [hand EXCEPT ![c] = Idle]
        /\ UNCHANGED <<ch, inflight, closed>>
    BY <1>2 DEF Complete
  <2> QED BY <1>1, <2>1, <2>2, RememberBounded, EmptyHandQueueInv
<1>3. CASE Abandon(c)
  BY <1>1, <1>3, EmptyHandQueueInv DEF Abandon
<1>4. CASE Exit(c)
  <2>1. hand[c].pc # "received"
    BY <1>4 DEF Exit, Idle
  <2> QED BY <1>1, <1>4, <2>1, EmptyHandQueueInv DEF Exit
<1> QED BY <1>2, <1>3, <1>4

\* A step that leaves all but closed alone preserves the invariant.
LEMMA CloseQueueInv ==
  ASSUME QueueInv, closed' \in BOOLEAN, UNCHANGED <<ch, inflight, recent, hand>>
  PROVE  QueueInv'
BY DEF QueueInv, QueueTypes, MarksExact, NoDoubleQueue, Bounded,
       QueuedKeys, ReceivedKeys

\* Restart leads to the state of a new queue.
LEMMA RestartQueueInv ==
  ASSUME Restart
  PROVE  QueueInv'
<1>1. Init'
  BY DEF Restart, Init
<1> QED BY <1>1, InitQueueInv, PTL

\* QueueInv is inductive.
LEMMA QueueInvStep == QueueInv /\ [Next]_queueVars => QueueInv'
<1> SUFFICES ASSUME QueueInv, [Next]_queueVars PROVE QueueInv'
  OBVIOUS
<1>1. CASE \E k \in Keys : Offer(k)
  BY <1>1, OfferQueueInv
<1>2. CASE \E c \in Consumers : Consume(c)
  BY <1>2, ReceiveQueueInv, ReleaseQueueInv, DoneQueueInv DEF Consume
<1>3. CASE Close
  BY <1>3, CloseQueueInv DEF Close
<1>4. CASE Restart
  BY <1>4, RestartQueueInv
<1>5. CASE UNCHANGED queueVars
  <2>1. closed' \in BOOLEAN
    BY <1>5 DEF queueVars, QueueInv, QueueTypes
  <2> QED BY <1>5, <2>1, CloseQueueInv DEF queueVars
<1> QED BY <1>1, <1>2, <1>3, <1>4, <1>5 DEF Next
-----------------------------------------------------------------------------
(* The theorems.                                                           *)

\* Every reachable state of the queue satisfies the inductive invariant.
THEOREM QueueInvariance == Spec => []QueueInv
<1>1. Init => QueueInv
  BY InitQueueInv
<1>2. QueueInv /\ [Next]_queueVars => QueueInv'
  BY QueueInvStep
<1> QED BY <1>1, <1>2, PTL DEF Spec

\* The types and the bounds of the channel and of the memory of completed keys, for
\* every set of keys and consumers.
THEOREM QueueTypeCorrect == Spec => []QueueTypeOK
<1>1. QueueInv => QueueTypeOK
  BY DEF QueueInv, QueueTypeOK
<1> QED BY <1>1, QueueInvariance, PTL

\* inflight never drifts from the channel: no prompt is refused as a duplicate
\* of a job that no longer exists, and none is queued beside its twin, whatever
\* runs between the two halves of Next.
THEOREM InflightIsExact == Spec => []InflightExact
<1>1. QueueInv => InflightExact
  BY DEF QueueInv, InflightExact
<1> QED BY <1>1, QueueInvariance, PTL

\* A remembered key is never queued anew and a closed queue never grows.
THEOREM CompletedNeverRequeued == Spec => NeverRequeued
<1> DEFINE A == /\ \A k \in Remembered : k \in QueuedKeys' => k \in QueuedKeys
                /\ closed /\ closed' => QueuedKeys' \subseteq QueuedKeys
<1>1. QueueInv /\ [Next]_queueVars => [A]_queueVars
  <2> SUFFICES ASSUME QueueInv, Next PROVE A
    BY DEF queueVars
  <2>0. ch \in Seq(Keys) /\ \A i, j \in DOMAIN ch : ch[i] = ch[j] => i = j
    BY DEF QueueInv, QueueTypes, NoDoubleQueue
  <2>1. ASSUME NEW k \in Keys, Offer(k) PROVE A
    <3>1. CASE Outcome(k) = "accepted"
      <4>1. ~closed /\ k \notin Remembered
        BY <3>1 DEF Outcome
      <4>2. ch' = Append(ch, k)
        BY <2>1, <3>1 DEF Offer
      <4>3. Elements(Append(ch, k)) = Elements(ch) \cup {k}
        BY <2>0, AppendElements
      <4>4. QueuedKeys' = QueuedKeys \cup {k}
        BY <4>2, <4>3 DEF QueuedKeys
      <4> QED BY <4>1, <4>4
    <3>2. CASE Outcome(k) # "accepted"
      BY <2>1, <3>2 DEF Offer, QueuedKeys
    <3> QED BY <3>1, <3>2
  <2>2. ASSUME NEW c \in Consumers, Consume(c) PROVE A
    <3>1. CASE Receive(c)
      <4>1. QueuedKeys' = QueuedKeys \ {Head(ch)}
        BY <2>0, <3>1, TailElements DEF Receive, QueuedKeys
      <4> QED BY <4>1
    <3>2. CASE ~Receive(c)
      BY <2>2, <3>2 DEF Consume, Release, Complete, Abandon, Exit, QueuedKeys
    <3> QED BY <3>1, <3>2
  <2>3. CASE Close
    BY <2>3 DEF Close, QueuedKeys
  <2>4. CASE Restart
    <3>1. QueuedKeys' = {}
      BY <2>4 DEF Restart, QueuedKeys, Elements
    <3> QED BY <3>1
  <2> QED BY <2>1, <2>2, <2>3, <2>4 DEF Next
<1> QED BY <1>1, QueueInvariance, PTL DEF Spec, NeverRequeued
=============================================================================
