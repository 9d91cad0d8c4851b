--------------------------- MODULE EventBus_proofs ---------------------------
(***************************************************************************)
(* Proofs about EventBus for any number of pages and writers and any         *)
(* capacity of the queues.  A lemma says what one message offered to a queue *)
(* does; the invariants follow action by action.                            *)
(***************************************************************************)
EXTENDS EventBus, SequenceTheorems, TLAPS

\* A queue that takes a message stays within its capacity, is not empty then,
\* and holds a resync notice if it was full or held one while it was not.
LEMMA OfferFits ==
    ASSUME BusTypeOK, NEW c \in Clients
    PROVE  /\ Offer(c) \in Seq(Messages)
           /\ Len(Offer(c)) <= Capacity
           /\ Offer(c) # <<>>
           /\ Full(c) => Contains(Offer(c), "resync")
           /\ ~Full(c) /\ Contains(queue[c], "resync") => Contains(Offer(c), "resync")
<1> DEFINE q == queue[c]
<1>1. q \in Seq(Messages) /\ Len(q) \in Nat /\ Len(q) <= Capacity /\ Capacity \in Nat \ {0}
  BY CapacityAssumption DEF BusTypeOK
<1>2. CASE Full(c)
  <2>1. q # <<>> /\ Len(q) = Capacity
    BY <1>1, <1>2, EmptySeq DEF Full
  <2>2. Tail(q) \in Seq(Messages) /\ Len(Tail(q)) = Capacity - 1
    BY <1>1, <2>1, HeadTailProperties
  <2>3. /\ Offer(c) \in Seq(Messages) /\ Len(Offer(c)) = Capacity
        /\ Offer(c)[Capacity] = "resync"
    BY <1>1, <1>2, <2>2, AppendProperties DEF Offer, Messages
  <2>4. Offer(c) # <<>> /\ Contains(Offer(c), "resync")
    BY <1>1, <2>3, EmptySeq DEF Contains
  <2> QED
    BY <1>1, <1>2, <2>3, <2>4
<1>3. CASE ~Full(c)
  <2>1. /\ Offer(c) = Append(q, "update")
        /\ Offer(c) \in Seq(Messages) /\ Len(Offer(c)) = Len(q) + 1
        /\ \A i \in 1..Len(q) : Offer(c)[i] = q[i]
    BY <1>1, <1>3, AppendProperties DEF Offer, Messages
  <2>2. Len(Offer(c)) <= Capacity /\ Offer(c) # <<>>
    BY <1>1, <1>3, <2>1, EmptySeq DEF Full
  <2>3. Contains(q, "resync") => Contains(Offer(c), "resync")
    BY <1>1, <2>1 DEF Contains
  <2> QED
    BY <1>3, <2>1, <2>2, <2>3
<1> QED
  BY <1>2, <1>3

\* A message that is sent leaves a queue within its capacity, and takes a notice
\* with it only if it is one.
LEMMA TailFits ==
    ASSUME BusTypeOK, NEW c \in Clients, queue[c] # <<>>
    PROVE  /\ Tail(queue[c]) \in Seq(Messages)
           /\ Len(Tail(queue[c])) <= Capacity
           /\ Contains(queue[c], "resync") /\ Head(queue[c]) # "resync"
                => Contains(Tail(queue[c]), "resync")
<1> DEFINE q == queue[c]
<1>1. q \in Seq(Messages) /\ q # <<>> /\ Len(q) <= Capacity /\ Capacity \in Nat
  BY CapacityAssumption DEF BusTypeOK
<1>2. /\ Tail(q) \in Seq(Messages) /\ Len(Tail(q)) = Len(q) - 1 /\ Len(q) \in Nat
      /\ \A i \in 1..Len(Tail(q)) : Tail(q)[i] = q[i + 1]
      /\ Head(q) = q[1]
  BY <1>1, HeadTailProperties
<1>3. ASSUME Contains(q, "resync"), Head(q) # "resync"
      PROVE  Contains(Tail(q), "resync")
  <2>1. PICK i \in 1..Len(q) : q[i] = "resync"
    BY <1>3 DEF Contains
  <2>2. i - 1 \in 1..Len(Tail(q)) /\ Tail(q)[i - 1] = "resync"
    BY <1>2, <1>3, <2>1
  <2> QED
    BY <2>2 DEF Contains
<1> QED
  BY <1>1, <1>2, <1>3

\* What publishing does to the queue of every page.
LEMMA PublishFits ==
    ASSUME BusTypeOK, Publish
    PROVE  /\ queue' \in [Clients -> Seq(Messages)]
           /\ \A c \in Clients : Len(queue'[c]) <= Capacity
           /\ \A c \in streams : queue'[c] # <<>>
           /\ lossy' \subseteq Clients
           /\ LossIsMarked => LossIsMarked'
<1>1. \A c \in Clients : /\ c \in streams => queue'[c] = Offer(c)
                         /\ c \notin streams => queue'[c] = queue[c]
  BY DEF Publish
<1>2. streams \subseteq Clients /\ lossy \subseteq Clients
  BY DEF BusTypeOK
<1>3. queue' \in [Clients -> Seq(Messages)]
  BY <1>1, OfferFits DEF Publish, BusTypeOK
<1>4. \A c \in Clients : Len(queue'[c]) <= Capacity
  BY <1>1, OfferFits DEF BusTypeOK
<1>5. \A c \in streams : queue'[c] # <<>>
  BY <1>1, <1>2, OfferFits
<1>6. lossy' \subseteq Clients
  BY <1>2 DEF Publish
<1>7. ASSUME LossIsMarked, NEW c \in lossy'
      PROVE  Contains(queue'[c], "resync")
  <2>1. c \in Clients /\ (c \in lossy \/ (c \in streams /\ Full(c)))
    BY <1>2, <1>7 DEF Publish
  <2>2. CASE c \in streams /\ Full(c)
    BY <1>1, <2>1, <2>2, OfferFits
  <2>3. CASE c \in streams /\ ~Full(c)
    BY <1>1, <1>7, <2>1, <2>3, OfferFits DEF LossIsMarked
  <2>4. CASE c \notin streams
    BY <1>1, <1>7, <2>1, <2>4 DEF LossIsMarked
  <2> QED
    BY <2>2, <2>3, <2>4
<1> QED
  BY <1>3, <1>4, <1>5, <1>6, <1>7 DEF LossIsMarked

----------------------------------------------------------------------------
\* What the bus keeps in every step.
BusInv == BusTypeOK /\ LossIsMarked /\ NoPageForgotten

LEMMA BusInitInv ==
    BusInit => BusInv
<1> SUFFICES ASSUME BusInit PROVE BusInv
  OBVIOUS
<1>1. BusTypeOK
  BY EmptySeq, CapacityAssumption DEF BusInit, BusTypeOK
<1>2. LossIsMarked /\ NoPageForgotten
  BY DEF BusInit, LossIsMarked, NoPageForgotten
<1> QED
  BY <1>1, <1>2 DEF BusInv

LEMMA ChangeKeepsInv ==
    ASSUME BusInv, NEW w \in Writers, Change(w) PROVE BusInv'
<1>1. BusTypeOK'
  BY DEF BusInv, BusTypeOK, Change, DataChange
<1>2. LossIsMarked'
  BY DEF BusInv, LossIsMarked, Change
<1>3. NoPageForgotten'
  BY DEF NoPageForgotten, Change
<1> QED
  BY <1>1, <1>2, <1>3 DEF BusInv

LEMMA AnnounceKeepsInv ==
    ASSUME BusInv, NEW w \in Writers, Announce(w) \/ ChangeAndAnnounce(w) PROVE BusInv'
<1> USE DEF BusInv
<1>1. /\ queue' \in [Clients -> Seq(Messages)]
      /\ \A c \in Clients : Len(queue'[c]) <= Capacity
      /\ \A c \in streams : queue'[c] # <<>>
      /\ lossy' \subseteq Clients
      /\ LossIsMarked'
  BY PublishFits DEF Announce, ChangeAndAnnounce
<1>2. BusTypeOK'
  BY <1>1 DEF BusTypeOK, Announce, ChangeAndAnnounce, DataChange
<1>3. NoPageForgotten'
  BY <1>1 DEF NoPageForgotten, Announce, ChangeAndAnnounce
<1> QED
  BY <1>1, <1>2, <1>3

LEMMA StreamKeepsInv ==
    ASSUME BusInv, NEW c \in Clients, Connect(c) \/ Disconnect(c) PROVE BusInv'
<1> USE DEF BusInv
<1>1. CASE Connect(c)
  <2>1. BusTypeOK'
    BY <1>1 DEF BusTypeOK, Connect
  <2>2. LossIsMarked'
    BY <1>1 DEF LossIsMarked, Connect
  <2>3. NoPageForgotten'
    BY <1>1 DEF NoPageForgotten, Connect
  <2> QED
    BY <2>1, <2>2, <2>3
<1>2. CASE Disconnect(c)
  <2>1. /\ \A d \in Clients : d # c => queue'[d] = queue[d]
        /\ queue' \in [Clients -> Seq(Messages)] /\ Len(queue'[c]) = 0
    BY <1>2, EmptySeq DEF BusTypeOK, Disconnect
  <2>2. BusTypeOK'
    BY <1>2, <2>1, CapacityAssumption DEF BusTypeOK, Disconnect
  <2>3. LossIsMarked'
    BY <1>2, <2>1 DEF BusTypeOK, LossIsMarked, Disconnect
  <2>4. NoPageForgotten'
    BY <1>2, <2>1 DEF BusTypeOK, NoPageForgotten, Disconnect
  <2> QED
    BY <2>2, <2>3, <2>4
<1> QED
  BY <1>1, <1>2

LEMMA SendKeepsInv ==
    ASSUME BusInv, NEW c \in Clients, Send(c) PROVE BusInv'
<1> USE DEF BusInv
<1>1. /\ Tail(queue[c]) \in Seq(Messages)
      /\ Len(Tail(queue[c])) <= Capacity
      /\ Contains(queue[c], "resync") /\ Head(queue[c]) # "resync"
           => Contains(Tail(queue[c]), "resync")
  BY TailFits DEF Send
<1>2. queue'[c] = Tail(queue[c]) /\ \A d \in Clients : d # c => queue'[d] = queue[d]
  BY DEF BusTypeOK, Send
<1>3. BusTypeOK'
  BY <1>1, <1>2 DEF BusTypeOK, Send
<1>4. LossIsMarked'
  BY <1>1, <1>2 DEF BusTypeOK, LossIsMarked, Send
<1>5. NoPageForgotten'
  BY <1>2 DEF BusTypeOK, NoPageForgotten, Send
<1> QED
  BY <1>3, <1>4, <1>5

LEMMA FetchKeepsInv ==
    ASSUME BusInv, NEW c \in Clients,
           Answer(c) \/ ArriveFresh(c) \/ ArriveOld(c) \/ FetchFails(c)
    PROVE  BusInv'
<1> USE DEF BusInv
<1>1. BusTypeOK'
  BY DEF BusTypeOK, Answer, ArriveFresh, ArriveOld, FetchFails
<1>2. LossIsMarked'
  BY DEF LossIsMarked, Answer, ArriveFresh, ArriveOld, FetchFails
<1>3. NoPageForgotten'
  BY DEF NoPageForgotten, Answer, ArriveFresh, ArriveOld, FetchFails
<1> QED
  BY <1>1, <1>2, <1>3

LEMMA BusCrashKeepsInv ==
    ASSUME BusInv, BusCrash PROVE BusInv'
<1>1. BusTypeOK'
  BY EmptySeq, CapacityAssumption DEF BusInv, BusTypeOK, BusCrash
<1>2. LossIsMarked' /\ NoPageForgotten'
  BY DEF LossIsMarked, NoPageForgotten, BusCrash
<1> QED
  BY <1>1, <1>2 DEF BusInv

LEMMA BusStepKeepsInv ==
    BusInv /\ [BusNext]_busVars => BusInv'
<1> SUFFICES ASSUME BusInv, [BusNext]_busVars PROVE BusInv'
  OBVIOUS
<1>1. ASSUME NEW w \in Writers, Change(w) \/ Announce(w) \/ ChangeAndAnnounce(w)
      PROVE  BusInv'
  BY <1>1, ChangeKeepsInv, AnnounceKeepsInv
<1>2. ASSUME NEW c \in Clients, Connect(c) \/ Disconnect(c) \/ PageStep(c)
      PROVE  BusInv'
  BY <1>2, StreamKeepsInv, SendKeepsInv, FetchKeepsInv DEF PageStep
<1>3. CASE BusCrash
  BY <1>3, BusCrashKeepsInv
<1>4. CASE UNCHANGED busVars
  BY <1>4 DEF busVars, BusInv, BusTypeOK, LossIsMarked, NoPageForgotten
<1> QED
  BY <1>1, <1>2, <1>3, <1>4 DEF BusNext

\* Whatever the writers and the pages do, the bus keeps its invariant.
THEOREM BusIsSafe ==
    BusSpec => []BusInv
<1> QED
  BY BusInitInv, BusStepKeepsInv, PTL DEF BusSpec

\* No queue outgrows its capacity, and every variable keeps its type
\* (api.py:33-34).
THEOREM BusTypeCorrect ==
    BusSpec => []BusTypeOK
<1> QED
  BY BusIsSafe, PTL DEF BusInv

\* The bus forgets no page with an open stream, whatever overflows; and one that
\* its last fetch, its connection or an overtaken answer left behind only until
\* the data next changes (api.py:22-31, app.js:10, 26).
THEOREM PagesAreServed ==
    BusSpec => []NoPageForgotten
<1> QED
  BY BusIsSafe, PTL DEF BusInv

\* A page that lost a message has a resync notice in its queue (api.py:26-31).
THEOREM LossesAreMarked ==
    BusSpec => []LossIsMarked
<1> QED
  BY BusIsSafe, PTL DEF BusInv

=============================================================================
