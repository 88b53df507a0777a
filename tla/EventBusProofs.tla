---------------------------- MODULE EventBusProofs ----------------------------
(***************************************************************************)
(* Proofs about EventBus for any set of users and streams and any size of  *)
(* the ring: the ring is the window of the newest events, a connection     *)
(* hears events in order and once, and every step of the bus and of the    *)
(* handlers is a step of EventFeed or leaves its variables alone.  And     *)
(* about the screen the stream feeds, for any messages, sources, filters   *)
(* and requests: its subtitle counts what it lists, and when nothing is on *)
(* its way that is what the server would answer, or it is on record why    *)
(* not.                                                                    *)
(***************************************************************************)
EXTENDS EventBus, FeedView, FiniteSetTheorems, WellFoundedInduction, NaturalsInduction, TLAPS

\* What Trim returns: the ring itself, or its end.
LEMMA TrimIsSuffix ==
  ASSUME NEW q \in Seq(Event), Len(q) <= MaxLen + 1
  PROVE  /\ Trim(q) \in Seq(Event)
         /\ Len(Trim(q)) = IF Len(q) > MaxLen THEN MaxLen ELSE Len(q)
         /\ \A i \in 1..Len(Trim(q)) : Trim(q)[i] = q[Len(q) - Len(Trim(q)) + i]
<1>1. MaxLen \in Nat /\ MaxLen >= 1
  BY ConstantsOK DEF ConstantsOK
<1>2. CASE Len(q) > MaxLen
  <2>1. Trim(q) = SubSeq(q, Len(q) - MaxLen + 1, Len(q))
    BY <1>2 DEF Trim
  <2>2. Len(q) = MaxLen + 1
    BY <1>1, <1>2
  <2>3. Len(q) - MaxLen + 1 = 2
    BY <1>1, <2>2
  <2> QED
    BY <1>1, <1>2, <2>1, <2>2, <2>3
<1>3. CASE ~(Len(q) > MaxLen)
  BY <1>1, <1>3 DEF Trim
<1> QED
  BY <1>2, <1>3

\* One publication keeps the ring a window of the log.
LEMMA PublishKeepsWindow ==
  ASSUME TypeOK, RingIsWindow, NEW u \in Users, Publish(u)
  PROVE  /\ RingIsWindow'
         /\ events' \in Seq(Event) /\ Len(events') <= MaxLen
<1> DEFINE e == [seq |-> seq + 1, user |-> u]
           q == Append(events, e)
<1>1. MaxLen \in Nat /\ MaxLen >= 1
  BY ConstantsOK DEF ConstantsOK
<1>2. /\ seq \in Nat /\ events \in Seq(Event) /\ log \in Seq(Users)
      /\ seq' = seq + 1 /\ events' = Trim(q) /\ log' = Append(log, u)
  BY DEF TypeOK, Publish
<1>3. /\ seq = Len(log)
      /\ Len(events) = IF seq < MaxLen THEN seq ELSE MaxLen
  BY DEF RingIsWindow
<1>4. e \in Event /\ e.seq = seq + 1 /\ e.user = u
  BY <1>2 DEF Event
<1> HIDE DEF e
<1>5. /\ q \in Seq(Event) /\ Len(q) = Len(events) + 1
      /\ \A i \in 1..Len(events) : q[i] = events[i]
      /\ q[Len(events) + 1] = e
  BY <1>2, <1>4
<1>6. \A i \in 1..Len(q) : /\ q[i].seq = seq' - Len(q) + i
                           /\ q[i].user = log'[seq' - Len(q) + i]
  <2> SUFFICES ASSUME NEW i \in 1..Len(q)
               PROVE  /\ q[i].seq = seq' - Len(q) + i
                      /\ q[i].user = log'[seq' - Len(q) + i]
    OBVIOUS
  <2>1. seq' - Len(q) = seq - Len(events) /\ Len(events) \in Nat
    BY <1>2, <1>5
  <2>2. CASE i \in 1..Len(events)
    <3>1. /\ events[i].seq = seq - Len(events) + i
          /\ events[i].user = log[seq - Len(events) + i]
      BY <2>2 DEF RingIsWindow
    <3>2. seq - Len(events) + i \in 1..Len(log)
      BY <1>1, <1>2, <1>3, <2>1, <2>2
    <3> QED
      BY <1>2, <1>5, <2>1, <2>2, <3>1, <3>2
  <2>3. CASE i = Len(events) + 1
    <3>1. seq' - Len(q) + i = seq + 1 /\ q[i] = e
      BY <1>2, <1>5, <2>1, <2>3
    <3>2. log'[seq + 1] = u
      BY <1>2, <1>3
    <3> QED
      BY <1>2, <1>4, <3>1, <3>2
  <2> QED
    BY <1>5, <2>1, <2>2, <2>3
<1> HIDE DEF q
<1>7. Len(q) <= MaxLen + 1 /\ Len(q) \in Nat
  BY <1>1, <1>2, <1>3, <1>5
<1>8. /\ Trim(q) \in Seq(Event)
      /\ Len(Trim(q)) = IF Len(q) > MaxLen THEN MaxLen ELSE Len(q)
      /\ \A i \in 1..Len(Trim(q)) : Trim(q)[i] = q[Len(q) - Len(Trim(q)) + i]
  BY <1>5, <1>7, TrimIsSuffix
<1> DEFINE t == Trim(q)
<1> HIDE DEF t
<1>9. Len(t) \in Nat /\ Len(t) <= MaxLen /\ Len(t) <= Len(q)
  BY <1>1, <1>7, <1>8 DEF t
<1>10. Len(t) = IF seq' < MaxLen THEN seq' ELSE MaxLen
  BY <1>1, <1>2, <1>3, <1>5, <1>8 DEF t
<1>11. \A i \in 1..Len(t) : /\ t[i].seq = seq' - Len(t) + i
                            /\ t[i].user = log'[seq' - Len(t) + i]
  <2> SUFFICES ASSUME NEW i \in 1..Len(t)
               PROVE  /\ t[i].seq = seq' - Len(t) + i
                      /\ t[i].user = log'[seq' - Len(t) + i]
    OBVIOUS
  <2>1. t[i] = q[Len(q) - Len(t) + i]
    BY <1>8 DEF t
  <2>2. Len(q) - Len(t) + i \in 1..Len(q)
    BY <1>7, <1>9
  <2>3. seq' - Len(q) + (Len(q) - Len(t) + i) = seq' - Len(t) + i
    BY <1>2, <1>7, <1>9
  <2> QED
    BY <1>6, <2>1, <2>2, <2>3
<1>12. seq' = Len(log')
  BY <1>2, <1>3
<1>13. events' = t
  BY <1>2 DEF t
<1>14. RingIsWindow'
  BY <1>10, <1>11, <1>12, <1>13 DEF RingIsWindow
<1> QED
  BY <1>8, <1>9, <1>13, <1>14 DEF t

\* Places in a window of the last l numbers up to a, and the numbers in it.
LEMMA WindowPlaces ==
  ASSUME NEW a \in Nat, NEW m \in Nat, NEW l \in Nat, l = IF a < m THEN a ELSE m
  PROVE  /\ \A i \in 1..l : a - l + i \in 1..a /\ a - m < a - l + i
         /\ \A n \in 1..a : a - m < n =>
              n - (a - l) \in 1..l /\ a - l + (n - (a - l)) = n
OBVIOUS

\* The set Since returns, said of the log instead of the ring.
LEMMA SinceIsWindow ==
  ASSUME TypeOK, RingIsWindow, NEW u \in Users, NEW from \in Nat
  PROVE  Since(u, from) = {n \in 1..Len(log) : /\ from < n
                                               /\ Len(log) - MaxLen < n
                                               /\ log[n] = u}
<1> DEFINE L == Len(events)
           W == {n \in 1..Len(log) : from < n /\ Len(log) - MaxLen < n /\ log[n] = u}
<1>1. /\ MaxLen \in Nat /\ seq \in Nat /\ seq = Len(log) /\ L \in Nat
      /\ L = IF seq < MaxLen THEN seq ELSE MaxLen
  BY ConstantsOK DEF ConstantsOK, TypeOK, RingIsWindow
<1>2. \A i \in 1..L : /\ events[i].seq = seq - L + i
                      /\ events[i].user = log[seq - L + i]
  BY DEF RingIsWindow
<1>3. ASSUME NEW n \in Since(u, from) PROVE n \in W
  <2>1. PICK i \in 1..L : /\ n = events[i].seq
                          /\ events[i].seq > from /\ events[i].user = u
    BY <1>3 DEF Since
  <2>2. n = seq - L + i /\ log[n] = u /\ n > from
    BY <1>2, <2>1
  <2>3. n \in 1..Len(log) /\ Len(log) - MaxLen < n
    <3>1. seq - L + i \in 1..seq /\ seq - MaxLen < seq - L + i
      BY <1>1, <2>1, WindowPlaces
    <3> QED
      BY <1>1, <2>2, <3>1
  <2> QED
    BY <2>2, <2>3
<1>4. ASSUME NEW n \in W PROVE n \in Since(u, from)
  <2>1. n - (seq - L) \in 1..L /\ seq - L + (n - (seq - L)) = n
    BY <1>1, WindowPlaces
  <2>2. PICK i \in 1..L : i = n - (seq - L)
    BY <2>1
  <2>3. seq - L + i = n
    BY <2>1, <2>2
  <2>4. events[i].seq = n /\ events[i].user = u /\ n > from
    BY <1>2, <2>3
  <2> QED
    BY <2>4 DEF Since
<1> QED
  BY <1>3, <1>4
-----------------------------------------------------------------------------
(* The inductive invariant *)

IInv == TypeOK /\ RingIsWindow /\ WrittenBeforeBatch

LEMMA InitEstablishes == Init => IInv
<1> SUFFICES ASSUME Init PROVE IInv
  OBVIOUS
<1>1. MaxLen \in Nat /\ 0 < MaxLen
  BY ConstantsOK DEF ConstantsOK
<1>2. TypeOK
  BY <1>1 DEF Init, TypeOK
<1>3. RingIsWindow
  BY <1>1 DEF Init, RingIsWindow
<1>4. WrittenBeforeBatch
  BY DEF Init, WrittenBeforeBatch
<1> QED
  BY <1>2, <1>3, <1>4 DEF IInv

LEMMA StepKeeps == IInv /\ [Next]_vars => IInv'
<1> SUFFICES ASSUME IInv, [Next]_vars PROVE IInv'
  OBVIOUS
<1> USE DEF IInv
<1>1. ASSUME NEW u \in Users, Publish(u) PROVE IInv'
  <2>1. RingIsWindow' /\ events' \in Seq(Event) /\ Len(events') <= MaxLen
    BY <1>1, PublishKeepsWindow
  <2>2. TypeOK'
    BY <1>1, <2>1 DEF Publish, TypeOK
  <2>3. WrittenBeforeBatch'
    BY <1>1 DEF Publish, WrittenBeforeBatch
  <2> QED
    BY <2>1, <2>2, <2>3
<1>2. ASSUME NEW s \in Subscribers, Open(s) PROVE IInv'
  <2>1. TypeOK'
    BY <1>2 DEF Open, TypeOK
  <2>2. RingIsWindow' /\ WrittenBeforeBatch'
    BY <1>2 DEF Open, RingIsWindow, WrittenBeforeBatch
  <2> QED
    BY <2>1, <2>2
<1>3. ASSUME NEW s \in Subscribers, Subscribe(s) PROVE IInv'
  <2>1. TypeOK'
    BY <1>3 DEF Subscribe, TypeOK
  <2>2. RingIsWindow'
    BY <1>3 DEF Subscribe, RingIsWindow
  <2>3. batch[s] = {} /\ got[s] = {}
    BY <1>3 DEF Subscribe, TypeOK
  <2>4. WrittenBeforeBatch'
    BY <1>3, <2>3 DEF Subscribe, TypeOK, WrittenBeforeBatch
  <2> QED
    BY <2>1, <2>2, <2>4
<1>4. ASSUME NEW s \in Subscribers, Poll(s) PROVE IInv'
  <2>1. UserOf[s] \in Users /\ cursor[s] \in Nat /\ cursor[s] <= seq
    BY ConstantsOK DEF ConstantsOK, TypeOK
  <2>2. \A n \in batch'[s] : n \in Nat /\ cursor[s] < n /\ n <= seq
    <3>1. Since(UserOf[s], cursor[s]) =
            {n \in 1..Len(log) : /\ cursor[s] < n /\ Len(log) - MaxLen < n
                                 /\ log[n] = UserOf[s]}
      BY <2>1, SinceIsWindow
    <3>2. batch'[s] = Since(UserOf[s], cursor[s])
      BY <1>4 DEF Poll, TypeOK
    <3>3. seq = Len(log) /\ seq \in Nat
      BY DEF RingIsWindow, TypeOK
    <3> QED
      BY <3>1, <3>2, <3>3
  <2>3. /\ batch' = [batch EXCEPT ![s] = batch'[s]]
        /\ cursor' = [cursor EXCEPT ![s] = seq]
        /\ UNCHANGED <<seq, events, pc, got, log>> /\ pc[s] = "polling"
    BY <1>4 DEF Poll, TypeOK
  <2>4. TypeOK'
    BY <2>2, <2>3 DEF TypeOK
  <2>5. RingIsWindow'
    BY <2>3 DEF RingIsWindow
  <2>6. WrittenBeforeBatch'
    <3> SUFFICES ASSUME NEW r \in Subscribers
                 PROVE  /\ \A n \in batch'[r] \union got'[r] : n <= cursor'[r]
                        /\ \A n \in batch'[r], m \in got'[r] : m < n
      BY DEF WrittenBeforeBatch
    <3>1. CASE r = s
      <4>1. cursor'[s] = seq /\ got'[s] = got[s] /\ got[s] \in SUBSET Nat /\ seq \in Nat
        BY <2>3 DEF TypeOK
      <4>2. \A m \in got[s] : m <= cursor[s]
        BY DEF WrittenBeforeBatch
      <4> QED
        BY <2>1, <2>2, <3>1, <4>1, <4>2
    <3>2. CASE r # s
      BY <2>3, <3>2 DEF WrittenBeforeBatch, TypeOK
    <3> QED
      BY <3>1, <3>2
  <2> QED
    BY <2>4, <2>5, <2>6
<1>5. ASSUME NEW s \in Subscribers, Write(s) PROVE IInv'
  <2>1. PICK n \in batch[s] :
          /\ \A m \in batch[s] : n <= m
          /\ batch' = [batch EXCEPT ![s] = @ \ {n}]
          /\ got' = [got EXCEPT ![s] = @ \union {n}]
          /\ UNCHANGED <<seq, events, pc, cursor, log>>
    BY <1>5 DEF Write
  <2>2. n \in Nat /\ pc[s] = "polling"
    BY <2>1 DEF TypeOK
  <2>3. TypeOK'
    BY <2>1, <2>2 DEF TypeOK
  <2>4. RingIsWindow'
    BY <2>1 DEF RingIsWindow
  <2>5. WrittenBeforeBatch'
    BY <2>1, <2>2 DEF WrittenBeforeBatch, TypeOK
  <2> QED
    BY <2>3, <2>4, <2>5
<1>6. ASSUME NEW s \in Subscribers, Disconnect(s) PROVE IInv'
  <2>1. TypeOK'
    BY <1>6 DEF Disconnect, TypeOK
  <2>2. RingIsWindow'
    BY <1>6 DEF Disconnect, RingIsWindow
  <2>3. WrittenBeforeBatch'
    BY <1>6 DEF Disconnect, WrittenBeforeBatch, TypeOK
  <2> QED
    BY <2>1, <2>2, <2>3
<1>7. CASE UNCHANGED vars
  BY <1>7 DEF vars, TypeOK, RingIsWindow, WrittenBeforeBatch
<1> QED
  BY <1>1, <1>2, <1>3, <1>4, <1>5, <1>6, <1>7 DEF Next, Stream

THEOREM Invariance == Spec => []IInv
BY InitEstablishes, StepKeeps, PTL DEF Spec
-----------------------------------------------------------------------------
(***************************************************************************)
(* The variables keep their shape and the ring its bound (bus.go, stream.go). *)
(***************************************************************************)
THEOREM TypeCorrect == Spec => []TypeOK
<1>1. IInv => TypeOK
  BY DEF IInv
<1> QED
  BY <1>1, Invariance, PTL

(***************************************************************************)
(* Publish keeps the ring equal to the newest maxLen events, in order and  *)
(* without a gap, for every maxLen.                                        *)
(***************************************************************************)
THEOREM RingIsTheWindow == Spec => []RingIsWindow
<1>1. IInv => RingIsWindow
  BY DEF IInv
<1> QED
  BY <1>1, Invariance, PTL

(***************************************************************************)
(* handleStream writes events in the order of their numbers and none twice. *)
(***************************************************************************)
THEOREM OrderIsKept == Spec => InOrder
<1>1. IInv /\ [Next]_vars =>
        [\A s \in Subscribers : \A n \in batch[s] \ batch'[s], m \in got'[s] :
           m <= n /\ n \notin got[s]]_vars
  <2> SUFFICES ASSUME IInv, Next, NEW s \in Subscribers,
                      NEW n \in batch[s] \ batch'[s], NEW m \in got'[s]
               PROVE  m <= n /\ n \notin got[s]
    OBVIOUS
  <2>1. /\ batch \in [Subscribers -> SUBSET Nat] /\ got \in [Subscribers -> SUBSET Nat]
        /\ \A k \in batch[s], j \in got[s] : j < k
    BY DEF IInv, TypeOK, WrittenBeforeBatch
  <2>2. n \in Nat /\ n \notin got[s]
    BY <2>1
  <2>3. ASSUME NEW r \in Subscribers, Poll(r) PROVE m <= n
    <3>1. batch[r] = {} /\ got' = got /\ \A q \in Subscribers \ {r} : batch'[q] = batch[q]
      BY <2>1, <2>3 DEF Poll
    <3> QED
      BY <3>1
  <2>4. ASSUME NEW r \in Subscribers, Write(r) PROVE m <= n
    <3>1. PICK k \in batch[r] : /\ batch' = [batch EXCEPT ![r] = @ \ {k}]
                                /\ got' = [got EXCEPT ![r] = @ \union {k}]
      BY <2>4 DEF Write
    <3>2. r = s /\ k = n
      BY <2>1, <3>1
    <3>3. m = n \/ m \in got[s]
      BY <2>1, <3>1, <3>2
    <3> QED
      BY <2>1, <2>2, <3>3
  <2>5. ASSUME NEW r \in Subscribers, Disconnect(r) PROVE m <= n
    <3>1. r = s
      BY <2>1, <2>5 DEF Disconnect
    <3> QED
      BY <2>1, <2>5, <3>1 DEF Disconnect
  <2>6. ASSUME NEW r \in Subscribers, Open(r) \/ Subscribe(r) PROVE m <= n
    BY <2>6 DEF Open, Subscribe
  <2>7. ASSUME NEW u \in Users, Publish(u) PROVE m <= n
    BY <2>7 DEF Publish
  <2> QED
    BY <2>2, <2>3, <2>4, <2>5, <2>6, <2>7 DEF Next, Stream
<1> QED
  BY <1>1, Invariance, PTL DEF Spec, InOrder
-----------------------------------------------------------------------------
(* EventBus implements EventFeed *)

\* The cursor as EventFeed sees it.
Upto == [s \in Subscribers |-> IF pc[s] = "polling" THEN cursor[s] ELSE -1]

LEMMA PollLooks ==
  ASSUME IInv, NEW s \in Subscribers, Poll(s)
  PROVE  Feed!Look(s)
<1>1. UserOf[s] \in Users /\ cursor[s] \in Nat
  BY ConstantsOK DEF ConstantsOK, IInv, TypeOK
<1>2. /\ pc[s] = "polling" /\ batch[s] = {} /\ seq = Len(log)
      /\ pc' = pc /\ log' = log /\ got' = got
      /\ cursor' = [cursor EXCEPT ![s] = seq]
      /\ batch' = [batch EXCEPT ![s] = Since(UserOf[s], cursor[s])]
      /\ cursor \in [Subscribers -> Nat]
  BY DEF Poll, IInv, TypeOK, RingIsWindow
<1>3. Upto[s] = cursor[s] /\ cursor[s] # -1
  BY <1>1, <1>2 DEF Upto
<1>4. Since(UserOf[s], cursor[s]) =
        {n \in 1..Len(log) : /\ Upto[s] < n /\ Len(log) - MaxLen < n
                             /\ log[n] = UserOf[s]}
  BY <1>1, <1>3, SinceIsWindow DEF IInv
<1>5. Upto' = [Upto EXCEPT ![s] = Len(log)]
  BY <1>2 DEF Upto
<1> QED
  BY <1>2, <1>3, <1>4, <1>5 DEF Feed!Look, Feed!Available, Feed!Away, Upto

LEMMA StepsMatch == IInv /\ [Next]_vars => [Feed!Next]_Feed!vars
<1> SUFFICES ASSUME IInv, [Next]_vars PROVE [Feed!Next]_Feed!vars
  OBVIOUS
<1>1. /\ cursor \in [Subscribers -> Nat] /\ seq = Len(log)
      /\ pc \in [Subscribers -> {"off", "opened", "polling"}]
      /\ \A s \in Subscribers : pc[s] # "polling" => batch[s] = {} /\ got[s] = {}
      /\ batch \in [Subscribers -> SUBSET Nat] /\ got \in [Subscribers -> SUBSET Nat]
  BY DEF IInv, TypeOK, RingIsWindow
<1>2. ASSUME NEW u \in Users, Publish(u) PROVE Feed!Publish(u)
  <2>1. Upto' = Upto
    BY <1>2 DEF Publish, Upto
  <2> QED
    BY <1>2, <2>1 DEF Publish, Upto, Feed!Publish
<1>3. ASSUME NEW s \in Subscribers, Open(s) PROVE UNCHANGED Feed!vars
  <2>1. Upto' = Upto
    BY <1>1, <1>3 DEF Open, Upto
  <2> QED
    BY <1>3, <2>1 DEF Open, Upto, Feed!vars
<1>4. ASSUME NEW s \in Subscribers, Subscribe(s) PROVE Feed!Join(s)
  <2>1. Upto[s] = -1 /\ Upto' = [Upto EXCEPT ![s] = Len(log)]
    BY <1>1, <1>4 DEF Subscribe, Upto
  <2> QED
    BY <1>4, <2>1 DEF Subscribe, Upto, Feed!Join, Feed!Away
<1>5. ASSUME NEW s \in Subscribers, Poll(s) PROVE Feed!Look(s)
  BY <1>5, PollLooks
<1>6. ASSUME NEW s \in Subscribers, Write(s) PROVE Feed!HandOver(s)
  <2>1. Upto' = Upto
    BY <1>6 DEF Write, Upto
  <2> QED
    BY <1>6, <2>1 DEF Write, Upto, Feed!HandOver
<1>7. ASSUME NEW s \in Subscribers, Disconnect(s) PROVE Feed!Leave(s)
  <2>1. Upto' = [Upto EXCEPT ![s] = -1]
    BY <1>1, <1>7 DEF Disconnect, Upto
  <2> QED
    BY <1>7, <2>1 DEF Disconnect, Upto, Feed!Leave, Feed!Away
<1>8. ASSUME UNCHANGED vars PROVE UNCHANGED Feed!vars
  <2>1. Upto' = Upto
    BY <1>8 DEF vars, Upto
  <2> QED
    BY <1>8, <2>1 DEF vars, Upto, Feed!vars
<1> QED
  BY <1>2, <1>3, <1>4, <1>5, <1>6, <1>7, <1>8 DEF Next, Stream, Feed!Next

(***************************************************************************)
(* Every behaviour of the bus and its streams is one of the abstract feed: *)
(* initial states match and each step is a feed step or a stutter.         *)
(***************************************************************************)
THEOREM FeedRefined == Spec => FeedSafety
<1>1. Init => Feed!Init
  BY DEF Init, Feed!Init, Feed!Away
<1>2. Spec => [][Feed!Next]_Feed!vars
  BY StepsMatch, Invariance, PTL DEF Spec
<1> QED
  BY <1>1, <1>2, PTL DEF Spec, FeedSafety

-----------------------------------------------------------------------------
(* The feed on the screen *)

FeedRequest == [kind : {"idle", "list", "read", "level"}, source : Sources \union {Nobody},
                filter : AllFilters, msg : Messages \union {Nobody}, level : Levels,
                served : BOOLEAN, answer : [Messages -> Card]]

\* These cards are of rows that are still there, as new or newer.
Below(cards, all) ==
  /\ cards \in [Messages -> Card]
  /\ \A m \in Messages : /\ cards[m].ver = 0 => cards[m] = NoCard
                         /\ cards[m].ver <= all[m].ver

RightEvent(e, all) ==
  e \in StreamEvent /\ e.msg \in Messages /\ 0 < e.card.ver /\ e.card.ver <= all[e.msg].ver

RightWire(w, all) == /\ w \in Seq(StreamEvent) /\ Len(w) <= MaxWire
                     /\ \A i \in 1..Len(w) : RightEvent(w[i], all)

\* A request about one message is answered with its card, one to read it with a card read.
RightRequest(q, all) ==
  /\ q \in FeedRequest /\ Below(q.answer, all)
  /\ q.kind \in {"read", "level"} => /\ q.msg \in Messages
                                     /\ q.served => 0 < q.answer[q.msg].ver
  /\ q.kind = "read" /\ q.served => q.answer[q.msg].read

RightRequests(asked, all) == /\ asked = [r \in Requests |-> asked[r]]
                             /\ \A r \in Requests : RightRequest(asked[r], all)

\* Rows only become newer, and there are finitely many.
Grown(all, after) == /\ Below(after, after) /\ IsFiniteSet(Shown(after))
                     /\ \A m \in Messages : all[m].ver <= after[m].ver

FeedShapes ==
  /\ Grown(rows, rows) /\ online \in BOOLEAN /\ RightWire(wire, rows)
  /\ slot = NoEvent \/ RightEvent(slot, rows)
  /\ effects \subseteq {"load", "event"}
  /\ view \in [source : Sources \union {Nobody}, filter : AllFilters, asked : AllFilters]
  /\ Below(screen, rows) /\ opened \in Messages \union {Nobody}
  /\ counts \in [total : Nat, unread : Nat]
  /\ RightRequests(flight, rows)
  /\ taken \in [Messages -> Nat] /\ \A m \in Messages : taken[m] <= rows[m].ver

\* While the counts follow the list, a read mark is asked for once, and for a message
\* that is listed as unread.
ReadsCount(cards, asked) ==
  \A r \in Requests : asked[r].kind = "read" =>
    /\ cards[asked[r].msg] # NoCard /\ ~cards[asked[r].msg].read
    /\ \A q \in Requests : asked[q].kind = "read" /\ asked[q].msg = asked[r].msg => q = r

FeedInv == FeedShapes /\ CountsAgree /\ (~uneven => ReadsCount(screen, flight))

LEMMA FeedNumbers == MaxVersion \in Nat /\ MaxWire \in Nat /\ MaxTurns \in Nat
BY FeedOK DEF FeedOK

LEMMA FeedConstants ==
  /\ NoCard \in Card /\ NoCard.ver = 0 /\ NoCard.read = FALSE
  /\ \A all : all \in [Messages -> Card] => Below(Nothing, all)
  /\ Nothing \in [Messages -> Card] /\ Shown(Nothing) = {} /\ Unread(Nothing) = {}
  /\ NoEvent \in StreamEvent
  /\ Idle \in FeedRequest /\ Idle.kind = "idle" /\ Idle.answer = Nothing
<1>1. NoCard \in Card /\ NoCard.ver = 0 /\ NoCard.read = FALSE
  BY FeedNumbers DEF NoCard, Card, Levels
<1>2. Nothing \in [Messages -> Card] /\ \A m \in Messages : Nothing[m] = NoCard
  BY <1>1 DEF Nothing
<1>3. \A all : all \in [Messages -> Card] => Below(Nothing, all)
  BY <1>1, <1>2 DEF Below, Card
<1>4. Shown(Nothing) = {} /\ Unread(Nothing) = {}
  BY <1>2 DEF Shown, Unread
<1>5. NoEvent \in StreamEvent
  BY <1>1 DEF NoEvent, StreamEvent
<1>6. Idle \in FeedRequest /\ Idle.kind = "idle" /\ Idle.answer = Nothing
  BY <1>2 DEF Idle, FeedRequest, AllFilters, Levels
<1> QED
  BY <1>1, <1>2, <1>3, <1>4, <1>5, <1>6

LEMMA GrownKeeps ==
  ASSUME NEW all \in [Messages -> Card], NEW after, Grown(all, after)
  PROVE  /\ \A cards : Below(cards, all) => Below(cards, after)
         /\ \A e : RightEvent(e, all) => RightEvent(e, after)
         /\ \A q : RightRequest(q, all) => RightRequest(q, after)
         /\ \A w : RightWire(w, all) => RightWire(w, after)
<1>1. /\ \A m \in Messages : all[m].ver <= after[m].ver
      /\ \A m \in Messages : all[m].ver \in Nat /\ after[m].ver \in Nat
  BY FeedNumbers DEF Grown, Below, Card
<1>2. \A cards : Below(cards, all) => Below(cards, after)
  BY <1>1, FeedNumbers DEF Below, Card
<1>3. \A e : RightEvent(e, all) => RightEvent(e, after)
  BY <1>1, FeedNumbers DEF RightEvent, StreamEvent, Card
<1>4. \A q : RightRequest(q, all) => RightRequest(q, after)
  BY <1>2 DEF RightRequest
<1>5. \A w : RightWire(w, all) => RightWire(w, after)
  BY <1>3 DEF RightWire
<1> QED
  BY <1>2, <1>3, <1>4, <1>5

LEMMA OneMoreShown ==
  ASSUME NEW cards, NEW m \in Messages, NEW card, NEW after,
         \A n \in Messages : n # m => after[n] = cards[n], IsFiniteSet(Shown(cards))
  PROVE  IsFiniteSet(Shown(after))
<1>1. Shown(after) \subseteq Shown(cards) \union {m}
  BY DEF Shown
<1>2. IsFiniteSet(Shown(cards) \union {m})
  BY FS_AddElement
<1> QED
  BY <1>1, <1>2, FS_Subset

LEMMA RowChanges ==
  ASSUME NEW all, Grown(all, all), NEW m \in Messages, NEW card \in Card, all[m].ver < card.ver,
         NEW after, after = [all EXCEPT ![m] = card]
  PROVE  Grown(all, after) /\ Below(after, after)
<1>1. /\ all \in [Messages -> Card] /\ after \in [Messages -> Card]
      /\ after[m] = card /\ \A n \in Messages : n # m => after[n] = all[n]
      /\ card.ver \in Nat /\ \A n \in Messages : all[n].ver \in Nat
  BY FeedNumbers DEF Grown, Below, Card
<1>2. \A n \in Messages : all[n].ver <= after[n].ver
  BY <1>1
<1>3. Below(after, after)
  BY <1>1 DEF Below, Grown
<1>4. IsFiniteSet(Shown(after))
  BY <1>1, OneMoreShown DEF Grown
<1> QED
  BY <1>2, <1>3, <1>4 DEF Grown

\* A set of numbers has a least one.
LEMMA Lowest ==
  ASSUME NEW T, T \subseteq Nat, T # {}
  PROVE  \E x \in T : \A y \in T : x <= y
<1> DEFINE R == OpToRel(<, Nat)
<1>1. IsWellFoundedOn(R, Nat)
  BY NatLessThanWellFounded
<1>2. \A x, y \in Nat : y < x => <<y, x>> \in R
  BY Zenon DEF OpToRel
<1> HIDE DEF R
<1>3. PICK x \in T : \A y \in T : ~(<<y, x>> \in R)
  BY <1>1, WFMin
<1>4. \A y \in T : ~(y < x) /\ x \in Nat /\ y \in Nat
  BY <1>2, <1>3
<1>5. \A y \in T : x <= y
  BY <1>4
<1> QED
  BY <1>5

\* The version a change gets is newer than every row.
LEMMA NewerIsNewer ==
  ASSUME rows \in [Messages -> Card], NEW c \in Card
  PROVE  /\ Newer(c).level = c.level /\ Newer(c).read = c.read /\ 0 < Newer(c).ver
         /\ \A m \in Messages : rows[m].ver < Newer(c).ver
         /\ Newer(c).ver <= MaxVersion => Newer(c) \in Card
<1> DEFINE bounds == {v \in 0..MaxVersion : \A m \in Messages : rows[m].ver <= v}
           Last(v) == /\ \A m \in Messages : rows[m].ver <= v
                      /\ v = 0 \/ \E m \in Messages : rows[m].ver = v
<1>1. \A m \in Messages : rows[m].ver \in 0..MaxVersion
  BY DEF Card
<1>2. \E v \in 0..MaxVersion : Last(v)
  <2>1. MaxVersion \in bounds /\ bounds \subseteq Nat
    BY <1>1, FeedNumbers
  <2>2. PICK v \in bounds : \A w \in bounds : v <= w
    BY <2>1, Lowest
  <2>3. v = 0 \/ \E m \in Messages : rows[m].ver = v
    <3>1. SUFFICES ASSUME v # 0, \A m \in Messages : rows[m].ver # v PROVE FALSE
      OBVIOUS
    <3>2. v - 1 \in bounds
      BY <1>1, <3>1, FeedNumbers
    <3> QED
      BY <2>2, <3>2, FeedNumbers
  <2> QED
    BY <2>3
<1> DEFINE k == CHOOSE v \in 0..MaxVersion : Last(v)
<1>3. k \in 0..MaxVersion /\ Last(k)
  BY <1>2
<1>4. Newer(c) = [c EXCEPT !.ver = 1 + k]
  BY DEF Newer
<1>5. k \in Nat /\ \A m \in Messages : rows[m].ver <= k
  BY <1>3, FeedNumbers
<1> HIDE DEF k
<1> QED
  BY <1>1, <1>4, <1>5, FeedNumbers DEF Card

LEMMA EmptyWire == \A all : RightWire(<<>>, all)
BY FeedNumbers DEF RightWire

\* The row is saved, and the event says what was saved.
LEMMA Announcing ==
  ASSUME FeedShapes, NEW name \in {"created", "analyzed"}, NEW m \in Messages,
         NEW card, card.ver <= MaxVersion => card \in Card, rows[m].ver < card.ver,
         Announce(name, m, card)
  PROVE  /\ Grown(rows, rows') /\ RightWire(wire', rows') /\ online' \in BOOLEAN
         /\ rows' = [rows EXCEPT ![m] = card] /\ card \in Card
<1> DEFINE e == [name |-> name, msg |-> m, card |-> card]
<1>1. /\ card \in Card /\ rows' = [rows EXCEPT ![m] = card] /\ Len(wire) < MaxWire
      /\ wire' = IF online THEN Append(wire, e) ELSE wire
      /\ online' = online
  BY DEF Announce
<1>2. Grown(rows, rows') /\ rows \in [Messages -> Card]
  <2>1. Grown(rows, rows')
    BY <1>1, RowChanges DEF FeedShapes
  <2> QED
    BY <2>1 DEF FeedShapes, Grown, Below
<1>3. e \in StreamEvent /\ e.msg = m /\ e.card = card
  BY <1>1 DEF StreamEvent
<1>4. RightEvent(e, rows')
  BY <1>1, <1>2, <1>3, FeedNumbers DEF RightEvent, Card
<1> HIDE DEF e
<1>5. RightWire(wire, rows')
  BY <1>2, GrownKeeps DEF FeedShapes
<1>6. RightWire(Append(wire, e), rows')
  <2>1. /\ Append(wire, e) \in Seq(StreamEvent) /\ Len(Append(wire, e)) = Len(wire) + 1
        /\ \A i \in 1..Len(wire) : Append(wire, e)[i] = wire[i]
        /\ Append(wire, e)[Len(wire) + 1] = e
    BY <1>3, <1>5 DEF RightWire
  <2>2. Len(wire) \in Nat /\ Len(wire) + 1 <= MaxWire
    BY <1>1, <1>5, FeedNumbers DEF RightWire
  <2>3. ASSUME NEW i \in 1..(Len(wire) + 1) PROVE RightEvent(Append(wire, e)[i], rows')
    <3>1. i \in 1..Len(wire) \/ i = Len(wire) + 1
      BY <2>2
    <3> QED
      BY <1>4, <1>5, <2>1, <3>1 DEF RightWire
  <2> QED
    BY <2>1, <2>2, <2>3 DEF RightWire
<1> QED
  BY <1>1, <1>2, <1>5, <1>6 DEF FeedShapes

\* A step of the server or of the stream: the browser keeps what it has, and the requests
\* are still for the same.
LEMMA ServerMoves ==
  ASSUME FeedInv, Grown(rows, rows'), RightWire(wire', rows'), online' \in BOOLEAN,
         RightRequests(flight', rows'),
         \A r \in Requests : flight'[r].kind = flight[r].kind /\ flight'[r].msg = flight[r].msg,
         UNCHANGED <<browser, taken, uneven>>
  PROVE  FeedInv'
<1>1. /\ \A cards : Below(cards, rows) => Below(cards, rows')
      /\ \A e : RightEvent(e, rows) => RightEvent(e, rows')
      /\ rows \in [Messages -> Card] /\ rows' \in [Messages -> Card]
  BY GrownKeeps DEF FeedInv, FeedShapes, Grown, Below
<1>2. Grown(rows', rows')
  BY <1>1, FeedNumbers DEF Grown, Card
<1>3. /\ taken' \in [Messages -> Nat]
      /\ \A m \in Messages : taken'[m] <= rows'[m].ver
  BY <1>1, FeedNumbers DEF FeedInv, FeedShapes, Grown, Card
<1>4. FeedShapes'
  BY <1>1, <1>2, <1>3 DEF FeedInv, FeedShapes, browser
<1>5. CountsAgree'
  BY DEF FeedInv, CountsAgree, browser, Shown, Unread
<1>6. ~uneven' => ReadsCount(screen', flight')
  BY DEF FeedInv, ReadsCount, browser
<1> QED
  BY <1>4, <1>5, <1>6 DEF FeedInv

\* The handler answers one request.
LEMMA Answering ==
  ASSUME FeedInv, Grown(rows, rows'), NEW r \in Requests, NEW cards, Answer(r, cards),
         Below(cards, rows'),
         flight[r].kind \in {"read", "level"} => 0 < cards[flight[r].msg].ver,
         flight[r].kind = "read" => cards[flight[r].msg].read
  PROVE  /\ RightRequests(flight', rows')
         /\ \A q \in Requests : flight'[q].kind = flight[q].kind /\ flight'[q].msg = flight[q].msg
<1> DEFINE f == [flight[r] EXCEPT !.served = TRUE, !.answer = cards]
<1>1. RightRequests(flight, rows')
  BY GrownKeeps DEF FeedInv, FeedShapes, RightRequests, Grown, Below
<1>2. flight' = [flight EXCEPT ![r] = f] /\ flight[r] \in FeedRequest
  BY <1>1 DEF Answer, RightRequests, RightRequest
<1>3. f \in FeedRequest /\ f.kind = flight[r].kind /\ f.msg = flight[r].msg
      /\ f.served = TRUE /\ f.answer = cards
  BY <1>2 DEF FeedRequest, Below
<1> HIDE DEF f
<1>4. RightRequest(f, rows')
  BY <1>1, <1>3 DEF RightRequest, RightRequests
<1>5. flight'[r] = f /\ \A q \in Requests : q # r => flight'[q] = flight[q]
  BY <1>1, <1>2 DEF RightRequests
<1>6. flight' = [q \in Requests |-> flight'[q]]
  <2>1. flight = [q \in Requests |-> flight[q]]
    BY <1>1 DEF RightRequests
  <2> QED
    BY <1>2, <2>1
<1> QED
  BY <1>1, <1>3, <1>4, <1>5, <1>6 DEF RightRequests

LEMMA ServerSteps == ASSUME FeedInv, Server PROVE FeedInv'
<1>0. /\ FeedShapes /\ rows \in [Messages -> Card] /\ Grown(rows, rows)
      /\ \A m \in Messages : rows[m].ver \in Nat
      /\ RightRequests(flight, rows) /\ RightWire(wire, rows) /\ online \in BOOLEAN
  BY FeedNumbers DEF FeedInv, FeedShapes, Grown, Below, Card
<1>1. ASSUME NEW m \in Messages, Arrive(m) PROVE FeedInv'
  <2>1. rows[m].ver < Newer(NoCard).ver
        /\ (Newer(NoCard).ver <= MaxVersion => Newer(NoCard) \in Card)
    BY <1>0, NewerIsNewer, FeedConstants
  <2>2. Announce("created", m, Newer(NoCard)) /\ UNCHANGED <<browser, flight, taken, uneven>>
    BY <1>1 DEF Arrive
  <2>3. Grown(rows, rows') /\ RightWire(wire', rows') /\ online' \in BOOLEAN
    BY <1>0, <2>1, <2>2, Announcing
  <2>4. RightRequests(flight', rows')
    BY <1>0, <2>2, <2>3, GrownKeeps DEF RightRequests
  <2> QED
    BY <2>2, <2>3, <2>4, ServerMoves
<1>2. ASSUME NEW m \in Messages, NEW l \in Levels, Assess(m, l) PROVE FeedInv'
  <2>1. PICK read \in {rows[m].read, FALSE} :
           Announce("analyzed", m, [Newer(rows[m]) EXCEPT !.level = l, !.read = read])
    BY <1>2 DEF Assess
  <2> DEFINE n == Newer(rows[m])
             card == [n EXCEPT !.level = l, !.read = read]
  <2>2. rows[m].ver < n.ver /\ (n.ver <= MaxVersion => n \in Card)
    BY <1>0, NewerIsNewer
  <2>3. n = [rows[m] EXCEPT !.ver = n.ver] /\ read \in BOOLEAN
    <3>1. read \in BOOLEAN
      BY <1>0 DEF Card
    <3> QED
      BY <1>0, <3>1 DEF Newer, Card
  <2> HIDE DEF n
  <2>4. card.ver = n.ver /\ (n.ver <= MaxVersion => card \in Card)
    BY <1>0, <2>2, <2>3 DEF Card
  <2>5. Announce("analyzed", m, card) /\ UNCHANGED <<browser, flight, taken, uneven>>
    BY <1>2, <2>1 DEF Assess, n
  <2> HIDE DEF card
  <2>6. Grown(rows, rows') /\ RightWire(wire', rows') /\ online' \in BOOLEAN
    BY <1>0, <2>2, <2>4, <2>5, Announcing
  <2>7. RightRequests(flight', rows')
    BY <1>0, <2>5, <2>6, GrownKeeps DEF RightRequests
  <2> QED
    BY <2>5, <2>6, <2>7, ServerMoves
<1>3. ASSUME NEW m \in Messages, ReadElsewhere(m) PROVE FeedInv'
  <2> DEFINE n == Newer(rows[m])
             card == [n EXCEPT !.read = TRUE]
  <2>1. rows[m].ver < n.ver /\ (n.ver <= MaxVersion => n \in Card)
    BY <1>0, NewerIsNewer
  <2>2. n = [rows[m] EXCEPT !.ver = n.ver]
    BY <1>0 DEF Newer, Card
  <2>3. /\ card.ver <= MaxVersion /\ rows' = [rows EXCEPT ![m] = card]
        /\ UNCHANGED <<online, wire, browser, flight, taken, uneven>>
    BY <1>3 DEF ReadElsewhere
  <2> HIDE DEF n
  <2>4. card.ver = n.ver /\ card \in Card
    BY <1>0, <2>1, <2>2, <2>3 DEF Card
  <2> HIDE DEF card
  <2>5. Grown(rows, rows')
    BY <1>0, <2>1, <2>3, <2>4, RowChanges
  <2>6. RightRequests(flight', rows') /\ RightWire(wire', rows')
    BY <1>0, <2>3, <2>5, GrownKeeps DEF RightRequests
  <2> QED
    BY <1>0, <2>3, <2>5, <2>6, ServerMoves
<1>4. ASSUME NEW r \in Requests, ServeList(r) PROVE FeedInv'
  <2> DEFINE cards == [m \in Messages |-> IF SourceOf[m] = flight[r].source
                                          THEN rows[m] ELSE NoCard]
  <2>1. /\ flight[r].kind = "list" /\ Answer(r, cards)
        /\ UNCHANGED <<rows, online, wire, browser, taken, uneven>>
    BY <1>4 DEF ServeList, Sent, server, history
  <2>2. Below(cards, rows')
    BY <1>0, <2>1, FeedConstants DEF Below, Grown
  <2> HIDE DEF cards
  <2>3. /\ RightRequests(flight', rows')
        /\ \A q \in Requests : flight'[q].kind = flight[q].kind /\ flight'[q].msg = flight[q].msg
    BY <1>0, <2>1, <2>2, Answering
  <2> QED
    BY <1>0, <2>1, <2>3, ServerMoves
<1>5. ASSUME NEW m \in Messages, NEW card \in Card, 0 < card.ver, card.ver <= rows'[m].ver,
             Grown(rows, rows')
      PROVE  Below(Only(m, card), rows') /\ Only(m, card)[m] = card
  <2>1. /\ Only(m, card) \in [Messages -> Card] /\ Only(m, card)[m] = card
        /\ \A n \in Messages : n # m => Only(m, card)[n] = NoCard
    BY <1>5, FeedConstants DEF Only, Nothing
  <2>2. \A n \in Messages : 0 <= rows'[n].ver
    BY <1>5, FeedNumbers DEF Grown, Below, Card
  <2> QED
    BY <1>5, <2>1, <2>2, FeedConstants, FeedNumbers DEF Below, Card
<1>6. ASSUME NEW r \in Requests, ServeRead(r) PROVE FeedInv'
  <2> DEFINE m == flight[r].msg
             n == Newer(rows[m])
             card == IF rows[m].read THEN rows[m] ELSE [n EXCEPT !.read = TRUE]
  <2>1. /\ flight[r].kind = "read" /\ card.ver <= MaxVersion
        /\ rows' = [rows EXCEPT ![m] = card] /\ Answer(r, Only(m, card))
        /\ UNCHANGED <<online, wire, browser, taken, uneven>>
    BY <1>6 DEF ServeRead, Sent, history
  <2>2. m \in Messages
    BY <1>0, <2>1 DEF RightRequests, RightRequest
  <2> HIDE DEF m
  <2>3. rows[m].ver < n.ver /\ (n.ver <= MaxVersion => n \in Card)
    BY <1>0, <2>2, NewerIsNewer
  <2>4. n = [rows[m] EXCEPT !.ver = n.ver] /\ rows[m] \in Card
    BY <1>0, <2>2 DEF Newer, Card
  <2> HIDE DEF n
  <2>5. card \in Card /\ card.read = TRUE /\ 0 < card.ver /\ Grown(rows, rows')
        /\ rows' \in [Messages -> Card] /\ rows'[m] = card
    <3>1. CASE rows[m].read
      <4>1. card = rows[m] /\ rows' = rows
        BY <1>0, <2>1, <2>2, <3>1
      <4>2. rows[m].ver # 0
        BY <1>0, <2>2, <3>1, FeedConstants DEF Grown, Below
      <4> QED
        BY <1>0, <2>2, <2>4, <3>1, <4>1, <4>2 DEF Card
    <3>2. CASE ~rows[m].read
      <4> DEFINE c == [n EXCEPT !.read = TRUE]
      <4>1. card = c /\ c.ver <= MaxVersion
        BY <2>1, <3>2
      <4>2. c \in Card /\ c.read = TRUE /\ c.ver = n.ver /\ 0 < c.ver
        <5>1. c.ver = n.ver /\ c.read = TRUE
          BY <2>4 DEF Card
        <5>2. n \in Card
          BY <2>3, <4>1, <5>1
        <5>3. c \in Card
          BY <5>2 DEF Card
        <5>4. n.ver \in Nat /\ rows[m].ver \in Nat
          BY <1>0, <2>2, <5>2, FeedNumbers DEF Card
        <5> QED
          BY <2>3, <5>1, <5>3, <5>4
      <4> HIDE DEF c
      <4>3. Grown(rows, rows')
        BY <1>0, <2>1, <2>2, <2>3, <4>1, <4>2, RowChanges
      <4> QED
        BY <1>0, <2>1, <2>2, <4>1, <4>2, <4>3
    <3> QED
      BY <3>1, <3>2
  <2> HIDE DEF card
  <2>6. Below(Only(m, card), rows') /\ Only(m, card)[m] = card
    BY <1>5, <2>2, <2>5, FeedNumbers DEF Card
  <2>7. /\ RightRequests(flight', rows')
        /\ \A q \in Requests : flight'[q].kind = flight[q].kind /\ flight'[q].msg = flight[q].msg
    BY <2>1, <2>5, <2>6, Answering DEF m
  <2>8. RightWire(wire', rows')
    BY <1>0, <2>1, <2>5, GrownKeeps
  <2> QED
    BY <1>0, <2>1, <2>5, <2>7, <2>8, ServerMoves
<1>7. ASSUME NEW r \in Requests, ServeLevel(r) PROVE FeedInv'
  <2> DEFINE m == flight[r].msg
             n == Newer(rows[m])
             card == [n EXCEPT !.level = flight[r].level]
  <2>1. /\ flight[r].kind = "level" /\ Announce("analyzed", m, card)
        /\ Answer(r, Only(m, card)) /\ UNCHANGED <<browser, taken, uneven>>
    BY <1>7 DEF ServeLevel, Sent
  <2>2. m \in Messages /\ flight[r].level \in Levels
    BY <1>0, <2>1 DEF RightRequests, RightRequest, FeedRequest
  <2> HIDE DEF m
  <2>3. rows[m].ver < n.ver /\ (n.ver <= MaxVersion => n \in Card)
    BY <1>0, <2>2, NewerIsNewer
  <2>4. n = [rows[m] EXCEPT !.ver = n.ver] /\ rows[m] \in Card
    BY <1>0, <2>2 DEF Newer, Card
  <2> HIDE DEF n
  <2>5. card.ver = n.ver /\ (n.ver <= MaxVersion => card \in Card)
    BY <2>2, <2>3, <2>4 DEF Card
  <2> HIDE DEF card
  <2>6. /\ Grown(rows, rows') /\ RightWire(wire', rows') /\ online' \in BOOLEAN
        /\ rows' = [rows EXCEPT ![m] = card] /\ card \in Card
    BY <1>0, <2>1, <2>2, <2>3, <2>5, Announcing
  <2>7. 0 < card.ver /\ card.ver <= rows'[m].ver
    BY <1>0, <2>2, <2>3, <2>5, <2>6, FeedNumbers DEF Card
  <2>8. Below(Only(m, card), rows') /\ Only(m, card)[m] = card
    BY <1>5, <2>2, <2>6, <2>7
  <2>9. /\ RightRequests(flight', rows')
        /\ \A q \in Requests : flight'[q].kind = flight[q].kind /\ flight'[q].msg = flight[q].msg
    BY <2>1, <2>6, <2>7, <2>8, Answering DEF m
  <2> QED
    BY <1>0, <2>1, <2>6, <2>9, ServerMoves
<1> QED
  BY <1>1, <1>2, <1>3, <1>4, <1>6, <1>7 DEF Server

\* What becomes of the counts when one card changes.
MoreUnread(cards, m, card) == IF card.read THEN IF m \in Unread(cards) THEN -1 ELSE 0
                              ELSE IF m \in Unread(cards) THEN 0 ELSE 1

LEMMA OneCardCounts ==
  ASSUME NEW all, Grown(all, all), NEW cards, Below(cards, all), NEW m \in Messages,
         NEW card \in Card, 0 < card.ver, card.ver <= all[m].ver,
         NEW after \in [Messages -> Card], after[m] = card,
         \A n \in Messages : n # m => after[n] = cards[n]
  PROVE  /\ Below(after, all) /\ IsFiniteSet(Unread(cards)) /\ IsFiniteSet(Shown(cards))
         /\ card # NoCard
         /\ cards[m] # NoCard => Shown(after) = Shown(cards)
         /\ cards[m] = NoCard =>
              Cardinality(Shown(after)) = Cardinality(Shown(cards)) + 1
         /\ Cardinality(Unread(after)) =
              Cardinality(Unread(cards)) + MoreUnread(cards, m, card)
<1>1. cards \in [Messages -> Card] /\ after \in [Messages -> Card]
  BY DEF Below
<1>2. after[m] = card /\ card # NoCard /\ \A n \in Messages : n # m => after[n] = cards[n]
  BY <1>1, FeedConstants
<1>3. Below(after, all)
  BY <1>1, <1>2 DEF Below
<1>4. IsFiniteSet(Shown(cards)) /\ IsFiniteSet(Unread(cards))
  <2>1. Shown(cards) \subseteq Shown(all)
    <3>1. ASSUME NEW n \in Messages, cards[n] # NoCard PROVE all[n] # NoCard
      <4>1. cards[n].ver # 0 /\ cards[n].ver \in Nat /\ cards[n].ver <= all[n].ver
        BY <3>1, FeedNumbers DEF Below, Card
      <4> QED
        BY <4>1, FeedConstants
    <3> QED
      BY <3>1 DEF Shown
  <2>2. Unread(cards) \subseteq Shown(cards)
    BY DEF Unread
  <2>3. IsFiniteSet(Shown(cards))
    BY <2>1, FS_Subset DEF Grown
  <2> QED
    BY <2>2, <2>3, FS_Subset
<1>5. cards[m] # NoCard => Shown(after) = Shown(cards)
  BY <1>2 DEF Shown
<1>6. ASSUME cards[m] = NoCard
      PROVE  Cardinality(Shown(after)) = Cardinality(Shown(cards)) + 1
  <2>1. Shown(after) = Shown(cards) \union {m} /\ m \notin Shown(cards)
    BY <1>2, <1>6 DEF Shown
  <2> QED
    BY <1>4, <2>1, FS_AddElement
<1>7. CASE card.read
  <2>1. Unread(after) = Unread(cards) \ {m}
    BY <1>2, <1>7 DEF Shown, Unread
  <2>2. Cardinality(Unread(cards)) \in Nat
    BY <1>4, FS_CardinalityType
  <2>3. Cardinality(Unread(after)) = IF m \in Unread(cards) THEN Cardinality(Unread(cards)) - 1
                                     ELSE Cardinality(Unread(cards))
    BY <1>4, <2>1, FS_RemoveElement
  <2> QED
    BY <1>2, <1>3, <1>4, <1>5, <1>6, <1>7, <2>2, <2>3 DEF MoreUnread
<1>8. CASE ~card.read
  <2>1. Unread(after) = Unread(cards) \union {m}
    BY <1>2, <1>8 DEF Shown, Unread
  <2>2. Cardinality(Unread(cards)) \in Nat
    BY <1>4, FS_CardinalityType
  <2>3. Cardinality(Unread(after)) = IF m \in Unread(cards) THEN Cardinality(Unread(cards))
                                     ELSE Cardinality(Unread(cards)) + 1
    BY <1>4, <2>1, FS_AddElement
  <2> QED
    BY <1>2, <1>3, <1>4, <1>5, <1>6, <1>8, <2>2, <2>3 DEF MoreUnread
<1> QED
  BY <1>7, <1>8

\* A card takes the place of the list's, and both stay no newer than the rows.
LEMMA Replacing ==
  ASSUME FeedShapes, NEW m \in Messages, NEW card \in Card, 0 < card.ver,
         card.ver <= rows[m].ver, Replace(m, card)
  PROVE  /\ screen' = IF screen[m] = NoCard THEN screen ELSE [screen EXCEPT ![m] = card]
         /\ Below(screen', rows)
         /\ taken' \in [Messages -> Nat] /\ \A n \in Messages : taken'[n] <= rows[n].ver
<1>1. screen' = IF screen[m] = NoCard THEN screen ELSE [screen EXCEPT ![m] = card]
  BY DEF Replace
<1>2. taken' \in {taken, [taken EXCEPT ![m] = card.ver]}
  BY DEF Replace, TakeIn
<1>3. card.ver \in Nat
  BY FeedNumbers DEF Card
<1>4. Below(screen', rows)
  <2>1. Below(screen, rows) /\ Grown(rows, rows)
    BY DEF FeedShapes
  <2>2. screen[m] # NoCard => /\ screen' \in [Messages -> Card] /\ screen'[m] = card
                             /\ \A n \in Messages : n # m => screen'[n] = screen[n]
    BY <1>1, <2>1 DEF Below
  <2> QED
    BY <1>1, <2>1, <2>2, OneCardCounts
<1>5. taken' \in [Messages -> Nat] /\ \A n \in Messages : taken'[n] <= rows[n].ver
  BY <1>2, <1>3 DEF FeedShapes
<1> QED
  BY <1>1, <1>4, <1>5

\* n requests leave.
LEMMA Asking ==
  ASSUME FeedShapes, NEW n \in Nat, NEW q, RightRequest(q, rows), Asks(n, q)
  PROVE  /\ RightRequests(flight', rows)
         /\ \A r \in Requests : flight'[r] = flight[r] \/ (flight[r] = Idle /\ flight'[r] = q)
         /\ n = 0 => flight' = flight
         /\ n = 1 => \E x \in Requests : flight'[x] = q
                       /\ \A r \in Requests : r # x => flight'[r] = flight[r]
<1>1. PICK free \in SUBSET {r \in Requests : flight[r] = Idle} :
        /\ Cardinality(free) = n
        /\ flight' = [r \in Requests |-> IF r \in free THEN q ELSE flight[r]]
  BY DEF Asks
<1>2. IsFiniteSet(free)
  <2>1. free \in SUBSET Requests /\ IsFiniteSet(Requests)
    BY FeedOK DEF FeedOK
  <2> QED
    BY <2>1, FS_Subset
<1>3. \A r \in Requests : flight'[r] = flight[r] \/ (flight[r] = Idle /\ flight'[r] = q)
  BY <1>1
<1>4. RightRequests(flight', rows)
  BY <1>1, <1>3 DEF FeedShapes, RightRequests
<1>5. n = 0 => flight' = flight
  <2>1. n = 0 => free = {}
    BY <1>1, <1>2, FS_EmptySet
  <2> QED
    BY <1>1, <2>1 DEF FeedShapes, RightRequests
<1>6. n = 1 => \E x \in Requests : flight'[x] = q
                 /\ \A r \in Requests : r # x => flight'[r] = flight[r]
  <2>1. n = 1 => \E x : free = {x}
    BY <1>1, <1>2, FS_Singleton
  <2> QED
    BY <1>1, <2>1
<1> QED
  BY <1>3, <1>4, <1>5, <1>6

\* The stream breaks, comes back, and hands over its events.
LEMMA DropSteps == ASSUME FeedInv, Drop PROVE FeedInv'
<1>1. FeedShapes /\ Grown(rows, rows) /\ RightRequests(flight, rows)
  BY DEF FeedInv, FeedShapes
<1>2. /\ online' = FALSE /\ wire' = <<>> /\ UNCHANGED <<rows, browser, flight, taken, uneven>>
  BY DEF Drop
<1>3. Grown(rows, rows') /\ RightRequests(flight', rows') /\ RightWire(wire', rows')
  BY <1>1, <1>2, EmptyWire
<1> QED
  BY <1>2, <1>3, ServerMoves

LEMMA ReconnectSteps == ASSUME FeedInv, Reconnect PROVE FeedInv'
<1>1. Grown(rows, rows) /\ RightRequests(flight, rows) /\ RightWire(wire, rows)
  BY DEF FeedInv, FeedShapes
<1>2. online' = TRUE /\ UNCHANGED <<rows, wire, browser, flight, taken, uneven>>
  BY DEF Reconnect, history
<1>3. Grown(rows, rows') /\ RightRequests(flight', rows') /\ RightWire(wire', rows')
  BY <1>1, <1>2
<1> QED
  BY <1>2, <1>3, ServerMoves

LEMMA DeliverSteps == ASSUME FeedInv, Deliver PROVE FeedInv'
<1>1. /\ wire # <<>> /\ slot' = Head(wire) /\ wire' = Tail(wire)
      /\ effects' = effects \union {"event"}
      /\ UNCHANGED <<rows, online, view, screen, counts, opened, flight, taken, uneven>>
  BY DEF Deliver
<1>2. wire \in Seq(StreamEvent) /\ Len(wire) <= MaxWire
      /\ \A i \in 1..Len(wire) : RightEvent(wire[i], rows)
  BY DEF FeedInv, FeedShapes, RightWire
<1>3. Len(wire) \in Nat /\ Len(wire) >= 1 /\ Head(wire) = wire[1]
  BY <1>1, <1>2
<1>4. RightEvent(slot', rows)
  BY <1>1, <1>2, <1>3
<1>5. RightWire(wire', rows)
  <2>1. /\ Tail(wire) \in Seq(StreamEvent) /\ Len(Tail(wire)) = Len(wire) - 1
        /\ \A i \in 1..(Len(wire) - 1) : Tail(wire)[i] = wire[i + 1]
    BY <1>1, <1>2
  <2>2. \A i \in 1..(Len(wire) - 1) : i + 1 \in 1..Len(wire)
    BY <1>3
  <2> QED
    BY <1>1, <1>2, <1>3, <2>1, <2>2, FeedNumbers DEF RightWire
<1>6. FeedShapes'
  BY <1>1, <1>4, <1>5 DEF FeedInv, FeedShapes
<1> QED
  BY <1>1, <1>6 DEF FeedInv, CountsAgree, Shown, Unread, ReadsCount

\* The screen turns to something else; the list and the requests stay.
LEMMA Turning ==
  ASSUME FeedInv, NEW v \in [source : Sources \union {Nobody}, filter : AllFilters,
                             asked : AllFilters], Turn(v)
  PROVE  FeedInv'
<1>1. /\ view' = v /\ effects' \subseteq {"load", "event"}
      /\ UNCHANGED <<rows, online, wire, slot, screen, counts, opened, flight, taken, uneven>>
  BY DEF Turn, server, history, FeedInv, FeedShapes
<1>2. FeedShapes'
  BY <1>1 DEF FeedInv, FeedShapes
<1> QED
  BY <1>1, <1>2 DEF FeedInv, CountsAgree, Shown, Unread, ReadsCount

LEMMA TurnSteps ==
  ASSUME FeedInv,
         \/ \E s \in Sources : OpenSource(s)
         \/ \E f \in Filters : Choose(f)
         \/ Back \/ Reset \/ Type \/ Debounce
  PROVE  FeedInv'
<1> DEFINE Views == [source : Sources \union {Nobody}, filter : AllFilters, asked : AllFilters]
<1>1. view \in Views /\ Filters \subseteq AllFilters
  BY FeedOK DEF FeedInv, FeedShapes, FeedOK
<1>2. "all" \in AllFilters /\ "search" \in AllFilters
  BY DEF AllFilters
<1>3. ASSUME NEW s \in Sources, OpenSource(s) PROVE \E v \in Views : Turn(v)
  BY <1>1, <1>3 DEF OpenSource
<1>4. ASSUME NEW f \in Filters, Choose(f) PROVE \E v \in Views : Turn(v)
  <2>1. [view EXCEPT !.filter = f, !.asked = f] \in Views
    BY <1>1
  <2> QED
    BY <1>4, <2>1 DEF Choose
<1>5. ASSUME Back PROVE \E v \in Views : Turn(v)
  BY <1>2, <1>5 DEF Back
<1>6. ASSUME Reset PROVE \E v \in Views : Turn(v)
  BY <1>1, <1>2, <1>6 DEF Reset
<1>7. ASSUME Type PROVE \E v \in Views : Turn(v)
  <2> DEFINE f == IF view.filter = "all" THEN "search" ELSE "all"
  <2>1. Turn([view EXCEPT !.filter = f])
    BY <1>7 DEF Type
  <2>2. f \in AllFilters
    BY <1>2
  <2> HIDE DEF f
  <2> QED
    BY <1>1, <2>1, <2>2
<1>8. ASSUME Debounce PROVE \E v \in Views : Turn(v)
  BY <1>1, <1>8 DEF Debounce
<1>9. \E v \in Views : Turn(v)
  BY <1>3, <1>4, <1>5, <1>6, <1>7, <1>8
<1> QED
  BY <1>9, Turning

\* A request that was asked for nothing yet.
LEMMA FreshRequest ==
  ASSUME FeedShapes, NEW q \in FeedRequest, q.answer = Idle.answer, q.served = Idle.served,
         q.kind \in {"read", "level"} => q.msg \in Messages
  PROVE  RightRequest(q, rows)
<1>1. Idle.answer = Nothing /\ Idle.served = FALSE
  BY DEF Idle
<1>2. Below(Nothing, rows)
  BY FeedConstants DEF FeedShapes, Grown, Below
<1> QED
  BY <1>1, <1>2 DEF RightRequest

LEMMA ClickSteps == ASSUME FeedInv, NEW m \in Messages, Click(m) PROVE FeedInv'
<1> DEFINE g == Idle
           q == [g EXCEPT !.kind = "read", !.msg = m]
<1>1. /\ screen[m] # NoCard /\ opened' = m
      /\ Asks(IF screen[m].read THEN 0 ELSE 1, q)
      /\ uneven' = (uneven \/ (~screen[m].read /\ Reading(m) # {}))
      /\ UNCHANGED <<rows, online, wire, slot, effects, view, screen, counts, taken>>
  BY DEF Click, server
<1>2. g \in FeedRequest /\ g.kind = "idle"
  BY FeedConstants
<1>3. q \in FeedRequest /\ q.kind = "read" /\ q.msg = m /\ q.answer = g.answer
      /\ q.served = g.served
  <2> HIDE DEF g
  <2> QED
    BY <1>2 DEF FeedRequest
<1>4. RightRequest(q, rows)
  BY <1>3, FreshRequest DEF FeedInv, g
<1> HIDE DEF q, g
<1>5. /\ RightRequests(flight', rows)
      /\ screen[m].read => flight' = flight
      /\ ~screen[m].read => \E x \in Requests :
           flight'[x] = q /\ \A r \in Requests : r # x => flight'[r] = flight[r]
  <2>1. CASE screen[m].read
    BY <1>1, <1>4, <2>1, Asking DEF FeedInv
  <2>2. CASE ~screen[m].read
    BY <1>1, <1>4, <2>2, Asking DEF FeedInv
  <2> QED
    BY <2>1, <2>2
<1>6. FeedShapes'
  BY <1>1, <1>5 DEF FeedInv, FeedShapes
<1>7. CountsAgree'
  BY <1>1 DEF FeedInv, CountsAgree, Shown, Unread
<1>8. ASSUME ~uneven' PROVE ReadsCount(screen', flight')
  <2>1. ~uneven /\ ReadsCount(screen, flight)
        /\ (screen[m].read \/ \A r \in Requests : ~(flight[r].kind = "read" /\ flight[r].msg = m))
    BY <1>1, <1>8 DEF FeedInv, Reading
  <2> QED
    BY <1>1, <1>3, <1>5, <2>1 DEF ReadsCount
<1> QED
  BY <1>6, <1>7, <1>8 DEF FeedInv

LEMMA DetailSteps ==
  ASSUME FeedInv, CloseDetails \/ \E l \in Levels : ChangeLevel(l)
  PROVE  FeedInv'
<1>1. CASE CloseDetails
  <2>1. opened' = Nobody
        /\ UNCHANGED <<rows, online, wire, slot, effects, view, screen, counts, flight,
                       taken, uneven>>
    BY <1>1 DEF CloseDetails, server, history
  <2> QED
    BY <2>1 DEF FeedInv, FeedShapes, CountsAgree, ReadsCount, Shown, Unread
<1>2. ASSUME NEW l \in Levels, ChangeLevel(l) PROVE FeedInv'
  <2> DEFINE g == Idle
             q == [g EXCEPT !.kind = "level", !.msg = opened, !.level = l]
  <2>1. /\ opened # Nobody /\ Asks(1, q)
        /\ UNCHANGED <<rows, online, wire, slot, effects, view, screen, counts, opened,
                       taken, uneven>>
    BY <1>2 DEF ChangeLevel, server, browser, history
  <2>2. g \in FeedRequest /\ opened \in Messages
    BY <2>1, FeedConstants DEF FeedInv, FeedShapes
  <2>3. q \in FeedRequest /\ q.kind = "level" /\ q.msg \in Messages /\ q.answer = g.answer
        /\ q.served = g.served
    <3> HIDE DEF g
    <3> QED
      BY <2>2 DEF FeedRequest
  <2>4. RightRequest(q, rows)
    BY <2>3, FreshRequest DEF FeedInv, g
  <2> HIDE DEF q, g
  <2>5. /\ RightRequests(flight', rows)
        /\ \A r \in Requests : flight'[r] = flight[r] \/ flight'[r].kind # "read"
    BY <2>1, <2>3, <2>4, Asking DEF FeedInv
  <2>6. FeedShapes'
    BY <2>1, <2>5 DEF FeedInv, FeedShapes
  <2>7. CountsAgree'
    BY <2>1 DEF FeedInv, CountsAgree, Shown, Unread
  <2>8. ReadsCount(screen, flight) => ReadsCount(screen', flight')
    BY <2>1, <2>5 DEF ReadsCount
  <2> QED
    BY <2>1, <2>6, <2>7, <2>8 DEF FeedInv
<1> QED
  BY <1>1, <1>2

\* What a card in the place of another does to the list and to its counts.
LEMMA ReplaceCounts ==
  ASSUME FeedInv, NEW m \in Messages, NEW card \in Card, 0 < card.ver, card.ver <= rows[m].ver,
         Replace(m, card), UNCHANGED counts, uneven' = (uneven \/ Turns(m, card))
  PROVE  /\ Below(screen', rows) /\ counts' \in [total : Nat, unread : Nat] /\ CountsAgree'
         /\ taken' \in [Messages -> Nat] /\ \A n \in Messages : taken'[n] <= rows[n].ver
         /\ ~uneven' => ReadsCount(screen', flight)
<1>1. card.ver \in Nat /\ card.read \in BOOLEAN
  BY FeedNumbers DEF Card
<1>2. /\ FeedShapes /\ Grown(rows, rows) /\ Below(screen, rows) /\ screen \in [Messages -> Card]
      /\ counts \in [total : Nat, unread : Nat]
      /\ counts.total = Cardinality(Shown(screen))
      /\ ~uneven => counts.unread = Cardinality(Unread(screen)) /\ ReadsCount(screen, flight)
      /\ RightRequests(flight, rows)
  BY DEF FeedInv, FeedShapes, CountsAgree, Below
<1>3. /\ screen' = IF screen[m] = NoCard THEN screen ELSE [screen EXCEPT ![m] = card]
      /\ Below(screen', rows)
      /\ taken' \in [Messages -> Nat] /\ \A n \in Messages : taken'[n] <= rows[n].ver
  BY <1>1, <1>2, Replacing
<1>4. CASE screen[m] = NoCard
  BY <1>2, <1>3, <1>4 DEF CountsAgree, Shown, Unread
<1>5. CASE screen[m] # NoCard
  <2>9. /\ screen' \in [Messages -> Card] /\ screen'[m] = card
        /\ \A n \in Messages : n # m => screen'[n] = screen[n]
    BY <1>2, <1>3, <1>5
  <2>1. /\ screen'[m] = card /\ card # NoCard
        /\ \A n \in Messages : n # m => screen'[n] = screen[n]
        /\ Shown(screen') = Shown(screen)
        /\ Cardinality(Unread(screen')) =
             Cardinality(Unread(screen)) + MoreUnread(screen, m, card)
        /\ IsFiniteSet(Unread(screen))
    BY <1>1, <1>2, <1>5, <2>9, OneCardCounts
  <2>2. Cardinality(Unread(screen)) \in Nat
    BY <2>1, FS_CardinalityType
  <2>3. ~uneven' => ~uneven /\ screen[m].read = card.read
    BY <1>5 DEF Turns
  <2>4. m \in Unread(screen) <=> ~screen[m].read
    BY <1>1, <1>5 DEF Unread, Shown
  <2>5. CountsAgree'
    BY <1>2, <2>1, <2>2, <2>3, <2>4 DEF CountsAgree, MoreUnread
  <2>6. ~uneven' => ReadsCount(screen', flight)
    <3>1. \A r \in Requests : flight[r].kind = "read" => flight[r].msg \in Messages
      BY <1>2 DEF RightRequests, RightRequest
    <3> QED
      BY <1>2, <2>1, <2>3, <3>1 DEF ReadsCount
  <2> QED
    BY <1>2, <1>3, <2>5, <2>6
<1> QED
  BY <1>4, <1>5

\* What a card that is new on the list does to the counts.
LEMMA InsertCounts ==
  ASSUME FeedInv, NEW m \in Messages, NEW card \in Card, 0 < card.ver, card.ver <= rows[m].ver,
         Insert(m, card), screen[m] = NoCard, uneven' = (uneven \/ Turns(m, card))
  PROVE  /\ Below(screen', rows) /\ counts' \in [total : Nat, unread : Nat] /\ CountsAgree'
         /\ taken' \in [Messages -> Nat] /\ \A n \in Messages : taken'[n] <= rows[n].ver
         /\ ~uneven' => ReadsCount(screen', flight)
<1>1. card.ver \in Nat /\ card.read \in BOOLEAN
  BY FeedNumbers DEF Card
<1>2. /\ FeedShapes /\ Grown(rows, rows) /\ Below(screen, rows) /\ screen \in [Messages -> Card]
      /\ counts \in [total : Nat, unread : Nat]
      /\ counts.total = Cardinality(Shown(screen))
      /\ ~uneven => counts.unread = Cardinality(Unread(screen)) /\ ReadsCount(screen, flight)
      /\ RightRequests(flight, rows)
  BY DEF FeedInv, FeedShapes, CountsAgree, Below
<1>3. /\ screen' = [screen EXCEPT ![m] = card]
      /\ counts' = [total |-> counts.total + 1,
                    unread |-> counts.unread + (IF card.read THEN 0 ELSE 1)]
      /\ taken' = [taken EXCEPT ![m] = card.ver]
  BY DEF Insert, TakeIn
<1>4. /\ Below(screen', rows) /\ screen'[m] = card
      /\ \A n \in Messages : n # m => screen'[n] = screen[n]
      /\ Cardinality(Shown(screen')) = Cardinality(Shown(screen)) + 1
      /\ Cardinality(Unread(screen')) =
           Cardinality(Unread(screen)) + MoreUnread(screen, m, card)
      /\ IsFiniteSet(Unread(screen))
  <2>1. /\ screen' \in [Messages -> Card] /\ screen'[m] = card
        /\ \A n \in Messages : n # m => screen'[n] = screen[n]
    BY <1>2, <1>3
  <2> QED
    BY <1>1, <1>2, <2>1, OneCardCounts
<1>5. Cardinality(Unread(screen)) \in Nat /\ m \notin Unread(screen)
  BY <1>4, FS_CardinalityType DEF Unread, Shown
<1>6. counts' \in [total : Nat, unread : Nat]
      /\ counts'.total = counts.total + 1
      /\ counts'.unread = counts.unread + (IF card.read THEN 0 ELSE 1)
  <2> DEFINE t == counts.total + 1
             u == counts.unread + (IF card.read THEN 0 ELSE 1)
  <2>1. t \in Nat /\ u \in Nat
    BY <1>2
  <2>2. counts' = [total |-> t, unread |-> u]
    BY <1>3
  <2> HIDE DEF t, u
  <2>3. counts' \in [total : Nat, unread : Nat] /\ counts'.total = t /\ counts'.unread = u
    BY <2>1, <2>2
  <2> QED
    BY <2>3 DEF t, u
<1>7. ~uneven' => ~uneven
  OBVIOUS
<1>8. CountsAgree'
  BY <1>2, <1>4, <1>5, <1>6, <1>7 DEF CountsAgree, MoreUnread
<1>9. ~uneven' => ReadsCount(screen', flight)
  <2>1. \A r \in Requests : flight[r].kind = "read" => flight[r].msg \in Messages
    BY <1>2 DEF RightRequests, RightRequest
  <2> QED
    BY <1>2, <1>4, <1>7, <2>1 DEF ReadsCount
<1>10. taken' \in [Messages -> Nat] /\ \A n \in Messages : taken'[n] <= rows[n].ver
  BY <1>1, <1>2, <1>3 DEF FeedShapes
<1> QED
  BY <1>4, <1>6, <1>8, <1>9, <1>10

LEMMA Applying ==
  ASSUME FeedInv, RightEvent(slot, rows), ApplyEvent
  PROVE  /\ Below(screen', rows) /\ counts' \in [total : Nat, unread : Nat] /\ CountsAgree'
         /\ taken' \in [Messages -> Nat] /\ \A n \in Messages : taken'[n] <= rows[n].ver
         /\ ~uneven' => ReadsCount(screen', flight)
<1>1. /\ slot.msg \in Messages /\ slot.card \in Card
      /\ 0 < slot.card.ver /\ slot.card.ver <= rows[slot.msg].ver
  BY DEF RightEvent, StreamEvent
<1>2. /\ IF slot.name = "created" THEN Insert(slot.msg, slot.card)
         ELSE Replace(slot.msg, slot.card) /\ UNCHANGED counts
      /\ uneven' = (uneven \/ Turns(slot.msg, slot.card))
  BY DEF ApplyEvent
<1>3. CASE Replace(slot.msg, slot.card) /\ UNCHANGED counts
  BY <1>1, <1>2, <1>3, ReplaceCounts
<1>4. CASE Insert(slot.msg, slot.card) /\ screen[slot.msg] = NoCard
  BY <1>1, <1>2, <1>4, InsertCounts
<1> QED
  BY <1>2, <1>3, <1>4 DEF Insert

LEMMA CommitSteps == ASSUME FeedInv, Commit PROVE FeedInv'
<1> DEFINE g == Idle
           q == [g EXCEPT !.kind = "list", !.source = view.source, !.filter = view.asked]
<1>1. /\ effects' = {} /\ Asks(Cardinality(Loads), q)
      /\ IF Concerned /\ ~Filtered THEN ApplyEvent ELSE UNCHANGED <<screen, counts, history>>
      /\ UNCHANGED <<rows, online, wire, slot, view, opened>>
  BY DEF Commit, server
<1>2. g \in FeedRequest
  BY FeedConstants
<1>3. q \in FeedRequest /\ q.kind = "list" /\ q.answer = g.answer /\ q.served = g.served
  <2> HIDE DEF g
  <2> QED
    BY <1>2 DEF FeedRequest, FeedInv, FeedShapes
<1>4. RightRequest(q, rows)
  BY <1>3, FreshRequest DEF FeedInv, g
<1> HIDE DEF q, g
<1>5. Cardinality(Loads) \in Nat
  <2>1. Loads \subseteq {"load"} \union {"event"}
    BY DEF Loads
  <2>2. IsFiniteSet({"load"} \union {"event"})
    BY FS_Singleton, FS_AddElement
  <2> QED
    BY <2>1, <2>2, FS_Subset, FS_CardinalityType
<1>6. /\ RightRequests(flight', rows)
      /\ \A r \in Requests : flight'[r] = flight[r] \/ flight'[r].kind # "read"
  BY <1>1, <1>3, <1>4, <1>5, Asking DEF FeedInv
<1>7. /\ Below(screen', rows) /\ counts' \in [total : Nat, unread : Nat] /\ CountsAgree'
      /\ taken' \in [Messages -> Nat] /\ \A n \in Messages : taken'[n] <= rows[n].ver
      /\ ~uneven' => ReadsCount(screen', flight)
  <2>1. CASE Concerned /\ ~Filtered
    <3>1. RightEvent(slot, rows)
      BY <2>1 DEF Concerned, FeedInv, FeedShapes
    <3> QED
      BY <1>1, <2>1, <3>1, Applying
  <2>2. CASE ~(Concerned /\ ~Filtered)
    BY <1>1, <2>2 DEF history, FeedInv, FeedShapes, CountsAgree, Shown, Unread
  <2> QED
    BY <2>1, <2>2
<1>8. ~uneven' => ReadsCount(screen', flight')
  BY <1>6, <1>7 DEF ReadsCount
<1>9. FeedShapes'
  BY <1>1, <1>6, <1>7 DEF FeedInv, FeedShapes
<1> QED
  BY <1>7, <1>8, <1>9 DEF FeedInv

LEMMA Finishing ==
  ASSUME FeedShapes, NEW r \in Requests, Done(r)
  PROVE  /\ RightRequests(flight', rows) /\ flight'[r].kind = "idle"
         /\ \A q \in Requests : q # r => flight'[q] = flight[q]
<1>1. flight = [q \in Requests |-> flight[q]] /\ \A q \in Requests : RightRequest(flight[q], rows)
  BY DEF FeedShapes, RightRequests
<1>2. flight' = [flight EXCEPT ![r] = Idle]
  BY DEF Done
<1>3. flight'[r] = Idle /\ \A q \in Requests : q # r => flight'[q] = flight[q]
  BY <1>1, <1>2
<1>4. RightRequest(Idle, rows) /\ Idle.kind = "idle"
  BY FreshRequest, FeedConstants
<1>5. flight' = [q \in Requests |-> flight'[q]]
  BY <1>1, <1>2
<1> QED
  BY <1>1, <1>3, <1>4, <1>5 DEF RightRequests

LEMMA ReceiveListSteps == ASSUME FeedInv, NEW r \in Requests, ReceiveList(r) PROVE FeedInv'
<1> DEFINE cards == flight[r].answer
           list == Selection(cards, flight[r].source, flight[r].filter)
           total == Cardinality(Shown(list))
           unread == Cardinality(Unread(list))
<1>1. /\ flight[r].kind = "list" /\ screen' = list
      /\ counts' = [total |-> total, unread |-> unread]
      /\ taken' = [m \in Messages |-> cards[m].ver]
      /\ uneven' = AnyRead /\ Done(r)
      /\ UNCHANGED <<rows, online, wire, slot, effects, view, opened>>
  BY DEF ReceiveList, Ready, TakeIn, server
<1>2. FeedShapes /\ Below(cards, rows) /\ Grown(rows, rows)
  BY DEF FeedInv, FeedShapes, RightRequests, RightRequest
<1>3. \A m \in Messages : list[m] = cards[m] \/ list[m] = NoCard
  BY DEF Selection
<1>4. list \in [Messages -> Card]
  BY <1>2, FeedConstants DEF Selection, Below
<1>5. taken' \in [Messages -> Nat] /\ \A m \in Messages : taken'[m] <= rows[m].ver
  BY <1>1, <1>2, FeedNumbers DEF Below, Card
<1> HIDE DEF list
<1>6. Below(list, rows)
  BY <1>2, <1>3, <1>4, FeedConstants, FeedNumbers DEF Below, Card, Grown
<1>7. total \in Nat /\ unread \in Nat
  <2>1. Shown(list) \subseteq Shown(rows)
    <3>1. ASSUME NEW n \in Messages, list[n] # NoCard PROVE rows[n] # NoCard
      <4>1. list[n].ver # 0 /\ list[n].ver \in Nat /\ list[n].ver <= rows[n].ver
        BY <1>6, <3>1, FeedNumbers DEF Below, Card
      <4> QED
        BY <4>1, FeedConstants
    <3> QED
      BY <3>1 DEF Shown
  <2>2. Unread(list) \subseteq Shown(list)
    BY DEF Unread
  <2>3. IsFiniteSet(Shown(list)) /\ IsFiniteSet(Unread(list))
    BY <1>2, <2>1, <2>2, FS_Subset DEF Grown
  <2> QED
    BY <2>3, FS_CardinalityType
<1>8. counts' \in [total : Nat, unread : Nat] /\ CountsAgree'
  <2> HIDE DEF total, unread
  <2>1. counts' \in [total : Nat, unread : Nat] /\ counts'.total = total
        /\ counts'.unread = unread
    BY <1>1, <1>7
  <2> QED
    BY <1>1, <2>1 DEF CountsAgree, total, unread
<1>9. /\ RightRequests(flight', rows) /\ flight'[r].kind = "idle"
      /\ \A q \in Requests : q # r => flight'[q] = flight[q]
  BY <1>1, <1>2, Finishing
<1>10. ~uneven' => ReadsCount(screen', flight')
  BY <1>1, <1>9 DEF AnyRead, ReadsCount
<1>11. FeedShapes'
  BY <1>1, <1>2, <1>5, <1>6, <1>8, <1>9 DEF FeedShapes
<1> QED
  BY <1>8, <1>10, <1>11 DEF FeedInv

\* The answer about one message, when it has come.
LEMMA OneAnswer ==
  ASSUME FeedShapes, NEW r \in Requests, flight[r].kind \in {"read", "level"}, flight[r].served
  PROVE  LET m == flight[r].msg
             card == flight[r].answer[m]
         IN /\ m \in Messages /\ card \in Card /\ 0 < card.ver /\ card.ver <= rows[m].ver
            /\ flight[r].kind = "read" => card.read
BY DEF FeedShapes, RightRequests, RightRequest, Below

LEMMA ReceiveLevelSteps == ASSUME FeedInv, NEW r \in Requests, ReceiveLevel(r) PROVE FeedInv'
<1> DEFINE m == flight[r].msg
           card == flight[r].answer[m]
<1>1. /\ flight[r].kind = "level" /\ flight[r].served /\ Replace(m, card)
      /\ uneven' = (uneven \/ Turns(m, card)) /\ opened' = m /\ Done(r)
      /\ UNCHANGED <<rows, online, wire, slot, effects, view, counts>>
  BY DEF ReceiveLevel, Ready, server
<1>2. m \in Messages /\ card \in Card /\ 0 < card.ver /\ card.ver <= rows[m].ver
  BY <1>1, OneAnswer DEF FeedInv
<1>3. /\ RightRequests(flight', rows) /\ flight'[r].kind = "idle"
      /\ \A q \in Requests : q # r => flight'[q] = flight[q]
  BY <1>1, Finishing DEF FeedInv
<1> HIDE DEF m, card
<1>4. /\ Below(screen', rows) /\ counts' \in [total : Nat, unread : Nat] /\ CountsAgree'
      /\ taken' \in [Messages -> Nat] /\ \A n \in Messages : taken'[n] <= rows[n].ver
      /\ ~uneven' => ReadsCount(screen', flight)
  BY <1>1, <1>2, ReplaceCounts
<1>5. ~uneven' => ReadsCount(screen', flight')
  BY <1>3, <1>4 DEF ReadsCount
<1>6. FeedShapes'
  BY <1>1, <1>2, <1>3, <1>4 DEF FeedInv, FeedShapes
<1> QED
  BY <1>4, <1>5, <1>6 DEF FeedInv

LEMMA ReceiveReadSteps == ASSUME FeedInv, NEW r \in Requests, ReceiveRead(r) PROVE FeedInv'
<1> DEFINE m == flight[r].msg
           card == flight[r].answer[m]
           less == OneLess(counts.unread)
<1>1. /\ flight[r].kind = "read" /\ flight[r].served /\ Replace(m, card)
      /\ counts' = [counts EXCEPT !.unread = less]
      /\ opened' = m /\ Done(r)
      /\ UNCHANGED <<rows, online, wire, slot, effects, view, uneven>>
  BY DEF ReceiveRead, Ready, server
<1>2. /\ m \in Messages /\ card \in Card /\ 0 < card.ver /\ card.ver <= rows[m].ver
      /\ card.read
  BY <1>1, OneAnswer DEF FeedInv
<1>3. /\ RightRequests(flight', rows) /\ flight'[r].kind = "idle"
      /\ \A q \in Requests : q # r => flight'[q] = flight[q]
  BY <1>1, Finishing DEF FeedInv
<1>4. less \in Nat /\ (counts.unread > 0 => less = counts.unread - 1)
  BY DEF OneLess, Greater, FeedInv, FeedShapes
<1>5. ~uneven => screen[m] # NoCard /\ ~screen[m].read
                 /\ \A q \in Requests : flight[q].kind = "read" /\ flight[q].msg = m => q = r
  BY <1>1 DEF FeedInv, ReadsCount
<1>6. \A q \in Requests : flight[q].kind = "read" => flight[q].msg \in Messages
  BY DEF FeedInv, FeedShapes, RightRequests, RightRequest
<1> HIDE DEF m, card, less
<1>7. /\ screen' = IF screen[m] = NoCard THEN screen ELSE [screen EXCEPT ![m] = card]
      /\ Below(screen', rows)
      /\ taken' \in [Messages -> Nat] /\ \A n \in Messages : taken'[n] <= rows[n].ver
  BY <1>1, <1>2, Replacing DEF FeedInv
<1>8. counts' \in [total : Nat, unread : Nat] /\ counts'.total = counts.total
      /\ counts'.unread = less /\ counts \in [total : Nat, unread : Nat]
  BY <1>1, <1>4 DEF FeedInv, FeedShapes
<1>9. FeedShapes'
  BY <1>1, <1>2, <1>3, <1>7, <1>8 DEF FeedInv, FeedShapes
<1>10. CASE screen[m] = NoCard
  BY <1>1, <1>5, <1>7, <1>8, <1>9, <1>10 DEF FeedInv, CountsAgree, Shown
<1>11. CASE screen[m] # NoCard
  <2>1. Below(screen, rows) /\ screen \in [Messages -> Card] /\ Grown(rows, rows)
    BY DEF FeedInv, FeedShapes, Below
  <2>2. /\ screen' \in [Messages -> Card] /\ screen'[m] = card
        /\ \A n \in Messages : n # m => screen'[n] = screen[n]
    BY <1>2, <1>7, <1>11, <2>1
  <2>3. /\ Shown(screen') = Shown(screen) /\ IsFiniteSet(Unread(screen))
        /\ Cardinality(Unread(screen')) =
             Cardinality(Unread(screen)) + MoreUnread(screen, m, card)
        /\ card # NoCard
    BY <1>2, <1>11, <2>1, <2>2, OneCardCounts
  <2>4. Cardinality(Unread(screen)) \in Nat
        /\ (Cardinality(Unread(screen)) = 0 => Unread(screen) = {})
    BY <2>3, FS_CardinalityType, FS_EmptySet
  <2>5. ~uneven => m \in Unread(screen) /\ counts.unread = Cardinality(Unread(screen))
    BY <1>2, <1>5, <1>11 DEF Unread, Shown, FeedInv, CountsAgree
  <2>6. ~uneven => Cardinality(Unread(screen)) > 0
    BY <2>4, <2>5
  <2>7. CountsAgree'
    BY <1>1, <1>2, <1>4, <1>8, <2>3, <2>4, <2>5, <2>6 DEF FeedInv, CountsAgree, MoreUnread
  <2>8. ~uneven' => ReadsCount(screen', flight')
    BY <1>1, <1>3, <1>5, <1>6, <2>2 DEF FeedInv, ReadsCount
  <2> QED
    BY <1>9, <2>7, <2>8 DEF FeedInv
<1> QED
  BY <1>10, <1>11

LEMMA FailSteps == ASSUME FeedInv, NEW r \in Requests, Fails(r) PROVE FeedInv'
<1>1. Done(r) /\ UNCHANGED <<rows, online, wire, slot, effects, view, screen, counts, opened,
                             taken, uneven>>
  BY DEF Fails, server, browser
<1>2. /\ RightRequests(flight', rows) /\ flight'[r].kind = "idle"
      /\ \A q \in Requests : q # r => flight'[q] = flight[q]
  BY <1>1, Finishing DEF FeedInv
<1>3. FeedShapes'
  BY <1>1, <1>2 DEF FeedInv, FeedShapes
<1>4. CountsAgree'
  BY <1>1 DEF FeedInv, CountsAgree, Shown, Unread
<1>5. ReadsCount(screen, flight) => ReadsCount(screen', flight')
  BY <1>1, <1>2 DEF ReadsCount
<1> QED
  BY <1>1, <1>3, <1>4, <1>5 DEF FeedInv

LEMMA FeedBegins == FeedInit => FeedInv
<1> SUFFICES ASSUME FeedInit PROVE FeedInv
  OBVIOUS
<1>1. /\ rows = Nothing /\ online = TRUE /\ wire = <<>> /\ slot = NoEvent /\ effects = {}
      /\ screen = Nothing /\ view = [source |-> Nobody, filter |-> "all", asked |-> "all"]
      /\ counts = [total |-> 0, unread |-> 0] /\ opened = Nobody
      /\ flight = [r \in Requests |-> Idle] /\ taken = [m \in Messages |-> 0]
  BY DEF FeedInit
<1>2. Below(Nothing, Nothing) /\ Nothing \in [Messages -> Card]
      /\ \A m \in Messages : Nothing[m].ver = 0
  BY FeedConstants DEF Nothing
<1>3. Cardinality({}) = 0 /\ IsFiniteSet({})
  BY FS_EmptySet
<1>4. Grown(rows, rows)
  BY <1>1, <1>2, <1>3, FeedConstants DEF Grown
<1>5. RightRequest(Idle, rows)
  BY <1>1, <1>2, FeedConstants DEF RightRequest, Idle
<1>6. FeedShapes
  <2>1. RightRequests(flight, rows) /\ RightWire(wire, rows)
    BY <1>1, <1>5, EmptyWire DEF RightRequests
  <2>2. taken \in [Messages -> Nat] /\ \A m \in Messages : taken[m] <= rows[m].ver
    BY <1>1, <1>2
  <2> QED
    BY <1>1, <1>2, <1>4, <2>1, <2>2 DEF FeedShapes, AllFilters
<1>7. CountsAgree
  BY <1>1, <1>3, FeedConstants DEF CountsAgree
<1>8. ReadsCount(screen, flight)
  BY <1>1, FeedConstants DEF ReadsCount
<1> QED
  BY <1>6, <1>7, <1>8 DEF FeedInv

LEMMA FeedStep == FeedInv /\ [FeedNext]_feedVars => FeedInv'
<1> SUFFICES ASSUME FeedInv, [FeedNext]_feedVars PROVE FeedInv'
  OBVIOUS
<1>1. CASE Server
  BY <1>1, ServerSteps
<1>2. CASE User
  <2>1. ASSUME NEW m \in Messages, Click(m) PROVE FeedInv'
    BY <2>1, ClickSteps
  <2> QED
    BY <1>2, <2>1, TurnSteps, DetailSteps DEF User
<1>3. CASE Browser
  BY <1>3, ReceiveListSteps, ReceiveReadSteps, ReceiveLevelSteps, ReconnectSteps, DeliverSteps,
     CommitSteps, TurnSteps DEF Browser
<1>4. CASE Failure
  BY <1>4, DropSteps, FailSteps DEF Failure
<1>5. CASE UNCHANGED feedVars
  <2>1. UNCHANGED <<rows, online, wire, slot, effects, view, screen, counts, opened, flight,
                    taken, uneven>>
    BY <1>5 DEF feedVars, server, browser, history
  <2>2. FeedShapes'
    BY <2>1 DEF FeedInv, FeedShapes
  <2> QED
    BY <2>1, <2>2 DEF FeedInv, CountsAgree, Shown, Unread, ReadsCount
<1> QED
  BY <1>1, <1>2, <1>3, <1>4, <1>5 DEF FeedNext

LEMMA FeedInvariance == FeedSpec => []FeedInv
BY FeedBegins, FeedStep, PTL DEF FeedSpec

(***************************************************************************)
(* The state of the feed's screen, its requests and the rows keep their    *)
(* shape, and no card is newer than its row (FeedScreen, useStream).       *)
(***************************************************************************)
THEOREM FeedTypes == FeedSpec => []FeedTypeOK
<1>1. ASSUME FeedInv PROVE FeedTypeOK
  <2>1. /\ Grown(rows, rows) /\ Below(screen, rows) /\ RightWire(wire, rows)
        /\ RightRequests(flight, rows) /\ FeedShapes
    BY <1>1 DEF FeedInv, FeedShapes
  <2>2. rows \in [Messages -> Card] /\ screen \in [Messages -> Card]
        /\ \A m \in Messages : screen[m].ver <= rows[m].ver
    BY <2>1 DEF Grown, Below
  <2>3. \A m \in Messages : taken[m] \in 0..rows[m].ver
    BY <2>1, <2>2, FeedNumbers DEF FeedShapes, Card
  <2>4. wire \in Seq(StreamEvent) /\ Len(wire) <= MaxWire /\ slot \in StreamEvent
    BY <2>1, FeedConstants DEF RightWire, FeedShapes, RightEvent
  <2>5. \A r \in Requests : flight[r] \in FeedRequest
    BY <2>1 DEF RightRequests, RightRequest
  <2> QED
    BY <2>1, <2>2, <2>3, <2>4, <2>5 DEF FeedShapes, FeedRequest, FeedTypeOK
<1> QED
  BY <1>1, FeedInvariance, PTL

(***************************************************************************)
(* The subtitle counts the messages listed and, unless something set them  *)
(* apart, the unread ones, for any messages, sources and requests.         *)
(***************************************************************************)
THEOREM CountsAreRight == FeedSpec => []CountsAgree
<1>1. FeedInv => CountsAgree
  BY DEF FeedInv
<1> QED
  BY <1>1, FeedInvariance, PTL

-----------------------------------------------------------------------------
(***************************************************************************)
(* What the list shows.  A change of a row is on its way to the list, or   *)
(* on record as missed or covered; only a read mark changes a row without  *)
(* an event, and it comes with the answer to its request.                  *)
(***************************************************************************)

\* The answers that came about m alone, the lists of its source, and the events of m.
Answers(m, asked) ==
  {asked[r].answer[m] : r \in {q \in Requests : /\ asked[q].kind \in {"read", "level"}
                                                /\ asked[q].served /\ asked[q].msg = m}}
Lists(m, asked) ==
  {asked[r].answer[m] : r \in {q \in Requests : /\ asked[q].kind = "list" /\ asked[q].served
                                                /\ asked[q].source = SourceOf[m]}}
Sending(m, w) == {w[i].card : i \in {j \in 1..Len(w) : w[j].msg = m}}
Held(m, e) == IF e.msg = m THEN {e.card} ELSE {}

\* A card of m that may come to be the list's.
Bases(m) ==
  Answers(m, flight) \union Lists(m, flight) \union Sending(m, wire) \union Held(m, slot)

\* A list of the source of m is asked for.
Unserved(m, asked) ==
  \E r \in Requests : /\ asked[r].kind = "list" /\ ~asked[r].served
                      /\ asked[r].source = SourceOf[m]

\* Something newer than b is on record or will reach the list.
Pending(m) == Sending(m, wire) \union Lists(m, flight)
                \union (IF "event" \in effects THEN Held(m, slot) ELSE {})
Out(m, b) == \/ "load" \in effects \/ Unserved(m, flight)
             \/ b < taken[m] \/ b < missed[m] \/ b < covered[m]
             \/ \E c \in Pending(m) : b < c.ver

\* Since c, only the read mark was set, and the answer that says so is still to come,
\* unless the filter hides it.
ReadSince(c, row, answers, high) ==
  /\ c # NoCard /\ row.level = c.level /\ row.read /\ c.ver < row.ver
  /\ \A a \in answers : a = row \/ a = c \/ a.ver < c.ver
  /\ row \in answers \/ (high /\ c.level = "NORMAL")

Fine(m, c) == \/ rows[m] = c \/ Out(m, c.ver)
              \/ ReadSince(c, rows[m], Answers(m, flight), view.asked = "high")

Quiet == /\ view.source # Nobody /\ loaded = [source |-> view.source, filter |-> view.asked]
         /\ "load" \notin effects /\ \A r \in Requests : flight[r].kind # "list"

ScreenFine(m) ==
  \/ Out(m, taken[m])
  \/ screen[m] = NoCard /\ ~Passes(m, rows[m], view.asked)
  \/ /\ screen[m] # NoCard /\ screen[m].ver = taken[m] /\ Fine(m, screen[m])
     /\ view.asked = "high" => screen[m].level = "HIGH"

Versions == /\ missed \in [Messages -> 0..MaxVersion] /\ covered \in [Messages -> Nat]
            /\ \A m \in Messages : \A c \in Bases(m) : c.ver = rows[m].ver => c = rows[m]
            /\ \A r \in Requests : flight[r].kind \in {"read", "level"} =>
                 0 < rows[flight[r].msg].ver
            /\ opened # Nobody => 0 < rows[opened].ver
            /\ view.asked = view.filter \/ {view.asked, view.filter} \subseteq {"all", "search"}

AllFine == \A m \in Messages :
             SourceOf[m] = view.source => \A c \in Bases(m) : Fine(m, c)

ListFine == Quiet => \A m \in Messages :
              /\ screen[m] # NoCard => /\ SourceOf[m] = view.source
                                       /\ view.asked = "search" => m \in Found
              /\ SourceOf[m] = view.source => ScreenFine(m)

ListInv == Versions /\ AllFine /\ ListFine

\* Requests that leave are not answered yet.
LEMMA LaterAsked ==
  ASSUME NEW asked, NEW later, NEW m,
         \A r \in Requests : \/ later[r] = asked[r]
                             \/ asked[r].kind = "idle" /\ later[r].served = FALSE
  PROVE  /\ Answers(m, later) = Answers(m, asked) /\ Lists(m, later) = Lists(m, asked)
         /\ Unserved(m, asked) => Unserved(m, later)
<1>2. Answers(m, later) = Answers(m, asked)
  BY DEF Answers
<1>3. Lists(m, later) = Lists(m, asked)
  BY DEF Lists
<1>4. Unserved(m, asked) => Unserved(m, later)
  BY DEF Unserved
<1> QED
  BY <1>2, <1>3, <1>4

\* One request is answered.
LEMMA OneServed ==
  ASSUME NEW asked, NEW later, NEW m, NEW r \in Requests, ~asked[r].served, later[r].served,
         later[r].kind = asked[r].kind, later[r].msg = asked[r].msg,
         later[r].source = asked[r].source,
         \A q \in Requests : q # r => later[q] = asked[q]
  PROVE  /\ Answers(m, later) = Answers(m, asked) \union
              (IF asked[r].kind \in {"read", "level"} /\ asked[r].msg = m
               THEN {later[r].answer[m]} ELSE {})
         /\ Lists(m, later) = Lists(m, asked) \union
              (IF asked[r].kind = "list" /\ asked[r].source = SourceOf[m]
               THEN {later[r].answer[m]} ELSE {})
         /\ Unserved(m, asked) => \/ Unserved(m, later)
                                  \/ asked[r].kind = "list" /\ asked[r].source = SourceOf[m]
<1>1. Answers(m, later) = Answers(m, asked) \union
        (IF asked[r].kind \in {"read", "level"} /\ asked[r].msg = m
         THEN {later[r].answer[m]} ELSE {})
  BY DEF Answers
<1>2. Lists(m, later) = Lists(m, asked) \union
        (IF asked[r].kind = "list" /\ asked[r].source = SourceOf[m]
         THEN {later[r].answer[m]} ELSE {})
  BY DEF Lists
<1>3. Unserved(m, asked) => \/ Unserved(m, later)
                            \/ asked[r].kind = "list" /\ asked[r].source = SourceOf[m]
  BY DEF Unserved
<1> QED
  BY <1>1, <1>2, <1>3

\* One request is over.
LEMMA OneDone ==
  ASSUME NEW asked, NEW later, NEW m, NEW r \in Requests, later[r].kind = "idle",
         \A q \in Requests : q # r => later[q] = asked[q]
  PROVE  /\ Answers(m, later) \subseteq Answers(m, asked)
         /\ Answers(m, asked) \subseteq Answers(m, later) \union
              (IF asked[r].kind \in {"read", "level"} /\ asked[r].msg = m
               THEN {asked[r].answer[m]} ELSE {})
         /\ Lists(m, later) \subseteq Lists(m, asked)
         /\ Lists(m, asked) \subseteq Lists(m, later) \union
              (IF asked[r].kind = "list" /\ asked[r].served /\ asked[r].source = SourceOf[m]
               THEN {asked[r].answer[m]} ELSE {})
         /\ Unserved(m, asked) => \/ Unserved(m, later)
                                  \/ asked[r].kind = "list" /\ ~asked[r].served
<1>1. Answers(m, later) \subseteq Answers(m, asked)
  BY DEF Answers
<1>2. Answers(m, asked) \subseteq Answers(m, later) \union
        (IF asked[r].kind \in {"read", "level"} /\ asked[r].msg = m
         THEN {asked[r].answer[m]} ELSE {})
  BY DEF Answers
<1>3. Lists(m, later) \subseteq Lists(m, asked)
  BY DEF Lists
<1>4. Lists(m, asked) \subseteq Lists(m, later) \union
        (IF asked[r].kind = "list" /\ asked[r].served /\ asked[r].source = SourceOf[m]
         THEN {asked[r].answer[m]} ELSE {})
  BY DEF Lists
<1>5. Unserved(m, asked) => \/ Unserved(m, later)
                            \/ asked[r].kind = "list" /\ ~asked[r].served
  BY DEF Unserved
<1> QED
  BY <1>1, <1>2, <1>3, <1>4, <1>5

LEMMA BasesAreBelow ==
  ASSUME FeedShapes, NEW m \in Messages, NEW c \in Bases(m)
  PROVE  c \in Card /\ c.ver \in Nat /\ c.ver <= rows[m].ver
<1>1. \A r \in Requests : Below(flight[r].answer, rows)
  BY DEF FeedShapes, RightRequests, RightRequest
<1>2. \A i \in 1..Len(wire) : RightEvent(wire[i], rows)
  BY DEF FeedShapes, RightWire
<1>3. slot = NoEvent \/ RightEvent(slot, rows)
  BY DEF FeedShapes
<1>4. m # Nobody /\ NoEvent.msg = Nobody
  BY FeedOK DEF FeedOK, NoEvent
<1>5. CASE c \in Answers(m, flight) \union Lists(m, flight)
  BY <1>1, <1>5, FeedNumbers DEF Answers, Lists, Below, Card
<1>6. CASE c \in Sending(m, wire)
  BY <1>2, <1>6, FeedNumbers DEF Sending, RightEvent, StreamEvent, Card
<1>7. CASE c \in Held(m, slot)
  BY <1>3, <1>4, <1>7, FeedNumbers DEF Held, RightEvent, StreamEvent, Card
<1> QED
  BY <1>5, <1>6, <1>7 DEF Bases

\* A bounded set of numbers has a greatest one.
LEMMA Highest ==
  ASSUME NEW T, T \subseteq 0..MaxVersion, T # {}
  PROVE  \E v \in T : \A w \in T : w <= v
<1> DEFINE U == {n \in Nat : \A w \in T : w <= n}
<1>1. MaxVersion \in U
  BY FeedNumbers
<1>2. PICK x \in U : \A y \in U : x <= y
  BY <1>1, Lowest
<1>3. ASSUME \A w \in T : w # x PROVE FALSE
  <2>1. PICK w \in T : TRUE
    OBVIOUS
  <2>2. x - 1 \in Nat /\ \A v \in T : v <= x - 1
    BY <1>2, <1>3, FeedNumbers
  <2> QED
    BY <1>2, <2>2
<1> QED
  BY <1>2, <1>3

\* What went past the list is recorded, and nothing is forgotten.
LEMMA PastIsHigher ==
  ASSUME missed \in [Messages -> 0..MaxVersion], NEW past,
         \A e \in past : e.msg \in Messages => e.card.ver \in 0..MaxVersion
  PROVE  /\ Past(past) \in [Messages -> 0..MaxVersion]
         /\ \A m \in Messages : /\ missed[m] <= Past(past)[m]
                                /\ \A e \in past : e.msg = m => e.card.ver <= Past(past)[m]
<1> DEFINE all(m) == {missed[m]} \union {e.card.ver : e \in {f \in past : f.msg = m}}
<1>1. ASSUME NEW m \in Messages
      PROVE  \E v \in 0..MaxVersion : v \in all(m) /\ \A w \in all(m) : w <= v
  <2>1. all(m) \subseteq 0..MaxVersion /\ all(m) # {}
    OBVIOUS
  <2> HIDE DEF all
  <2> QED
    BY <2>1, Highest
<1>2. \A m \in Messages :
        Past(past)[m] = CHOOSE v \in 0..MaxVersion : v \in all(m) /\ \A w \in all(m) : w <= v
  BY DEF Past
<1>3. Past(past) = [m \in Messages |-> Past(past)[m]]
  BY DEF Past
<1>4. ASSUME NEW m \in Messages
      PROVE  /\ Past(past)[m] \in 0..MaxVersion
             /\ \A w \in all(m) : w <= Past(past)[m]
  <2> HIDE DEF all
  <2> QED
    BY <1>1, <1>2
<1>5. Past(past) \in [Messages -> 0..MaxVersion]
  BY <1>3, <1>4
<1> QED
  BY <1>4, <1>5

\* What the list takes in, and what older data replaced.
LEMMA Taking ==
  ASSUME NEW vers \in [Messages -> Nat], TakeIn(vers), taken \in [Messages -> Nat],
         covered \in [Messages -> Nat]
  PROVE  /\ taken' = vers /\ covered' \in [Messages -> Nat]
         /\ \A m \in Messages : /\ covered[m] <= covered'[m]
                                /\ vers[m] < taken[m] => taken[m] <= covered'[m]
BY DEF TakeIn, Greater

\* A card stays as good as it was, as nothing on its way to the list is lost.
LEMMA FineStays ==
  ASSUME NEW m \in Messages, NEW c, Fine(m, c), rows'[m] = rows[m],
         view'.asked = view.asked, Out(m, c.ver) => Out(m, c.ver)',
         Answers(m, flight') \subseteq Answers(m, flight),
         \/ rows[m] \in Answers(m, flight) => rows[m] \in Answers(m, flight')
         \/ c.ver < rows[m].ver => Out(m, c.ver)'
         \/ view.asked = "high" /\ (c.level = rows[m].level => c.level = "NORMAL")
  PROVE  Fine(m, c)'
BY DEF Fine, ReadSince

\* So does what the list shows of a message.
LEMMA ScreenStays ==
  ASSUME NEW m \in Messages, ScreenFine(m), rows'[m] = rows[m], screen'[m] = screen[m],
         taken'[m] = taken[m], view'.asked = view.asked,
         Out(m, taken[m]) => Out(m, taken[m])',
         screen[m] # NoCard /\ Fine(m, screen[m]) => Fine(m, screen[m])'
  PROVE  ScreenFine(m)'
BY DEF ScreenFine

\* The filter stays: it is enough to look at each message of the source.
LEMMA StillListed ==
  ASSUME ListInv, Versions', view'.source = view.source, view'.asked = view.asked,
         Quiet' => Quiet /\ \A m \in Messages : screen'[m] # NoCard =>
                     screen[m] # NoCard \/ (SourceOf[m] = view.source /\ view.asked # "search"),
         \A m \in Messages : SourceOf[m] = view.source =>
           /\ \A c \in Bases(m)' : c = rows'[m] \/ (c \in Bases(m) /\ (Fine(m, c) => Fine(m, c)'))
           /\ Quiet' /\ ScreenFine(m) => ScreenFine(m)'
  PROVE  ListInv'
<1>1. ASSUME NEW m \in Messages, SourceOf[m] = view'.source, NEW c \in Bases(m)'
      PROVE  Fine(m, c)'
  <2>1. CASE c = rows'[m]
    BY <2>1 DEF Fine
  <2>2. CASE c \in Bases(m) /\ (Fine(m, c) => Fine(m, c)')
    BY <1>1, <2>2 DEF ListInv, AllFine
  <2> QED
    BY <1>1, <2>1, <2>2
<1>2. AllFine'
  BY <1>1 DEF AllFine
<1>3. ListFine'
  BY DEF ListInv, ListFine
<1> QED
  BY <1>2, <1>3 DEF ListInv

\* What is a number, and what is no newer than the row.
LEMMA ListNumbers ==
  ASSUME FeedInv, Versions, NEW m \in Messages
  PROVE  /\ rows[m] \in Card /\ rows[m].ver \in 0..MaxVersion /\ screen[m] \in Card
         /\ screen[m].ver \in Nat /\ taken[m] \in Nat /\ missed[m] \in Nat /\ covered[m] \in Nat
         /\ taken[m] <= rows[m].ver
         /\ \A c \in Bases(m) : /\ c \in Card /\ c.ver \in Nat /\ c.ver <= rows[m].ver
                                /\ c.ver = rows[m].ver => c = rows[m]
<1>1. FeedShapes
  BY DEF FeedInv
<1>2. \A c \in Bases(m) : c \in Card /\ c.ver \in Nat /\ c.ver <= rows[m].ver
  BY <1>1, BasesAreBelow
<1> QED
  BY <1>1, <1>2, FeedNumbers DEF FeedShapes, Grown, Below, Versions, Card

\* A row is changed, and the change is on the wire or on record as missed.
LEMMA Recorded ==
  ASSUME FeedInv, ListInv, NEW m \in Messages, NEW card \in Card, rows[m].ver < card.ver,
         rows' = [rows EXCEPT ![m] = card],
         missed' \in [Messages -> 0..MaxVersion],
         \A n \in Messages : /\ missed[n] <= missed'[n]
                             /\ Sending(n, wire) \subseteq Sending(n, wire')
                             /\ Answers(n, flight) \subseteq Answers(n, flight')
                             /\ Lists(n, flight') = Lists(n, flight)
                             /\ Unserved(n, flight) => Unserved(n, flight')
                             /\ n # m => /\ Sending(n, wire') = Sending(n, wire)
                                         /\ Answers(n, flight') = Answers(n, flight),
         Sending(m, wire') \subseteq Sending(m, wire) \union {card},
         Answers(m, flight') \subseteq Answers(m, flight) \union {card},
         card.ver <= missed'[m] \/ card \in Sending(m, wire'),
         \A r \in Requests : flight'[r].kind = flight[r].kind /\ flight'[r].msg = flight[r].msg,
         UNCHANGED <<slot, effects, view, screen, opened, taken, covered, loaded>>
  PROVE  ListInv'
<1>1. Versions /\ FeedShapes /\ rows \in [Messages -> Card]
  BY DEF ListInv, FeedInv, FeedShapes, Grown, Below
<1>2. /\ \A n \in Messages : rows[n].ver <= rows'[n].ver
      /\ rows'[m] = card /\ card.ver \in Nat /\ rows[m].ver \in Nat
  BY <1>1, ListNumbers, FeedNumbers DEF Card
<1>3. ASSUME NEW n \in Messages, NEW b \in Nat, Out(n, b) PROVE Out(n, b)'
  <2>1. missed[n] \in Nat /\ missed'[n] \in Nat /\ Pending(n) \subseteq Pending(n)'
    BY <1>1, ListNumbers DEF Pending
  <2> QED
    BY <1>3, <2>1 DEF Out
<1>4. ASSUME NEW b \in Nat, b < card.ver PROVE Out(m, b)'
  <2>1. missed'[m] \in Nat /\ (card \in Sending(m, wire') => card \in Pending(m)')
    BY DEF Pending
  <2> QED
    BY <1>2, <1>4, <2>1 DEF Out
<1>5. \A n \in Messages : \A c \in Bases(n)' : c \in Bases(n) \/ (n = m /\ c = card)
  BY DEF Bases
<1>6. Versions'
  <2>1. \A n \in Messages : \A c \in Bases(n)' : c.ver = rows'[n].ver => c = rows'[n]
    BY <1>1, <1>2, <1>5, ListNumbers
  <2>2. \A r \in Requests : flight'[r].kind \in {"read", "level"} => 0 < rows'[flight'[r].msg].ver
    <3>1. ASSUME NEW r \in Requests, flight[r].kind \in {"read", "level"}
          PROVE  0 < rows'[flight[r].msg].ver
      <4>1. flight[r].msg \in Messages /\ 0 < rows[flight[r].msg].ver
        BY <1>1, <3>1 DEF Versions, FeedShapes, RightRequests, RightRequest
      <4> QED
        BY <1>1, <1>2, <4>1, ListNumbers, FeedNumbers DEF Card
    <3> QED
      BY <3>1
  <2>3. opened # Nobody => 0 < rows'[opened].ver
    <3>1. opened \in Messages \union {Nobody} /\ (opened # Nobody => 0 < rows[opened].ver)
      BY <1>1 DEF Versions, FeedShapes
    <3> QED
      BY <1>1, <1>2, <3>1, ListNumbers, FeedNumbers DEF Card
  <2> QED
    BY <1>1, <2>1, <2>2, <2>3 DEF Versions
<1>7. ASSUME NEW n \in Messages, NEW c, c.ver \in Nat, c.ver <= rows[n].ver, Fine(n, c)
      PROVE  Fine(n, c)'
  <2>1. CASE n = m
    BY <1>2, <1>4, <1>7, <2>1 DEF Fine
  <2>2. CASE n # m
    BY <1>1, <1>3, <1>7, <2>2, FineStays
  <2> QED
    BY <2>1, <2>2
<1>8. ASSUME NEW n \in Messages, ScreenFine(n) PROVE ScreenFine(n)'
  <2>1. taken[n] \in Nat /\ taken[n] <= rows[n].ver /\ screen[n].ver \in Nat
        /\ screen[n].ver <= rows[n].ver
    BY <1>1, ListNumbers DEF FeedShapes, Below
  <2>2. CASE n = m
    BY <1>2, <1>4, <2>1, <2>2 DEF ScreenFine
  <2>3. CASE n # m
    BY <1>1, <1>3, <1>7, <1>8, <2>1, <2>3, ScreenStays
  <2> QED
    BY <2>2, <2>3
<1>9. Quiet' => Quiet
  BY DEF Quiet
<1>10. \A n \in Messages : SourceOf[n] = view.source =>
         /\ \A c \in Bases(n)' : c = rows'[n] \/ (c \in Bases(n) /\ (Fine(n, c) => Fine(n, c)'))
         /\ Quiet' /\ ScreenFine(n) => ScreenFine(n)'
  BY <1>1, <1>2, <1>5, <1>7, <1>8, ListNumbers
<1> QED
  BY <1>6, <1>9, <1>10, StillListed

\* The event on the wire, or on record as missed.
LEMMA AnnouncedOnRecord ==
  ASSUME FeedInv, Versions, NEW name \in {"created", "analyzed"}, NEW m \in Messages,
         NEW card \in Card, Announce(name, m, card)
  PROVE  /\ missed' \in [Messages -> 0..MaxVersion]
         /\ \A n \in Messages : /\ missed[n] <= missed'[n]
                                /\ Sending(n, wire) \subseteq Sending(n, wire')
                                /\ n # m => Sending(n, wire') = Sending(n, wire)
         /\ Sending(m, wire') \subseteq Sending(m, wire) \union {card}
         /\ card.ver <= missed'[m] \/ card \in Sending(m, wire')
<1> DEFINE e == [name |-> name, msg |-> m, card |-> card]
<1>1. /\ wire' = IF online THEN Append(wire, e) ELSE wire
      /\ missed' = IF online THEN missed ELSE Past({e})
      /\ missed \in [Messages -> 0..MaxVersion] /\ wire \in Seq(StreamEvent)
  BY DEF Announce, Versions, FeedInv, FeedShapes, RightWire
<1>2. e \in StreamEvent /\ e.msg = m /\ e.card = card /\ card.ver \in 0..MaxVersion
  BY DEF StreamEvent, Card
<1> HIDE DEF e
<1>3. CASE ~online
  <2>1. /\ Past({e}) \in [Messages -> 0..MaxVersion] /\ card.ver <= Past({e})[m]
        /\ \A n \in Messages : missed[n] <= Past({e})[n]
    BY <1>1, <1>2, PastIsHigher
  <2> QED
    BY <1>1, <1>3, <2>1
<1>4. CASE online
  <2>1. /\ Len(Append(wire, e)) = Len(wire) + 1 /\ Len(wire) \in Nat
        /\ \A i \in 1..Len(wire) : Append(wire, e)[i] = wire[i]
        /\ Append(wire, e)[Len(wire) + 1] = e
    BY <1>1, <1>2
  <2>2. 1..(Len(wire) + 1) = 1..Len(wire) \union {Len(wire) + 1}
    BY <2>1
  <2>3. \A n \in Messages : Sending(n, Append(wire, e)) =
                              Sending(n, wire) \union (IF n = m THEN {card} ELSE {})
    <3>1. ASSUME NEW n \in Messages, NEW c
          PROVE  c \in Sending(n, Append(wire, e)) <=>
                   c \in Sending(n, wire) \/ (n = m /\ c = card)
      BY <1>2, <2>1, <2>2 DEF Sending
    <3> QED
      BY <3>1
  <2>4. missed' = missed /\ wire' = Append(wire, e) /\ \A n \in Messages : missed[n] <= missed[n]
    BY <1>1, <1>4, FeedNumbers
  <2> QED
    BY <1>1, <2>3, <2>4
<1> QED
  BY <1>3, <1>4

\* The worker, another tab, and the arrival of a message.
LEMMA ArriveOnList == ASSUME FeedInv, ListInv, NEW m \in Messages, Arrive(m) PROVE ListInv'
<1> DEFINE card == Newer(NoCard)
<1>1. /\ Announce("created", m, card) /\ card.ver <= MaxVersion
      /\ rows' = [rows EXCEPT ![m] = card]
      /\ UNCHANGED <<slot, effects, view, screen, opened, flight, taken, covered, loaded>>
  BY DEF Arrive, Announce, browser
<1>2. rows[m].ver < card.ver /\ card \in Card
  BY <1>1, NewerIsNewer, FeedConstants DEF FeedInv, FeedShapes, Grown, Below
<1> HIDE DEF card
<1> QED
  BY <1>1, <1>2, AnnouncedOnRecord, Recorded DEF ListInv

LEMMA AssessOnList ==
  ASSUME FeedInv, ListInv, NEW m \in Messages, NEW l \in Levels, Assess(m, l)
  PROVE  ListInv'
<1>1. PICK read \in {rows[m].read, FALSE} :
         Announce("analyzed", m, [Newer(rows[m]) EXCEPT !.level = l, !.read = read])
  BY DEF Assess
<1> DEFINE n == Newer(rows[m])
           card == [n EXCEPT !.level = l, !.read = read]
<1>2. rows \in [Messages -> Card]
  BY DEF FeedInv, FeedShapes, Grown, Below
<1>3. rows[m].ver < n.ver /\ (n.ver <= MaxVersion => n \in Card)
  BY <1>2, NewerIsNewer
<1>4. n = [rows[m] EXCEPT !.ver = n.ver] /\ read \in BOOLEAN /\ rows[m] \in Card
  <2>1. read \in BOOLEAN
    BY <1>2 DEF Card
  <2> QED
    BY <1>2, <2>1 DEF Newer, Card
<1> HIDE DEF n
<1>5. card.ver = n.ver /\ (n.ver <= MaxVersion => card \in Card)
  BY <1>3, <1>4 DEF Card
<1>6. /\ Announce("analyzed", m, card) /\ card.ver <= MaxVersion
      /\ rows' = [rows EXCEPT ![m] = card]
      /\ UNCHANGED <<slot, effects, view, screen, opened, flight, taken, covered, loaded>>
  BY <1>1 DEF Assess, Announce, browser, n
<1> HIDE DEF card
<1>7. rows[m].ver < card.ver /\ card \in Card
  BY <1>3, <1>5, <1>6
<1> QED
  BY <1>6, <1>7, AnnouncedOnRecord, Recorded DEF ListInv

LEMMA ReadElsewhereOnList ==
  ASSUME FeedInv, ListInv, NEW m \in Messages, ReadElsewhere(m) PROVE ListInv'
<1> DEFINE n == Newer(rows[m])
           card == [n EXCEPT !.read = TRUE]
           e == [msg |-> m, card |-> card]
<1>1. rows \in [Messages -> Card] /\ missed \in [Messages -> 0..MaxVersion]
  BY DEF FeedInv, FeedShapes, Grown, Below, ListInv, Versions
<1>2. rows[m].ver < n.ver /\ (n.ver <= MaxVersion => n \in Card)
  BY <1>1, NewerIsNewer
<1>3. n = [rows[m] EXCEPT !.ver = n.ver] /\ rows[m] \in Card
  BY <1>1 DEF Newer, Card
<1>4. /\ card.ver <= MaxVersion /\ rows' = [rows EXCEPT ![m] = card] /\ missed' = Past({e})
      /\ UNCHANGED <<wire, slot, effects, view, screen, opened, flight, taken, covered, loaded>>
  BY DEF ReadElsewhere, browser
<1> HIDE DEF n
<1>5. card.ver = n.ver /\ card \in Card
  BY <1>2, <1>3, <1>4 DEF Card
<1> HIDE DEF card
<1>6. e.msg = m /\ e.card = card /\ card.ver \in 0..MaxVersion
  BY <1>5 DEF Card
<1> HIDE DEF e
<1>7. /\ missed' \in [Messages -> 0..MaxVersion] /\ card.ver <= missed'[m]
      /\ \A k \in Messages : missed[k] <= missed'[k]
  BY <1>1, <1>4, <1>6, PastIsHigher
<1>8. rows[m].ver < card.ver
  BY <1>2, <1>5
<1> QED
  BY <1>4, <1>5, <1>7, <1>8, Recorded

\* One request is answered with these cards.
LEMMA Served ==
  ASSUME FeedInv, NEW r \in Requests, ~flight[r].served, NEW cards, Answer(r, cards)
  PROVE  /\ flight'[r].kind = flight[r].kind /\ flight'[r].source = flight[r].source
         /\ \A q \in Requests : flight'[q].kind = flight[q].kind /\ flight'[q].msg = flight[q].msg
         /\ \A m \in Messages :
              /\ flight[r].kind # "list" =>
                   /\ Lists(m, flight') = Lists(m, flight)
                   /\ Unserved(m, flight) => Unserved(m, flight')
                   /\ flight[r].msg # m => Answers(m, flight') = Answers(m, flight)
              /\ flight[r].kind = "list" => Answers(m, flight') = Answers(m, flight)
              /\ flight[r].kind \in {"read", "level"} /\ flight[r].msg = m =>
                   Answers(m, flight') = Answers(m, flight) \union {cards[m]}
              /\ flight[r].kind = "list" /\ flight[r].source = SourceOf[m] =>
                   Lists(m, flight') = Lists(m, flight) \union {cards[m]}
              /\ flight[r].kind = "list" /\ flight[r].source # SourceOf[m] =>
                   /\ Lists(m, flight') = Lists(m, flight)
                   /\ Unserved(m, flight) => Unserved(m, flight')
<1>1. flight = [q \in Requests |-> flight[q]] /\ flight[r] \in FeedRequest
  BY DEF FeedInv, FeedShapes, RightRequests, RightRequest
<1>2. /\ flight'[r].kind = flight[r].kind /\ flight'[r].msg = flight[r].msg
      /\ flight'[r].source = flight[r].source
      /\ flight'[r].served = TRUE /\ flight'[r].answer = cards
      /\ \A q \in Requests : q # r => flight'[q] = flight[q]
  BY <1>1 DEF Answer, FeedRequest
<1>3. flight'[r].served
  BY <1>2
<1>4. ASSUME NEW m \in Messages
      PROVE  /\ Answers(m, flight') = Answers(m, flight) \union
                   (IF flight[r].kind \in {"read", "level"} /\ flight[r].msg = m
                    THEN {cards[m]} ELSE {})
             /\ Lists(m, flight') = Lists(m, flight) \union
                   (IF flight[r].kind = "list" /\ flight[r].source = SourceOf[m]
                    THEN {cards[m]} ELSE {})
             /\ Unserved(m, flight) => \/ Unserved(m, flight')
                                       \/ flight[r].kind = "list" /\ flight[r].source = SourceOf[m]
  BY <1>2, <1>3, OneServed
<1>5. ASSUME NEW m \in Messages, flight[r].kind # "list"
      PROVE  /\ Lists(m, flight') = Lists(m, flight)
             /\ Unserved(m, flight) => Unserved(m, flight')
             /\ flight[r].msg # m => Answers(m, flight') = Answers(m, flight)
  BY <1>4, <1>5
<1>6. ASSUME NEW m \in Messages, flight[r].kind = "list"
      PROVE  /\ Answers(m, flight') = Answers(m, flight)
             /\ flight[r].source # SourceOf[m] =>
                   /\ Lists(m, flight') = Lists(m, flight)
                   /\ Unserved(m, flight) => Unserved(m, flight')
  <2>1. flight[r].kind \notin {"read", "level"}
    BY <1>6
  <2> QED
    BY <1>4, <1>6, <2>1
<1>7. ASSUME NEW m \in Messages
      PROVE  /\ flight[r].kind \in {"read", "level"} /\ flight[r].msg = m =>
                   Answers(m, flight') = Answers(m, flight) \union {cards[m]}
             /\ flight[r].kind = "list" /\ flight[r].source = SourceOf[m] =>
                   Lists(m, flight') = Lists(m, flight) \union {cards[m]}
  BY <1>4
<1> QED
  BY <1>2, <1>5, <1>6, <1>7

\* The handler that sets a level publishes, and answers.
LEMMA ServeLevelOnList ==
  ASSUME FeedInv, ListInv, NEW r \in Requests, ServeLevel(r) PROVE ListInv'
<1> DEFINE m == flight[r].msg
           n == Newer(rows[m])
           card == [n EXCEPT !.level = flight[r].level]
<1>1. /\ flight[r].kind = "level" /\ ~flight[r].served /\ Announce("analyzed", m, card)
      /\ card.ver <= MaxVersion /\ rows' = [rows EXCEPT ![m] = card]
      /\ Answer(r, Only(m, card))
      /\ UNCHANGED <<slot, effects, view, screen, opened, taken, covered, loaded>>
  BY DEF ServeLevel, Sent, Announce, browser
<1>2. /\ m \in Messages /\ flight[r].level \in Levels /\ rows \in [Messages -> Card]
      /\ NoCard \in Card
  BY <1>1, FeedConstants DEF FeedInv, FeedShapes, RightRequests, RightRequest, FeedRequest,
     Grown, Below
<1>3. \A k \in Messages : Only(m, card)[k] = IF k = m THEN card ELSE NoCard
  BY <1>2 DEF Only, Nothing
<1> HIDE DEF m
<1>4. rows[m].ver < n.ver /\ (n.ver <= MaxVersion => n \in Card)
  BY <1>2, NewerIsNewer
<1>5. n = [rows[m] EXCEPT !.ver = n.ver] /\ rows[m] \in Card
  BY <1>2 DEF Newer, Card
<1> HIDE DEF n
<1>6. card.ver = n.ver /\ (n.ver <= MaxVersion => card \in Card)
  BY <1>2, <1>4, <1>5 DEF Card
<1> HIDE DEF card
<1>7. rows[m].ver < card.ver /\ card \in Card
  BY <1>1, <1>4, <1>6
<1>8. \A k \in Messages :
        /\ k # m => Answers(k, flight') = Answers(k, flight)
        /\ k = m => Answers(k, flight') = Answers(k, flight) \union {card}
        /\ Lists(k, flight') = Lists(k, flight)
        /\ Unserved(k, flight) => Unserved(k, flight')
  BY <1>1, <1>3, Served DEF m
<1>9. \A q \in Requests : flight'[q].kind = flight[q].kind /\ flight'[q].msg = flight[q].msg
  BY <1>1, <1>2, Served
<1>10. /\ missed' \in [Messages -> 0..MaxVersion]
       /\ \A k \in Messages : /\ missed[k] <= missed'[k]
                              /\ Sending(k, wire) \subseteq Sending(k, wire')
                              /\ k # m => Sending(k, wire') = Sending(k, wire)
       /\ Sending(m, wire') \subseteq Sending(m, wire) \union {card}
       /\ card.ver <= missed'[m] \/ card \in Sending(m, wire')
  BY <1>1, <1>2, <1>7, AnnouncedOnRecord DEF ListInv
<1>11. Answers(m, flight') \subseteq Answers(m, flight) \union {card}
  BY <1>2, <1>8
<1>12. \A k \in Messages : Answers(k, flight) \subseteq Answers(k, flight')
  BY <1>8
<1> QED
  BY <1>1, <1>2, <1>7, <1>8, <1>9, <1>10, <1>11, <1>12, Recorded

\* The answer to a load is of the rows of this moment.
LEMMA ServeListOnList ==
  ASSUME FeedInv, ListInv, NEW r \in Requests, ServeList(r) PROVE ListInv'
<1> DEFINE cards == [m \in Messages |-> IF SourceOf[m] = flight[r].source
                                        THEN rows[m] ELSE NoCard]
<1>1. /\ flight[r].kind = "list" /\ ~flight[r].served /\ Answer(r, cards)
      /\ UNCHANGED <<rows, wire, slot, effects, view, screen, opened, taken, missed, covered,
                     loaded>>
  BY DEF ServeList, Sent, server, browser, history
<1>2. \A m \in Messages : SourceOf[m] = flight[r].source => cards[m] = rows[m]
  OBVIOUS
<1> HIDE DEF cards
<1>3. ASSUME NEW m \in Messages
      PROVE  /\ Answers(m, flight') = Answers(m, flight)
             /\ SourceOf[m] = flight[r].source =>
                  Lists(m, flight') = Lists(m, flight) \union {rows[m]}
             /\ SourceOf[m] # flight[r].source =>
                  /\ Lists(m, flight') = Lists(m, flight)
                  /\ Unserved(m, flight) => Unserved(m, flight')
  BY <1>1, <1>2, Served
<1>4. Versions /\ FeedShapes
  BY DEF ListInv, FeedInv
<1>5. \A m \in Messages : \A c \in Bases(m)' : c \in Bases(m) \/ c = rows[m]
  BY <1>1, <1>3 DEF Bases
<1>6. Versions'
  <2>1. \A m \in Messages : \A c \in Bases(m)' : c.ver = rows'[m].ver => c = rows'[m]
    BY <1>1, <1>4, <1>5 DEF Versions
  <2>2. \A q \in Requests : flight'[q].kind = flight[q].kind /\ flight'[q].msg = flight[q].msg
    BY <1>1, Served
  <2> QED
    BY <1>1, <1>4, <2>1, <2>2 DEF Versions
<1>7. ASSUME NEW m \in Messages, NEW c \in Bases(m), Fine(m, c) PROVE Fine(m, c)'
  <2>1. CASE c = rows[m]
    BY <1>1, <2>1 DEF Fine
  <2>2. CASE c # rows[m]
    <3>1. /\ c.ver \in Nat /\ rows[m].ver \in Nat /\ c.ver < rows[m].ver
          /\ Pending(m) \subseteq Pending(m)'
          /\ SourceOf[m] = flight[r].source => rows[m] \in Pending(m)'
      <4>1. c.ver <= rows[m].ver /\ c.ver # rows[m].ver /\ c.ver \in Nat /\ rows[m].ver \in Nat
        BY <1>4, <2>2, ListNumbers, FeedNumbers
      <4> QED
        BY <1>1, <1>3, <4>1 DEF Pending
    <3>2. Out(m, c.ver) => Out(m, c.ver)'
      BY <1>1, <1>3, <3>1 DEF Out
    <3> QED
      BY <1>1, <1>3, <1>7, <3>2, FineStays
  <2> QED
    BY <2>1, <2>2
<1>8. ~Quiet'
  <2>1. flight'[r].kind = "list"
    BY <1>1, Served
  <2> QED
    BY <2>1 DEF Quiet
<1> QED
  BY <1>1, <1>5, <1>6, <1>7, <1>8, StillListed

\* The handler that marks a message read saves it without an event: its answer tells.
LEMMA ServeReadOnList ==
  ASSUME FeedInv, ListInv, NEW r \in Requests, ServeRead(r) PROVE ListInv'
<1>1. Versions /\ FeedShapes /\ rows \in [Messages -> Card] /\ flight[r].kind = "read"
  BY DEF ListInv, FeedInv, FeedShapes, Grown, Below, ServeRead, Sent
<1>2. flight[r].msg \in Messages /\ 0 < rows[flight[r].msg].ver
  BY <1>1 DEF Versions, FeedShapes, RightRequests, RightRequest
<1>3. PICK m \in Messages : m = flight[r].msg
  BY <1>2
<1> DEFINE n == Newer(rows[m])
           card == IF rows[m].read THEN rows[m] ELSE [n EXCEPT !.read = TRUE]
<1>4. /\ flight[r].kind = "read" /\ ~flight[r].served /\ card.ver <= MaxVersion
      /\ rows' = [rows EXCEPT ![m] = card] /\ Answer(r, Only(m, card))
      /\ UNCHANGED <<wire, slot, effects, view, screen, opened, taken, missed, covered, loaded>>
  BY <1>3 DEF ServeRead, Sent, browser, history
<1>5. m \in Messages /\ 0 < rows[m].ver
  BY <1>2, <1>3
<1>6. Only(m, card)[m] = card
  BY <1>5 DEF Only, Nothing
<1>7. rows[m].ver < n.ver /\ (n.ver <= MaxVersion => n \in Card)
  BY <1>1, <1>5, NewerIsNewer
<1>8. n = [rows[m] EXCEPT !.ver = n.ver] /\ rows[m] \in Card
  BY <1>1, <1>5 DEF Newer, Card
<1> HIDE DEF n
<1>9. /\ card.level = rows[m].level /\ card.read
      /\ card = rows[m] \/ (rows[m].ver < card.ver /\ ~rows[m].read)
  BY <1>7, <1>8 DEF Card
<1> HIDE DEF card
<1>10. rows'[m] = card /\ \A k \in Messages : k # m => rows'[k] = rows[k]
  BY <1>1, <1>4, <1>5
<1>11. ASSUME NEW k \in Messages
      PROVE  /\ Lists(k, flight') = Lists(k, flight)
             /\ Unserved(k, flight) => Unserved(k, flight')
             /\ k # m => Answers(k, flight') = Answers(k, flight)
             /\ k = m => Answers(k, flight') = Answers(k, flight) \union {card}
  BY <1>4, <1>6, <1>3, Served
<1>12. \A q \in Requests : flight'[q].kind = flight[q].kind /\ flight'[q].msg = flight[q].msg
  BY <1>4, Served
<1>13. \A k \in Messages : \A c \in Bases(k)' : c \in Bases(k) \/ (k = m /\ c = card)
  BY <1>4, <1>11 DEF Bases
<1>14. Answers(m, flight) \subseteq Bases(m)
  BY DEF Bases
<1>15. Versions'
  <2>1. \A k \in Messages : \A c \in Bases(k)' : c.ver = rows'[k].ver => c = rows'[k]
    <3>1. ASSUME NEW c \in Bases(m), c.ver = card.ver PROVE c = card
      <4>1. c.ver \in Nat /\ rows[m].ver \in Nat /\ c.ver <= rows[m].ver
            /\ (c.ver = rows[m].ver => c = rows[m])
        BY <1>1, <1>5, <3>1, ListNumbers
      <4> QED
        BY <1>9, <3>1, <4>1
    <3> QED
      BY <1>1, <1>5, <1>10, <1>13, <3>1 DEF Versions
  <2>2. \A k \in Messages : 0 < rows[k].ver => 0 < rows'[k].ver
    <3>1. card.ver = rows[m].ver \/ rows[m].ver < card.ver
      BY <1>9
    <3>2. 0 < card.ver
      <4>1. CASE card = rows[m]
        BY <1>5, <4>1
      <4>2. CASE rows[m].ver < card.ver /\ card # rows[m]
        <5>1. card.ver \in Int \/ ~rows[m].read
          BY <1>9, <4>2
        <5>2. card.ver = n.ver
          BY <1>8, <4>2 DEF card, Card
        <5>3. n \in Card
          BY <1>4, <1>7, <5>2
        <5> QED
          BY <1>5, <1>8, <4>2, <5>2, <5>3, FeedNumbers DEF Card
      <4> QED
        BY <1>9, <4>1, <4>2
    <3> QED
      BY <1>10, <3>2
  <2>3. /\ \A q \in Requests : flight[q].kind \in {"read", "level"} => flight[q].msg \in Messages
        /\ opened \in Messages \union {Nobody}
    BY <1>1 DEF FeedShapes, RightRequests, RightRequest
  <2> QED
    BY <1>1, <1>4, <1>12, <2>1, <2>2, <2>3 DEF Versions
<1>16. ASSUME NEW k \in Messages, NEW b, Out(k, b) PROVE Out(k, b)'
  BY <1>4, <1>11, <1>16 DEF Out, Pending
<1>17. ASSUME NEW c, c.ver \in Nat, c.ver <= rows[m].ver, Fine(m, c) PROVE Fine(m, c)'
  <2>1. CASE Out(m, c.ver)
    BY <1>5, <1>16, <2>1 DEF Fine
  <2>2. CASE card = rows[m]
    <3>1. Answers(m, flight') = Answers(m, flight) \union {rows[m]} /\ rows'[m] = rows[m]
      BY <1>5, <1>10, <1>11, <2>2
    <3> QED
      BY <1>4, <1>5, <1>16, <1>17, <3>1 DEF Fine, ReadSince
  <2>3. CASE c = rows[m] /\ card # rows[m]
    <3>1. c # NoCard /\ c.ver < card.ver /\ card.level = c.level /\ card.read
      BY <1>5, <1>9, <2>3, FeedConstants
    <3>2. \A a \in Answers(m, flight) : a = c \/ a.ver < c.ver
      <4>1. \A a \in Bases(m) : a.ver \in Nat /\ a.ver <= rows[m].ver
                                /\ (a.ver = rows[m].ver => a = rows[m])
        BY <1>1, <1>5, ListNumbers
      <4> QED
        BY <1>14, <1>17, <2>3, <4>1
    <3>3. ReadSince(c, card, Answers(m, flight'), view'.asked = "high")
      BY <1>5, <1>11, <3>1, <3>2 DEF ReadSince
    <3> QED
      BY <1>10, <3>3 DEF Fine
  <2> QED
    BY <1>9, <1>17, <2>1, <2>2, <2>3 DEF Fine, ReadSince
<1>18. ASSUME NEW k \in Messages, ScreenFine(k) PROVE ScreenFine(k)'
  <2>1. screen[k].ver \in Nat /\ screen[k].ver <= rows[k].ver
    BY <1>1, ListNumbers DEF FeedShapes, Below
  <2>2. CASE k = m
    <3>1. CASE Out(m, taken[m])
      BY <1>4, <1>5, <1>16, <2>2, <3>1 DEF ScreenFine
    <3>2. CASE screen[m] = NoCard /\ ~Passes(m, rows[m], view.asked)
      <4>1. rows[m] # NoCard
        BY <1>5, FeedConstants
      <4>2. ~Passes(m, card, view.asked)
        BY <1>9, <3>2, <4>1 DEF Passes
      <4> QED
        BY <1>4, <1>10, <2>2, <3>2, <4>2 DEF ScreenFine
    <3>3. CASE screen[m] # NoCard /\ screen[m].ver = taken[m] /\ Fine(m, screen[m])
               /\ (view.asked = "high" => screen[m].level = "HIGH")
      <4>1. Fine(m, screen[m])'
        BY <1>4, <1>17, <2>1, <2>2, <3>3
      <4> QED
        BY <1>4, <2>2, <3>3, <4>1 DEF ScreenFine
    <3> QED
      BY <1>18, <2>2, <3>1, <3>2, <3>3 DEF ScreenFine
  <2>3. CASE k # m
    <3>1. Out(k, taken[k]) => Out(k, taken[k])'
      BY <1>4, <1>16
    <3>2. Fine(k, screen[k]) => Fine(k, screen[k])'
      BY <1>4, <1>10, <1>11, <2>3, <1>16, FineStays
    <3> QED
      BY <1>4, <1>10, <1>18, <2>3, <3>1, <3>2, ScreenStays
  <2> QED
    BY <2>2, <2>3
<1>19. ASSUME NEW k \in Messages, k # m, NEW c \in Bases(k), Fine(k, c) PROVE Fine(k, c)'
  BY <1>4, <1>10, <1>11, <1>16, <1>19, FineStays
<1>20. Quiet' => Quiet
  BY <1>4, <1>12 DEF Quiet
<1>21. ASSUME NEW k \in Messages
       PROVE  \A c \in Bases(k)' : c = rows'[k] \/ (c \in Bases(k) /\ (Fine(k, c) => Fine(k, c)'))
  <2>1. \A c \in Bases(k) : c.ver \in Nat /\ c.ver <= rows[k].ver
    BY <1>1, ListNumbers
  <2> QED
    BY <1>10, <1>13, <1>17, <1>19, <2>1
<1> QED
  BY <1>4, <1>15, <1>18, <1>20, <1>21, StillListed

\* What is on the list and on its way stays as it was, but for what went past the list.
LEMMA StillOnList ==
  ASSUME FeedInv, ListInv, missed' \in [Messages -> 0..MaxVersion],
         \A m \in Messages : /\ missed[m] <= missed'[m] /\ Bases(m)' \subseteq Bases(m)
                             /\ \A c \in Pending(m) : c \in Pending(m)' \/ c.ver <= missed'[m],
         effects \subseteq effects', "load" \in effects' => "load" \in effects,
         UNCHANGED <<rows, view, screen, opened, flight, taken, covered, loaded>>
  PROVE  ListInv'
<1>1. Versions /\ FeedShapes
  BY DEF ListInv, FeedInv
<1>2. Versions'
  BY <1>1 DEF Versions
<1>3. ASSUME NEW m \in Messages, NEW b \in Nat, Out(m, b) PROVE Out(m, b)'
  <2>1. missed[m] \in Nat /\ missed'[m] \in Nat
    BY <1>1, ListNumbers
  <2>2. CASE \E c \in Pending(m) : b < c.ver
    <3>1. PICK c \in Pending(m) : b < c.ver
      BY <2>2
    <3>2. CASE c \in Pending(m)'
      BY <3>1, <3>2 DEF Out
    <3>3. CASE c.ver <= missed'[m]
      <4>1. c \in Bases(m)
        BY <3>1 DEF Pending, Bases
      <4>2. c.ver \in Nat
        BY <1>1, <4>1, ListNumbers
      <4> QED
        BY <2>1, <3>1, <3>3, <4>2 DEF Out
    <3> QED
      BY <3>1, <3>2, <3>3
  <2>3. CASE ~ \E c \in Pending(m) : b < c.ver
    BY <1>3, <2>1, <2>3 DEF Out
  <2> QED
    BY <2>2, <2>3
<1>4. ASSUME NEW m \in Messages, NEW c, c.ver \in Nat, Fine(m, c) PROVE Fine(m, c)'
  BY <1>3, <1>4, FineStays
<1>5. ASSUME NEW m \in Messages, ScreenFine(m) PROVE ScreenFine(m)'
  BY <1>1, <1>3, <1>4, <1>5, ListNumbers, ScreenStays
<1>6. Quiet' => Quiet
  BY DEF Quiet
<1>7. \A m \in Messages : \A c \in Bases(m)' : c \in Bases(m) /\ (Fine(m, c) => Fine(m, c)')
  BY <1>1, <1>4, ListNumbers
<1> QED
  BY <1>2, <1>5, <1>6, <1>7, StillListed

\* An event may be for a message; no message is called Nobody.
LEMMA EventNumbers ==
  ASSUME FeedInv
  PROVE  /\ \A i \in 1..Len(wire) : wire[i].card.ver \in 0..MaxVersion
         /\ slot.card.ver \in 0..MaxVersion
         /\ wire \in Seq(StreamEvent) /\ Nobody \notin Messages
<1>1. FeedShapes /\ wire \in Seq(StreamEvent)
  BY DEF FeedInv, FeedShapes, RightWire
<1>2. \A i \in 1..Len(wire) : wire[i] \in StreamEvent
  BY <1>1
<1>3. slot \in StreamEvent
  BY <1>1, FeedConstants DEF FeedShapes, RightEvent
<1> QED
  BY <1>1, <1>2, <1>3, FeedOK DEF StreamEvent, Card, FeedOK

LEMMA DropOnList == ASSUME FeedInv, ListInv, Drop PROVE ListInv'
<1> DEFINE past == {wire[i] : i \in 1..Len(wire)}
<1>1. /\ wire' = <<>> /\ missed' = Past(past)
      /\ UNCHANGED <<rows, slot, effects, view, screen, opened, flight, taken, covered, loaded>>
  BY DEF Drop, browser
<1>2. missed \in [Messages -> 0..MaxVersion] /\ \A e \in past : e.card.ver \in 0..MaxVersion
  BY EventNumbers DEF ListInv, Versions
<1> HIDE DEF past
<1>3. /\ missed' \in [Messages -> 0..MaxVersion]
      /\ \A m \in Messages : /\ missed[m] <= missed'[m]
                             /\ \A e \in past : e.msg = m => e.card.ver <= missed'[m]
  BY <1>1, <1>2, PastIsHigher
<1>4. \A m \in Messages : \A c \in Sending(m, wire) : c.ver <= missed'[m]
  BY <1>3 DEF Sending, past
<1>5. \A m \in Messages : Sending(m, wire') = {}
  BY <1>1 DEF Sending
<1>6. \A m \in Messages : Bases(m)' \subseteq Bases(m)
  BY <1>1, <1>5 DEF Bases
<1>7. \A m \in Messages : \A c \in Pending(m) : c \in Pending(m)' \/ c.ver <= missed'[m]
  BY <1>1, <1>4 DEF Pending
<1> QED
  BY <1>1, <1>3, <1>6, <1>7, StillOnList

LEMMA ReconnectOnList == ASSUME FeedInv, ListInv, Reconnect PROVE ListInv'
<1>1. UNCHANGED <<rows, wire, slot, effects, view, screen, opened, flight, taken, missed, covered,
                  loaded>>
  BY DEF Reconnect, browser, history
<1>2. missed \in [Messages -> 0..MaxVersion] /\ \A m \in Messages : missed[m] <= missed[m]
  BY FeedNumbers DEF ListInv, Versions
<1>3. \A m \in Messages : Bases(m)' = Bases(m) /\ Pending(m)' = Pending(m)
  BY <1>1 DEF Bases, Pending
<1> QED
  BY <1>1, <1>2, <1>3, StillOnList

\* The event held before it, not rendered yet, goes past the list.
LEMMA DeliverOnList == ASSUME FeedInv, ListInv, Deliver PROVE ListInv'
<1>1. /\ wire # <<>> /\ slot' = Head(wire) /\ wire' = Tail(wire)
      /\ effects' = effects \union {"event"}
      /\ missed' = IF "event" \in effects THEN Past({slot}) ELSE missed
      /\ UNCHANGED <<rows, view, screen, opened, flight, taken, covered, loaded>>
  BY DEF Deliver
<1>2. missed \in [Messages -> 0..MaxVersion] /\ slot.card.ver \in 0..MaxVersion
  BY EventNumbers DEF ListInv, Versions
<1>3. /\ missed' \in [Messages -> 0..MaxVersion]
      /\ \A m \in Messages : /\ missed[m] <= missed'[m]
                             /\ "event" \in effects /\ slot.msg = m =>
                                  slot.card.ver <= missed'[m]
  <2>1. CASE "event" \in effects
    <3>1. /\ Past({slot}) \in [Messages -> 0..MaxVersion]
          /\ \A m \in Messages : /\ missed[m] <= Past({slot})[m]
                                 /\ slot.msg = m => slot.card.ver <= Past({slot})[m]
      BY <1>2, PastIsHigher
    <3> QED
      BY <1>1, <2>1, <3>1
  <2>2. CASE "event" \notin effects
    BY <1>1, <1>2, <2>2, FeedNumbers
  <2> QED
    BY <2>1, <2>2
<1>4. ASSUME NEW m \in Messages
      PROVE  Sending(m, wire) = Sending(m, Tail(wire)) \union Held(m, Head(wire))
  <2>1. /\ Len(wire) \in Nat /\ Len(wire) >= 1 /\ Len(Tail(wire)) = Len(wire) - 1
        /\ Head(wire) = wire[1]
        /\ \A i \in 1..(Len(wire) - 1) : Tail(wire)[i] = wire[i + 1]
    BY <1>1, EventNumbers
  <2>2. ASSUME NEW c, c \in Sending(m, wire)
        PROVE  c \in Sending(m, Tail(wire)) \union Held(m, Head(wire))
    <3>1. PICK i \in 1..Len(wire) : wire[i].msg = m /\ c = wire[i].card
      BY <2>2 DEF Sending
    <3>2. CASE i = 1
      BY <2>1, <3>1, <3>2 DEF Held
    <3>3. CASE i # 1
      <4>1. i - 1 \in 1..(Len(wire) - 1) /\ Tail(wire)[i - 1] = wire[i]
        BY <2>1, <3>1, <3>3
      <4> QED
        BY <2>1, <3>1, <4>1 DEF Sending
    <3> QED
      BY <3>2, <3>3
  <2>3. ASSUME NEW c, c \in Sending(m, Tail(wire)) PROVE c \in Sending(m, wire)
    <3>1. PICK i \in 1..(Len(wire) - 1) : Tail(wire)[i].msg = m /\ c = Tail(wire)[i].card
      BY <2>1, <2>3 DEF Sending
    <3>2. i + 1 \in 1..Len(wire) /\ wire[i + 1] = Tail(wire)[i]
      BY <2>1, <3>1
    <3> QED
      BY <3>1, <3>2 DEF Sending
  <2>4. Held(m, Head(wire)) \subseteq Sending(m, wire)
    BY <2>1 DEF Held, Sending
  <2> QED
    BY <2>2, <2>3, <2>4
<1>5. \A m \in Messages : Bases(m)' \subseteq Bases(m)
  BY <1>1, <1>4 DEF Bases
<1>6. ASSUME NEW m \in Messages, NEW c \in Pending(m)
      PROVE  c \in Pending(m)' \/ c.ver <= missed'[m]
  <2>1. CASE c \in Sending(m, wire) \union Lists(m, flight)
    BY <1>1, <1>4, <2>1 DEF Pending
  <2>2. CASE "event" \in effects /\ c \in Held(m, slot)
    BY <1>3, <2>2 DEF Held
  <2> QED
    BY <1>6, <2>1, <2>2 DEF Pending
<1>7. "load" \in effects' => "load" \in effects
  BY <1>1
<1> QED
  BY <1>1, <1>3, <1>5, <1>6, <1>7, StillOnList

\* The filter or the source changes: a load is due.
LEMMA TurnOnList ==
  ASSUME FeedInv, ListInv, NEW v, Turn(v),
         v.asked = v.filter \/ {v.asked, v.filter} \subseteq {"all", "search"}
  PROVE  ListInv'
<1>1. /\ view' = v /\ effects \subseteq effects'
      /\ UNCHANGED <<rows, wire, slot, screen, opened, flight, taken, missed, covered, loaded>>
      /\ v.source # view.source \/ v.asked # view.asked => "load" \in effects'
      /\ v.source = view.source /\ v.asked = view.asked =>
           ("load" \in effects' => "load" \in effects)
  BY DEF Turn, server, history
<1>2. Versions /\ FeedShapes
  BY DEF ListInv, FeedInv
<1>3. \A m \in Messages : Bases(m)' = Bases(m) /\ Pending(m) \subseteq Pending(m)'
  BY <1>1 DEF Bases, Pending
<1>4. Versions'
  BY <1>1, <1>2, <1>3 DEF Versions
<1>5. CASE "load" \in effects'
  BY <1>4, <1>5 DEF ListInv, AllFine, ListFine, Quiet, Fine, Out
<1>6. CASE "load" \notin effects'
  <2>1. v.source = view.source /\ v.asked = view.asked /\ view'.source = view.source
        /\ view'.asked = view.asked
    BY <1>1, <1>6
  <2>2. ASSUME NEW m \in Messages, NEW b, Out(m, b) PROVE Out(m, b)'
    BY <1>1, <1>3, <2>2 DEF Out
  <2>3. ASSUME NEW m \in Messages, NEW c, Fine(m, c) PROVE Fine(m, c)'
    BY <1>1, <2>1, <2>2, <2>3, FineStays
  <2>4. ASSUME NEW m \in Messages, ScreenFine(m) PROVE ScreenFine(m)'
    BY <1>1, <2>1, <2>2, <2>3, <2>4, ScreenStays
  <2>5. Quiet' => Quiet
    BY <1>1, <1>6, <2>1 DEF Quiet
  <2> QED
    BY <1>1, <1>3, <1>4, <2>1, <2>3, <2>4, <2>5, StillListed
<1> QED
  BY <1>5, <1>6

\* The ways to turn: what is asked for follows the filter, but for a search being typed.
LEMMA TurnStepsOnList ==
  ASSUME FeedInv, ListInv,
         \/ \E s \in Sources : OpenSource(s)
         \/ \E f \in Filters : Choose(f)
         \/ Back \/ Reset \/ Type \/ Debounce
  PROVE  ListInv'
<1> DEFINE Follows(v) == v.asked = v.filter \/ {v.asked, v.filter} \subseteq {"all", "search"}
<1>1. Follows(view) /\ view \in [source : Sources \union {Nobody}, filter : AllFilters,
                                 asked : AllFilters]
  BY DEF ListInv, Versions, FeedInv, FeedShapes
<1>2. ASSUME NEW s \in Sources, OpenSource(s) PROVE \E v : Turn(v) /\ Follows(v)
  BY <1>1, <1>2 DEF OpenSource
<1>3. ASSUME NEW f \in Filters, Choose(f) PROVE \E v : Turn(v) /\ Follows(v)
  <2>1. Follows([view EXCEPT !.filter = f, !.asked = f])
    BY <1>1
  <2> HIDE DEF Follows
  <2> QED
    BY <1>3, <2>1 DEF Choose
<1>4. ASSUME Back PROVE \E v : Turn(v) /\ Follows(v)
  <2>1. Follows([source |-> Nobody, filter |-> "all", asked |-> "all"])
    OBVIOUS
  <2> HIDE DEF Follows
  <2> QED
    BY <1>4, <2>1 DEF Back
<1>5. ASSUME Reset PROVE \E v : Turn(v) /\ Follows(v)
  <2>1. Follows([view EXCEPT !.filter = "all", !.asked = "all"])
    BY <1>1
  <2> HIDE DEF Follows
  <2> QED
    BY <1>5, <2>1 DEF Reset
<1>6. ASSUME Type PROVE \E v : Turn(v) /\ Follows(v)
  <2> DEFINE f == IF view.filter = "all" THEN "search" ELSE "all"
  <2>1. Turn([view EXCEPT !.filter = f]) /\ view.filter \in {"all", "search"}
    BY <1>6 DEF Type
  <2>2. f \in {"all", "search"}
    OBVIOUS
  <2> HIDE DEF f
  <2>3. Follows([view EXCEPT !.filter = f])
    BY <1>1, <2>1, <2>2
  <2> HIDE DEF Follows
  <2> QED
    BY <2>1, <2>3
<1>7. ASSUME Debounce PROVE \E v : Turn(v) /\ Follows(v)
  <2>1. Follows([view EXCEPT !.asked = view.filter])
    BY <1>1
  <2> HIDE DEF Follows
  <2> QED
    BY <1>7, <2>1 DEF Debounce
<1>8. \E v : Turn(v) /\ Follows(v)
  BY <1>2, <1>3, <1>4, <1>5, <1>6, <1>7
<1> QED
  BY <1>8, TurnOnList

\* A read mark or a level is asked for, for a message that has a row.
LEMMA AskedOnList ==
  ASSUME FeedInv, ListInv,
         \A r \in Requests :
           \/ flight'[r] = flight[r]
           \/ /\ flight[r].kind = "idle" /\ flight'[r].kind \in {"read", "level"}
              /\ flight'[r].served = FALSE /\ 0 < rows[flight'[r].msg].ver,
         opened' = Nobody \/ 0 < rows[opened'].ver,
         UNCHANGED <<rows, wire, slot, effects, view, screen, taken, missed, covered, loaded>>
  PROVE  ListInv'
<1>1. Versions /\ FeedShapes
  BY DEF ListInv, FeedInv
<1>2. \A m \in Messages : /\ Answers(m, flight') = Answers(m, flight)
                          /\ Lists(m, flight') = Lists(m, flight)
                          /\ Unserved(m, flight) => Unserved(m, flight')
  BY LaterAsked
<1>3. \A m \in Messages : Bases(m)' = Bases(m) /\ Pending(m)' = Pending(m)
  BY <1>2 DEF Bases, Pending
<1>4. Versions'
  BY <1>1, <1>3 DEF Versions
<1>5. ASSUME NEW m \in Messages, NEW b, Out(m, b) PROVE Out(m, b)'
  BY <1>2, <1>3, <1>5 DEF Out
<1>6. ASSUME NEW m \in Messages, NEW c, Fine(m, c) PROVE Fine(m, c)'
  BY <1>2, <1>5, <1>6, FineStays
<1>7. ASSUME NEW m \in Messages, ScreenFine(m) PROVE ScreenFine(m)'
  BY <1>5, <1>6, <1>7, ScreenStays
<1>8. Quiet' => Quiet
  BY DEF Quiet
<1> QED
  BY <1>3, <1>4, <1>6, <1>7, <1>8, StillListed

LEMMA ClickOnList == ASSUME FeedInv, ListInv, NEW m \in Messages, Click(m) PROVE ListInv'
<1> DEFINE g == Idle
           q == [g EXCEPT !.kind = "read", !.msg = m]
           n == IF screen[m].read THEN 0 ELSE 1
<1>1. /\ screen[m] # NoCard /\ opened' = m /\ Asks(n, q)
      /\ UNCHANGED <<rows, wire, slot, effects, view, screen, taken, missed, covered, loaded>>
  BY DEF Click, server
<1>2. g \in FeedRequest /\ g.kind = "idle" /\ g.answer = Nothing /\ g.served = FALSE
  BY FeedConstants DEF Idle
<1>3. q \in FeedRequest /\ q.kind = "read" /\ q.msg = m /\ q.served = FALSE
      /\ q.answer = g.answer
  <2> HIDE DEF g
  <2> QED
    BY <1>2 DEF FeedRequest
<1>4. RightRequest(q, rows)
  BY <1>3, FreshRequest DEF FeedInv, g, Idle
<1>5. n \in Nat
  OBVIOUS
<1> HIDE DEF q, n
<1>6. \A r \in Requests : \/ flight'[r] = flight[r]
                          \/ flight[r].kind = "idle" /\ flight'[r] = q
  BY <1>1, <1>2, <1>4, <1>5, Asking DEF FeedInv
<1>7. 0 < rows[m].ver
  <2>1. /\ screen[m].ver \in Nat /\ rows[m].ver \in Nat /\ screen[m].ver <= rows[m].ver
        /\ screen[m].ver # 0
    BY <1>1, ListNumbers, FeedNumbers DEF ListInv, FeedInv, FeedShapes, Below
  <2> QED
    BY <2>1
<1> QED
  BY <1>1, <1>3, <1>6, <1>7, AskedOnList

LEMMA DetailsOnList ==
  ASSUME FeedInv, ListInv, CloseDetails \/ \E l \in Levels : ChangeLevel(l)
  PROVE  ListInv'
<1>1. CASE CloseDetails
  <2>1. /\ opened' = Nobody
        /\ UNCHANGED <<rows, wire, slot, effects, view, screen, flight, taken, missed, covered,
                       loaded>>
    BY <1>1 DEF CloseDetails, server, history
  <2>2. \A m \in Messages : Bases(m)' = Bases(m) /\ Pending(m)' = Pending(m)
    BY <2>1 DEF Bases, Pending
  <2>3. Versions'
    BY <2>1, <2>2 DEF ListInv, Versions
  <2>4. ASSUME NEW m \in Messages, NEW b, Out(m, b) PROVE Out(m, b)'
    BY <2>1, <2>2, <2>4 DEF Out
  <2>5. ASSUME NEW m \in Messages, NEW c, Fine(m, c) PROVE Fine(m, c)'
    BY <2>1, <2>4, <2>5, FineStays
  <2>6. ASSUME NEW m \in Messages, ScreenFine(m) PROVE ScreenFine(m)'
    BY <2>1, <2>4, <2>5, <2>6, ScreenStays
  <2>7. Quiet' => Quiet
    BY <2>1 DEF Quiet
  <2> QED
    BY <2>1, <2>2, <2>3, <2>5, <2>6, <2>7, StillListed
<1>2. ASSUME NEW l \in Levels, ChangeLevel(l) PROVE ListInv'
  <2> DEFINE g == Idle
             q == [g EXCEPT !.kind = "level", !.msg = opened, !.level = l]
  <2>1. /\ opened # Nobody /\ Asks(1, q)
        /\ UNCHANGED <<rows, wire, slot, effects, view, screen, opened, taken, missed, covered,
                       loaded>>
    BY <1>2 DEF ChangeLevel, server, browser, history
  <2>2. g \in FeedRequest /\ g.kind = "idle" /\ g.served = FALSE /\ opened \in Messages
        /\ 0 < rows[opened].ver
    BY <2>1, FeedConstants DEF FeedInv, FeedShapes, ListInv, Versions, Idle
  <2>3. q \in FeedRequest /\ q.kind = "level" /\ q.msg = opened /\ q.served = FALSE
        /\ q.answer = g.answer
    <3> HIDE DEF g
    <3> QED
      BY <2>2 DEF FeedRequest
  <2>4. RightRequest(q, rows)
    BY <2>2, <2>3, FreshRequest DEF FeedInv, g, Idle
  <2> HIDE DEF q
  <2>5. \A r \in Requests : \/ flight'[r] = flight[r]
                            \/ flight[r].kind = "idle" /\ flight'[r] = q
    BY <2>1, <2>2, <2>4, Asking DEF FeedInv
  <2> QED
    BY <2>1, <2>2, <2>3, <2>5, AskedOnList
<1> QED
  BY <1>1, <1>2

\* The list takes in one card.
LEMMA OneTaken ==
  ASSUME FeedInv, Versions, NEW m \in Messages, NEW v \in Nat, TakeIn([taken EXCEPT ![m] = v])
  PROVE  /\ covered' \in [Messages -> Nat] /\ taken' \in [Messages -> Nat] /\ taken'[m] = v
         /\ v < taken[m] => taken'[m] < covered'[m]
         /\ \A n \in Messages : /\ covered[n] <= covered'[n]
                                /\ taken[n] <= taken'[n] \/ taken[n] <= covered'[n]
                                /\ n # m => taken'[n] = taken[n]
<1> DEFINE vers == [taken EXCEPT ![m] = v]
<1>1. taken \in [Messages -> Nat] /\ covered \in [Messages -> Nat]
  BY DEF FeedInv, FeedShapes, Versions
<1>2. /\ vers \in [Messages -> Nat] /\ vers[m] = v
      /\ \A n \in Messages : n # m => vers[n] = taken[n]
  BY <1>1
<1>3. TakeIn(vers)
  OBVIOUS
<1> HIDE DEF vers
<1>4. /\ taken' = vers /\ covered' \in [Messages -> Nat]
      /\ \A n \in Messages : /\ covered[n] <= covered'[n]
                             /\ vers[n] < taken[n] => taken[n] <= covered'[n]
  BY <1>1, <1>2, <1>3, Taking
<1>5. \A n \in Messages : vers[n] \in Nat /\ taken[n] \in Nat /\ covered'[n] \in Nat
  BY <1>1, <1>2, <1>4
<1> QED
  BY <1>2, <1>4, <1>5

\* A card takes the place of the list's, or goes past the list, or is of a level that the
\* filter excludes.
LEMMA ReplaceOnRecord ==
  ASSUME FeedInv, Versions, NEW m \in Messages, NEW card \in Card, Replace(m, card)
  PROVE  /\ missed' \in [Messages -> 0..MaxVersion] /\ covered' \in [Messages -> Nat]
         /\ \A n \in Messages : /\ missed[n] <= missed'[n] /\ covered[n] <= covered'[n]
                                /\ taken'[n] \in Nat
                                /\ taken[n] <= taken'[n] \/ taken[n] <= covered'[n]
                                /\ n # m => taken'[n] = taken[n] /\ screen'[n] = screen[n]
         /\ \/ /\ screen[m] = NoCard /\ screen' = screen /\ taken' = taken
               /\ card.ver <= missed'[m]
            \/ /\ screen[m] # NoCard /\ screen'[m] = card /\ taken'[m] = card.ver
               /\ Belongs(card) \/ taken'[m] < covered'[m]
            \/ /\ screen[m] # NoCard /\ screen'[m] = card /\ ~Belongs(card)
               /\ taken[m] <= card.ver /\ UNCHANGED <<taken, covered, missed>>
<1>1. /\ missed \in [Messages -> 0..MaxVersion] /\ covered \in [Messages -> Nat]
      /\ taken \in [Messages -> Nat] /\ screen \in [Messages -> Card]
      /\ card.ver \in 0..MaxVersion /\ card.ver \in Nat
  BY FeedNumbers DEF FeedInv, FeedShapes, Versions, Below, Card
<1>2. \A n \in Messages : /\ missed[n] \in Nat /\ covered[n] \in Nat /\ taken[n] \in Nat
                          /\ missed[n] <= missed[n] /\ covered[n] <= covered[n]
                          /\ taken[n] <= taken[n]
  BY <1>1, FeedNumbers
<1>3. CASE screen[m] = NoCard
  <2> DEFINE e == [msg |-> m, card |-> card]
  <2>1. missed' = Past({e}) /\ UNCHANGED <<screen, taken, covered>>
    BY <1>3 DEF Replace
  <2>2. e.msg = m /\ e.card = card
    OBVIOUS
  <2> HIDE DEF e
  <2>3. /\ missed' \in [Messages -> 0..MaxVersion] /\ card.ver <= missed'[m]
        /\ \A n \in Messages : missed[n] <= missed'[n]
    BY <1>1, <2>1, <2>2, PastIsHigher
  <2> QED
    BY <1>1, <1>2, <1>3, <2>1, <2>3
<1>4. CASE screen[m] # NoCard /\ (Belongs(card) \/ card.ver < taken[m])
  <2>1. /\ screen' = [screen EXCEPT ![m] = card] /\ TakeIn([taken EXCEPT ![m] = card.ver])
        /\ missed' = missed
    BY <1>4 DEF Replace
  <2>2. screen'[m] = card /\ \A n \in Messages : n # m => screen'[n] = screen[n]
    BY <1>1, <2>1
  <2>3. /\ covered' \in [Messages -> Nat] /\ taken' \in [Messages -> Nat]
        /\ taken'[m] = card.ver
        /\ card.ver < taken[m] => taken'[m] < covered'[m]
        /\ \A n \in Messages : /\ covered[n] <= covered'[n]
                               /\ taken[n] <= taken'[n] \/ taken[n] <= covered'[n]
                               /\ n # m => taken'[n] = taken[n]
    BY <1>1, <2>1, OneTaken
  <2> QED
    BY <1>1, <1>2, <1>4, <2>1, <2>2, <2>3
<1>5. CASE screen[m] # NoCard /\ ~(Belongs(card) \/ card.ver < taken[m])
  <2>1. screen' = [screen EXCEPT ![m] = card] /\ UNCHANGED <<taken, covered, missed>>
    BY <1>5 DEF Replace
  <2>2. screen'[m] = card /\ \A n \in Messages : n # m => screen'[n] = screen[n]
    BY <1>1, <2>1
  <2>3. taken[m] <= card.ver
    BY <1>1, <1>2, <1>5
  <2> QED
    BY <1>1, <1>2, <1>5, <2>1, <2>2, <2>3
<1> QED
  BY <1>3, <1>4, <1>5

\* An answer about one message.
LEMMA AnsweredOnList ==
  ASSUME FeedInv, ListInv, NEW r \in Requests, flight[r].kind \in {"read", "level"},
         flight[r].served, NEW m \in Messages, m = flight[r].msg,
         NEW card \in Card, card = flight[r].answer[m], Replace(m, card), Done(r), opened' = m,
         UNCHANGED <<rows, wire, slot, effects, view, loaded>>
  PROVE  ListInv'
<1>1. Versions /\ FeedShapes /\ flight[r].kind # "list" /\ 0 < rows[m].ver
  BY DEF ListInv, FeedInv, Versions
<1>2. flight'[r].kind = "idle" /\ \A q \in Requests : q # r => flight'[q] = flight[q]
  BY <1>1, Finishing
<1>3. ASSUME NEW n \in Messages
      PROVE  /\ Answers(n, flight') \subseteq Answers(n, flight)
             /\ Answers(n, flight) \subseteq
                  Answers(n, flight') \union (IF n = m THEN {card} ELSE {})
             /\ Lists(n, flight') = Lists(n, flight)
             /\ Unserved(n, flight) => Unserved(n, flight')
  <2>1. /\ Answers(n, flight') \subseteq Answers(n, flight)
        /\ Answers(n, flight) \subseteq Answers(n, flight') \union
             (IF flight[r].kind \in {"read", "level"} /\ flight[r].msg = n
              THEN {flight[r].answer[n]} ELSE {})
        /\ Lists(n, flight') \subseteq Lists(n, flight)
        /\ Lists(n, flight) \subseteq Lists(n, flight') \union
             (IF flight[r].kind = "list" /\ flight[r].served /\ flight[r].source = SourceOf[n]
              THEN {flight[r].answer[n]} ELSE {})
        /\ Unserved(n, flight) => \/ Unserved(n, flight')
                                  \/ flight[r].kind = "list" /\ ~flight[r].served
    BY <1>2, OneDone
  <2> QED
    BY <1>1, <2>1
<1>4. card \in Answers(m, flight) /\ card \in Bases(m)
  BY DEF Answers, Bases
<1>5. \A n \in Messages : Bases(n)' \subseteq Bases(n) /\ Pending(n)' = Pending(n)
  BY <1>3 DEF Bases, Pending
<1>6. /\ missed' \in [Messages -> 0..MaxVersion] /\ covered' \in [Messages -> Nat]
      /\ \A n \in Messages : /\ missed[n] <= missed'[n] /\ covered[n] <= covered'[n]
                             /\ taken'[n] \in Nat
                             /\ taken[n] <= taken'[n] \/ taken[n] <= covered'[n]
                             /\ n # m => taken'[n] = taken[n] /\ screen'[n] = screen[n]
      /\ \/ /\ screen[m] = NoCard /\ screen' = screen /\ taken' = taken
            /\ card.ver <= missed'[m]
         \/ /\ screen[m] # NoCard /\ screen'[m] = card /\ taken'[m] = card.ver
            /\ Belongs(card) \/ taken'[m] < covered'[m]
         \/ /\ screen[m] # NoCard /\ screen'[m] = card /\ ~Belongs(card)
            /\ taken[m] <= card.ver /\ UNCHANGED <<taken, covered, missed>>
  BY <1>1, ReplaceOnRecord
<1>7. Versions'
  <2>1. \A q \in Requests : flight'[q].kind \in {"read", "level"} => flight'[q] = flight[q]
    BY <1>2
  <2> QED
    BY <1>1, <1>5, <1>6, <2>1 DEF Versions
<1>8. ASSUME NEW n \in Messages, NEW b \in Nat, Out(n, b) PROVE Out(n, b)'
  <2>1. missed[n] \in Nat /\ covered[n] \in Nat /\ taken[n] \in Nat /\ taken'[n] \in Nat
        /\ missed'[n] \in Nat /\ covered'[n] \in Nat
    BY <1>1, <1>6, ListNumbers, FeedNumbers
  <2> QED
    BY <1>3, <1>5, <1>6, <1>8, <2>1 DEF Out
<1>9. ASSUME NEW c, c.ver \in Nat, card = rows[m], c.ver < card.ver
      PROVE  Out(m, c.ver)' \/ (view.asked = "high" /\ card.level = "NORMAL")
  <2>1. card.ver \in Nat /\ missed'[m] \in Nat
    BY <1>1, <1>4, <1>6, ListNumbers, FeedNumbers
  <2>2. CASE card.ver <= missed'[m] \/ taken'[m] = card.ver
    BY <1>9, <2>1, <2>2 DEF Out
  <2>3. CASE ~Belongs(card)
    BY <1>1, <2>3 DEF Belongs, Card, Levels, Versions
  <2> QED
    BY <1>6, <2>2, <2>3
<1>10. ASSUME NEW n \in Messages, NEW c, c.ver \in Nat, Fine(n, c) PROVE Fine(n, c)'
  <2>1. Out(n, c.ver) => Out(n, c.ver)'
    BY <1>8, <1>10
  <2>2. CASE rows[n] \in Answers(n, flight) => rows[n] \in Answers(n, flight')
    BY <1>3, <1>10, <2>1, <2>2, FineStays
  <2>3. CASE n = m /\ card = rows[m]
    <3>1. \/ c.ver < rows[n].ver => Out(n, c.ver)'
          \/ view.asked = "high" /\ (c.level = rows[n].level => c.level = "NORMAL")
      BY <1>9, <1>10, <2>3
    <3> QED
      BY <1>3, <1>10, <2>1, <3>1, FineStays
  <2> QED
    BY <1>3, <2>2, <2>3
<1>11. card # NoCard
  <2>1. FeedShapes /\ flight[r].msg \in Messages
    BY <1>1
  <2>2. 0 < card.ver
    BY <2>1, OneAnswer
  <2> QED
    BY <2>2, FeedConstants
<1>12. ASSUME ScreenFine(m), SourceOf[m] = view.source PROVE ScreenFine(m)'
  <2>1. /\ taken[m] \in Nat /\ taken'[m] \in Nat /\ card.ver \in Nat /\ screen[m].ver \in Nat
        /\ card.ver <= rows[m].ver /\ rows[m].ver \in Nat
        /\ card.ver = rows[m].ver => card = rows[m]
    BY <1>1, <1>4, <1>6, ListNumbers, FeedNumbers
  <2>2. CASE screen[m] = NoCard
    <3>1. screen'[m] = screen[m] /\ taken'[m] = taken[m]
      BY <1>6, <2>2
    <3>2. Out(m, taken[m]) => Out(m, taken[m])'
      BY <1>8, <2>1, <3>1
    <3> QED
      BY <1>12, <2>2, <3>1, <3>2, ScreenStays
  <2>3. CASE /\ screen[m] # NoCard /\ screen'[m] = card /\ taken'[m] = card.ver
             /\ Belongs(card) \/ taken'[m] < covered'[m]
    <3>1. CASE taken'[m] < covered'[m]
      BY <3>1 DEF ScreenFine, Out
    <3>2. CASE Belongs(card)
      <4>1. view.asked = "high" => card.level = "HIGH"
        BY <1>1, <3>2 DEF Belongs, Versions
      <4>2. Fine(m, card)
        BY <1>4, <1>12 DEF ListInv, AllFine
      <4>3. Fine(m, card)'
        BY <1>10, <2>1, <4>2
      <4> QED
        BY <1>11, <2>3, <4>1, <4>3 DEF ScreenFine
    <3> QED
      BY <2>3, <3>1, <3>2
  <2>4. CASE /\ screen[m] # NoCard /\ screen'[m] = card /\ ~Belongs(card)
             /\ taken[m] <= card.ver /\ UNCHANGED <<taken, covered, missed>>
    <3>1. view.asked = "high" /\ card.level = "NORMAL"
      BY <1>1, <2>4 DEF Belongs, Versions, Card, Levels
    <3>2. Out(m, taken[m])
      <4>1. PICK s : s = screen[m]
        OBVIOUS
      <4>2. ASSUME s.ver = taken[m], Fine(m, s), s.level = "HIGH", ~Out(m, s.ver) PROVE FALSE
        <5>1. CASE rows[m] = s
          <6>1. card.ver = rows[m].ver
            BY <2>1, <2>4, <4>2, <5>1
          <6> QED
            BY <2>1, <3>1, <4>2, <5>1, <6>1
        <5>2. CASE ReadSince(s, rows[m], Answers(m, flight), view.asked = "high")
          <6>1. card = rows[m] \/ card = s \/ card.ver < s.ver
            BY <1>4, <5>2 DEF ReadSince
          <6>2. rows[m].level = s.level
            BY <5>2 DEF ReadSince
          <6> QED
            BY <2>1, <2>4, <3>1, <4>2, <6>1, <6>2
        <5> QED
          BY <4>2, <5>1, <5>2 DEF Fine
      <4> QED
        BY <1>12, <2>4, <3>1, <4>1, <4>2 DEF ScreenFine
    <3>3. Out(m, taken[m])'
      BY <1>8, <2>1, <2>4, <3>2
    <3> QED
      BY <3>3 DEF ScreenFine
  <2> QED
    BY <1>6, <2>2, <2>3, <2>4
<1>13. ASSUME NEW n \in Messages, n # m, ScreenFine(n) PROVE ScreenFine(n)'
  <2>1. taken[n] \in Nat /\ screen[n].ver \in Nat /\ taken'[n] = taken[n] /\ screen'[n] = screen[n]
    BY <1>1, <1>6, <1>13, ListNumbers
  <2> QED
    BY <1>8, <1>10, <1>13, <2>1, ScreenStays
<1>14. Quiet' => Quiet
  BY <1>1, <1>2 DEF Quiet
<1>15. \A n \in Messages : screen'[n] # NoCard => screen[n] # NoCard
  BY <1>6
<1>16. \A n \in Messages : \A c \in Bases(n)' : c \in Bases(n) /\ (Fine(n, c) => Fine(n, c)')
  BY <1>1, <1>5, <1>10, ListNumbers
<1>17. \A n \in Messages : SourceOf[n] = view.source /\ ScreenFine(n) => ScreenFine(n)'
  BY <1>12, <1>13
<1> QED
  BY <1>7, <1>14, <1>15, <1>16, <1>17, StillListed

LEMMA ReceiveAnswerOnList ==
  ASSUME FeedInv, ListInv, NEW r \in Requests, ReceiveRead(r) \/ ReceiveLevel(r) PROVE ListInv'
<1> DEFINE m == flight[r].msg
           card == flight[r].answer[m]
<1>1. /\ flight[r].kind \in {"read", "level"} /\ flight[r].served /\ Replace(m, card)
      /\ Done(r) /\ opened' = m /\ UNCHANGED <<rows, wire, slot, effects, view, loaded>>
  BY DEF ReceiveRead, ReceiveLevel, Ready, server
<1>2. m \in Messages /\ card \in Card
  BY <1>1, OneAnswer DEF FeedInv
<1> QED
  BY <1>1, <1>2, AnsweredOnList

\* The request failed or its answer was lost: what it was about is on record as missed.
LEMMA FailsOnList == ASSUME FeedInv, ListInv, NEW r \in Requests, Fails(r) PROVE ListInv'
<1> DEFINE all == IF flight[r].kind = "list" THEN Messages ELSE {flight[r].msg}
           past == {[msg |-> m, card |-> rows[m]] : m \in all}
<1>1. /\ missed' = Past(past) /\ Done(r)
      /\ loaded' = IF flight[r].kind = "list" THEN NotLoaded ELSE loaded
      /\ UNCHANGED <<rows, wire, slot, effects, view, screen, opened, taken, covered>>
  BY DEF Fails, server, browser
<1>2. Versions /\ FeedShapes
  BY DEF ListInv, FeedInv
<1>3. /\ missed' \in [Messages -> 0..MaxVersion]
      /\ \A m \in Messages : /\ missed[m] <= missed'[m]
                             /\ m \in all => rows[m].ver <= missed'[m]
  <2>1. \A e \in past : e.msg \in Messages => e.card.ver \in 0..MaxVersion
    BY <1>2, ListNumbers
  <2>2. ASSUME NEW m \in Messages, m \in all
        PROVE  \E e \in past : e.msg = m /\ e.card = rows[m]
    <3> DEFINE e == [msg |-> m, card |-> rows[m]]
    <3>1. e \in past /\ e.msg = m /\ e.card = rows[m]
      BY <2>2
    <3> QED
      BY <3>1
  <2> HIDE DEF all, past
  <2>3. missed \in [Messages -> 0..MaxVersion]
    BY <1>2 DEF Versions
  <2> QED
    BY <1>1, <2>1, <2>2, <2>3, PastIsHigher
<1>4. flight'[r].kind = "idle" /\ \A q \in Requests : q # r => flight'[q] = flight[q]
  BY <1>1, <1>2, Finishing
<1>5. ASSUME NEW m \in Messages
      PROVE  /\ Answers(m, flight') \subseteq Answers(m, flight)
             /\ Lists(m, flight') \subseteq Lists(m, flight)
             /\ m \notin all => /\ Answers(m, flight') = Answers(m, flight)
                                /\ Lists(m, flight') = Lists(m, flight)
                                /\ Unserved(m, flight) => Unserved(m, flight')
             /\ flight[r].kind # "list" => /\ Lists(m, flight') = Lists(m, flight)
                                           /\ Unserved(m, flight) => Unserved(m, flight')
  <2>1. /\ Answers(m, flight') \subseteq Answers(m, flight)
        /\ Answers(m, flight) \subseteq Answers(m, flight') \union
             (IF flight[r].kind \in {"read", "level"} /\ flight[r].msg = m
              THEN {flight[r].answer[m]} ELSE {})
        /\ Lists(m, flight') \subseteq Lists(m, flight)
        /\ Lists(m, flight) \subseteq Lists(m, flight') \union
             (IF flight[r].kind = "list" /\ flight[r].served /\ flight[r].source = SourceOf[m]
              THEN {flight[r].answer[m]} ELSE {})
        /\ Unserved(m, flight) => \/ Unserved(m, flight')
                                  \/ flight[r].kind = "list" /\ ~flight[r].served
    BY <1>4, OneDone
  <2> QED
    BY <2>1
<1>6. \A m \in Messages : Bases(m)' \subseteq Bases(m)
  BY <1>1, <1>5 DEF Bases
<1>7. Versions'
  <2>1. \A q \in Requests : flight'[q].kind \in {"read", "level"} => flight'[q] = flight[q]
    BY <1>4
  <2> QED
    BY <1>1, <1>2, <1>3, <1>6, <2>1 DEF Versions
<1> HIDE DEF past
<1>8. ASSUME NEW m \in Messages, NEW b \in Nat, b < rows[m].ver, m \in all PROVE Out(m, b)'
  <2>1. rows[m].ver \in Nat /\ missed'[m] \in Nat /\ rows[m].ver <= missed'[m]
    BY <1>2, <1>3, <1>8, ListNumbers
  <2> QED
    BY <1>8, <2>1 DEF Out
<1>9. ASSUME NEW m \in Messages, NEW b \in Nat, Out(m, b),
             m \notin all \/ flight[r].kind # "list"
      PROVE  Out(m, b)'
  <2>1. missed[m] \in Nat /\ missed'[m] \in Nat /\ Pending(m)' = Pending(m)
    BY <1>1, <1>2, <1>3, <1>5, <1>9, ListNumbers, FeedNumbers DEF Pending
  <2> QED
    BY <1>1, <1>3, <1>5, <1>9, <2>1 DEF Out
<1>10. ASSUME NEW m \in Messages, NEW c, c.ver \in Nat, Fine(m, c),
              c.ver < rows[m].ver \/ c = rows[m] \/ flight[r].kind # "list"
       PROVE  Fine(m, c)'
  <2>1. CASE c = rows[m]
    BY <1>1, <2>1 DEF Fine
  <2>2. CASE m \in all /\ c.ver < rows[m].ver
    BY <1>8, <1>10, <2>2 DEF Fine
  <2>3. CASE c # rows[m] /\ ~(m \in all /\ c.ver < rows[m].ver)
    <3>1. m \notin all \/ flight[r].kind # "list"
      BY <1>10, <2>3
    <3>2. Out(m, c.ver) => Out(m, c.ver)'
      BY <1>9, <1>10, <3>1
    <3>3. CASE m \notin all
      BY <1>1, <1>5, <1>10, <3>2, <3>3, FineStays
    <3>4. CASE m \in all
      <4>1. c.ver < rows[m].ver => Out(m, c.ver)'
        BY <2>3, <3>4
      <4> QED
        BY <1>1, <1>5, <1>10, <3>2, <4>1, FineStays
    <3> QED
      BY <3>3, <3>4
  <2> QED
    BY <2>1, <2>2, <2>3
<1>11. Quiet' => Quiet /\ flight[r].kind # "list"
  <2>1. CASE flight[r].kind = "list"
    BY <1>1, <2>1 DEF Quiet, NotLoaded
  <2>2. CASE flight[r].kind # "list"
    BY <1>1, <1>4, <2>2 DEF Quiet
  <2> QED
    BY <2>1, <2>2
<1>12. ASSUME NEW m \in Messages, ScreenFine(m), flight[r].kind # "list" PROVE ScreenFine(m)'
  <2>1. taken[m] \in Nat /\ screen[m].ver \in Nat
    BY <1>2, ListNumbers
  <2>2. Out(m, taken[m]) => Out(m, taken[m])'
    BY <1>1, <1>9, <1>12, <2>1
  <2>3. Fine(m, screen[m]) => Fine(m, screen[m])'
    BY <1>1, <1>10, <1>12, <2>1
  <2> QED
    BY <1>1, <1>12, <2>2, <2>3, ScreenStays
<1>13. ASSUME NEW m \in Messages
       PROVE  \A c \in Bases(m)' : c \in Bases(m) /\ (Fine(m, c) => Fine(m, c)')
  <2>1. \A c \in Bases(m) : c.ver \in Nat /\ (c.ver < rows[m].ver \/ c = rows[m])
    BY <1>2, ListNumbers, FeedNumbers
  <2> QED
    BY <1>6, <1>10, <2>1
<1> QED
  BY <1>1, <1>7, <1>11, <1>12, <1>13, StillListed

\* The list is replaced by the answer: what the answer said was fine.
LEMMA ReceiveListOnList ==
  ASSUME FeedInv, ListInv, NEW r \in Requests, ReceiveList(r) PROVE ListInv'
<1> DEFINE q == flight[r]
           vers == [m \in Messages |-> q.answer[m].ver]
<1>1. /\ flight[r].kind = "list" /\ flight[r].served /\ Done(r) /\ TakeIn(vers)
      /\ screen' = Selection(flight[r].answer, flight[r].source, flight[r].filter)
      /\ loaded' = [source |-> flight[r].source, filter |-> flight[r].filter]
      /\ UNCHANGED <<rows, wire, slot, effects, view, opened, missed>>
  BY DEF ReceiveList, Ready, server
<1>2. Versions /\ FeedShapes /\ taken \in [Messages -> Nat] /\ covered \in [Messages -> Nat]
      /\ flight[r].kind \notin {"read", "level"}
  BY <1>1 DEF ListInv, FeedInv, Versions, FeedShapes
<1>3. flight'[r].kind = "idle" /\ \A x \in Requests : x # r => flight'[x] = flight[x]
  BY <1>1, <1>2, Finishing
<1>4. vers \in [Messages -> Nat] /\ \A m \in Messages : vers[m] = flight[r].answer[m].ver
  <2>1. flight[r].answer \in [Messages -> Card]
    BY <1>2 DEF FeedShapes, RightRequests, RightRequest, Below
  <2> QED
    BY <2>1, FeedNumbers DEF Card
<1> HIDE DEF vers
<1>5. /\ taken' = vers /\ covered' \in [Messages -> Nat]
      /\ \A m \in Messages : /\ covered[m] <= covered'[m]
                             /\ vers[m] < taken[m] => taken[m] <= covered'[m]
  BY <1>1, <1>2, <1>4, Taking
<1>6. ASSUME NEW m \in Messages
      PROVE  /\ Answers(m, flight') = Answers(m, flight)
             /\ Lists(m, flight') \subseteq Lists(m, flight)
             /\ \A c \in Lists(m, flight) : c \in Lists(m, flight') \/ c.ver = taken'[m]
             /\ Unserved(m, flight) => Unserved(m, flight')
  <2>1. /\ Answers(m, flight') \subseteq Answers(m, flight)
        /\ Answers(m, flight) \subseteq Answers(m, flight') \union
             (IF flight[r].kind \in {"read", "level"} /\ flight[r].msg = m
              THEN {flight[r].answer[m]} ELSE {})
        /\ Lists(m, flight') \subseteq Lists(m, flight)
        /\ Lists(m, flight) \subseteq Lists(m, flight') \union
             (IF flight[r].kind = "list" /\ flight[r].served /\ flight[r].source = SourceOf[m]
              THEN {flight[r].answer[m]} ELSE {})
        /\ Unserved(m, flight) => \/ Unserved(m, flight')
                                  \/ flight[r].kind = "list" /\ ~flight[r].served
    BY <1>3, OneDone
  <2> QED
    BY <1>1, <1>2, <1>4, <1>5, <2>1
<1>7. \A m \in Messages : Bases(m)' \subseteq Bases(m)
  BY <1>1, <1>6 DEF Bases
<1>8. Versions'
  <2>1. \A x \in Requests : flight'[x].kind \in {"read", "level"} => flight'[x] = flight[x]
    BY <1>3
  <2> QED
    BY <1>1, <1>2, <1>5, <1>7, <2>1 DEF Versions
<1>9. ASSUME NEW m \in Messages, NEW b \in Nat, Out(m, b) PROVE Out(m, b)'
  <2>1. taken[m] \in Nat /\ taken'[m] \in Nat /\ covered[m] \in Nat /\ covered'[m] \in Nat
        /\ (taken[m] <= taken'[m] \/ taken[m] <= covered'[m]) /\ covered[m] <= covered'[m]
    BY <1>2, <1>4, <1>5
  <2>2. \A c \in Pending(m) : c \in Pending(m)' \/ c.ver = taken'[m]
    BY <1>1, <1>6 DEF Pending
  <2> QED
    BY <1>1, <1>6, <1>9, <2>1, <2>2 DEF Out
<1>10. ASSUME NEW m \in Messages, NEW c, c.ver \in Nat, Fine(m, c) PROVE Fine(m, c)'
  BY <1>1, <1>6, <1>9, <1>10, FineStays
<1>11. AllFine'
  <2>1. ASSUME NEW m \in Messages, SourceOf[m] = view'.source, NEW c \in Bases(m)'
        PROVE  Fine(m, c)'
    <3>1. c \in Bases(m) /\ SourceOf[m] = view.source
      BY <1>1, <1>7, <2>1
    <3>2. c.ver \in Nat /\ Fine(m, c)
      BY <1>2, <3>1, ListNumbers DEF ListInv, AllFine
    <3> QED
      BY <1>10, <3>2
  <2> QED
    BY <2>1 DEF AllFine
<1>12. ASSUME Quiet', NEW m \in Messages
       PROVE  /\ screen'[m] # NoCard => /\ SourceOf[m] = view'.source
                                        /\ view'.asked = "search" => m \in Found
              /\ SourceOf[m] = view'.source => ScreenFine(m)'
  <2>1. flight[r].source = view.source /\ flight[r].filter = view.asked
    BY <1>1, <1>12 DEF Quiet
  <2>2. screen'[m] = IF SourceOf[m] = view.source
                          /\ Passes(m, flight[r].answer[m], view.asked)
                     THEN flight[r].answer[m] ELSE NoCard
    BY <1>1, <2>1 DEF Selection
  <2>3. screen'[m] # NoCard => /\ SourceOf[m] = view'.source
                               /\ view'.asked = "search" => m \in Found
    BY <1>1, <2>2 DEF Passes
  <2>4. ASSUME SourceOf[m] = view.source PROVE ScreenFine(m)'
    <3>1. PICK c : c = flight[r].answer[m]
      OBVIOUS
    <3>2. c \in Bases(m) /\ c.ver = taken'[m]
      BY <1>1, <1>4, <1>5, <2>1, <2>4, <3>1 DEF Bases, Lists
    <3>3. c.ver \in Nat /\ Fine(m, c)
      BY <1>2, <2>4, <3>2, ListNumbers DEF ListInv, AllFine
    <3>4. Fine(m, c)'
      BY <1>10, <3>3
    <3>5. CASE Passes(m, c, view.asked)
      <4>1. screen'[m] = c /\ c # NoCard /\ (view.asked = "high" => c.level = "HIGH")
        BY <2>2, <2>4, <3>1, <3>5 DEF Passes
      <4> QED
        BY <1>1, <3>2, <3>4, <4>1 DEF ScreenFine
    <3>6. CASE ~Passes(m, c, view.asked)
      <4>1. screen'[m] = NoCard
        BY <2>2, <3>1, <3>6
      <4>2. CASE Out(m, c.ver)'
        BY <3>2, <4>2 DEF ScreenFine
      <4>3. CASE c = rows'[m] \/ ReadSince(c, rows'[m], Answers(m, flight'), view'.asked = "high")
        <5>1. ~Passes(m, rows'[m], view.asked)
          <6>1. c = rows'[m] \/ (c # NoCard /\ rows'[m].level = c.level /\ rows'[m].read)
            BY <4>3 DEF ReadSince
          <6> QED
            BY <3>6, <6>1 DEF Passes
        <5> QED
          BY <1>1, <4>1, <5>1 DEF ScreenFine
      <4> QED
        BY <3>4, <4>2, <4>3 DEF Fine
    <3> QED
      BY <3>5, <3>6
  <2> QED
    BY <1>1, <2>3, <2>4
<1>13. ListFine'
  BY <1>12 DEF ListFine
<1> QED
  BY <1>8, <1>11, <1>13 DEF ListInv

\* The requests that leave after a render.
LEMMA CommitAsks ==
  ASSUME FeedInv, Commit
  PROVE  /\ \A r \in Requests :
              \/ flight'[r] = flight[r]
              \/ /\ flight[r].kind = "idle" /\ flight'[r].kind = "list"
                 /\ flight'[r].served = FALSE /\ flight'[r].source = view.source
         /\ Loads = {} => flight' = flight
         /\ Loads # {} => \E r \in Requests : /\ flight'[r].kind = "list"
                                              /\ flight'[r].served = FALSE
                                              /\ flight'[r].source = view.source
<1> DEFINE g == Idle
           q == [g EXCEPT !.kind = "list", !.source = view.source, !.filter = view.asked]
<1>1. Asks(Cardinality(Loads), q)
  BY DEF Commit
<1>2. g \in FeedRequest /\ g.kind = "idle" /\ g.served = FALSE
  BY FeedConstants DEF Idle
<1>3. q.kind = "list" /\ q.served = FALSE /\ q.source = view.source
  <2> HIDE DEF g
  <2> QED
    BY <1>2 DEF FeedRequest
<1> HIDE DEF q
<1>4. PICK free \in SUBSET {r \in Requests : flight[r] = g} :
        /\ Cardinality(free) = Cardinality(Loads)
        /\ flight' = [r \in Requests |-> IF r \in free THEN q ELSE flight[r]]
  BY <1>1 DEF Asks
<1> HIDE DEF g
<1>5. IsFiniteSet(free) /\ IsFiniteSet(Loads)
  <2>1. free \in SUBSET Requests /\ IsFiniteSet(Requests)
    BY FeedOK DEF FeedOK
  <2>2. Loads \subseteq {"load"} \union {"event"}
    BY DEF Loads
  <2>3. IsFiniteSet({"load"} \union {"event"})
    BY FS_Singleton, FS_AddElement
  <2> QED
    BY <2>1, <2>2, <2>3, FS_Subset
<1>6. free = {} <=> Loads = {}
  BY <1>4, <1>5, FS_EmptySet
<1>7. \A r \in Requests : flight'[r] = IF r \in free THEN q ELSE flight[r]
  BY <1>4
<1>8. flight = [r \in Requests |-> flight[r]]
  BY DEF FeedInv, FeedShapes, RightRequests
<1> QED
  BY <1>2, <1>3, <1>4, <1>6, <1>7, <1>8

\* The event is inserted, takes the place of a card or goes past the list.
LEMMA ApplyOnRecord ==
  ASSUME FeedInv, Versions, NEW m \in Messages, m = slot.msg, NEW card \in Card,
         card = slot.card, view.filter = "all", ApplyEvent
  PROVE  /\ missed' \in [Messages -> 0..MaxVersion] /\ covered' \in [Messages -> Nat]
         /\ \A n \in Messages : /\ missed[n] <= missed'[n] /\ covered[n] <= covered'[n]
                                /\ taken'[n] \in Nat
                                /\ taken[n] <= taken'[n] \/ taken[n] <= covered'[n]
                                /\ n # m => taken'[n] = taken[n] /\ screen'[n] = screen[n]
         /\ \/ /\ screen[m] = NoCard /\ screen' = screen /\ taken' = taken
               /\ card.ver <= missed'[m]
            \/ screen'[m] = card /\ taken'[m] = card.ver
<1>1. Belongs(card)
  BY DEF Belongs
<1>2. CASE Replace(m, card)
  BY <1>1, <1>2, ReplaceOnRecord
<1>3. CASE Insert(m, card) /\ screen[m] = NoCard
  <2>1. /\ screen' = [screen EXCEPT ![m] = card] /\ TakeIn([taken EXCEPT ![m] = card.ver])
        /\ missed' = missed
    BY <1>3 DEF Insert
  <2>2. /\ missed \in [Messages -> 0..MaxVersion] /\ screen \in [Messages -> Card]
        /\ card.ver \in Nat
    BY FeedNumbers DEF FeedInv, FeedShapes, Versions, Below, Card
  <2>3. screen'[m] = card /\ \A n \in Messages : n # m => screen'[n] = screen[n]
    BY <2>1, <2>2
  <2>4. /\ covered' \in [Messages -> Nat] /\ taken' \in [Messages -> Nat]
        /\ taken'[m] = card.ver
        /\ \A n \in Messages : /\ covered[n] <= covered'[n]
                               /\ taken[n] <= taken'[n] \/ taken[n] <= covered'[n]
                               /\ n # m => taken'[n] = taken[n]
    BY <2>1, <2>2, OneTaken
  <2>5. \A n \in Messages : missed[n] <= missed'[n]
    BY <2>1, <2>2, FeedNumbers
  <2> QED
    BY <2>1, <2>2, <2>3, <2>4, <2>5
<1> QED
  BY <1>2, <1>3 DEF ApplyEvent, Insert

\* After a render: a load leaves, or the event is applied, or it is of another source.
LEMMA CommitOnList == ASSUME FeedInv, ListInv, Commit PROVE ListInv'
<1>1. /\ effects' = {}
      /\ IF Concerned /\ ~Filtered THEN ApplyEvent
         ELSE UNCHANGED <<screen, taken, missed, covered, loaded>>
      /\ UNCHANGED <<rows, wire, slot, view, opened>>
  BY DEF Commit, server, history
<1>2. Versions /\ FeedShapes /\ missed \in [Messages -> 0..MaxVersion]
      /\ covered \in [Messages -> Nat] /\ taken \in [Messages -> Nat]
  BY DEF ListInv, FeedInv, Versions, FeedShapes
<1>3. \A m \in Messages : SourceOf[m] # Nobody /\ m # Nobody
  BY FeedOK DEF FeedOK
<1>4. ASSUME Concerned, ~Filtered
      PROVE  \E m \in Messages, card \in Card :
               /\ m = slot.msg /\ card = slot.card /\ card # NoCard
               /\ SourceOf[m] = view.source /\ view.filter = "all" /\ ApplyEvent
  <2>1. RightEvent(slot, rows)
    BY <1>2, <1>4 DEF Concerned, FeedShapes
  <2>2. slot.msg \in Messages /\ slot.card \in Card /\ slot.card # NoCard
    BY <2>1, FeedConstants DEF RightEvent, StreamEvent
  <2> QED
    BY <1>1, <1>4, <2>2 DEF Concerned, Filtered
<1>5. /\ missed' \in [Messages -> 0..MaxVersion] /\ covered' \in [Messages -> Nat]
      /\ \A n \in Messages : /\ missed[n] <= missed'[n] /\ covered[n] <= covered'[n]
                             /\ taken'[n] \in Nat
                             /\ taken[n] <= taken'[n] \/ taken[n] <= covered'[n]
  <2>1. CASE Concerned /\ ~Filtered
    BY <1>2, <1>4, <2>1, ApplyOnRecord
  <2>2. CASE ~(Concerned /\ ~Filtered)
    BY <1>1, <1>2, <2>2, FeedNumbers
  <2> QED
    BY <2>1, <2>2
<1>6. \A m \in Messages : /\ Answers(m, flight') = Answers(m, flight)
                          /\ Lists(m, flight') = Lists(m, flight)
                          /\ Unserved(m, flight) => Unserved(m, flight')
  <2>1. \A r \in Requests : \/ flight'[r] = flight[r]
                            \/ flight[r].kind = "idle" /\ flight'[r].served = FALSE
    BY CommitAsks
  <2> QED
    BY <2>1, LaterAsked
<1>7. \A m \in Messages : Bases(m)' = Bases(m)
  BY <1>1, <1>6 DEF Bases
<1>8. Versions'
  <2>1. \A r \in Requests : flight'[r].kind \in {"read", "level"} => flight'[r] = flight[r]
    BY CommitAsks
  <2> QED
    BY <1>1, <1>2, <1>5, <1>7, <2>1 DEF Versions
<1>9. CASE Loads # {}
  <2>1. PICK r \in Requests : /\ flight'[r].kind = "list" /\ flight'[r].served = FALSE
                              /\ flight'[r].source = view.source
    BY <1>9, CommitAsks
  <2>2. \A m \in Messages : SourceOf[m] = view.source => Unserved(m, flight')
    BY <2>1 DEF Unserved
  <2>3. AllFine'
    BY <1>1, <2>2 DEF AllFine, Fine, Out
  <2>4. ListFine'
    BY <2>1 DEF ListFine, Quiet
  <2> QED
    BY <1>8, <2>3, <2>4 DEF ListInv
<1>10. CASE Loads = {}
  <2>1. /\ flight' = flight /\ (view.source # Nobody => "load" \notin effects)
        /\ Concerned => ~Filtered
    BY <1>10, CommitAsks DEF Loads
  <2>2. ASSUME NEW m \in Messages, SourceOf[m] = view.source, NEW b \in Nat, Out(m, b)
        PROVE  Out(m, b)'
    <3>1. "load" \notin effects /\ missed[m] \in Nat /\ missed'[m] \in Nat /\ taken[m] \in Nat
          /\ taken'[m] \in Nat /\ covered[m] \in Nat /\ covered'[m] \in Nat
      BY <1>2, <1>3, <1>5, <2>1, <2>2
    <3>2. CASE "event" \in effects /\ slot.msg = m /\ b < slot.card.ver
      <4>1. Concerned /\ ~Filtered
        BY <1>3, <2>1, <2>2, <3>2 DEF Concerned, NoEvent
      <4>2. PICK card \in Card : /\ m = slot.msg /\ card = slot.card
                                 /\ view.filter = "all" /\ ApplyEvent
        BY <1>4, <3>2, <4>1
      <4>3. card.ver <= missed'[m] \/ taken'[m] = card.ver
        BY <1>2, <4>2, ApplyOnRecord
      <4>4. card.ver \in Nat /\ b < card.ver
        BY <3>2, <4>2, FeedNumbers DEF Card
      <4> QED
        BY <3>1, <4>3, <4>4 DEF Out
    <3>3. CASE \E c \in Sending(m, wire) \union Lists(m, flight) : b < c.ver
      BY <1>1, <2>1, <3>3 DEF Out, Pending
    <3>4. CASE Unserved(m, flight) \/ b < taken[m] \/ b < missed[m] \/ b < covered[m]
      BY <1>5, <1>6, <3>1, <3>4 DEF Out
    <3> QED
      BY <2>2, <3>1, <3>2, <3>3, <3>4 DEF Out, Pending, Held
  <2>3. ASSUME NEW m \in Messages, SourceOf[m] = view.source, NEW c, c.ver \in Nat, Fine(m, c)
        PROVE  Fine(m, c)'
    BY <1>1, <2>1, <2>2, <2>3, FineStays
  <2>4. Quiet' => Quiet /\ (Concerned => view.asked = "all")
    BY <1>1, <2>1 DEF Quiet, ApplyEvent, NotLoaded
  <2>5. ASSUME NEW m \in Messages, SourceOf[m] = view.source, Quiet', ScreenFine(m),
               screen'[m] = screen[m], taken'[m] = taken[m]
        PROVE  ScreenFine(m)'
    <3>1. taken[m] \in Nat /\ screen[m].ver \in Nat
      BY <1>2, ListNumbers
    <3> QED
      BY <1>1, <2>2, <2>3, <2>5, <3>1, ScreenStays
  <2>6. CASE ~Concerned
    <3>1. UNCHANGED <<screen, taken>>
      BY <1>1, <2>6
    <3>2. \A m \in Messages : SourceOf[m] = view.source =>
            /\ \A c \in Bases(m)' : c \in Bases(m) /\ (Fine(m, c) => Fine(m, c)')
            /\ Quiet' /\ ScreenFine(m) => ScreenFine(m)'
      BY <1>2, <1>7, <2>3, <2>5, <3>1, ListNumbers
    <3> QED
      BY <1>1, <1>8, <2>4, <3>1, <3>2, StillListed
  <2>7. CASE Concerned
    <3>1. PICK x \in Messages, card \in Card :
            /\ x = slot.msg /\ card = slot.card /\ card # NoCard
            /\ SourceOf[x] = view.source /\ view.filter = "all" /\ ApplyEvent
      BY <1>4, <2>1, <2>7
    <3>2. /\ \A n \in Messages : n # x => taken'[n] = taken[n] /\ screen'[n] = screen[n]
          /\ \/ screen' = screen /\ taken' = taken
             \/ screen'[x] = card /\ taken'[x] = card.ver
      BY <1>2, <3>1, ApplyOnRecord
    <3>3. card \in Bases(x) /\ card.ver \in Nat
      BY <3>1, FeedNumbers DEF Bases, Held, Card
    <3>4. Fine(x, card)'
      BY <2>3, <3>1, <3>3 DEF ListInv, AllFine
    <3>5. ASSUME Quiet', screen'[x] = card, taken'[x] = card.ver PROVE ScreenFine(x)'
      BY <1>1, <2>4, <2>7, <3>1, <3>4, <3>5 DEF ScreenFine
    <3>6. ASSUME NEW m \in Messages, SourceOf[m] = view.source
          PROVE  /\ \A c \in Bases(m)' : c \in Bases(m) /\ (Fine(m, c) => Fine(m, c)')
                 /\ Quiet' /\ ScreenFine(m) => ScreenFine(m)'
      <4>1. \A c \in Bases(m)' : c \in Bases(m) /\ (Fine(m, c) => Fine(m, c)')
        BY <1>2, <1>7, <2>3, <3>6, ListNumbers
      <4>2. Quiet' /\ ScreenFine(m) => ScreenFine(m)'
        BY <2>5, <3>2, <3>5, <3>6
      <4> QED
        BY <4>1, <4>2
    <3>7. Quiet' => Quiet /\ \A m \in Messages : screen'[m] # NoCard =>
                      screen[m] # NoCard \/ (SourceOf[m] = view.source /\ view.asked # "search")
      BY <2>4, <2>7, <3>1, <3>2
    <3> QED
      BY <1>1, <1>8, <3>6, <3>7, StillListed
  <2> QED
    BY <2>6, <2>7
<1> QED
  BY <1>9, <1>10

LEMMA ListBegins == FeedInit => ListInv
<1> SUFFICES ASSUME FeedInit PROVE ListInv
  OBVIOUS
<1>1. /\ rows = Nothing /\ wire = <<>> /\ slot = NoEvent
      /\ view = [source |-> Nobody, filter |-> "all", asked |-> "all"]
      /\ opened = Nobody /\ flight = [r \in Requests |-> Idle]
      /\ missed = [m \in Messages |-> 0] /\ covered = [m \in Messages |-> 0]
  BY DEF FeedInit
<1>2. \A m \in Messages : SourceOf[m] # Nobody /\ m # Nobody
  BY FeedOK DEF FeedOK
<1>3. Idle.kind = "idle"
  BY FeedConstants
<1>4. \A m \in Messages : Bases(m) = {}
  <2>1. \A m \in Messages : Answers(m, flight) = {} /\ Lists(m, flight) = {}
    BY <1>1, <1>3 DEF Answers, Lists
  <2>2. \A m \in Messages : Sending(m, wire) = {} /\ Held(m, slot) = {}
    BY <1>1, <1>2 DEF Sending, Held, NoEvent
  <2> QED
    BY <2>1, <2>2 DEF Bases
<1>5. Versions
  BY <1>1, <1>3, <1>4, FeedNumbers DEF Versions
<1>6. AllFine /\ ListFine
  BY <1>1, <1>2 DEF AllFine, ListFine, Quiet
<1> QED
  BY <1>5, <1>6 DEF ListInv

LEMMA ListStep == FeedInv /\ ListInv /\ [FeedNext]_feedVars => ListInv'
<1> SUFFICES ASSUME FeedInv, ListInv, [FeedNext]_feedVars PROVE ListInv'
  OBVIOUS
<1>1. CASE Server
  BY <1>1, ArriveOnList, AssessOnList, ReadElsewhereOnList, ServeListOnList, ServeReadOnList,
     ServeLevelOnList DEF Server
<1>2. CASE User
  BY <1>2, TurnStepsOnList, ClickOnList, DetailsOnList DEF User
<1>3. CASE Browser
  BY <1>3, ReceiveListOnList, ReceiveAnswerOnList, ReconnectOnList, DeliverOnList, CommitOnList,
     TurnStepsOnList DEF Browser
<1>4. CASE Failure
  BY <1>4, DropOnList, FailsOnList DEF Failure
<1>5. CASE UNCHANGED feedVars
  <2>1. UNCHANGED <<rows, wire, slot, effects, view, screen, opened, flight, taken, missed, covered,
                    loaded>>
    BY <1>5 DEF feedVars, server, browser, history
  <2>2. missed \in [Messages -> 0..MaxVersion] /\ \A m \in Messages : missed[m] <= missed[m]
    BY FeedNumbers DEF ListInv, Versions
  <2>3. \A m \in Messages : Bases(m)' = Bases(m) /\ Pending(m)' = Pending(m)
    BY <2>1 DEF Bases, Pending
  <2> QED
    BY <2>1, <2>2, <2>3, StillOnList
<1> QED
  BY <1>1, <1>2, <1>3, <1>4, <1>5 DEF FeedNext

(***************************************************************************)
(* When nothing is on its way, the list is what the server would answer,   *)
(* but for the messages whose last change went past it in one of the ways  *)
(* on record (useStream.ts, FeedScreen.tsx:58-104); for any messages,      *)
(* sources and filters and any number of requests that cross.              *)
(***************************************************************************)
THEOREM ListIsRight == FeedSpec => []ListAgrees
<1>1. FeedInv /\ ListInv => ListAgrees
  <2> SUFFICES ASSUME FeedInv, ListInv, Settled, view.source # Nobody,
                      loaded = [source |-> view.source, filter |-> view.filter],
                      NEW m \in Messages, missed[m] <= taken[m], covered[m] <= taken[m]
               PROVE  Agrees(m)
    BY DEF ListAgrees
  <2>1. /\ wire = <<>> /\ effects = {} /\ view.asked = view.filter
        /\ \A r \in Requests : flight[r].kind = "idle"
    BY FeedConstants DEF Settled
  <2>2. /\ screen[m] # NoCard => /\ SourceOf[m] = view.source
                                 /\ view.asked = "search" => m \in Found
        /\ SourceOf[m] = view.source => ScreenFine(m)
    BY <2>1 DEF ListInv, ListFine, Quiet
  <2>3. ~Out(m, taken[m]) /\ Answers(m, flight) = {}
    <3>1. Sending(m, wire) = {} /\ Lists(m, flight) = {} /\ ~Unserved(m, flight)
          /\ Answers(m, flight) = {}
      BY <2>1 DEF Sending, Lists, Unserved, Answers
    <3>2. taken[m] \in Nat /\ missed[m] \in Nat /\ covered[m] \in Nat
      BY ListNumbers DEF ListInv
    <3> QED
      BY <2>1, <3>1, <3>2 DEF Out, Pending
  <2>4. Selection(rows, view.source, view.filter)[m] =
          IF SourceOf[m] = view.source /\ Passes(m, rows[m], view.filter) THEN rows[m] ELSE NoCard
    BY DEF Selection
  <2>5. CASE SourceOf[m] # view.source
    BY <2>2, <2>4, <2>5 DEF Agrees
  <2>6. CASE SourceOf[m] = view.source /\ screen[m] = NoCard
    BY <2>1, <2>2, <2>3, <2>4, <2>6 DEF Agrees, ScreenFine
  <2>7. CASE SourceOf[m] = view.source /\ screen[m] # NoCard
    <3>1. /\ screen[m].ver = taken[m] /\ Fine(m, screen[m])
          /\ view.asked = "high" => screen[m].level = "HIGH"
      BY <2>2, <2>3, <2>7 DEF ScreenFine
    <3>2. rows[m] = screen[m]
      BY <2>3, <3>1 DEF Fine, ReadSince
    <3>3. Passes(m, rows[m], view.filter) \/ (view.filter = "unread" /\ rows[m].read)
      BY <2>1, <2>2, <2>7, <3>1, <3>2 DEF Passes
    <3> QED
      BY <2>4, <2>7, <3>2, <3>3 DEF Agrees
  <2> QED
    BY <2>5, <2>6, <2>7
<1>2. FeedInit => FeedInv /\ ListInv
  BY FeedBegins, ListBegins
<1>3. FeedInv /\ ListInv /\ [FeedNext]_feedVars => FeedInv' /\ ListInv'
  BY FeedStep, ListStep
<1> QED
  BY <1>1, <1>2, <1>3, PTL DEF FeedSpec

=============
