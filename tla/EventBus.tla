------------------------------- MODULE EventBus -------------------------------
(***************************************************************************)
(* The bus of events (internal/events/bus.go) and the handlers that stream *)
(* it to the browsers (internal/routers/stream.go).  Publish, Cursor and   *)
(* Since each hold the mutex, so each is one action; a handler goroutine   *)
(* runs per open stream and between two of its calls any number of events  *)
(* may be published.  An event is its number and its user; its name, its   *)
(* payload and the pings are left out.  The hook that Publish calls after  *)
(* the unlock is in CacheInvalidation.                                     *)
(***************************************************************************)
EXTENDS Integers, Sequences

CONSTANTS Users, Subscribers,
          UserOf,      \* the user whose stream a subscriber opens
          MaxLen,      \* maxLen: New replaces what is not positive by 200
          MaxEvents    \* bound on the events published, for TLC only

ASSUME ConstantsOK == /\ UserOf \in [Subscribers -> Users]
                      /\ MaxLen \in Nat \ {0}
                      /\ MaxEvents \in Nat

VARIABLES seq,         \* Bus.seq: number of the last event
          events,      \* Bus.events: the last MaxLen events
          pc,          \* subscriber |-> where its handler is
          cursor,      \* subscriber |-> the handler's cursor
          batch,       \* subscriber |-> events taken from the bus, not written yet
          got,         \* subscriber |-> events written to this connection
          log          \* history: the user of every event, oldest first

vars == <<seq, events, pc, cursor, batch, got, log>>

Init == /\ seq = 0 /\ events = <<>> /\ log = <<>>
        /\ pc = [s \in Subscribers |-> "off"]
        /\ cursor = [s \in Subscribers |-> 0]
        /\ batch = [s \in Subscribers |-> {}]
        /\ got = [s \in Subscribers |-> {}]

-----------------------------------------------------------------------------
(* The bus *)

Event == [seq : Nat, user : Users]

\* Mutants: nothing is dropped; a full ring loses one event too many; the
\* newest events are dropped.
TrimsEarly(ring) == IF Len(ring) >= MaxLen THEN SubSeq(ring, 2, Len(ring)) ELSE ring
NeverTrims(ring) == ring
KeepsOldest(ring) == IF Len(ring) > MaxLen THEN SubSeq(ring, 1, MaxLen) ELSE ring

\* The newest MaxLen events of a ring that has just grown.
Trim(ring) == IF Len(ring) > MaxLen
              THEN SubSeq(ring, Len(ring) - MaxLen + 1, Len(ring))
              ELSE ring

Publish(u) == /\ seq < MaxEvents
              /\ seq' = seq + 1
              /\ events' = Trim(Append(events, [seq |-> seq + 1, user |-> u]))
              /\ log' = Append(log, u)
              /\ UNCHANGED <<pc, cursor, batch, got>>

\* Mutants: the comparison lets the cursor's own event through; no user check.
SinceInclusive(user, from) ==
  {events[i].seq : i \in {j \in 1..Len(events) : /\ events[j].seq >= from
                                                 /\ events[j].user = user}}
SinceOfEveryone(user, from) ==
  {events[i].seq : i \in {j \in 1..Len(events) : events[j].seq > from}}

\* The numbers of the events the loop of Since collects; it walks the ring from
\* its oldest event, so they leave in the order of their places in the ring.
Since(user, from) ==
  {events[i].seq : i \in {j \in 1..Len(events) : /\ events[j].seq > from
                                                 /\ events[j].user = user}}

-----------------------------------------------------------------------------
(* handleStream *)

\* The headers and ": ok" are flushed: the browser takes the stream for open.
Open(s) == /\ pc[s] = "off"
           /\ pc' = [pc EXCEPT ![s] = "opened"]
           /\ UNCHANGED <<seq, events, cursor, batch, got, log>>

\* Only now does the handler note where the stream starts.
Subscribe(s) == /\ pc[s] = "opened"
                /\ pc' = [pc EXCEPT ![s] = "polling"]
                /\ cursor' = [cursor EXCEPT ![s] = seq]
                /\ UNCHANGED <<seq, events, batch, got, log>>

\* Mutant: the new cursor is not kept.
CursorStays(s) == /\ pc[s] = "polling" /\ batch[s] = {}
                  /\ batch' = [batch EXCEPT ![s] = Since(UserOf[s], cursor[s])]
                  /\ UNCHANGED <<seq, events, pc, cursor, got, log>>

\* A tick: the cursor moves to the bus's even when no event is this user's.
Poll(s) == /\ pc[s] = "polling" /\ batch[s] = {}
           /\ batch' = [batch EXCEPT ![s] = Since(UserOf[s], cursor[s])]
           /\ cursor' = [cursor EXCEPT ![s] = seq]
           /\ UNCHANGED <<seq, events, pc, got, log>>

\* One chunk goes out; a slow reader may keep the handler here for long.
Write(s) == \E n \in batch[s] :
              /\ \A m \in batch[s] : n <= m
              /\ batch' = [batch EXCEPT ![s] = @ \ {n}]
              /\ got' = [got EXCEPT ![s] = @ \union {n}]
              /\ UNCHANGED <<seq, events, pc, cursor, log>>

\* The client leaves or the connection breaks, in the middle of a batch even;
\* a stream opened later is a new one and is told nothing of the old cursor.
Disconnect(s) == /\ pc[s] # "off"
                 /\ pc' = [pc EXCEPT ![s] = "off"]
                 /\ cursor' = [cursor EXCEPT ![s] = 0]
                 /\ batch' = [batch EXCEPT ![s] = {}]
                 /\ got' = [got EXCEPT ![s] = {}]
                 /\ UNCHANGED <<seq, events, log>>

Stream(s) == Open(s) \/ Subscribe(s) \/ Poll(s) \/ Write(s) \/ Disconnect(s)

Next == \/ \E u \in Users : Publish(u)
        \/ \E s \in Subscribers : Stream(s)

\* The ticker of an open stream fires every second and its writes return.
Fairness == \A s \in Subscribers : WF_vars(Poll(s)) /\ WF_vars(Write(s))

Spec == Init /\ [][Next]_vars /\ Fairness

-----------------------------------------------------------------------------
(* Properties *)

(***************************************************************************)
(* The variables keep their shape, the ring never outgrows maxLen, no      *)
(* cursor is ahead of the bus, and nothing is held for a closed stream     *)
(* (bus.go Publish, stream.go handleStream).                               *)
(***************************************************************************)
TypeOK == /\ seq \in Nat
          /\ events \in Seq(Event) /\ Len(events) <= MaxLen
          /\ log \in Seq(Users)
          /\ pc \in [Subscribers -> {"off", "opened", "polling"}]
          /\ cursor \in [Subscribers -> Nat]
          /\ batch \in [Subscribers -> SUBSET Nat]
          /\ got \in [Subscribers -> SUBSET Nat]
          /\ \A s \in Subscribers : /\ cursor[s] <= seq
                                    /\ pc[s] # "polling" => batch[s] = {} /\ got[s] = {}

(***************************************************************************)
(* The ring is exactly the last maxLen events published, oldest first,     *)
(* numbered without a gap: what Publish drops is always the oldest one.    *)
(***************************************************************************)
RingIsWindow ==
  /\ seq = Len(log)
  /\ Len(events) = IF seq < MaxLen THEN seq ELSE MaxLen
  /\ \A i \in 1..Len(events) :
       /\ events[i].seq = seq - Len(events) + i
       /\ events[i].user = log[seq - Len(events) + i]

(***************************************************************************)
(* What is about to be written lies between what was written and the       *)
(* cursor, so that no event can be written twice or out of order.          *)
(***************************************************************************)
WrittenBeforeBatch ==
  \A s \in Subscribers :
    /\ \A n \in batch[s] \union got[s] : n <= cursor[s]
    /\ \A n \in batch[s], m \in got[s] : m < n

(***************************************************************************)
(* On one connection the events arrive in the order in which they were     *)
(* published and none arrives twice (the cursor in handleStream, the loop  *)
(* of Since), however many come between two polls.                         *)
(***************************************************************************)
InOrder ==
  [][\A s \in Subscribers : \A n \in batch[s] \ batch'[s], m \in got'[s] :
       m <= n /\ n \notin got[s]]_vars

(***************************************************************************)
(* The ring and the cursors give what EventFeed promises: nothing from     *)
(* before the subscription, nothing of another user, and of later events   *)
(* all that maxLen newer ones have not pushed out before the poll.         *)
(***************************************************************************)
Feed == INSTANCE EventFeed
          WITH Capacity <- MaxLen, due <- batch,
               upto <- [s \in Subscribers |-> IF pc[s] = "polling" THEN cursor[s] ELSE -1]
ImplementsFeed == Feed!Spec

\* The safety part of the promise, the part that is proved.
FeedSafety == Feed!Init /\ [][Feed!Next]_Feed!vars

(***************************************************************************)
(* An event published while a stream of its user is being polled reaches   *)
(* that stream in the end, or the stream is closed, or so many newer ones  *)
(* came that the event left the ring (handleStream's ticker loop).         *)
(***************************************************************************)
EveryEventArrives ==
  \A s \in Subscribers, n \in 1..MaxEvents :
    (/\ pc[s] = "polling" /\ n = seq /\ cursor[s] < n /\ log[n] = UserOf[s])
      ~> (n \in got[s] \/ pc[s] = "off" \/ seq >= n + MaxLen)

=============================================================================
