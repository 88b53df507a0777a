------------------------------ MODULE EventFeed ------------------------------
(***************************************************************************)
(* What the stream of events promises to a subscriber, without the ring,   *)
(* the numbers kept in its records or the cursor arithmetic: a subscriber  *)
(* that joins hears, one at a time and in order, every later event of its  *)
(* user, except those that more than Capacity newer ones have pushed out   *)
(* by the time it looks.  EventBus implements this.                        *)
(***************************************************************************)
EXTENDS Integers, Sequences

CONSTANTS Users, Subscribers,
          UserOf,     \* [Subscribers -> Users]
          Capacity    \* how many events stay available

VARIABLES log,        \* the user of every event published so far, oldest first
          upto,       \* subscriber |-> how much of the log it has looked at
          due,        \* subscriber |-> events found, not handed over yet
          got         \* subscriber |-> events handed over since it joined

vars == <<log, upto, due, got>>

Away == -1            \* upto of a subscriber that has not joined

Init == /\ log = <<>>
        /\ upto = [s \in Subscribers |-> Away]
        /\ due = [s \in Subscribers |-> {}]
        /\ got = [s \in Subscribers |-> {}]

Publish(u) == log' = Append(log, u) /\ UNCHANGED <<upto, due, got>>

\* Nothing from before the subscription is handed over.
Join(s) == /\ upto[s] = Away
           /\ upto' = [upto EXCEPT ![s] = Len(log)]
           /\ UNCHANGED <<log, due, got>>

Available(s) == {n \in 1..Len(log) : /\ upto[s] < n
                                     /\ Len(log) - Capacity < n
                                     /\ log[n] = UserOf[s]}

Look(s) == /\ upto[s] # Away
           /\ due[s] = {}
           /\ due' = [due EXCEPT ![s] = Available(s)]
           /\ upto' = [upto EXCEPT ![s] = Len(log)]
           /\ UNCHANGED <<log, got>>

HandOver(s) == \E n \in due[s] :
                 /\ \A m \in due[s] : n <= m
                 /\ due' = [due EXCEPT ![s] = @ \ {n}]
                 /\ got' = [got EXCEPT ![s] = @ \union {n}]
                 /\ UNCHANGED <<log, upto>>

Leave(s) == /\ upto' = [upto EXCEPT ![s] = Away]
            /\ due' = [due EXCEPT ![s] = {}]
            /\ got' = [got EXCEPT ![s] = {}]
            /\ UNCHANGED log

Next == \/ \E u \in Users : Publish(u)
        \/ \E s \in Subscribers : Join(s) \/ Look(s) \/ HandOver(s) \/ Leave(s)

Spec == /\ Init /\ [][Next]_vars
        /\ \A s \in Subscribers : WF_vars(Look(s)) /\ WF_vars(HandOver(s))
=============================================================================
