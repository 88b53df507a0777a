---------------------------- MODULE Synchroniser ----------------------------
(***************************************************************************)
(* What the synchronisation of a source promises, without pages, marks,    *)
(* dates or rounds: items appear and vanish at the source, are stored one  *)
(* by one, and are passed, that is, never looked for again, only when each *)
(* of them is in the feed, is gone or is on record as given up.  Nothing   *)
(* appears among what was passed already, and nothing is taken out of the  *)
(* feed.  GmailSync and TelegramSync implement this.                       *)
(***************************************************************************)

VARIABLES there,      \* items that have appeared at the source
          gone,       \* those deleted there
          stored,     \* those in the table "message"
          lost,       \* those a round gave up
          passed      \* those no later round will look for

vars == <<there, gone, stored, lost, passed>>

Init == /\ gone = {} /\ stored = {} /\ lost = {} /\ passed = {}

Appear == /\ \E i \in there' : i \notin there /\ there' = there \union {i}
          /\ UNCHANGED <<gone, stored, lost, passed>>

Vanish == /\ \E i \in there \ gone : gone' = gone \union {i}
          /\ UNCHANGED <<there, stored, lost, passed>>

Store == /\ \E i \in there \ gone : stored' = stored \union {i}
         /\ UNCHANGED <<there, gone, lost, passed>>

\* While a round is under way.
GiveUp == /\ lost \subseteq lost' /\ lost' \subseteq there
          /\ UNCHANGED <<there, gone, stored, passed>>

\* At the end of one, which gives up nothing that is in the feed.
Pass == /\ lost \subseteq lost' /\ lost' \subseteq there
        /\ (lost' \ lost) \intersect stored = {}
        /\ passed \subseteq passed' /\ passed' \subseteq there
        /\ passed' \subseteq stored \union gone \union lost'
        /\ UNCHANGED <<there, gone, stored>>

Next == Appear \/ Vanish \/ Store \/ GiveUp \/ Pass

Spec == Init /\ [][Next]_vars
=============================================================================
