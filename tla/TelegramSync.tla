----------------------------- MODULE TelegramSync -----------------------------
(***************************************************************************)
(* What a synchronisation of Telegram brings into the feed                 *)
(* (internal/telegram: Sync, fetch, incomingFrom): the freshest dialogs,   *)
(* of each the newest messages, of those the ones that are not older than  *)
(* the last synchronisation less an overlap.  There is no mark per chat:   *)
(* connection.last_sync_at is all that a round leaves to the next, so what *)
(* a round does not reach by the time it saves is not looked at again.     *)
(*                                                                         *)
(* Messages are numbered in the order in which they are posted.  Telegram  *)
(* stamps them with its own clock, which is "lag" behind ours.  What a     *)
(* round saves of the connection's state is in Connections, what becomes   *)
(* of a stored message in MessageLifecycle.                                *)
(***************************************************************************)
EXTENDS Integers, Sequences, FiniteSets

CONSTANTS Chats,
          DialogsLimit, HistoryLimit,   \* dialogs in a round, messages of a dialog
          ImportLimit, ImportDays,      \* depth of the first import
          Overlap, Timeout,             \* both 2 minutes
          Lags,                         \* how far Telegram's clock may be behind ours
          MaxPosts, MaxTime, MaxFaults  \* bounds for TLC

\* The overlap is there for the clocks (telegram.go:48-50).
ASSUME ConstantsOK ==
  /\ {DialogsLimit, HistoryLimit, ImportLimit} \subseteq Nat \ {0}
  /\ {ImportDays, Overlap, Timeout, MaxPosts, MaxTime, MaxFaults} \subseteq Nat
  /\ Lags \subseteq Int /\ \A d \in Lags : d <= Overlap

VARIABLES posts,        \* messages at Telegram: [chat, date, wanted]
          now, lag,
          stored,       \* those stored in the table "message"
          last,         \* connection.last_sync_at
          round,        \* local state of Sync and fetch
          skipped,      \* history: those a completed round did not reach
          late,         \* history: those posted behind a completed round's back
          faults

vars == <<posts, now, lag, stored, last, round, skipped, late, faults>>

Never == -1
Ids == 1..Len(posts)
Wanted == {n \in Ids : posts[n].wanted}
Of(chats) == {n \in Wanted : posts[n].chat \in chats}

Idle == [pc |-> "idle", import |-> FALSE, since |-> 0, began |-> 0, seen |-> 0,
         chats |-> {}, batch |-> {}, saved |-> 0, aside |-> {}, failed |-> {}]

Init == /\ posts = <<>> /\ now = 0 /\ lag \in Lags
        /\ stored = {} /\ last = Never /\ round = Idle
        /\ skipped = {} /\ late = {} /\ faults = 0

Fault == faults < MaxFaults /\ faults' = faults + 1

-----------------------------------------------------------------------------
(* Sync *)

\* Mutant: the next round starts where this one ended.
NoOverlap(t) == t
Cutoff(t) == t - Overlap

Begin ==
  /\ round.pc = "idle"
  /\ round' = [Idle EXCEPT !.pc = "dialogs", !.began = now, !.import = (last = Never),
                           !.since = IF last = Never THEN now - ImportDays
                                     ELSE Cutoff(last)]
  /\ UNCHANGED <<posts, now, lag, stored, last, skipped, late, faults>>

\* Mutant: the limit of the import is everyone's.
ImportLimitAlways(import) == ImportLimit
LimitOf(import) == IF import THEN ImportLimit ELSE HistoryLimit * DialogsLimit

InTime == now - round.began <= Timeout

-----------------------------------------------------------------------------
(* fetch *)

Newer(n, m) == m > n /\ posts[m].chat = posts[n].chat

\* The dialogs with the newest messages.
Freshest(chats) ==
  LET newest(c) == {n \in Ids : posts[n].chat = c /\ ~\E m \in Ids : Newer(n, m)}
      fresher(c) == {d \in Chats : \E n \in newest(c), m \in newest(d) : m > n}
  IN  {c \in chats : newest(c) # {} /\ Cardinality(fresher(c)) < DialogsLimit}

ReadDialogs ==
  /\ round.pc = "dialogs" /\ InTime
  /\ LET listed == Freshest(Chats)
     IN  round' = [round EXCEPT !.pc = "chats", !.seen = Len(posts), !.chats = listed,
                                !.aside = Of(Chats \ listed)]
  /\ UNCHANGED <<posts, now, lag, stored, last, skipped, late, faults>>

\* Mutant: the limit is forgotten.
AnyChat(c) == round.pc = "chats" /\ c \in round.chats

\* The dialogs are taken in Telegram's order, as it was when they were listed.
NextChat(c) ==
  /\ round.pc = "chats"
  /\ c \in round.chats
  /\ round.saved < LimitOf(round.import)
  /\ \E n \in 1..round.seen : /\ posts[n].chat = c
                              /\ \A m \in (n + 1)..round.seen : posts[m].chat \notin round.chats

History(c) == {n \in Ids : /\ posts[n].chat = c
                           /\ Cardinality({m \in Ids : Newer(n, m)}) < HistoryLimit}

\* Mutant: a message of the very moment counts as seen.
AfterSince(n) == posts[n].wanted /\ posts[n].date > round.since
\* incomingFrom and the date: own, service and textless messages are no news.
Fresh(n) == posts[n].wanted /\ posts[n].date >= round.since

TooOld(n) == round.import /\ posts[n].date < round.since

InHand(batch) == IF batch = {} THEN "chats" ELSE "store"

ReadHistory(c) ==
  /\ NextChat(c) /\ InTime
  /\ LET batch == {n \in History(c) : Fresh(n)}
     IN  round' = [round EXCEPT !.pc = InHand(batch), !.chats = @ \ {c}, !.batch = batch,
                     !.aside = @ \union {n \in Of({c}) : n \notin History(c) \/ TooOld(n)}]
  /\ UNCHANGED <<posts, now, lag, stored, last, skipped, late, faults>>

\* One chat that cannot be read does not stop the others; past the deadline none can.
HistoryFails(c) ==
  /\ NextChat(c)
  /\ IF InTime THEN Fault ELSE UNCHANGED faults
  /\ round' = [round EXCEPT !.chats = @ \ {c}, !.failed = @ \union {c},
                            !.aside = @ \union Of({c})]
  /\ UNCHANGED <<posts, now, lag, stored, last, skipped, late>>

\* A history goes from the newest to the oldest.
NextPost(n) == /\ round.pc = "store"
               /\ n \in round.batch
               /\ \A m \in round.batch : m <= n

\* Mutant: a message that is stored already ends the round.
DuplicateFails(n) ==
  /\ NextPost(n)
  /\ stored' = stored \union {n}
  /\ round' = IF n \in stored THEN Idle
              ELSE [round EXCEPT !.pc = InHand(round.batch \ {n}), !.batch = @ \ {n},
                                 !.saved = @ + 1]
  /\ UNCHANGED <<posts, now, lag, last, skipped, late, faults>>

\* Ingestor.store: what is stored already is no error and does not count.
StorePost(n) ==
  /\ NextPost(n)
  /\ stored' = stored \union {n}
  /\ round' = [round EXCEPT !.pc = InHand(round.batch \ {n}), !.batch = @ \ {n},
                            !.saved = IF n \in stored THEN @ ELSE @ + 1]
  /\ UNCHANGED <<posts, now, lag, last, skipped, late, faults>>

\* The limit is looked at between two dialogs only.
FetchDone == /\ round.pc = "chats"
             /\ round.chats = {} \/ round.saved >= LimitOf(round.import)

\* Only a fetch that ends without an error moves the date.
SaveSync ==
  /\ FetchDone
  /\ last' = now
  /\ skipped' = skipped \union ((round.aside \union Of(round.chats)) \ stored)
  /\ late' = late \union {n \in Wanted : /\ n > round.seen /\ n \notin stored
                                        /\ posts[n].date < Cutoff(now)}
  /\ round' = Idle
  /\ UNCHANGED <<posts, now, lag, stored, faults>>

\* Mutant: a round that failed moves the date too.
FailureMovesDate ==
  /\ round.pc # "idle"
  /\ IF InTime THEN Fault ELSE UNCHANGED faults
  /\ round' = Idle
  /\ last' = now
  /\ UNCHANGED <<posts, now, lag, stored, skipped, late>>

\* The list of dialogs, a statement or the connection fails, the deadline passes
\* or the process restarts: the date stays.
RoundFails ==
  /\ round.pc # "idle"
  /\ IF InTime THEN Fault ELSE UNCHANGED faults
  /\ round' = Idle
  /\ UNCHANGED <<posts, now, lag, stored, last, skipped, late>>

-----------------------------------------------------------------------------
(* Telegram and time *)

Post(c, wanted) ==
  /\ Len(posts) < MaxPosts
  /\ posts' = Append(posts, [chat |-> c, date |-> now - lag, wanted |-> wanted])
  /\ UNCHANGED <<now, lag, stored, last, round, skipped, late, faults>>

Tick == /\ now < MaxTime
        /\ now' = now + 1
        /\ UNCHANGED <<posts, lag, stored, last, round, skipped, late, faults>>

RoundStep == \/ Begin \/ ReadDialogs \/ SaveSync
             \/ \E c \in Chats : ReadHistory(c) \/ HistoryFails(c)
             \/ \E n \in Ids : StorePost(n)
             \/ RoundFails

Next == \/ RoundStep
        \/ \E c \in Chats, wanted \in BOOLEAN : Post(c, wanted)
        \/ Tick

\* The scheduler ticks on, and every call ends by its deadline.
Spec == Init /\ [][Next]_vars /\ WF_vars(RoundStep)

-----------------------------------------------------------------------------
(* Properties *)

(***************************************************************************)
(* The variables keep their shape, and a round stores at most one history  *)
(* less one over its limit: it looks at the limit between dialogs only, so *)
(* that a first import may bring up to 229 messages (fetch;                *)
(* docs/00-product-spec.md:109 says 200 at most).                          *)
(***************************************************************************)
PostType == [chat : Chats, date : Int, wanted : BOOLEAN]
RoundState ==
  [pc : {"idle", "dialogs", "chats", "store"}, import : BOOLEAN, since : Int,
   began : 0..now, seen : 0..Len(posts), chats : SUBSET Chats, batch : SUBSET Wanted,
   saved : Nat, aside : SUBSET Wanted, failed : SUBSET Chats]

Shape ==
  /\ posts \in Seq(PostType) /\ now \in Nat /\ lag \in Lags
  /\ stored \subseteq Wanted /\ skipped \subseteq Wanted /\ late \subseteq Wanted
  /\ last \in {Never} \union 0..now /\ faults \in 0..MaxFaults
  /\ round \in RoundState

TypeOK == /\ Shape
          /\ round.saved + Cardinality(round.batch \ stored)
               < LimitOf(round.import) + HistoryLimit

Dealt == stored \union skipped \union late

(***************************************************************************)
(* What the next round will pass over because of its date is in the feed,  *)
(* or a completed round did not reach it, or it was posted while a round   *)
(* was under way; a round that fails half-way loses nothing (Sync's return *)
(* before the date is set, the overlap of telegram.go:48-50).              *)
(***************************************************************************)
DateCovers ==
  last # Never => \A n \in Wanted : posts[n].date < Cutoff(last) => n \in Dealt

(***************************************************************************)
(* Why it does not: of what was posted when a round listed the dialogs,    *)
(* everything is dealt with, in hand, set aside, or in a dialog to come.   *)
(***************************************************************************)
RoundCovers ==
  /\ round.pc # "idle" => /\ round.import <=> last = Never
                          /\ ~round.import => round.since = Cutoff(last)
  /\ round.pc \in {"chats", "store"} =>
       \A n \in Wanted : n <= round.seen =>
         n \in Dealt \union round.batch \union round.aside \union Of(round.chats)
  /\ round.pc # "store" => round.batch = {}

(***************************************************************************)
(* A message posted behind a round's back is lost only when that round     *)
(* took longer than the overlap, less what the clocks are apart: the       *)
(* deadline of a round, 2 minutes, is the whole overlap (Sync).            *)
(***************************************************************************)
LateOnlyIfSlow ==
  [][late' # late => now - round.began + lag > Overlap]_vars

(***************************************************************************)
(* A completed round leaves a message behind only if it is deeper in its   *)
(* dialog than 30 or its dialog lower than 40, if the dialog could not be  *)
(* read, or, in the first import alone, if it is older than a month or the *)
(* limit was reached (fetch; docs/00-product-spec.md:107-109).             *)
(***************************************************************************)
Reason(n) ==
  \/ Cardinality({m \in Ids : Newer(n, m)}) >= HistoryLimit
  \/ Cardinality({posts[m].chat : m \in (n + 1)..Len(posts)} \ {posts[n].chat}) >= DialogsLimit
  \/ posts[n].chat \in round.failed
  \/ round.import /\ (posts[n].date < round.since \/ round.saved >= ImportLimit)
SkippedForReason == [][\A n \in skipped' \ skipped : Reason(n)]_vars

\* Nothing is lost without one of these reasons, before a round's back or behind it.
LostForReason == SkippedForReason /\ LateOnlyIfSlow

(***************************************************************************)
(* Once nothing more is posted (MaxPosts), every message for the feed is   *)
(* stored in the end or is one of those, however often rounds fail         *)
(* (Scheduler.Start, Sync).                                                *)
(***************************************************************************)
PostsArrive == <>[](Wanted \subseteq Dealt)

(***************************************************************************)
(* A round is what a source's synchronisation promises: the messages that  *)
(* are too old for the next round were dealt with when the date was saved, *)
(* none is posted among them, since the clocks differ by no more than the  *)
(* overlap, and the date never falls back (Sync; telegram.go:48-50).       *)
(***************************************************************************)
Source == INSTANCE Synchroniser WITH there <- Wanted, gone <- {},
            lost <- skipped \union late,
            passed <- {n \in Wanted : last # Never /\ posts[n].date < Cutoff(last)}
ImplementsSource == Source!Spec
=============================================================================
