------------------------------- MODULE FeedView -------------------------------
(***************************************************************************)
(* The feed of one source in the browser: the hook that listens to the     *)
(* stream (hooks/useStream.ts), the screen with its requests               *)
(* (screens/FeedScreen.tsx) and the handlers that answer them              *)
(* (routers/messages.go, postgres/queries.go).  Events, answers and clicks *)
(* come in any order; React runs the effects of a render some time after   *)
(* the change that caused it.                                              *)
(*                                                                         *)
(* A message is the version of its row, its level and its read mark.  The  *)
(* order of the list, the search for the text (Found is what it finds) and *)
(* the content of the details are left out.                                *)
(***************************************************************************)
EXTENDS Integers, Sequences, FiniteSets

CONSTANTS Messages, Sources,
          SourceOf,     \* message |-> source
          Filters,      \* those the user turns on in this instance
          Found,        \* the messages the search finds
          Requests,     \* requests that may be on their way at a time, for TLC
          Failures,     \* BOOLEAN: may the stream break and requests fail
          Nobody,       \* no source, no message
          MaxVersion, MaxWire, MaxTurns      \* bounds for TLC

AllFilters == {"all", "high", "unread", "search"}
Levels == {"NORMAL", "HIGH"}

ASSUME FeedOK == /\ SourceOf \in [Messages -> Sources] /\ Found \subseteq Messages
                 /\ Filters \subseteq AllFilters /\ Failures \in BOOLEAN
                 /\ Nobody \notin Sources \union Messages
                 /\ IsFiniteSet(Requests)
                 /\ MaxVersion \in Nat /\ MaxWire \in Nat /\ MaxTurns \in Nat

VARIABLES rows,         \* message |-> its row in Postgres
          online,       \* is the stream up
          wire,         \* events sent down the stream, not delivered yet
          slot,         \* the event useStream holds, the last one
          effects,      \* effects to run after the next render
          view,         \* openedSource; filter chosen; filter of the last load built
          screen,       \* messages: the cards of the list
          counts,       \* counts of the subtitle
          opened,       \* the message whose details are open
          flight,       \* request |-> what was asked and what is answered
          taken,        \* history: message |-> version the list has taken in
          missed,       \* history: message |-> newest version that went past the list
          covered,      \* history: message |-> newest version older data replaced
          loaded,       \* history: source and filter of the last load, if it was answered
          uneven,       \* history: the counts were set apart from the list
          turns         \* clicks and failures so far, for the bound

server == <<rows, online, wire>>
browser == <<slot, effects, view, screen, counts, opened>>
history == <<taken, missed, covered, loaded, uneven>>
feedVars == <<server, browser, flight, history, turns>>

Card == [ver : 0..MaxVersion, level : Levels, read : BOOLEAN]
NoCard == [ver |-> 0, level |-> "NORMAL", read |-> FALSE]
Nothing == [m \in Messages |-> NoCard]
StreamEvent == [name : {"created", "analyzed", "none"}, msg : Messages \union {Nobody},
                card : Card]
NoEvent == [name |-> "none", msg |-> Nobody, card |-> NoCard]
Idle == [kind |-> "idle", source |-> Nobody, filter |-> "all", msg |-> Nobody,
         level |-> "NORMAL", served |-> FALSE, answer |-> Nothing]
NotLoaded == [source |-> Nobody, filter |-> "all"]

FeedInit == /\ rows = Nothing /\ online = TRUE /\ wire = <<>>
            /\ slot = NoEvent /\ effects = {} /\ screen = Nothing
            /\ view = [source |-> Nobody, filter |-> "all", asked |-> "all"]
            /\ counts = [total |-> 0, unread |-> 0] /\ opened = Nobody
            /\ flight = [r \in Requests |-> Idle]
            /\ taken = [m \in Messages |-> 0] /\ missed = taken /\ covered = taken
            /\ loaded = NotLoaded /\ uneven = FALSE /\ turns = 0

\* A bound on clicks and failures, for TLC.
Spend == turns < MaxTurns /\ turns' = turns + 1

Greater(a, b) == IF a < b THEN b ELSE a

\* The newest version of each message among these events went past the list.
Past(events) ==
  [m \in Messages |-> CHOOSE v \in 0..MaxVersion :
     LET all == {missed[m]} \union {e.card.ver : e \in {f \in events : f.msg = m}}
     IN v \in all /\ \A w \in all : w <= v]

\* The list takes in these versions.
TakeIn(vers) == /\ taken' = vers
                /\ covered' = [m \in Messages |-> IF vers[m] < taken[m]
                                                  THEN Greater(covered[m], taken[m])
                                                  ELSE covered[m]]

-----------------------------------------------------------------------------
(* What changes the rows besides this screen *)

\* The row is saved and the event published; who is not subscribed misses it.
Announce(name, m, card) ==
  LET e == [name |-> name, msg |-> m, card |-> card]
  IN /\ Len(wire) < MaxWire /\ card.ver <= MaxVersion
     /\ rows' = [rows EXCEPT ![m] = card]
     /\ wire' = IF online THEN Append(wire, e) ELSE wire
     /\ missed' = IF online THEN missed ELSE Past({e})
     /\ UNCHANGED online

\* Versions count the changes of all rows.
Newer(card) == [card EXCEPT !.ver = 1 + CHOOSE v \in 0..MaxVersion :
                                          /\ \A m \in Messages : rows[m].ver <= v
                                          /\ v = 0 \/ \E m \in Messages : rows[m].ver = v]

Arrive(m) == /\ rows[m] = NoCard
             /\ Announce("created", m, Newer(NoCard))
             /\ UNCHANGED <<browser, flight, taken, covered, loaded, uneven, turns>>

\* The worker's verdict, which may write back the read mark of before its call to
\* the model, or a level set by hand in another tab.
Assess(m, l) == /\ rows[m] # NoCard
                /\ \E read \in {rows[m].read, FALSE} :
                     Announce("analyzed", m,
                              [Newer(rows[m]) EXCEPT !.level = l, !.read = read])
                /\ UNCHANGED <<browser, flight, taken, covered, loaded, uneven, turns>>

\* Opened in another tab or from the summary: no event tells this list.
ReadElsewhere(m) ==
  LET card == [Newer(rows[m]) EXCEPT !.read = TRUE]
  IN /\ rows[m] # NoCard /\ ~rows[m].read /\ card.ver <= MaxVersion
     /\ rows' = [rows EXCEPT ![m] = card]
     /\ missed' = Past({[msg |-> m, card |-> card]})
     /\ UNCHANGED <<online, wire, browser, flight, taken, covered, loaded, uneven, turns>>

-----------------------------------------------------------------------------
(* useStream *)

\* The connection breaks; what was on its way is lost.
Drop == /\ Failures /\ online
        /\ online' = FALSE /\ wire' = <<>>
        /\ missed' = Past({wire[i] : i \in 1..Len(wire)})
        /\ Spend
        /\ UNCHANGED <<rows, browser, flight, taken, covered, loaded, uneven>>

\* EventSource reconnects by itself.  Neither onopen nor the poll of the fallback
\* reloads the list: what happened meanwhile is not asked for.
Reconnect == /\ ~online
             /\ online' = TRUE
             /\ UNCHANGED <<rows, wire, browser, flight, history, turns>>

\* setEvent: the event replaces the one held, rendered or not.
Deliver == /\ wire # <<>>
           /\ slot' = Head(wire) /\ wire' = Tail(wire)
           /\ effects' = effects \union {"event"}
           /\ missed' = IF "event" \in effects THEN Past({slot}) ELSE missed
           /\ UNCHANGED <<rows, online, view, screen, counts, opened, flight, taken, covered,
                          loaded, uneven, turns>>

-----------------------------------------------------------------------------
(* FeedScreen: the effects *)

\* Mutant: events are inserted under a filter too.
NeverFiltered == FALSE

Filtered == view.filter # "all"

\* The event the effect does not skip: the feed of its source is open.
Concerned == /\ "event" \in effects /\ slot # NoEvent
             /\ view.source # Nobody /\ SourceOf[slot.msg] = view.source

\* The effects that end in load().
Loads == (IF "load" \in effects /\ view.source # Nobody THEN {"load"} ELSE {})
         \union (IF Concerned /\ Filtered THEN {"event"} ELSE {})

\* n requests leave, where the bound has room for them.
Asks(n, q) == \E free \in SUBSET {r \in Requests : flight[r] = Idle} :
                /\ Cardinality(free) = n
                /\ flight' = [r \in Requests |-> IF r \in free THEN q ELSE flight[r]]

\* A card set by an answer may stay on a list that excludes it; what was read here
\* may stay under "unread".
Belongs(card) == view.filter = "high" => card.level = "HIGH"

\* A card takes the place of the list's; one that the list does not have, not yet
\* perhaps, is dropped.
Replace(m, card) ==
  IF screen[m] = NoCard
  THEN missed' = Past({[msg |-> m, card |-> card]}) /\ UNCHANGED <<screen, taken, covered>>
  ELSE /\ screen' = [screen EXCEPT ![m] = card]
       /\ IF Belongs(card) \/ card.ver < taken[m]
          THEN TakeIn([taken EXCEPT ![m] = card.ver])
          ELSE UNCHANGED <<taken, covered>>
       /\ UNCHANGED missed

\* A replaced card may turn read or unread; the counts do not follow.
Turns(m, card) == screen[m] # NoCard /\ screen[m].read # card.read

\* Mutant: the counts follow every event of a new message.
CountsTwice(m, card) ==
  /\ screen' = [screen EXCEPT ![m] = card]
  /\ counts' = [total |-> counts.total + 1,
                unread |-> counts.unread + (IF card.read THEN 0 ELSE 1)]
  /\ TakeIn([taken EXCEPT ![m] = card.ver]) /\ UNCHANGED missed

\* A new message comes on top and is counted, unless the list has it already.
Insert(m, card) ==
  IF screen[m] # NoCard
  THEN Replace(m, card) /\ UNCHANGED counts
  ELSE /\ screen' = [screen EXCEPT ![m] = card]
       /\ counts' = [total |-> counts.total + 1,
                     unread |-> counts.unread + (IF card.read THEN 0 ELSE 1)]
       /\ TakeIn([taken EXCEPT ![m] = card.ver])
       /\ UNCHANGED missed

ApplyEvent == /\ IF slot.name = "created" THEN Insert(slot.msg, slot.card)
                 ELSE Replace(slot.msg, slot.card) /\ UNCHANGED counts
              /\ loaded' = IF view.asked = "all" THEN loaded ELSE NotLoaded
              /\ uneven' = (uneven \/ Turns(slot.msg, slot.card))

\* After a render: first the load, then the event, which under a filter is
\* another load.
Commit == /\ effects # {}
          /\ effects' = {}
          /\ Asks(Cardinality(Loads),
                  [Idle EXCEPT !.kind = "list", !.source = view.source, !.filter = view.asked])
          /\ IF Concerned /\ ~Filtered THEN ApplyEvent
             ELSE UNCHANGED <<screen, counts, history>>
          /\ UNCHANGED <<server, slot, view, opened, turns>>

-----------------------------------------------------------------------------
(* FeedScreen: the user *)

\* The details cover the screen: while they are open there is nothing else to click.
Free == opened = Nobody

\* load depends on the source, the filters and the delayed query; the effect of
\* the event on load and on whether anything is filtered.
Turn(v) == /\ view' = v
           /\ effects' = effects \union
                (IF v.source # view.source \/ v.asked # view.asked THEN {"load", "event"}
                 ELSE IF (v.filter = "all") # (view.filter = "all") THEN {"event"}
                 ELSE {})
           /\ UNCHANGED <<server, slot, screen, counts, opened, flight, history>>

OpenSource(s) == /\ Free /\ view.source = Nobody
                 /\ Spend
                 /\ Turn([view EXCEPT !.source = s])

\* Back: the filters are reset; the list and the counts stay as they are.
Back == /\ Free /\ view.source # Nobody
        /\ Spend
        /\ Turn([source |-> Nobody, filter |-> "all", asked |-> "all"])

Choose(f) == /\ Free /\ view.source # Nobody
             /\ f \in Filters \ {"search", view.filter}
             /\ view.filter = view.asked /\ view.filter # "search"
             /\ Spend
             /\ Turn([view EXCEPT !.filter = f, !.asked = f])

Reset == /\ Free /\ view.source # Nobody
         /\ view.filter # "all" \/ view.asked # "all"
         /\ Spend
         /\ Turn([view EXCEPT !.filter = "all", !.asked = "all"])

\* The query is typed or erased; load hears of it 250 ms later.
Type == /\ Free /\ view.source # Nobody /\ "search" \in Filters
        /\ view.filter \in {"all", "search"}
        /\ Spend
        /\ Turn([view EXCEPT !.filter = IF @ = "all" THEN "search" ELSE "all"])

Debounce == /\ view.asked # view.filter
            /\ UNCHANGED turns
            /\ Turn([view EXCEPT !.asked = view.filter])

Reading(m) == {r \in Requests : flight[r].kind = "read" /\ flight[r].msg = m}

\* openMessage: the details open at once, the read mark is asked for.
Click(m) == /\ Free /\ view.source # Nobody /\ screen[m] # NoCard
            /\ opened' = m
            /\ Asks(IF screen[m].read THEN 0 ELSE 1,
                    [Idle EXCEPT !.kind = "read", !.msg = m])
            /\ uneven' = (uneven \/ (~screen[m].read /\ Reading(m) # {}))
            /\ Spend
            /\ UNCHANGED <<server, slot, effects, view, screen, counts, taken, missed, covered,
                           loaded>>

CloseDetails == /\ opened # Nobody
                /\ opened' = Nobody
                /\ UNCHANGED <<server, slot, effects, view, screen, counts, flight, history,
                               turns>>

\* changeLevel; that the details show another level than l is not looked at.
ChangeLevel(l) == /\ opened # Nobody
                  /\ Asks(1, [Idle EXCEPT !.kind = "level", !.msg = opened, !.level = l])
                  /\ Spend
                  /\ UNCHANGED <<server, browser, history>>

-----------------------------------------------------------------------------
(* The handlers of the server *)

Passes(m, card, f) == /\ card # NoCard
                      /\ f = "high" => card.level = "HIGH"
                      /\ f = "unread" => ~card.read
                      /\ f = "search" => m \in Found

\* FilteredMessages
Selection(all, s, f) ==
  [m \in Messages |-> IF SourceOf[m] = s /\ Passes(m, all[m], f) THEN all[m] ELSE NoCard]

Sent(r, kind) == flight[r].kind = kind /\ ~flight[r].served
Answer(r, cards) == flight' = [flight EXCEPT ![r].served = TRUE, ![r].answer = cards]
Only(m, card) == [Nothing EXCEPT ![m] = card]

\* The answer is of the rows of this moment.
ServeList(r) == /\ Sent(r, "list")
                /\ Answer(r, [m \in Messages |-> IF SourceOf[m] = flight[r].source
                                                 THEN rows[m] ELSE NoCard])
                /\ UNCHANGED <<server, browser, history, turns>>

\* handleMarkRead: a message already read is not saved again; no event.
ServeRead(r) ==
  LET m == flight[r].msg
      card == IF rows[m].read THEN rows[m] ELSE [Newer(rows[m]) EXCEPT !.read = TRUE]
  IN /\ Sent(r, "read") /\ card.ver <= MaxVersion
     /\ rows' = [rows EXCEPT ![m] = card]
     /\ Answer(r, Only(m, card))
     /\ UNCHANGED <<online, wire, browser, history, turns>>

\* handleSetLevel publishes what it saved, then answers.
ServeLevel(r) ==
  LET m == flight[r].msg
      card == [Newer(rows[m]) EXCEPT !.level = flight[r].level]
  IN /\ Sent(r, "level")
     /\ Announce("analyzed", m, card)
     /\ Answer(r, Only(m, card))
     /\ UNCHANGED <<browser, taken, covered, loaded, uneven, turns>>

-----------------------------------------------------------------------------
(* FeedScreen: the answers *)

Ready(r, kind) == flight[r].kind = kind /\ flight[r].served
Done(r) == flight' = [flight EXCEPT ![r] = Idle]
AnyRead == \E r \in Requests : flight[r].kind = "read"

Shown(cards) == {m \in Messages : cards[m] # NoCard}
Unread(cards) == {m \in Shown(cards) : ~cards[m].read}

\* The list and the counts are the answer's, whatever was shown before and
\* whatever is asked for by now.
ReceiveList(r) ==
  LET q == flight[r]
      list == Selection(q.answer, q.source, q.filter)
  IN /\ Ready(r, "list")
     /\ screen' = list
     /\ counts' = [total |-> Cardinality(Shown(list)), unread |-> Cardinality(Unread(list))]
     /\ loaded' = [source |-> q.source, filter |-> q.filter]
     /\ TakeIn([m \in Messages |-> q.answer[m].ver])
     /\ uneven' = AnyRead
     /\ Done(r)
     /\ UNCHANGED <<server, slot, effects, view, opened, missed, turns>>

\* Mutant: nothing keeps the count from going below zero.
MayGoBelow(n) == n - 1

OneLess(n) == Greater(0, n - 1)

\* openMessage after the await: the details open again even if closed meanwhile.
ReceiveRead(r) ==
  LET m == flight[r].msg
      card == flight[r].answer[m]
  IN /\ Ready(r, "read")
     /\ Replace(m, card)
     /\ counts' = [counts EXCEPT !.unread = OneLess(@)]
     /\ opened' = m
     /\ Done(r)
     /\ UNCHANGED <<server, slot, effects, view, loaded, uneven, turns>>

\* changeLevel after the await: the card stays even if the filter excludes it.
ReceiveLevel(r) ==
  LET m == flight[r].msg
      card == flight[r].answer[m]
  IN /\ Ready(r, "level")
     /\ Replace(m, card)
     /\ uneven' = (uneven \/ Turns(m, card))
     /\ opened' = m
     /\ Done(r)
     /\ UNCHANGED <<server, slot, effects, view, counts, loaded, turns>>

\* Nothing catches the error: the screen stays as it is.  A read mark may have
\* been saved all the same.
Fails(r) ==
  LET q == flight[r]
      all == IF q.kind = "list" THEN Messages ELSE {q.msg}
  IN /\ Failures /\ q # Idle
     /\ missed' = Past({[msg |-> m, card |-> rows[m]] : m \in all})
     /\ loaded' = IF q.kind = "list" THEN NotLoaded ELSE loaded
     /\ Done(r)
     /\ Spend
     /\ UNCHANGED <<server, browser, taken, covered, uneven>>

Server == \/ \E m \in Messages : Arrive(m) \/ ReadElsewhere(m) \/ \E l \in Levels : Assess(m, l)
          \/ \E r \in Requests : ServeList(r) \/ ServeRead(r) \/ ServeLevel(r)

User == \/ \E s \in Sources : OpenSource(s)
        \/ \E f \in Filters : Choose(f)
        \/ \E m \in Messages : Click(m)
        \/ \E l \in Levels : ChangeLevel(l)
        \/ Back \/ Reset \/ Type \/ CloseDetails

Browser == \/ \E r \in Requests : ReceiveList(r) \/ ReceiveRead(r) \/ ReceiveLevel(r)
           \/ Reconnect \/ Deliver \/ Commit \/ Debounce

Failure == Drop \/ \E r \in Requests : Fails(r)

FeedNext == Server \/ User \/ Browser \/ Failure

FeedSpec == FeedInit /\ [][FeedNext]_feedVars

-----------------------------------------------------------------------------
(* Properties *)

(***************************************************************************)
(* The variables keep their shape and a card is only shown where there is  *)
(* a row at least as new (FeedScreen, useStream).                          *)
(***************************************************************************)
FeedTypeOK ==
  /\ rows \in [Messages -> Card] /\ online \in BOOLEAN
  /\ wire \in Seq(StreamEvent) /\ Len(wire) <= MaxWire /\ slot \in StreamEvent
  /\ effects \subseteq {"load", "event"}
  /\ view \in [source : Sources \union {Nobody}, filter : AllFilters, asked : AllFilters]
  /\ screen \in [Messages -> Card] /\ opened \in Messages \union {Nobody}
  /\ counts \in [total : Nat, unread : Nat]
  /\ \A r \in Requests :
       flight[r] \in [kind : {"idle", "list", "read", "level"},
                      source : Sources \union {Nobody}, filter : AllFilters,
                      msg : Messages \union {Nobody}, level : Levels, served : BOOLEAN,
                      answer : [Messages -> Card]]
  /\ \A m \in Messages : taken[m] \in 0..rows[m].ver /\ screen[m].ver <= rows[m].ver

\* Nothing is on its way: every event and every answer has been dealt with.
Settled == /\ wire = <<>> /\ effects = {} /\ view.asked = view.filter
           /\ \A r \in Requests : flight[r] = Idle

\* The list shows of m what the server would answer; a message read here stays
\* under "unread" until the next load.
Agrees(m) == \/ screen[m] = Selection(rows, view.source, view.filter)[m]
             \/ /\ view.filter = "unread" /\ rows[m].read
                /\ screen[m] = rows[m]

(***************************************************************************)
(* When nothing is on its way, the list is what the server would answer    *)
(* for the source and the filter on the screen, except for a message whose *)
(* last change went past it: published while the stream was down or while  *)
(* an earlier event waited for its render, published to nobody, lost with  *)
(* a failed request, addressed to a card not on the list yet, or replaced  *)
(* by an answer or an event older than it.  The last load was answered,    *)
(* and no event was inserted between the erasing of a search and the load  *)
(* that follows it (useStream.ts, FeedScreen.tsx:58-104; docs/             *)
(* 04-decisions.md, 40: what does not fit the filter is not inserted).     *)
(***************************************************************************)
ListAgrees ==
  Settled /\ view.source # Nobody
          /\ loaded = [source |-> view.source, filter |-> view.filter] =>
    \A m \in Messages :
      missed[m] <= taken[m] /\ covered[m] <= taken[m] => Agrees(m)

(***************************************************************************)
(* The subtitle counts the messages listed, and those unread among them    *)
(* unless a message was opened twice before the first answer, a list came  *)
(* while a read mark was on its way, or an event or an answer turned a     *)
(* card read or unread (FeedScreen.tsx:58-94, 132-149).                    *)
(***************************************************************************)
CountsAgree == /\ counts.total = Cardinality(Shown(screen))
               /\ ~uneven => counts.unread = Cardinality(Unread(screen))
=============================================================================
