-------------------------------- MODULE Queries --------------------------------
(***************************************************************************)
(* What the read handlers compute from the rows of messages: the feed      *)
(* under its filters (postgres/queries.go), the summary of a period        *)
(* (routers/summary.go) and the card of a source (routers/sources.go).     *)
(*                                                                         *)
(* A row is a record with the columns the queries look at.  Time is        *)
(* counted in hours since an instant at which it was midnight in UTC.      *)
(***************************************************************************)
EXTENDS SqlText

CONSTANTS MaxTZOffset,  \* MaxTZOffsetMinutes, in hours
          TopLimit      \* topLimit

ASSUME QueriesOK == MaxTZOffset \in Nat /\ TopLimit \in Nat

Levels == <<"CRITICAL", "HIGH", "NORMAL", "LOW">>
Day == 24

\* Set by hand, or the model's, or the middle; "" stands for NULL.
EffectiveLevel(m) == IF m.override # "" THEN m.override
                     ELSE IF m.level # "" THEN m.level ELSE "NORMAL"

-----------------------------------------------------------------------------
(* Rows in an order *)

\* The elements of S, those before the others first: before is a strict total order of S.
InOrder(S, before) ==
  [i \in 1..Cardinality(S) |->
     CHOOSE x \in S : Cardinality({y \in S : <<y, x>> \in before}) = i - 1]

\* What a loop over ms appends that picks the rows at these places.
Picked(ms, places) ==
  LET picks == InOrder(places, {p \in places \X places : p[1] < p[2]})
  IN [k \in 1..Cardinality(places) |-> ms[picks[k]]]

-----------------------------------------------------------------------------
(* The feed *)

Clamped(tz) == IF tz > MaxTZOffset THEN MaxTZOffset
               ELSE IF tz < -MaxTZOffset THEN -MaxTZOffset ELSE tz

\* Mutant: the offset is added once and never taken back.
LocalMidnight(period, tz, now) ==
  CASE period = "today" -> (now + Clamped(tz)) - ((now + Clamped(tz)) % Day)
    [] period = "week" -> now - 7 * Day
    [] period = "month" -> now - 30 * Day
    [] OTHER -> 0

\* Midnight where the user is, told in UTC; 0, before every message, if there is no limit.
PeriodStart(period, tz, now) ==
  LET local == now + Clamped(tz)
  IN CASE period = "today" -> (local - (local % Day)) - Clamped(tz)
       [] period = "week" -> now - 7 * Day
       [] period = "month" -> now - 30 * Day
       [] OTHER -> 0

\* A condition that is not asked for holds of every row.
Matches(m, f, now) ==
  /\ f.source \in {"", m.kind}
  /\ f.level \in {"", "all", EffectiveLevel(m)}
  /\ CASE f.status = "unread" -> ~m.read
       [] f.status = "read" -> m.read
       [] f.status = "done" -> m.status = "DONE"
       [] OTHER -> TRUE
  /\ f.reply \in {"yes", "no"} => m.reply = (f.reply = "yes")
  /\ f.action \in {"yes", "no"} => m.action = (f.action = "yes")
  /\ m.received >= PeriodStart(f.period, f.tz, now)
  /\ Trim(f.q) # <<>> => \E text \in m.texts : Found(text, Trim(f.q))

\* ORDER BY m.received_at DESC, m.id DESC.
Newer(m, n) == m.received > n.received \/ (m.received = n.received /\ m.id > n.id)
NewestFirst(S) == InOrder(S, {p \in S \X S : Newer(p[1], p[2])})

FilteredMessages(S, f, now) == NewestFirst({m \in S : Matches(m, f, now)})

-----------------------------------------------------------------------------
(* The summary and the cards *)

SummaryPeriodStart(period, now) ==
  now - (CASE period = "week" -> 7 * Day [] period = "month" -> 30 * Day [] OTHER -> Day)

MessagesSince(S, since) == NewestFirst({m \in S : m.received >= since})

AtLevel(ms, l) == {i \in 1..Len(ms) : EffectiveLevel(ms[i]) = l}

\* All four levels, with their zeros.
Distribution(ms) == [l \in ToSet(Levels) |-> Cardinality(AtLevel(ms, l))]

OfLevel(ms, l) == Picked(ms, AtLevel(ms, l))

\* Mutant: the newest first, critical or not.
NewestOnTop(ms) ==
  LET urgent == Picked(ms, AtLevel(ms, "CRITICAL") \union AtLevel(ms, "HIGH"))
  IN SubSeq(urgent, 1, IF Len(urgent) < TopLimit THEN Len(urgent) ELSE TopLimit)

\* First what is critical, then what is high, no more than TopLimit in all.
Top(ms) == LET urgent == OfLevel(ms, "CRITICAL") \o OfLevel(ms, "HIGH")
           IN SubSeq(urgent, 1, IF Len(urgent) < TopLimit THEN Len(urgent) ELSE TopLimit)

\* The first critical message, else the first high one, else none.
Urgent(ms) == LET urgent == OfLevel(ms, "CRITICAL") \o OfLevel(ms, "HIGH")
              IN IF urgent = <<>> THEN 0 ELSE urgent[1].id

Ids(ms) == [i \in 1..Len(ms) |-> ms[i].id]

Summary(S, period, now) ==
  LET ms == MessagesSince(S, SummaryPeriodStart(period, now))
  IN [period |-> period, total |-> Len(ms), distribution |-> Distribution(ms),
      reply |-> Cardinality({i \in 1..Len(ms) : ms[i].reply}),
      action |-> Cardinality({i \in 1..Len(ms) : ms[i].action}), top |-> Ids(Top(ms))]

Card(S, kind, state) ==
  LET ms == NewestFirst({m \in S : m.kind = kind})
  IN [kind |-> kind, state |-> state, total |-> Len(ms),
      unread |-> Cardinality({i \in 1..Len(ms) : ~ms[i].read}),
      distribution |-> Distribution(ms), urgent |-> Urgent(ms)]
=============================================================================
