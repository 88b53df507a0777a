------------------------------- MODULE Overview -------------------------------
(***************************************************************************)
(* The summary: the screen that asks for a period (SummaryScreen.tsx), the *)
(* handler that answers it from the cache or from the rows (handleSummary) *)
(* and, over the same rows, the feed under its filters and the cards.      *)
(*                                                                         *)
(* The rows are one of a set of tables and do not change while the screen  *)
(* is looked at; what a change does to the cache is in CacheInvalidation.  *)
(* The cache lives for less than an hour, the unit of time of Queries.     *)
(***************************************************************************)
EXTENDS Queries

CONSTANTS Tables,       \* the tables of rows to start from, sets of records
          Periods,      \* a subset of AllPeriods
          Kinds,
          Offsets,      \* time zones a browser may report, in hours
          Requests,
          Noon,         \* the hour it is at the beginning
          MaxHours      \* bound: the hours that pass

AllPeriods == {"24h", "week", "month"}

ASSUME OverviewOK == /\ Periods \subseteq AllPeriods /\ "24h" \in Periods
                     /\ Offsets \subseteq Int /\ Noon \in Nat /\ MaxHours \in Nat
                     /\ "" \notin Kinds

\* What the table of messages may contain: the key tells rows apart, a level is one of the
\* four or NULL, and every message came after the instant from which the hours are counted.
IsTable(S) ==
  /\ IsFiniteSet(S)
  /\ \A m \in S : /\ m.id \in Nat \ {0} /\ m.kind \in Kinds /\ m.received \in Nat
                  /\ {m.level, m.override} \subseteq ToSet(Levels) \union {""}
                  /\ {m.read, m.reply, m.action} \subseteq BOOLEAN
  /\ \A m, n \in S : m.id = n.id => m = n
ASSUME TablesOK == \A S \in Tables : IsTable(S)

VARIABLES table, hour,
          kept,         \* period |-> the answer kept under summary:<period>
          period, summary, loading,     \* the state of the screen
          flight,       \* request |-> what became of it
          failed        \* history: the load of the period shown failed

overviewVars == <<table, hour, kept, period, summary, loading, flight, failed>>

Nothing == [period |-> "none"]
Free == [stage |-> "free", period |-> "24h", cancelled |-> FALSE, answer |-> Nothing]

\* Opening the tab: the screen mounts and its effect asks for 24 hours.
OverviewInit ==
  /\ table \in Tables /\ hour = Noon
  /\ kept = [p \in Periods |-> Nothing]
  /\ period = "24h" /\ summary = Nothing /\ loading = TRUE
  /\ \E r \in Requests : flight = [q \in Requests |->
       IF q = r THEN [Free EXCEPT !.stage = "asked"] ELSE Free]
  /\ failed = FALSE

-----------------------------------------------------------------------------
(* SummaryScreen *)

\* Mutant: the clean-up of the effect does nothing.
AskAgain(p) ==
  /\ \E r \in Requests : /\ flight[r].stage = "free"
                         /\ flight' = [flight EXCEPT ![r].stage = "asked", ![r].period = p]
  /\ loading' = TRUE /\ failed' = FALSE

\* The effect of a period: the request before it is cancelled, a new one leaves.
Ask(p) ==
  /\ \E r \in Requests :
       /\ flight[r].stage = "free"
       /\ flight' = [q \in Requests |->
            IF q = r THEN [Free EXCEPT !.stage = "asked", !.period = p]
            ELSE [flight[q] EXCEPT !.cancelled = (flight[q].stage # "free")]]
  /\ loading' = TRUE /\ failed' = FALSE

Choose(p) == /\ p # period
             /\ period' = p /\ Ask(p)
             /\ UNCHANGED <<table, hour, kept, summary>>

\* The tab is left and opened again: a new screen.
Reopen == /\ period' = "24h" /\ summary' = Nothing /\ Ask("24h")
          /\ UNCHANGED <<table, hour, kept>>

Received(r) ==
  /\ flight[r].stage = "answered"
  /\ flight' = [flight EXCEPT ![r] = Free]
  /\ IF flight[r].cancelled
       THEN UNCHANGED <<summary, loading>>
       ELSE summary' = flight[r].answer /\ loading' = FALSE
  /\ UNCHANGED <<table, hour, kept, period, failed>>

\* finally ends the waiting all the same: what was shown before stays.
Fails(r) ==
  /\ flight[r].stage # "free"
  /\ flight' = [flight EXCEPT ![r] = Free]
  /\ IF flight[r].cancelled
       THEN UNCHANGED <<loading, failed>>
       ELSE loading' = FALSE /\ failed' = TRUE
  /\ UNCHANGED <<table, hour, kept, period, summary>>

-----------------------------------------------------------------------------
(* handleSummary *)

Answer(r, a) == flight' = [flight EXCEPT ![r].stage = "answered", ![r].answer = a]

FromCache(r) ==
  /\ flight[r].stage = "asked" /\ kept[flight[r].period] # Nothing
  /\ Answer(r, kept[flight[r].period])
  /\ UNCHANGED <<table, hour, kept, period, summary, loading, failed>>

\* Mutant: one key for all periods.
ComputeForAll(r) ==
  /\ flight[r].stage = "asked"
  /\ LET a == Summary(table, flight[r].period, hour)
     IN Answer(r, a) /\ kept' = [p \in Periods |-> a]
  /\ UNCHANGED <<table, hour, period, summary, loading, failed>>

\* Nothing is cached, or Redis does not answer, and may not keep it either.
Compute(r) ==
  /\ flight[r].stage = "asked"
  /\ LET a == Summary(table, flight[r].period, hour)
     IN Answer(r, a) /\ kept' \in {kept, [kept EXCEPT ![flight[r].period] = a]}
  /\ UNCHANGED <<table, hour, period, summary, loading, failed>>

\* An hour passes, and with it whatever was kept.
HourPasses ==
  /\ hour < Noon + MaxHours
  /\ hour' = hour + 1 /\ kept' = [p \in Periods |-> Nothing]
  /\ UNCHANGED <<table, period, summary, loading, flight, failed>>

OverviewNext ==
  \/ \E p \in Periods : Choose(p)
  \/ Reopen \/ HourPasses
  \/ \E r \in Requests : Received(r) \/ Fails(r) \/ FromCache(r) \/ Compute(r)
OverviewSpec == OverviewInit /\ [][OverviewNext]_overviewVars

-----------------------------------------------------------------------------
(* Properties *)

\* The state has its types; at most one request is not cancelled.
OverviewTypeOK ==
  /\ table \in Tables /\ hour \in Noon..(Noon + MaxHours)
  /\ DOMAIN kept = Periods /\ period \in Periods
  /\ loading \in BOOLEAN /\ failed \in BOOLEAN
  /\ \A r \in Requests : /\ flight[r].stage \in {"free", "asked", "answered"}
                         /\ flight[r].period \in Periods
  /\ \A r, q \in Requests : ~flight[r].cancelled /\ ~flight[q].cancelled
       /\ "free" \notin {flight[r].stage, flight[q].stage} => r = q

\* What the screen shows is of the period chosen on it, whatever answers cross, come from
\* the cache or come late, unless the load of that period failed: then the old numbers, or
\* none, stay under the new heading.  It waits exactly as long as a request that counts.
ScreenAgrees ==
  /\ loading <=> \E r \in Requests : flight[r].stage # "free" /\ ~flight[r].cancelled
  /\ ~loading => summary.period = period \/ failed

AllPass == [source |-> "", level |-> "all", status |-> "all", reply |-> "all",
            action |-> "all", period |-> "all", tz |-> 0, q |-> <<>>]
Page(f) == FilteredMessages(table, f, hour)
Listed(f) == ToSet(Page(f))

\* The filters say of the rows what their labels say.  A page is sorted and complete; the
\* levels share out the rows, as do read and unread, yes and no, and the sources; today is
\* what came on this calendar day of the user, whatever offset is reported within bounds.
PagesAgree ==
  /\ LET all == Page(AllPass)
     IN /\ Len(all) = Cardinality(table) /\ Listed(AllPass) = table
        /\ \A i, j \in 1..Len(all) : i < j => all[i].received >= all[j].received
  /\ \A m \in table :
       /\ Cardinality({l \in ToSet(Levels) : m \in Listed([AllPass EXCEPT !.level = l])}) = 1
       /\ Cardinality({k \in Kinds : m \in Listed([AllPass EXCEPT !.source = k])}) = 1
       /\ Cardinality({s \in {"read", "unread"} :
                         m \in Listed([AllPass EXCEPT !.status = s])}) = 1
       /\ Cardinality({y \in {"yes", "no"} : m \in Listed([AllPass EXCEPT !.reply = y])}) = 1
       /\ Cardinality({y \in {"yes", "no"} : m \in Listed([AllPass EXCEPT !.action = y])}) = 1
       /\ m.override # "" => m \in Listed([AllPass EXCEPT !.level = m.override])
       /\ \A z \in Offsets \cap ((-MaxTZOffset)..MaxTZOffset) :
            m \in Listed([AllPass EXCEPT !.period = "today", !.tz = z])
              <=> (m.received + z) \div Day >= (hour + z) \div Day
  /\ \A z \in Offsets :
       Listed([AllPass EXCEPT !.period = "today", !.tz = z])
         \subseteq Listed([AllPass EXCEPT !.period = "week"])

Hours(p) == CASE p = "24h" -> 24 [] p = "week" -> 168 [] p = "month" -> 720
Sum(d) == d["CRITICAL"] + d["HIGH"] + d["NORMAL"] + d["LOW"]
IsUrgent(m) == EffectiveLevel(m) \in {"CRITICAL", "HIGH"}
GoesFirst(m, n) == \/ EffectiveLevel(m) = "CRITICAL" /\ EffectiveLevel(n) # "CRITICAL"
                   \/ EffectiveLevel(m) = EffectiveLevel(n) /\ m.received >= n.received

\* Every message of the window is counted in one segment of the bar, a week has what the
\* feed lists for a week, and the top leaves nothing out for something less urgent.
PeriodAgrees(p) ==
  LET s == Summary(table, p, hour)
      since == {m \in table : hour - m.received <= Hours(p)}
      top == {m \in since : m.id \in ToSet(s.top)}
  IN /\ s.total = Cardinality(since) /\ s.total = Sum(s.distribution)
     /\ p \in {"week", "month"} => s.total = Len(Page([AllPass EXCEPT !.period = p]))
     /\ \A l \in ToSet(Levels) :
          s.distribution[l] = Cardinality({m \in since : EffectiveLevel(m) = l})
     /\ s.reply = Cardinality({m \in since : m.reply})
     /\ s.action = Cardinality({m \in since : m.action})
     /\ Len(s.top) = Cardinality(top) /\ \A m \in top : IsUrgent(m)
     /\ \A n \in since \ top :
          IsUrgent(n) => Len(s.top) = TopLimit /\ \A m \in top : GoesFirst(m, n)

\* A card has what the feed lists for its source, and its urgent message goes first.
CardAgrees(k) ==
  LET c == Card(table, k, "active")
      feed == [AllPass EXCEPT !.source = k]
  IN /\ c.total = Len(Page(feed)) /\ c.total = Sum(c.distribution)
     /\ c.unread = Len(Page([feed EXCEPT !.status = "unread"]))
     /\ \A l \in ToSet(Levels) : c.distribution[l] = Len(Page([feed EXCEPT !.level = l]))
     /\ c.urgent = 0 <=> c.distribution["CRITICAL"] + c.distribution["HIGH"] = 0
     /\ c.urgent # 0 =>
          \E m \in Listed(feed) :
            /\ m.id = c.urgent
            /\ \A n \in Listed(feed) : IsUrgent(n) => GoesFirst(m, n)

\* The summary, the feed and the cards count the same rows, and show the most urgent ones.
SummaryAgrees == (\A p \in Periods : PeriodAgrees(p)) /\ \A k \in Kinds : CardAgrees(k)

\* Texts to try: with the wildcards, and with everything the scanners look at.
Words(n) == UNION {[1..k -> {"a", "A", "%", "_", "\\"}] : k \in 0..n}
Inside(t, q) == \E i \in 0..(Len(t) - Len(q)) : SubSeq(t, i + 1, i + Len(q)) = q
Literals == {<<"'", "'">>, <<"'", "?", "'", "'", "'">>, <<"'", ";", "-", "-", "'">>}
Pieces == Literals \union {<<"x">>, <<"?">>, <<"-">>}
Comments == {<<>>, <<"-", "-", "'", ";", "\n">>}

\* A search finds the texts that contain what was typed and no other, wildcards and
\* backslashes included.  Placeholders get their numbers in order and literals keep their
\* question marks; a file is cut into the statements that were put together in it, whatever
\* its literals and comments hold.
ScannersAgree ==
  /\ \A t \in Words(3), q \in Words(2) : Found(t, q) <=> Inside(Lower(t), Lower(q))
  /\ \A x, y, z \in Pieces :
       LET number(pieces, k) == Cardinality({j \in 1..k : pieces[j] = <<"?">>})
           numbered(pieces) == [k \in 1..Len(pieces) |->
             IF pieces[k] = <<"?">> THEN <<Numbers[number(pieces, k)]>> ELSE pieces[k]]
       IN Rebind(FlattenSeq(<<x, <<" ">>, y, <<" ">>, z>>))
            = FlattenSeq(numbered(<<x, <<" ">>, y, <<" ">>, z>>))
  /\ \A x, y, z \in Pieces, c, d \in Comments :
       SplitStatements(FlattenSeq(<<c, x, <<" ">>, y, <<";">>, d, z, <<";", " ">>, c>>))
         = <<x \o <<" ">> \o y, z>>

\* What is done to the text of a query is right, and a message is found by any of its texts.
TextAgrees ==
  /\ ScannersAgree
  /\ \A m \in table : \A t \in m.texts : m \in Listed([AllPass EXCEPT !.q = t])

\* What the read handlers answer, for every table, period, time zone and filter, is what the
\* screens say of it.
RowsAgree == PagesAgree /\ SummaryAgrees
=============================================================================
