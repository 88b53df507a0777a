-------------------------- MODULE CacheInvalidation --------------------------
(***************************************************************************)
(* The cache of the source cards and of the summaries (internal/redis) and *)
(* who fills and drops it: the handlers that read through it               *)
(* (routers/sources.go, summary.go), the writes of the feed with their     *)
(* DropCache, explicit or hung on the bus (events/bus.go, cmd/server), and *)
(* the writes that do not drop it: the scheduler's SaveConnection and all  *)
(* that the command seed writes, whose bus has no hook (cmd/seed).         *)
(*                                                                         *)
(* The feed is a version number; an answer is the version it was computed  *)
(* from.  Time is counted in units of 15 seconds, so TTL is 3.             *)
(***************************************************************************)
EXTENDS Integers, FiniteSets

CONSTANTS Names,        \* the cached answers: "sources", "summary:24h", ...
          Readers, Writers,
          Ops,          \* kinds of writes in this instance, a subset of AllOps
          Failures,     \* BOOLEAN: may Redis or Postgres fail, a client leave, the
                        \* server restart
          TTL,          \* CacheTTL
          FillTime,     \* longest time from reading the feed to storing the answer
          MaxVersion, MaxTime      \* bounds for TLC

AllOps == {"mark",      \* read marks, re-analysis, connections: DropCache, then the reply
           "level",     \* a level set by hand, mail stored, the server's demo: Publish
                        \* drops
           "verdict",   \* the worker's: it reads whose message it is, then Publish drops
           "silent"}    \* SaveConnection of a synchronisation or of the demo, and what
                        \* the command seed writes: nothing drops

ASSUME ConstantsOK == /\ Names # {}
                      /\ Ops \subseteq AllOps /\ Failures \in BOOLEAN
                      /\ TTL \in Nat \ {0} /\ FillTime \in Nat
                      /\ MaxVersion \in Nat /\ MaxTime \in Nat

VARIABLES now,
          db,           \* version of the feed in Postgres
          ended,        \* version |-> when a newer one was committed
          cache,        \* name |-> [val, left], left being the time to live; Absent
          tainted,      \* history: name |-> the entry is left to its time to live
          reader, writer

vars == <<now, db, ended, cache, tainted, reader, writer>>

Versions == 0..MaxVersion
Absent == [val |-> -1, left |-> 0]
Cached(n) == cache[n] # Absent
Fresh(pc, n) == [pc |-> pc, name |-> n, val |-> 0, began |-> 0, age |-> 0]
IdleReader == Fresh("idle", CHOOSE n \in Names : TRUE)
IdleWriter == [pc |-> "idle", keys |-> {}]

Init == /\ now = 0 /\ db = 0
        /\ ended = [v \in Versions |-> 0]
        /\ cache = [n \in Names |-> Absent]
        /\ tainted = [n \in Names |-> FALSE]
        /\ reader = [r \in Readers |-> IdleReader]
        /\ writer = [w \in Writers |-> IdleWriter]

AgeOf(v) == IF v = db THEN 0 ELSE now - ended[v]

-----------------------------------------------------------------------------
(* handleListSources and handleSummary *)

\* GetCached finds an answer, which is sent as it is.
Hit(r, n) == /\ reader[r].pc = "idle" /\ Cached(n)
             /\ reader' = [reader EXCEPT ![r] =
                  [pc |-> "done", name |-> n, val |-> cache[n].val, began |-> now,
                   age |-> AgeOf(cache[n].val)]]
             /\ UNCHANGED <<now, db, ended, cache, tainted, writer>>

\* Nothing is cached, or Redis does not answer: the request goes on all the same.
Miss(r, n) == /\ reader[r].pc = "idle" /\ (Cached(n) => Failures)
              /\ reader' = [reader EXCEPT ![r] = Fresh("query", n)]
              /\ UNCHANGED <<now, db, ended, cache, tainted, writer>>

\* The answer is as old as the first statement it is computed from.
Query(r) == /\ reader[r].pc = "query"
            /\ reader' = [reader EXCEPT ![r].pc = "fill", ![r].val = db, ![r].began = now]
            /\ UNCHANGED <<now, db, ended, cache, tainted, writer>>

\* The age counts from the reading: what is sent was true then.
Answered(r) == reader' = [reader EXCEPT ![r].pc = "done", ![r].age = now - reader[r].began]

\* Mutant: the entry has no time to live.
FillForever(r) == /\ reader[r].pc = "fill"
                  /\ Answered(r)
                  /\ cache' = [cache EXCEPT ![reader[r].name] =
                                 [val |-> reader[r].val, left |-> MaxTime + TTL]]
                  /\ tainted' = [tainted EXCEPT ![reader[r].name] = reader[r].val < db]
                  /\ UNCHANGED <<now, db, ended, writer>>

\* SetCached, whatever was committed or dropped since the feed was read.
Fill(r) == /\ reader[r].pc = "fill"
           /\ Answered(r)
           /\ cache' = [cache EXCEPT ![reader[r].name] =
                          [val |-> reader[r].val, left |-> TTL]]
           /\ tainted' = [tainted EXCEPT ![reader[r].name] = reader[r].val < db]
           /\ UNCHANGED <<now, db, ended, writer>>

\* An error of SetCached is only logged.
FillFails(r) == /\ Failures /\ reader[r].pc = "fill"
                /\ Answered(r)
                /\ UNCHANGED <<now, db, ended, cache, tainted, writer>>

\* A statement fails: the answer is an error and nothing is cached.
QueryFails(r) == /\ Failures /\ reader[r].pc = "query"
                 /\ reader' = [reader EXCEPT ![r] = IdleReader]
                 /\ UNCHANGED <<now, db, ended, cache, tainted, writer>>

Leave(r) == /\ reader[r].pc = "done"
            /\ reader' = [reader EXCEPT ![r] = IdleReader]
            /\ UNCHANGED <<now, db, ended, cache, tainted, writer>>

-----------------------------------------------------------------------------
(* Writes of the feed *)

After(op) == CASE op = "mark" -> "scan"
               [] op = "level" -> "publish"
               [] op = "verdict" -> "owner"
               [] op = "silent" -> "idle"

\* The statement is committed; Postgres shows it to every later query.
Commit(w, op) == /\ writer[w].pc = "idle" /\ db < MaxVersion
                 /\ db' = db + 1
                 /\ ended' = [ended EXCEPT ![db] = now]
                 /\ writer' = [writer EXCEPT ![w].pc = After(op)]
                 /\ tainted' = IF op = "silent" THEN [n \in Names |-> Cached(n)] ELSE tainted
                 /\ UNCHANGED <<now, cache, reader>>

Reply(w) == writer' = [writer EXCEPT ![w] = IdleWriter]

\* ProcessMessage reads the connection, to learn whose feed the verdict changed.
ReadOwner(w) == /\ writer[w].pc = "owner"
                /\ writer' = [writer EXCEPT ![w].pc = "publish"]
                /\ UNCHANGED <<now, db, ended, cache, tainted, reader>>

\* That statement fails: the verdict is in the table, ProcessMessage returns, and
\* neither an event nor a drop follows.
OwnerUnknown(w) == /\ Failures /\ writer[w].pc = "owner"
                   /\ tainted' = [n \in Names |-> Cached(n)]
                   /\ Reply(w)
                   /\ UNCHANGED <<now, db, ended, cache, reader>>

\* The event is in the ring before the hook has dropped anything.
Publish(w) == /\ writer[w].pc = "publish"
              /\ writer' = [writer EXCEPT ![w].pc = "scan"]
              /\ UNCHANGED <<now, db, ended, cache, tainted, reader>>

\* DropCache, first half: which keys of the user there are.
Scan(w) == /\ writer[w].pc = "scan"
           /\ writer' = [writer EXCEPT ![w].pc = "del",
                                       ![w].keys = {n \in Names : Cached(n)}]
           /\ UNCHANGED <<now, db, ended, cache, tainted, reader>>

\* Mutant: only the key of one screen is deleted.
DeletesOne(w) == /\ writer[w].pc = "del"
                 /\ LET gone == IF writer[w].keys = {} THEN {}
                                ELSE {CHOOSE n \in writer[w].keys : TRUE}
                    IN /\ cache' = [n \in Names |-> IF n \in gone THEN Absent ELSE cache[n]]
                       /\ tainted' = [n \in Names |-> tainted[n] /\ n \notin gone]
                 /\ Reply(w)
                 /\ UNCHANGED <<now, db, ended, reader>>

\* Second half: they are deleted at once, and a handler answers its client.
Delete(w) == /\ writer[w].pc = "del"
             /\ cache' = [n \in Names |-> IF n \in writer[w].keys THEN Absent ELSE cache[n]]
             /\ tainted' = [n \in Names |-> tainted[n] /\ n \notin writer[w].keys]
             /\ Reply(w)
             /\ UNCHANGED <<now, db, ended, reader>>

\* Redis fails, or the client of a "mark" has left and r.Context() is cancelled:
\* the error is logged and the cache stays.
DropFails(w) == /\ Failures /\ writer[w].pc \in {"scan", "del"}
                /\ tainted' = [n \in Names |-> Cached(n)]
                /\ Reply(w)
                /\ UNCHANGED <<now, db, ended, cache, reader>>

-----------------------------------------------------------------------------
(* Time, Redis's expiry and a restart of the server *)

Expire(n) == /\ Cached(n) /\ cache[n].left = 0
             /\ cache' = [cache EXCEPT ![n] = Absent]
             /\ tainted' = [tainted EXCEPT ![n] = FALSE]
             /\ UNCHANGED <<now, db, ended, reader, writer>>

\* Time passes only when nothing is due: no entry to expire, no answer that has
\* been computed for FillTime.
Tick == /\ now < MaxTime
        /\ \A n \in Names : Cached(n) => cache[n].left > 0
        /\ \A r \in Readers : reader[r].pc = "fill" => now < reader[r].began + FillTime
        /\ now' = now + 1
        /\ cache' = [n \in Names |-> IF Cached(n) THEN [cache[n] EXCEPT !.left = @ - 1]
                                     ELSE Absent]
        /\ UNCHANGED <<db, ended, tainted, reader, writer>>

\* Requests and writers are gone between any two of their steps; Redis is not.
Restart == /\ Failures
           /\ reader' = [r \in Readers |-> IdleReader]
           /\ writer' = [w \in Writers |-> IdleWriter]
           /\ tainted' = [n \in Names |-> Cached(n)]
           /\ UNCHANGED <<now, db, ended, cache>>

ReaderStep(r) == \/ \E n \in Names : Hit(r, n) \/ Miss(r, n)
                 \/ Query(r) \/ QueryFails(r) \/ Fill(r) \/ FillFails(r) \/ Leave(r)
WriterStep(w) == \/ \E op \in Ops : Commit(w, op)
                 \/ ReadOwner(w) \/ OwnerUnknown(w)
                 \/ Publish(w) \/ Scan(w) \/ Delete(w) \/ DropFails(w)

Next == \/ \E r \in Readers : ReaderStep(r)
        \/ \E w \in Writers : WriterStep(w)
        \/ \E n \in Names : Expire(n)
        \/ Tick \/ Restart

Spec == Init /\ [][Next]_vars

-----------------------------------------------------------------------------
(* Properties *)

(***************************************************************************)
(* The variables keep their shape: an entry is of a version that was       *)
(* committed and does not outlive CacheTTL.                                *)
(***************************************************************************)
TypeOK ==
  /\ now \in 0..MaxTime /\ db \in Versions /\ ended \in [Versions -> 0..MaxTime]
  /\ cache \in [Names -> {Absent} \union [val : 0..db, left : 0..TTL]]
  /\ tainted \in [Names -> BOOLEAN]
  /\ reader \in [Readers -> [pc : {"idle", "query", "fill", "done"}, name : Names,
                             val : 0..db, began : 0..now,
                             age : 0..MaxTime]]
  /\ writer \in [Writers -> [pc : {"idle", "owner", "publish", "scan", "del"},
                             keys : SUBSET Names]]

(***************************************************************************)
(* An entry older than the feed is about to be deleted by a writer, unless *)
(* it became stale in one of the ways the code leaves to the time to live: *)
(* an answer stored after a newer version, a write that drops nothing, a   *)
(* verdict whose owner could not be read after it was saved, a drop that   *)
(* failed, a restart (DropCache's comment: on every write of the feed).    *)
(***************************************************************************)
Dropping == {"owner", "publish", "scan"}

StaleIsBeingDropped ==
  \A n \in Names :
    Cached(n) /\ cache[n].val < db /\ ~tainted[n] =>
      \E w \in Writers : \/ writer[w].pc \in Dropping
                         \/ writer[w].pc = "del" /\ n \in writer[w].keys

(***************************************************************************)
(* Even when an invalidation is missed, no client is sent numbers that     *)
(* were out of date for longer than the time to live plus the time one     *)
(* answer takes to compute: less than a minute if that is under 15 s       *)
(* (the comment on CacheTTL, redis.go:124).                                *)
(***************************************************************************)
StalenessBounded ==
  \A r \in Readers : reader[r].pc = "done" => reader[r].age <= TTL + FillTime
=============================================================================
