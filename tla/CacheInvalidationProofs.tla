---------------------- MODULE CacheInvalidationProofs ----------------------
(***************************************************************************)
(* For any answers, readers, writers, kinds of writes and times: an entry  *)
(* that is out of date is about to be deleted or left to its time to live  *)
(* in a way the code accepts, and even then nobody is sent numbers older   *)
(* than the time to live and the time one answer takes to compute.  And of *)
(* the screen that shows one of these answers, the summary: it is of the   *)
(* period chosen, whichever answers cross, and what it counts and lists of *)
(* the rows is what the feed and the cards do, in the same order.          *)
(***************************************************************************)
EXTENDS CacheInvalidation, Overview, FiniteSetTheorems, TLAPS

Entry(d) == {Absent} \union [val : 0..d, left : 0..TTL]
Request(d, t) == [pc : {"idle", "query", "fill", "done"}, name : Names, val : 0..d,
                  began : 0..t, age : 0..MaxTime]
Write == [pc : {"idle", "owner", "publish", "scan", "del"}, keys : SUBSET Names]

\* How old the entry e may be: what is left of its time is not yet spent.
Young(e) == AgeOf(e.val) <= TTL - e.left + FillTime

\* A version ended in the past; what a reader holds was true when it began.
Ages ==
  /\ \A v \in Versions : ended[v] <= now
  /\ \A n \in Names : Cached(n) => Young(cache[n])
  /\ \A r \in Readers :
       /\ reader[r].pc = "fill" => /\ now <= reader[r].began + FillTime
                                   /\ reader[r].val < db => reader[r].began <= ended[reader[r].val]
       /\ reader[r].pc = "done" => reader[r].age <= TTL + FillTime

IInv == TypeOK /\ StaleIsBeingDropped /\ Ages

LEMMA Bounds == /\ TTL \in Nat \ {0} /\ FillTime \in Nat /\ MaxVersion \in Nat /\ MaxTime \in Nat
                 /\ Ops \subseteq AllOps /\ \E n \in Names : TRUE
BY ConstantsOK DEF ConstantsOK

LEMMA Shapes ==
  /\ IdleReader \in [pc : {"idle"}, name : Names, val : {0}, began : {0}, age : {0}]
  /\ IdleWriter \in [pc : {"idle"}, keys : {{}}]
BY Bounds DEF IdleReader, IdleWriter, Fresh

LEMMA Typed ==
  ASSUME TypeOK
  PROVE  /\ now \in Nat /\ db \in Nat /\ now <= MaxTime /\ db <= MaxVersion
         /\ ended \in [Versions -> Nat]
         /\ cache \in [Names -> Entry(db)] /\ reader \in [Readers -> Request(db, now)]
         /\ writer \in [Writers -> Write]
         /\ \A n \in Names : Cached(n) => cache[n] \in [val : 0..db, left : 0..TTL]
         /\ \A v \in 0..db : v \in Versions
BY Bounds DEF TypeOK, Entry, Request, Write, Versions, Cached

\* What the steps of a request make of its locals.
Holding(s, d, t) == [s EXCEPT !.pc = "fill", !.val = d, !.began = t]
Sent(s, t) == [s EXCEPT !.pc = "done", !.age = t - s.began]

LEMMA Updates ==
  ASSUME NEW d \in Nat, NEW t \in 0..MaxTime, NEW s \in Request(d, t)
  PROVE  /\ Holding(s, d, t) \in Request(d, t)
         /\ Holding(s, d, t).pc = "fill" /\ Holding(s, d, t).val = d
         /\ Holding(s, d, t).began = t
         /\ Sent(s, t) \in Request(d, t) /\ Sent(s, t).pc = "done"
         /\ Sent(s, t).age = t - s.began
<1>1. t \in Nat /\ d \in 0..d /\ t \in 0..t /\ s.began \in 0..t /\ t - s.began \in 0..MaxTime
  BY Bounds DEF Request
<1>2. QED
  BY <1>1 DEF Request, Holding, Sent

LEMMA Asked ==
  \A n \in Names : /\ Fresh("query", n).pc = "query"
                   /\ \A d, t \in Nat : Fresh("query", n) \in Request(d, t)
BY Bounds DEF Request, Fresh

LEMMA Beginning == Init => IInv
<1> SUFFICES ASSUME Init PROVE IInv
  OBVIOUS
<1>1. /\ \A r \in Readers : reader[r] = IdleReader
      /\ \A w \in Writers : writer[w] = IdleWriter
      /\ \A n \in Names : ~Cached(n)
  BY DEF Init, Cached
<1>2. TypeOK
  <2>1. reader \in [Readers -> Request(0, 0)]
    BY Shapes, Bounds DEF Init, Request
  <2>2. writer \in [Writers -> Write]
    BY Shapes DEF Init, Write
  <2>3. QED
    BY <2>1, <2>2, Bounds DEF Init, TypeOK, Request, Write, Versions
<1>3. StaleIsBeingDropped
  BY <1>1 DEF StaleIsBeingDropped
<1>4. Ages
  BY <1>1, Shapes, Bounds DEF Ages, Init, Versions
<1>5. QED
  BY <1>2, <1>3, <1>4 DEF IInv

\* A request that goes from one step to another, the rest being as it was.
LEMMA Reads ==
  ASSUME IInv, NEW r \in Readers, NEW q \in Request(db, now),
         reader' = [reader EXCEPT ![r] = q],
         UNCHANGED <<now, db, ended, cache, tainted, writer>>,
         q.pc = "fill" => /\ now <= q.began + FillTime
                          /\ q.val < db => q.began <= ended[q.val],
         q.pc = "done" => q.age <= TTL + FillTime
  PROVE  IInv'
<1>1. reader' \in [Readers -> Request(db, now)] /\ reader'[r] = q
      /\ \A s \in Readers \ {r} : reader'[s] = reader[s]
  BY Typed DEF IInv
<1>2. TypeOK'
  BY <1>1 DEF IInv, TypeOK, Request, Write, Absent, Versions
<1>3. StaleIsBeingDropped'
  BY DEF IInv, StaleIsBeingDropped, Cached, Absent
<1>4. Ages'
  BY <1>1 DEF IInv, Ages, Cached, Absent, Young, AgeOf, Versions
<1>5. QED
  BY <1>2, <1>3, <1>4 DEF IInv

LEMMA Reading ==
  ASSUME IInv, NEW r \in Readers,
         \/ \E n \in Names : Hit(r, n) \/ Miss(r, n)
         \/ Query(r) \/ QueryFails(r) \/ FillFails(r) \/ Leave(r)
  PROVE  IInv'
<1> DEFINE s == reader[r]
<1>1. /\ TypeOK /\ Ages /\ s \in Request(db, now) /\ now \in Nat /\ db \in Nat
      /\ now <= MaxTime /\ db <= MaxVersion /\ ended \in [Versions -> Nat]
  BY Typed DEF IInv
<1>2. ASSUME NEW n \in Names, Hit(r, n) PROVE IInv'
  <2> DEFINE a == AgeOf(cache[n].val)
             q == [pc |-> "done", name |-> n, val |-> cache[n].val, began |-> now, age |-> a]
  <2>1. cache[n] \in [val : 0..db, left : 0..TTL] /\ Young(cache[n])
    BY <1>1, <1>2, Typed DEF Hit, Ages
  <2>2. a \in 0..MaxTime /\ a <= TTL + FillTime
    <3>1. cache[n].val \in Versions /\ cache[n].left \in 0..TTL
      BY <1>1, <2>1, Typed
    <3>2. ended[cache[n].val] \in Nat /\ ended[cache[n].val] <= now
      BY <1>1, <3>1 DEF Ages
    <3>3. QED
      BY <1>1, <2>1, <3>1, <3>2, Bounds DEF Young, AgeOf
  <2>3. q \in Request(db, now)
    BY <1>1, <2>1, <2>2 DEF Request
  <2> HIDE DEF a
  <2>4. QED
    BY <1>2, <2>2, <2>3, Reads DEF Hit, a
<1>3. ASSUME NEW n \in Names, Miss(r, n) PROVE IInv'
  <2>1. Fresh("query", n) \in Request(db, now) /\ Fresh("query", n).pc = "query"
    BY <1>1, Asked
  <2>2. reader' = [reader EXCEPT ![r] = Fresh("query", n)]
    BY <1>3 DEF Miss
  <2>3. QED
    BY <1>3, <2>1, <2>2, Reads DEF Miss
<1>4. CASE Query(r)
  <2> DEFINE q == Holding(s, db, now)
  <2>1. q \in Request(db, now) /\ q.pc = "fill" /\ q.val = db /\ q.began = now
    BY <1>1, Updates
  <2>2. reader' = [reader EXCEPT ![r] = q]
    BY <1>4, Typed DEF Query, IInv, Holding
  <2>3. now <= q.began + FillTime /\ ~(q.val < db) /\ q.pc # "done"
    BY <1>1, <2>1, Bounds
  <2> HIDE DEF q
  <2>4. QED
    BY <1>4, <2>1, <2>2, <2>3, Reads DEF Query
<1>5. CASE FillFails(r)
  <2> DEFINE q == Sent(s, now)
  <2>1. s.began \in 0..now /\ now <= s.began + FillTime
    BY <1>1, <1>5 DEF FillFails, Ages, Request
  <2>2. q \in Request(db, now) /\ q.pc = "done" /\ q.age = now - s.began
    BY <1>1, Updates
  <2>3. reader' = [reader EXCEPT ![r] = q]
    BY <1>5, Typed DEF FillFails, Answered, IInv, Sent
  <2> HIDE DEF q
  <2>4. q.age <= TTL + FillTime
    BY <1>1, <2>1, <2>2, Bounds
  <2>5. QED
    BY <1>5, <2>2, <2>3, <2>4, Reads DEF FillFails
<1>6. CASE QueryFails(r) \/ Leave(r)
  <2>1. IdleReader \in Request(db, now) /\ IdleReader.pc = "idle"
    BY <1>1, Shapes, Bounds DEF Request
  <2>2. QED
    BY <1>6, <2>1, Reads DEF QueryFails, Leave
<1>7. QED
  BY <1>2, <1>3, <1>4, <1>5, <1>6

LEMMA Filling == ASSUME IInv, NEW r \in Readers, Fill(r) PROVE IInv'
<1> DEFINE s == reader[r]
           q == Sent(s, now)
           e == [val |-> s.val, left |-> TTL]
<1>1. /\ TypeOK /\ Ages /\ s \in Request(db, now) /\ now \in Nat /\ db \in Nat
      /\ now <= MaxTime /\ db <= MaxVersion /\ ended \in [Versions -> Nat]
      /\ reader \in [Readers -> Request(db, now)] /\ cache \in [Names -> Entry(db)]
  BY Typed DEF IInv
<1>2. /\ s.name \in Names /\ s.val \in 0..db /\ s.began \in 0..now
      /\ s.val \in Versions /\ s.val # -1
      /\ now <= s.began + FillTime /\ (s.val < db => s.began <= ended[s.val])
  BY <1>1, Bounds DEF Fill, Ages, Request, Versions
<1>3. /\ q \in Request(db, now) /\ q.pc = "done" /\ q.age = now - s.began
      /\ reader' = [reader EXCEPT ![r] = q]
  <2>1. q \in Request(db, now) /\ q.pc = "done" /\ q.age = now - s.began
    BY <1>1, Updates
  <2>2. reader' = [reader EXCEPT ![r] = q]
    BY <1>1 DEF Fill, Answered, Sent
  <2>3. QED
    BY <2>1, <2>2
<1> HIDE DEF q
<1>4. /\ e \in [val : 0..db, left : 0..TTL] /\ e # Absent /\ e.val = s.val /\ e.left = TTL
      /\ cache' = [cache EXCEPT ![s.name] = e]
      /\ tainted' = [tainted EXCEPT ![s.name] = s.val < db]
      /\ UNCHANGED <<now, db, ended, writer>>
  BY <1>2, Bounds DEF Fill, Absent
<1> HIDE DEF e
<1>5. /\ cache' \in [Names -> Entry(db)] /\ cache'[s.name] = e
      /\ \A n \in Names \ {s.name} : cache'[n] = cache[n]
      /\ reader' \in [Readers -> Request(db, now)] /\ reader'[r] = q
      /\ \A p \in Readers \ {r} : reader'[p] = reader[p]
  BY <1>1, <1>2, <1>3, <1>4 DEF Entry
<1>6. /\ tainted \in [Names -> BOOLEAN] /\ (s.val < db) \in BOOLEAN
      /\ tainted' \in [Names -> BOOLEAN] /\ tainted'[s.name] = (s.val < db)
      /\ \A n \in Names \ {s.name} : tainted'[n] = tainted[n]
  <2> DEFINE b == s.val < db
  <2>1. b \in BOOLEAN /\ tainted \in [Names -> BOOLEAN] /\ s.name \in Names
        /\ tainted' = [tainted EXCEPT ![s.name] = b]
    BY <1>1, <1>2, <1>4 DEF TypeOK
  <2> HIDE DEF b
  <2>2. /\ tainted' \in [Names -> BOOLEAN] /\ tainted'[s.name] = b
        /\ \A n \in Names \ {s.name} : tainted'[n] = tainted[n]
    BY <2>1, Zenon
  <2>3. QED
    BY <2>1, <2>2 DEF b
<1>7. TypeOK'
  BY <1>1, <1>4, <1>5, <1>6 DEF TypeOK, Entry, Request, Absent, Versions
<1>8. StaleIsBeingDropped'
  <2>1. SUFFICES ASSUME NEW n \in Names, Cached(n)', cache'[n].val < db, ~tainted'[n]
                 PROVE  \E w \in Writers : \/ writer[w].pc \in Dropping
                                           \/ writer[w].pc = "del" /\ n \in writer[w].keys
    BY <1>4 DEF StaleIsBeingDropped
  <2>2. n # s.name
    BY <1>4, <1>5, <1>6, <2>1
  <2>3. QED
    BY <1>5, <1>6, <2>1, <2>2 DEF IInv, StaleIsBeingDropped, Cached, Absent
<1>9. Ages'
  <2>1. Young(e)
    BY <1>1, <1>2, <1>4, Bounds DEF Young, AgeOf
  <2>2. ASSUME NEW n \in Names, Cached(n)' PROVE Young(cache'[n])
    BY <1>1, <1>5, <2>1, <2>2 DEF Ages, Cached, Absent
  <2>3. \A n \in Names : Cached(n)' => Young(cache[n])'
    BY <1>4, <2>2 DEF Young, AgeOf
  <2>4. q.age <= TTL + FillTime
    BY <1>1, <1>2, <1>3, Bounds
  <2>5. QED
    BY <1>1, <1>3, <1>4, <1>5, <2>3, <2>4 DEF Ages, Versions
<1>10. QED
  BY <1>7, <1>8, <1>9 DEF IInv

-----------------------------------------------------------------------------
(* Writers, time and the rest *)

\* A change of the locals of one writer, the cache and its time being as they were.
LEMMA Writes ==
  ASSUME IInv, NEW w \in Writers, NEW q \in Write,
         writer' = [writer EXCEPT ![w] = q], UNCHANGED <<now, ended, db, cache, reader>>,
         tainted' \in [Names -> BOOLEAN], StaleIsBeingDropped'
  PROVE  IInv'
<1>1. writer' \in [Writers -> Write]
  BY Typed DEF IInv
<1>2. TypeOK'
  BY <1>1 DEF IInv, TypeOK, Write, Absent, Versions
<1>3. Ages'
  BY DEF IInv, Ages, Cached, Absent, Young, AgeOf, Versions
<1>4. QED
  BY <1>2, <1>3 DEF IInv

LEMMA Locals ==
  /\ IdleWriter \in Write /\ IdleWriter.pc = "idle"
  /\ \A q \in Write :
       /\ q.pc \in {"idle", "owner", "publish", "scan", "del"}
       /\ \A pc \in {"idle", "owner", "publish", "scan", "del"} :
            [q EXCEPT !.pc = pc] \in Write /\ [q EXCEPT !.pc = pc].pc = pc
BY Shapes DEF Write

LEMMA Committing ==
  ASSUME IInv, NEW w \in Writers, NEW op \in Ops, Commit(w, op) PROVE IInv'
<1> DEFINE q == [writer[w] EXCEPT !.pc = After(op)]
<1>1. /\ TypeOK /\ Ages /\ now \in Nat /\ db \in Nat /\ MaxVersion \in Nat
      /\ now <= MaxTime /\ db < MaxVersion /\ ended \in [Versions -> Nat]
      /\ writer \in [Writers -> Write] /\ cache \in [Names -> Entry(db)]
      /\ reader \in [Readers -> Request(db, now)] /\ op \in AllOps
      /\ UNCHANGED <<now, cache, reader>> /\ db' = db + 1
      /\ ended' = [ended EXCEPT ![db] = now] /\ db \in Versions
  BY Typed, Bounds DEF IInv, Commit
<1>2. /\ q \in Write /\ q.pc = After(op)
      /\ After(op) \in (IF op = "silent" THEN {"idle"} ELSE Dropping)
      /\ writer' = [writer EXCEPT ![w] = q]
  <2>1. After(op) \in (IF op = "silent" THEN {"idle"} ELSE Dropping)
    BY <1>1 DEF After, AllOps, Dropping
  <2>2. After(op) \in {"idle", "owner", "publish", "scan", "del"} /\ writer[w] \in Write
    BY <1>1, <2>1 DEF Dropping
  <2>3. q \in Write /\ q.pc = After(op)
    BY <2>2 DEF Write
  <2>4. writer' = [writer EXCEPT ![w] = q]
    BY <1>1 DEF Commit
  <2>5. QED
    BY <2>1, <2>3, <2>4
<1> HIDE DEF q
<1>3. writer' \in [Writers -> Write] /\ writer'[w] = q
      /\ (\A x \in Writers \ {w} : writer'[x] = writer[x]) /\ writer[w].pc = "idle"
  BY <1>1, <1>2 DEF Commit
<1>4. ended' \in [Versions -> 0..MaxTime] /\ ended'[db] = now
      /\ \A v \in Versions \ {db} : ended'[v] = ended[v]
  BY <1>1, Bounds DEF TypeOK
<1>5. tainted' \in [Names -> BOOLEAN]
      /\ tainted' = IF op = "silent" THEN [n \in Names |-> Cached(n)] ELSE tainted
  BY <1>1 DEF Commit, TypeOK, Cached
<1>6. TypeOK'
  <2>1. db' \in Versions /\ 0..db \subseteq 0..db'
    BY <1>1 DEF Versions
  <2>2. cache' \in [Names -> Entry(db')] /\ reader' \in [Readers -> Request(db', now)]
    BY <1>1, <2>1 DEF Entry, Request
  <2>3. QED
    BY <1>1, <1>3, <1>4, <1>5, <2>1, <2>2 DEF TypeOK, Entry, Request, Write, Absent, Versions
<1>7. StaleIsBeingDropped'
  <2>1. CASE op = "silent"
    BY <1>1, <1>5, <2>1 DEF StaleIsBeingDropped, Cached, Absent
  <2>2. CASE op # "silent"
    BY <1>2, <1>3, <2>2 DEF StaleIsBeingDropped
  <2>3. QED
    BY <2>1, <2>2
<1>8. Ages'
  <2>1. \A v \in Versions : ended'[v] <= now
    BY <1>1, <1>4 DEF Ages
  <2>2. ASSUME NEW n \in Names, Cached(n)' PROVE Young(cache[n])'
    <3> DEFINE v == cache[n].val
    <3>1. cache'[n] = cache[n] /\ Cached(n)
      BY <1>1, <2>2 DEF Cached, Absent
    <3>2. cache[n] \in [val : 0..db, left : 0..TTL] /\ Young(cache[n])
      BY <1>1, <3>1, Typed DEF Ages
    <3>3. v \in 0..db /\ cache[n].left \in 0..TTL /\ v \in Versions /\ ended[v] \in Nat
      BY <1>1, <3>2, Typed
    <3>4. CASE v = db
      BY <1>1, <1>4, <3>1, <3>3, <3>4, Bounds DEF Young, AgeOf
    <3>5. CASE v # db
      <4>1. ended'[v] = ended[v] /\ v # db'
        BY <1>1, <1>4, <3>3, <3>5
      <4>2. QED
        BY <1>1, <3>1, <3>2, <3>3, <3>5, <4>1, Bounds DEF Young, AgeOf
    <3>6. QED
      BY <3>4, <3>5
  <2>3. ASSUME NEW r \in Readers, reader[r].pc = "fill", reader[r].val < db'
        PROVE  reader[r].began <= ended'[reader[r].val]
    <3>1. reader[r].val \in 0..db /\ reader[r].began \in 0..now /\ reader[r].val \in Versions
      BY <1>1, Typed DEF Request
    <3>2. CASE reader[r].val = db
      BY <1>1, <1>4, <3>1, <3>2
    <3>3. CASE reader[r].val # db
      BY <1>1, <1>4, <2>3, <3>1, <3>3 DEF Ages
    <3>4. QED
      BY <3>2, <3>3
  <2>4. QED
    BY <1>1, <2>1, <2>2, <2>3 DEF Ages, Versions
<1>9. QED
  BY <1>6, <1>7, <1>8 DEF IInv

\* On its way to the drop a writer goes on being the one that drops.
LEMMA Publishing == ASSUME IInv, NEW w \in Writers, ReadOwner(w) \/ Publish(w) PROVE IInv'
<1>1. PICK pc \in {"publish", "scan"} : writer' = [writer EXCEPT ![w].pc = pc]
  BY DEF ReadOwner, Publish
<1> DEFINE q == [writer[w] EXCEPT !.pc = pc]
<1>2. /\ UNCHANGED <<now, db, ended, cache, tainted, reader>>
      /\ writer[w].pc # "del"
      /\ writer \in [Writers -> Write] /\ tainted \in [Names -> BOOLEAN]
      /\ writer' = [writer EXCEPT ![w] = q]
  BY <1>1, Typed DEF ReadOwner, Publish, IInv, TypeOK
<1>3. q \in Write /\ q.pc \in Dropping
  <2>1. writer[w] \in Write /\ pc \in {"idle", "owner", "publish", "scan", "del"}
    BY <1>1, <1>2
  <2>2. QED
    BY <1>1, <2>1 DEF Write, Dropping
<1> HIDE DEF q
<1>4. writer'[w] = q /\ \A x \in Writers \ {w} : writer'[x] = writer[x]
  BY <1>2
<1>5. StaleIsBeingDropped'
  BY <1>2, <1>3, <1>4 DEF IInv, StaleIsBeingDropped, Cached, Absent
<1>6. QED
  BY <1>2, <1>3, <1>5, Writes

LEMMA Scanning == ASSUME IInv, NEW w \in Writers, Scan(w) PROVE IInv'
<1> DEFINE K == {n \in Names : Cached(n)}
           q == [writer[w] EXCEPT !.pc = "del", !.keys = K]
<1>1. /\ writer[w].pc = "scan" /\ UNCHANGED <<now, db, ended, cache, tainted, reader>>
      /\ writer \in [Writers -> Write] /\ tainted \in [Names -> BOOLEAN]
      /\ writer' = [writer EXCEPT ![w] = q]
  BY Typed DEF Scan, IInv, TypeOK
<1>2. q \in Write /\ q.pc = "del" /\ q.keys = K
  <2>1. writer[w] \in Write /\ K \in SUBSET Names
    BY <1>1
  <2> HIDE DEF K
  <2>2. QED
    BY <2>1 DEF Write
<1> HIDE DEF q
<1>3. writer'[w] = q /\ \A x \in Writers \ {w} : writer'[x] = writer[x]
  BY <1>1
<1>4. StaleIsBeingDropped'
  BY <1>1, <1>2, <1>3 DEF IInv, StaleIsBeingDropped, Dropping, Cached, Absent
<1>5. QED
  BY <1>1, <1>2, <1>4, Writes

LEMMA Failing == ASSUME IInv, NEW w \in Writers, OwnerUnknown(w) \/ DropFails(w) PROVE IInv'
<1>1. /\ UNCHANGED <<now, db, ended, cache, reader>>
      /\ tainted' = [n \in Names |-> Cached(n)]
      /\ writer' = [writer EXCEPT ![w] = IdleWriter]
  BY DEF OwnerUnknown, DropFails, Reply
<1>2. tainted' \in [Names -> BOOLEAN]
  BY <1>1 DEF Cached
<1>3. StaleIsBeingDropped'
  BY <1>1 DEF StaleIsBeingDropped, Cached, Absent
<1>4. QED
  BY <1>1, <1>2, <1>3, Locals, Writes

LEMMA Deleting == ASSUME IInv, NEW w \in Writers, Delete(w) PROVE IInv'
<1> DEFINE K == writer[w].keys
<1>1. /\ writer[w].pc = "del" /\ UNCHANGED <<now, db, ended, reader>>
      /\ writer \in [Writers -> Write] /\ cache \in [Names -> Entry(db)]
      /\ tainted \in [Names -> BOOLEAN]
      /\ writer' = [writer EXCEPT ![w] = IdleWriter]
      /\ cache' = [n \in Names |-> IF n \in K THEN Absent ELSE cache[n]]
      /\ tainted' = [n \in Names |-> tainted[n] /\ n \notin K]
  BY Typed DEF Delete, Reply, IInv, TypeOK
<1>2. /\ writer' \in [Writers -> Write] /\ writer'[w] = IdleWriter
      /\ \A x \in Writers \ {w} : writer'[x] = writer[x]
  BY <1>1, Locals
<1>3. cache' \in [Names -> Entry(db)] /\ tainted' \in [Names -> BOOLEAN]
  BY <1>1 DEF Entry
<1>4. \A n \in Names : Cached(n)' => /\ n \notin K /\ Cached(n) /\ cache'[n] = cache[n]
                                     /\ tainted'[n] = tainted[n]
  BY <1>1 DEF Cached, Absent
<1>5. TypeOK'
  BY <1>1, <1>2, <1>3 DEF IInv, TypeOK, Entry, Write, Absent, Versions
<1>6. StaleIsBeingDropped'
  <2>1. SUFFICES ASSUME NEW n \in Names, Cached(n)', cache'[n].val < db, ~tainted'[n]
                 PROVE  \E x \in Writers : \/ writer'[x].pc \in Dropping
                                           \/ writer'[x].pc = "del" /\ n \in writer'[x].keys
    BY <1>1 DEF StaleIsBeingDropped
  <2>2. PICK x \in Writers : \/ writer[x].pc \in Dropping
                             \/ writer[x].pc = "del" /\ n \in writer[x].keys
    BY <1>4, <2>1 DEF IInv, StaleIsBeingDropped
  <2>3. x # w
    BY <1>1, <1>4, <2>1, <2>2 DEF Dropping
  <2>4. QED
    BY <1>2, <2>2, <2>3
<1>7. Ages'
  BY <1>1, <1>4 DEF IInv, Ages, Young, AgeOf, Versions
<1>8. QED
  BY <1>5, <1>6, <1>7 DEF IInv

LEMMA Expiring == ASSUME IInv, NEW m \in Names, Expire(m) PROVE IInv'
<1>1. /\ cache' = [cache EXCEPT ![m] = Absent] /\ tainted' = [tainted EXCEPT ![m] = FALSE]
      /\ UNCHANGED <<now, db, ended, reader, writer>>
      /\ cache \in [Names -> Entry(db)] /\ tainted \in [Names -> BOOLEAN]
  BY Typed DEF Expire, IInv, TypeOK
<1>2. cache' \in [Names -> Entry(db)] /\ tainted' \in [Names -> BOOLEAN]
  BY <1>1 DEF Entry
<1>3. \A n \in Names : Cached(n)' => /\ Cached(n) /\ cache'[n] = cache[n]
                                     /\ tainted'[n] = tainted[n]
  BY <1>1 DEF Cached, Absent
<1>4. TypeOK'
  BY <1>1, <1>2 DEF IInv, TypeOK, Entry, Absent, Versions
<1>5. StaleIsBeingDropped'
  BY <1>1, <1>3 DEF IInv, StaleIsBeingDropped
<1>6. Ages'
  BY <1>1, <1>3 DEF IInv, Ages, Young, AgeOf, Versions
<1>7. QED
  BY <1>4, <1>5, <1>6 DEF IInv

\* What a second more makes of an entry that is not due.
LEMMA Older ==
  ASSUME NEW d \in Nat, NEW e \in [val : 0..d, left : 0..TTL], e.left > 0
  PROVE  LET o == [e EXCEPT !.left = @ - 1]
         IN o \in [val : 0..d, left : 0..TTL] /\ o.val = e.val /\ o.left = e.left - 1
            /\ o # Absent
BY Bounds DEF Absent

LEMMA Ticking == ASSUME IInv, Tick PROVE IInv'
<1>1. /\ now < MaxTime /\ now' = now + 1 /\ UNCHANGED <<db, ended, tainted, reader, writer>>
      /\ now \in Nat /\ db \in Nat /\ MaxTime \in Nat /\ ended \in [Versions -> Nat]
      /\ reader \in [Readers -> Request(db, now)]
      /\ \A v \in 0..db : v \in Versions
  BY Typed, Bounds DEF Tick, IInv
<1>2. ASSUME NEW n \in Names, Cached(n)
      PROVE  /\ Cached(n)' /\ cache'[n] \in [val : 0..db, left : 0..TTL]
             /\ cache'[n].val = cache[n].val /\ cache'[n].left = cache[n].left - 1
  <2>1. cache[n] \in [val : 0..db, left : 0..TTL] /\ cache[n].left > 0
    BY <1>2, Typed DEF IInv, Tick
  <2>2. cache'[n] = [cache[n] EXCEPT !.left = @ - 1]
    BY <1>2 DEF Tick
  <2>3. QED
    BY <1>1, <2>1, <2>2, Older DEF Cached, Absent
<1>3. \A n \in Names : ~Cached(n) => cache'[n] = Absent /\ ~Cached(n)'
  BY DEF Tick, Cached, Absent
<1>4. TypeOK'
  <2>1. cache' \in [Names -> Entry(db)]
    <3>1. \A n \in Names : cache'[n] \in Entry(db)
      BY <1>2, <1>3 DEF Entry
    <3>2. cache' = [n \in Names |-> cache'[n]]
      BY DEF Tick
    <3>3. QED
      BY <3>1, <3>2
  <2>2. reader' \in [Readers -> Request(db, now')]
    <3>1. 0..now \subseteq 0..now'
      BY <1>1
    <3>2. QED
      BY <1>1, <3>1 DEF Request
  <2>3. QED
    BY <1>1, <2>1, <2>2 DEF IInv, TypeOK, Entry, Request, Absent, Versions
<1>5. StaleIsBeingDropped'
  BY <1>1, <1>2, <1>3 DEF IInv, StaleIsBeingDropped
<1>6. Ages'
  <2>1. \A v \in Versions : ended'[v] <= now'
    BY <1>1 DEF IInv, Ages
  <2>2. ASSUME NEW n \in Names, Cached(n)' PROVE Young(cache[n])'
    <3>1. Cached(n) /\ Young(cache[n]) /\ cache[n] \in [val : 0..db, left : 0..TTL]
      BY <1>3, <2>2, Typed DEF IInv, Ages
    <3>2. cache[n].val \in Versions /\ ended[cache[n].val] \in Nat /\ cache[n].left \in 0..TTL
      BY <1>1, <3>1
    <3>3. cache'[n].val = cache[n].val /\ cache'[n].left = cache[n].left - 1
      BY <1>2, <3>1
    <3>4. QED
      BY <1>1, <3>1, <3>2, <3>3, Bounds DEF Young, AgeOf
  <2>3. ASSUME NEW r \in Readers, reader[r].pc = "fill"
        PROVE  now' <= reader[r].began + FillTime
    <3>1. reader[r].began \in 0..now /\ now < reader[r].began + FillTime
      BY <1>1, <2>3 DEF Tick, Request
    <3>2. QED
      BY <1>1, <3>1, Bounds
  <2>4. QED
    BY <1>1, <2>1, <2>2, <2>3 DEF IInv, Ages, Versions
<1>7. QED
  BY <1>4, <1>5, <1>6 DEF IInv

LEMMA Restarting == ASSUME IInv, Restart PROVE IInv'
<1>1. /\ reader' = [r \in Readers |-> IdleReader] /\ writer' = [w \in Writers |-> IdleWriter]
      /\ tainted' = [n \in Names |-> Cached(n)] /\ UNCHANGED <<now, db, ended, cache>>
      /\ now \in Nat /\ db \in Nat
  BY Typed DEF Restart, IInv
<1>2. /\ IdleReader \in Request(db, now) /\ IdleReader.pc = "idle" /\ IdleWriter \in Write
      /\ tainted' \in [Names -> BOOLEAN]
  BY <1>1, Shapes, Locals, Bounds DEF Request, Cached
<1>3. TypeOK'
  BY <1>1, <1>2 DEF IInv, TypeOK, Request, Write, Absent, Versions
<1>4. StaleIsBeingDropped'
  BY <1>1 DEF StaleIsBeingDropped, Cached, Absent
<1>5. Ages'
  BY <1>1, <1>2 DEF IInv, Ages, Cached, Absent, Young, AgeOf, Versions
<1>6. QED
  BY <1>3, <1>4, <1>5 DEF IInv

LEMMA Steps == IInv /\ [Next]_vars => IInv'
<1> SUFFICES ASSUME IInv, [Next]_vars PROVE IInv'
  OBVIOUS
<1>1. ASSUME NEW r \in Readers, ReaderStep(r) PROVE IInv'
  BY <1>1, Reading, Filling DEF ReaderStep
<1>2. ASSUME NEW w \in Writers, WriterStep(w) PROVE IInv'
  BY <1>2, Committing, Publishing, Scanning, Deleting, Failing DEF WriterStep
<1>3. ASSUME NEW n \in Names, Expire(n) PROVE IInv'
  BY <1>3, Expiring
<1>4. CASE Tick
  BY <1>4, Ticking
<1>5. CASE Restart
  BY <1>5, Restarting
<1>6. CASE UNCHANGED vars
  BY <1>6 DEF vars, IInv, TypeOK, StaleIsBeingDropped, Ages, Cached, Absent, Young, AgeOf,
              Versions
<1>7. QED
  BY <1>1, <1>2, <1>3, <1>4, <1>5, <1>6 DEF Next

-----------------------------------------------------------------------------
(* Theorems *)

LEMMA Invariance == Spec => []IInv
<1>1. Init => IInv
  BY Beginning
<1>2. IInv /\ [Next]_vars => IInv'
  BY Steps
<1>3. QED
  BY <1>1, <1>2, PTL DEF Spec

\* Entries, requests and writers keep their shape.
THEOREM TypeCorrect == Spec => []TypeOK
<1>1. IInv => TypeOK
  BY DEF IInv
<1>2. QED
  BY <1>1, Invariance, PTL

\* A write of the feed drops what it has made stale, in whatever order readers fill and
\* writers scan and delete, but for the five ways of staying that the invariant names.
THEOREM StaleIsDropped == Spec => []StaleIsBeingDropped
<1>1. IInv => StaleIsBeingDropped
  BY DEF IInv
<1>2. QED
  BY <1>1, Invariance, PTL

\* And when a drop is missed, what is sent is old by no more than CacheTTL and the
\* time an answer takes to compute.
THEOREM StalenessStaysBounded == Spec => []StalenessBounded
<1>1. IInv => StalenessBounded
  BY DEF IInv, Ages, StalenessBounded
<1>2. QED
  BY <1>1, Invariance, PTL
-----------------------------------------------------------------------------
(***************************************************************************)
(* The screen that asks for these summaries, for any tables, periods and   *)
(* requests.                                                               *)
(***************************************************************************)
Waits(f) == f.stage # "free" /\ ~f.cancelled

RequestShape(f) ==
  f \in [stage : {"free", "asked", "answered"}, period : Periods, cancelled : BOOLEAN,
         answer : {f.answer}]

ScreenShapes ==
  /\ table \in Tables /\ hour \in Noon..(Noon + MaxHours) /\ period \in Periods
  /\ loading \in BOOLEAN /\ failed \in BOOLEAN
  /\ kept = [p \in Periods |-> kept[p]]
  /\ flight = [r \in Requests |-> flight[r]]
  /\ \A r \in Requests : RequestShape(flight[r])

\* What is kept under a period, what a request is answered and what the screen waits
\* for is of the right period.
KeptIsRight == \A p \in Periods : kept[p] # Nothing => kept[p].period = p
AnswerIsRight(f) == f.stage = "answered" => f.answer.period = f.period
AnswersAgree ==
  \A r \in Requests : /\ AnswerIsRight(flight[r])
                      /\ Waits(flight[r]) => flight[r].period = period

OneWaiting == \A r, q \in Requests : Waits(flight[r]) /\ Waits(flight[q]) => r = q

ScreenInv == ScreenShapes /\ KeptIsRight /\ AnswersAgree /\ OneWaiting /\ ScreenAgrees

LEMMA Horizon == Noon \in Nat /\ MaxHours \in Nat
BY OverviewOK DEF OverviewOK

LEMMA FreeRequest == RequestShape(Free) /\ Free.stage = "free" /\ Free.cancelled = FALSE
BY OverviewOK DEF OverviewOK, RequestShape, Free

LEMMA AskedRequest ==
  ASSUME NEW p \in Periods
  PROVE  LET f == [Free EXCEPT !.stage = "asked", !.period = p]
         IN RequestShape(f) /\ f.stage = "asked" /\ f.period = p /\ f.cancelled = FALSE
<1> DEFINE g == Free
           f == [g EXCEPT !.stage = "asked", !.period = p]
<1>1. RequestShape(g) /\ g.cancelled = FALSE
  BY FreeRequest
<1> HIDE DEF g
<1>2. RequestShape(f) /\ f.stage = "asked" /\ f.period = p /\ f.cancelled = FALSE
  BY <1>1 DEF RequestShape
<1> QED
  BY <1>2 DEF g

LEMMA SummaryIsOf == \A S, p, n : Summary(S, p, n).period = p
BY DEF Summary

\* The screen asks: the request before is cancelled.
LEMMA ScreenAsks ==
  ASSUME ScreenInv, NEW p \in Periods, Ask(p), period' = p,
         UNCHANGED <<table, hour, kept>>
  PROVE  ScreenInv'
<1>1. PICK r \in Requests :
        /\ flight[r].stage = "free"
        /\ flight' = [q \in Requests |->
             IF q = r THEN [Free EXCEPT !.stage = "asked", !.period = p]
             ELSE [flight[q] EXCEPT !.cancelled = (flight[q].stage # "free")]]
  BY DEF Ask
<1> DEFINE f == [Free EXCEPT !.stage = "asked", !.period = p]
<1>2. RequestShape(f) /\ f.stage = "asked" /\ f.period = p /\ f.cancelled = FALSE
  BY AskedRequest DEF ScreenInv
<1>3. flight'[r] = f
  BY <1>1
<1> HIDE DEF f
<1>4. ASSUME NEW q \in Requests, q # r
      PROVE  RequestShape(flight'[q]) /\ AnswerIsRight(flight'[q]) /\ ~Waits(flight'[q])
  <2> DEFINE c == (flight[q].stage # "free")
  <2>1. flight'[q] = [flight[q] EXCEPT !.cancelled = c]
    BY <1>1, <1>4
  <2>2. c \in BOOLEAN /\ (c <=> flight[q].stage # "free")
    OBVIOUS
  <2> HIDE DEF c
  <2>3. /\ flight'[q].stage = flight[q].stage /\ flight'[q].period = flight[q].period
        /\ flight'[q].answer = flight[q].answer /\ flight'[q].cancelled = c
        /\ RequestShape(flight'[q])
    BY <2>1, <2>2 DEF ScreenInv, ScreenShapes, RequestShape
  <2> QED
    BY <2>2, <2>3 DEF ScreenInv, AnswersAgree, AnswerIsRight, Waits
<1>5. loading' = TRUE /\ failed' = FALSE
  BY DEF Ask
<1>6. ScreenShapes'
  BY <1>1, <1>2, <1>3, <1>4, <1>5 DEF ScreenInv, ScreenShapes
<1>7. AnswersAgree' /\ OneWaiting'
  BY <1>2, <1>3, <1>4 DEF AnswersAgree, OneWaiting, AnswerIsRight, Waits
<1>8. ScreenAgrees'
  BY <1>2, <1>3, <1>5 DEF ScreenAgrees, Waits
<1> QED
  BY <1>6, <1>7, <1>8 DEF ScreenInv, KeptIsRight

\* A request moves on, or comes to its end, and the screen with it.
LEMMA RequestMoves ==
  ASSUME ScreenInv, NEW r \in Requests, NEW f, flight' = [flight EXCEPT ![r] = f],
         RequestShape(f), AnswerIsRight(f),
         Waits(f) => Waits(flight[r]) /\ f.period = flight[r].period,
         UNCHANGED <<table, hour, period>>, loading' \in BOOLEAN, failed' \in BOOLEAN,
         kept' = [p \in Periods |-> kept'[p]], KeptIsRight',
         IF Waits(f) \/ ~Waits(flight[r])
         THEN UNCHANGED <<loading, failed, summary>>
         ELSE loading' = FALSE /\ (failed' = TRUE \/ summary'.period = period)
  PROVE  ScreenInv'
<1>1. flight'[r] = f /\ \A q \in Requests : q # r => flight'[q] = flight[q]
  BY DEF ScreenInv, ScreenShapes
<1>2. flight' = [q \in Requests |-> flight'[q]]
  <2>1. flight = [q \in Requests |-> flight[q]]
    BY DEF ScreenInv, ScreenShapes
  <2> QED
    BY <2>1
<1>3. ScreenShapes'
  BY <1>1, <1>2 DEF ScreenInv, ScreenShapes
<1>4. AnswersAgree' /\ OneWaiting'
  BY <1>1 DEF ScreenInv, AnswersAgree, OneWaiting
<1>5. ScreenAgrees'
  <2>1. CASE Waits(f) \/ ~Waits(flight[r])
    <3>1. (\E q \in Requests : Waits(flight[q])) <=> \E q \in Requests : Waits(flight'[q])
      BY <1>1, <2>1
    <3>2. UNCHANGED <<loading, failed, summary, period>>
      BY <2>1
    <3> QED
      BY <3>1, <3>2 DEF ScreenInv, ScreenAgrees, Waits
  <2>2. CASE ~(Waits(f) \/ ~Waits(flight[r]))
    <3>1. \A q \in Requests : ~Waits(flight'[q])
      BY <1>1, <2>2 DEF ScreenInv, OneWaiting
    <3>2. loading' = FALSE /\ (failed' = TRUE \/ summary'.period = period')
      BY <2>2
    <3> QED
      BY <3>1, <3>2 DEF ScreenAgrees, Waits
  <2> QED
    BY <2>1, <2>2
<1> QED
  BY <1>3, <1>4, <1>5 DEF ScreenInv

\* The handler kept from the cache or from the rows, under the period asked for.
LEMMA HandlerAnswers ==
  ASSUME ScreenInv, NEW r \in Requests, flight[r].stage = "asked",
         NEW a, a.period = flight[r].period, Answer(r, a),
         UNCHANGED <<table, hour, period, summary, loading, failed>>,
         kept' = [p \in Periods |-> kept'[p]], KeptIsRight'
  PROVE  ScreenInv'
<1>1. RequestShape(flight[r]) /\ flight = [q \in Requests |-> flight[q]]
  BY DEF ScreenInv, ScreenShapes
<1> DEFINE f == [flight[r] EXCEPT !.stage = "answered", !.answer = a]
<1>2. flight' = [flight EXCEPT ![r] = f]
  BY <1>1 DEF Answer
<1>3. RequestShape(f) /\ f.stage = "answered" /\ f.period = flight[r].period
      /\ f.cancelled = flight[r].cancelled /\ f.answer = a
  BY <1>1 DEF RequestShape
<1> HIDE DEF f
<1>4. Waits(f) <=> Waits(flight[r])
  BY <1>3 DEF Waits
<1>5. AnswerIsRight(f) /\ loading' \in BOOLEAN /\ failed' \in BOOLEAN
  BY <1>3 DEF AnswerIsRight, ScreenInv, ScreenShapes
<1> QED
  BY <1>2, <1>3, <1>4, <1>5, RequestMoves

LEMMA ScreenStep ==
  ASSUME ScreenInv, [OverviewNext]_overviewVars
  PROVE  ScreenInv'
<1> USE DEF Nothing
<1>0. ScreenShapes /\ KeptIsRight /\ AnswersAgree /\ OneWaiting /\ ScreenAgrees
  BY DEF ScreenInv
<1>1. ASSUME NEW p \in Periods, Choose(p) PROVE ScreenInv'
  BY <1>1, ScreenAsks DEF Choose
<1>2. CASE Reopen
  BY <1>0, <1>2, ScreenAsks, OverviewOK DEF Reopen, OverviewOK
<1>3. CASE HourPasses
  <2>1. /\ hour' \in Noon..(Noon + MaxHours) /\ kept' = [p \in Periods |-> Nothing]
        /\ UNCHANGED <<table, period, summary, loading, flight, failed>>
    BY <1>0, <1>3, Horizon DEF HourPasses, ScreenShapes
  <2>2. ScreenShapes' /\ KeptIsRight'
    BY <1>0, <2>1 DEF ScreenShapes, KeptIsRight
  <2> QED
    BY <1>0, <2>1, <2>2 DEF ScreenInv, AnswersAgree, OneWaiting, ScreenAgrees
<1>4. ASSUME NEW r \in Requests, Received(r) PROVE ScreenInv'
  <2>1. /\ flight' = [flight EXCEPT ![r] = Free] /\ flight[r].stage = "answered"
        /\ UNCHANGED <<table, hour, period, kept, failed>>
        /\ IF flight[r].cancelled THEN UNCHANGED <<summary, loading>>
           ELSE summary' = flight[r].answer /\ loading' = FALSE
    BY <1>4 DEF Received
  <2>2. /\ RequestShape(Free) /\ ~Waits(Free) /\ AnswerIsRight(Free)
    BY <1>0, FreeRequest DEF Waits, AnswerIsRight
  <2>3. Waits(flight[r]) <=> ~flight[r].cancelled
    BY <2>1 DEF Waits
  <2>4. Waits(flight[r]) => flight[r].answer.period = period
    BY <1>0, <2>1 DEF AnswersAgree, AnswerIsRight
  <2>5. /\ loading' \in BOOLEAN /\ failed' \in BOOLEAN
        /\ kept' = [p \in Periods |-> kept'[p]] /\ KeptIsRight'
    BY <1>0, <2>1 DEF ScreenShapes, KeptIsRight
  <2> QED
    BY <2>1, <2>2, <2>3, <2>4, <2>5, RequestMoves
<1>5. ASSUME NEW r \in Requests, Fails(r) PROVE ScreenInv'
  <2>1. /\ flight' = [flight EXCEPT ![r] = Free] /\ flight[r].stage # "free"
        /\ UNCHANGED <<table, hour, period, kept, summary>>
        /\ IF flight[r].cancelled THEN UNCHANGED <<loading, failed>>
           ELSE loading' = FALSE /\ failed' = TRUE
    BY <1>5 DEF Fails
  <2>2. /\ RequestShape(Free) /\ ~Waits(Free) /\ AnswerIsRight(Free)
    BY <1>0, FreeRequest DEF Waits, AnswerIsRight
  <2>3. Waits(flight[r]) <=> ~flight[r].cancelled
    BY <2>1 DEF Waits
  <2>4. /\ loading' \in BOOLEAN /\ failed' \in BOOLEAN
        /\ kept' = [p \in Periods |-> kept'[p]] /\ KeptIsRight'
    BY <1>0, <2>1 DEF ScreenShapes, KeptIsRight
  <2> QED
    BY <2>1, <2>2, <2>3, <2>4, RequestMoves
<1>6. ASSUME NEW r \in Requests, FromCache(r) PROVE ScreenInv'
  <2> DEFINE a == kept[flight[r].period]
  <2>1. /\ flight[r].stage = "asked" /\ a # Nothing /\ Answer(r, a)
        /\ UNCHANGED <<table, hour, kept, period, summary, loading, failed>>
    BY <1>6 DEF FromCache
  <2>2. a.period = flight[r].period
    BY <1>0, <2>1 DEF KeptIsRight, ScreenShapes, RequestShape
  <2>3. kept' = [p \in Periods |-> kept'[p]] /\ KeptIsRight'
    BY <1>0, <2>1 DEF ScreenShapes, KeptIsRight
  <2> HIDE DEF a
  <2> QED
    BY <2>1, <2>2, <2>3, HandlerAnswers
<1>7. ASSUME NEW r \in Requests, Compute(r) PROVE ScreenInv'
  <2> DEFINE a == Summary(table, flight[r].period, hour)
  <2>1. /\ flight[r].stage = "asked" /\ Answer(r, a)
        /\ kept' \in {kept, [kept EXCEPT ![flight[r].period] = a]}
        /\ UNCHANGED <<table, hour, period, summary, loading, failed>>
    BY <1>7 DEF Compute
  <2>2. a.period = flight[r].period
    BY SummaryIsOf
  <2> HIDE DEF a
  <2>3. kept' = [p \in Periods |-> kept'[p]] /\ KeptIsRight'
    BY <1>0, <2>1, <2>2 DEF ScreenShapes, KeptIsRight
  <2> QED
    BY <2>1, <2>2, <2>3, HandlerAnswers
<1>8. CASE UNCHANGED overviewVars
  BY <1>0, <1>8 DEF overviewVars, ScreenInv, ScreenShapes, KeptIsRight, AnswersAgree,
                    OneWaiting, ScreenAgrees
<1> QED
  BY <1>1, <1>2, <1>3, <1>4, <1>5, <1>6, <1>7, <1>8 DEF OverviewNext

LEMMA ScreenBegins == OverviewInit => ScreenInv
<1> SUFFICES ASSUME OverviewInit PROVE ScreenInv
  OBVIOUS
<1>1. PICK r \in Requests : flight = [q \in Requests |->
        IF q = r THEN [Free EXCEPT !.stage = "asked"] ELSE Free]
  BY DEF OverviewInit
<1> DEFINE g == Free
           f == [g EXCEPT !.stage = "asked"]
<1>2. RequestShape(g) /\ g.cancelled = FALSE /\ g.period = "24h"
  BY FreeRequest DEF Free
<1> HIDE DEF g
<1>3. RequestShape(f) /\ f.stage = "asked" /\ f.period = "24h" /\ f.cancelled = FALSE
  BY <1>2 DEF RequestShape
<1> HIDE DEF f
<1>4. /\ flight[r] = f /\ \A q \in Requests : q # r => flight[q] = Free
      /\ flight = [q \in Requests |-> flight[q]]
  BY <1>1 DEF f, g
<1>5. /\ table \in Tables /\ hour = Noon /\ kept = [p \in Periods |-> Nothing]
      /\ period = "24h" /\ loading = TRUE /\ failed = FALSE
  BY DEF OverviewInit
<1>6. ScreenShapes
  <2>1. hour \in Noon..(Noon + MaxHours)
    BY <1>5, Horizon
  <2>2. \A q \in Requests : RequestShape(flight[q])
    BY <1>3, <1>4, FreeRequest
  <2>3. kept = [p \in Periods |-> kept[p]] /\ period \in Periods
    BY <1>5, OverviewOK DEF OverviewOK
  <2> QED
    BY <1>4, <1>5, <2>1, <2>2, <2>3 DEF ScreenShapes
<1>7. AnswersAgree /\ OneWaiting /\ ScreenAgrees
  BY <1>3, <1>4, <1>5, FreeRequest
     DEF AnswersAgree, OneWaiting, AnswerIsRight, Waits, ScreenAgrees
<1> QED
  BY <1>5, <1>6, <1>7 DEF ScreenInv, KeptIsRight

(***************************************************************************)
(* What the summary shows is of the period chosen, whatever answers cross, *)
(* are kept or come late, and it waits exactly as long as a request that   *)
(* counts, for any tables, periods and number of requests.                 *)
(***************************************************************************)
THEOREM ScreenIsRight == OverviewSpec => []ScreenAgrees
<1>1. ScreenInv /\ [OverviewNext]_overviewVars => ScreenInv'
  BY ScreenStep
<1>2. ScreenInv => ScreenAgrees
  BY DEF ScreenInv
<1> QED
  BY <1>1, <1>2, ScreenBegins, PTL DEF OverviewSpec

(***************************************************************************)
(* The screen, the cache and the requests keep their shape, and one        *)
(* request at most is not cancelled.                                       *)
(***************************************************************************)
THEOREM ScreenTypes == OverviewSpec => []OverviewTypeOK
<1>1. ScreenInv /\ [OverviewNext]_overviewVars => ScreenInv'
  BY ScreenStep
<1>2. ASSUME ScreenInv PROVE OverviewTypeOK
  <2>1. DOMAIN kept = Periods
    BY <1>2 DEF ScreenInv, ScreenShapes
  <2> QED
    BY <1>2, <2>1 DEF ScreenInv, ScreenShapes, RequestShape, OneWaiting, Waits, OverviewTypeOK
<1> QED
  BY <1>1, <1>2, ScreenBegins, PTL DEF OverviewSpec

-----------------------------------------------------------------------------
(* What the read handlers answer.  Nothing here is about a step: it holds of *)
(* every table that the schema admits, at every hour.                        *)

\* before is a strict total order of S.
IsOrder(S, before) ==
  /\ \A x \in S : <<x, x>> \notin before
  /\ \A x, y, z \in S : <<x, y>> \in before /\ <<y, z>> \in before => <<x, z>> \in before
  /\ \A x, y \in S : x = y \/ <<x, y>> \in before \/ <<y, x>> \in before

Below(S, before, x) == {y \in S : <<y, x>> \in before}

\* Whoever comes later has more before it, and never all of S.
LEMMA RankGrows ==
  ASSUME NEW S, IsFiniteSet(S), NEW before, IsOrder(S, before), NEW x \in S
  PROVE  /\ Cardinality(Below(S, before, x)) \in 0..(Cardinality(S) - 1)
         /\ \A y \in S : <<x, y>> \in before =>
              Cardinality(Below(S, before, x)) < Cardinality(Below(S, before, y))
<1>1. \A T \in SUBSET S : /\ IsFiniteSet(T) /\ Cardinality(T) \in Nat
                          /\ Cardinality(T) <= Cardinality(S)
                          /\ Cardinality(S) = Cardinality(T) => S = T
  BY FS_Subset, FS_CardinalityType
<1>2. Cardinality(S) \in Nat
  BY FS_CardinalityType
<1>3. \A T \in SUBSET S : \A U \in SUBSET T : U # T => Cardinality(U) < Cardinality(T)
  <2> SUFFICES ASSUME NEW T \in SUBSET S, NEW U \in SUBSET T, U # T
               PROVE  Cardinality(U) < Cardinality(T)
    OBVIOUS
  <2>1. IsFiniteSet(T)
    BY <1>1
  <2>2. Cardinality(U) <= Cardinality(T) /\ (Cardinality(T) = Cardinality(U) => T = U)
    BY <2>1, FS_Subset
  <2>3. Cardinality(U) \in Nat /\ Cardinality(T) \in Nat
    BY <1>1
  <2> QED
    BY <2>2, <2>3
<1>4. Below(S, before, x) \in SUBSET S /\ x \notin Below(S, before, x)
  BY DEF Below, IsOrder
<1>5. Cardinality(Below(S, before, x)) < Cardinality(S)
  BY <1>3, <1>4
<1>6. ASSUME NEW y \in S, <<x, y>> \in before
      PROVE  Cardinality(Below(S, before, x)) < Cardinality(Below(S, before, y))
  <2>1. /\ Below(S, before, x) \in SUBSET Below(S, before, y)
        /\ x \in Below(S, before, y)
    BY <1>6 DEF Below, IsOrder
  <2>2. Below(S, before, y) \in SUBSET S
    BY DEF Below
  <2> QED
    BY <1>3, <1>4, <2>1, <2>2
<1>7. Cardinality(Below(S, before, x)) \in 0..(Cardinality(S) - 1)
  <2>1. Cardinality(Below(S, before, x)) \in Nat
    BY <1>1, <1>4
  <2> QED
    BY <1>2, <1>5, <2>1
<1> QED
  BY <1>6, <1>7

\* Every element of S has its place, and its place is after those before it.
LEMMA OrderIsSorted ==
  ASSUME NEW S, IsFiniteSet(S), NEW before, IsOrder(S, before)
  PROVE  LET s == InOrder(S, before) n == Cardinality(S)
         IN /\ n \in Nat /\ s \in [1..n -> S]
            /\ \A x \in S : \E i \in 1..n : s[i] = x
            /\ \A i, j \in 1..n : i < j => <<s[i], s[j]>> \in before /\ s[i] # s[j]
<1> DEFINE n == Cardinality(S)
           s == InOrder(S, before)
           rank == [x \in S |-> Cardinality(Below(S, before, x))]
<1>1. n \in Nat /\ rank \in [S -> 0..(n - 1)]
  BY FS_CardinalityType, RankGrows
<1>2. \A x, y \in S : <<x, y>> \in before => rank[x] < rank[y]
  BY RankGrows
<1>3. \A x \in S : rank[x] \in Int
  BY <1>1
<1>4. rank \in Injection(S, 0..(n - 1))
  <2>1. ASSUME NEW x \in S, NEW y \in S, rank[x] = rank[y] PROVE x = y
    <3>1. x = y \/ <<x, y>> \in before \/ <<y, x>> \in before
      BY DEF IsOrder
    <3> HIDE DEF rank
    <3> QED
      BY <2>1, <3>1, <1>2, <1>3
  <2> QED
    BY <1>1, <2>1 DEF Injection, IsInjective
<1>5. IsFiniteSet(0..(n - 1)) /\ Cardinality(0..(n - 1)) = n
  <2>1. IsFiniteSet(0..(n - 1)) /\ Cardinality(0..(n - 1)) = IF 0 > n - 1 THEN 0 ELSE n - 1 - 0 + 1
    BY <1>1, FS_Interval
  <2> QED
    BY <1>1, <2>1
<1>6. rank \in Surjection(S, 0..(n - 1))
  BY <1>4, <1>5, FS_Injection
<1>7. \A i \in 1..n : \E x \in S : rank[x] = i - 1
  <2>1. \A i \in 1..n : i - 1 \in 0..(n - 1)
    BY <1>1
  <2> QED
    BY <1>6, <2>1 DEF Surjection
<1>8. \A i \in 1..n : s[i] = CHOOSE x \in S : rank[x] = i - 1
  BY DEF InOrder, Below
<1>9. \A i \in 1..n : s[i] \in S /\ rank[s[i]] = i - 1
  BY <1>7, <1>8
<1>10. s \in [1..n -> S]
  BY <1>9 DEF InOrder
<1> HIDE DEF rank, s, n
<1>11. ASSUME NEW x \in S PROVE \E i \in 1..n : s[i] = x
  <2>1. rank[x] + 1 \in 1..n
    BY <1>1
  <2>2. rank[s[rank[x] + 1]] = rank[x] /\ s[rank[x] + 1] \in S
    BY <1>1, <1>9, <2>1
  <2>3. s[rank[x] + 1] = x
    BY <1>4, <2>2 DEF Injection, IsInjective
  <2> QED
    BY <2>1, <2>3
<1>12. ASSUME NEW i \in 1..n, NEW j \in 1..n, i < j
       PROVE  <<s[i], s[j]>> \in before /\ s[i] # s[j]
  <2>1. rank[s[i]] < rank[s[j]]
    BY <1>1, <1>9, <1>12
  <2>2. s[i] # s[j] /\ <<s[j], s[i]>> \notin before
    BY <2>1, <1>2, <1>3, <1>9
  <2> QED
    BY <2>2, <1>9 DEF IsOrder
<1> QED
  BY <1>1, <1>10, <1>11, <1>12 DEF s, n

\* A list of all of T, each once.
Lists(ms, T) ==
  /\ IsFiniteSet(T) /\ Cardinality(T) \in Nat /\ Len(ms) = Cardinality(T)
  /\ ms \in [1..Cardinality(T) -> T]
  /\ \A m \in T : \E i \in 1..Cardinality(T) : ms[i] = m
  /\ \A i, j \in 1..Cardinality(T) : i # j => ms[i] # ms[j]

LEMMA LenIs == ASSUME NEW n \in Nat, NEW T, NEW ms \in [1..n -> T] PROVE Len(ms) = n
<1>1. ms \in Seq(T)
  OBVIOUS
<1> QED
  BY <1>1

\* The rows of a query, each once and the newest first.
LEMMA NewestIsSorted ==
  ASSUME NEW S, IsTable(S), NEW T \in SUBSET S
  PROVE  /\ Lists(NewestFirst(T), T)
         /\ \A i, j \in 1..Cardinality(T) :
              i < j => NewestFirst(T)[i].received >= NewestFirst(T)[j].received
<1> DEFINE before == {p \in T \X T : Newer(p[1], p[2])}
<1>1. /\ IsFiniteSet(T)
      /\ \A m \in T : m.id \in Nat /\ m.received \in Nat
      /\ \A m, n \in T : m.id = n.id => m = n
  BY FS_Subset DEF IsTable
<1>2. \A m, n \in T : <<m, n>> \in before <=> Newer(m, n)
  OBVIOUS
<1>3. IsOrder(T, before)
  <2> HIDE DEF before
  <2> QED
    BY <1>1, <1>2 DEF IsOrder, Newer
<1>4. NewestFirst(T) = InOrder(T, before)
  BY DEF NewestFirst
<1> HIDE DEF before
<1> DEFINE s == NewestFirst(T)
           n == Cardinality(T)
<1>5. /\ n \in Nat /\ s \in [1..n -> T]
      /\ \A x \in T : \E i \in 1..n : s[i] = x
      /\ \A i, j \in 1..n : i < j => <<s[i], s[j]>> \in before /\ s[i] # s[j]
  BY <1>1, <1>3, <1>4, OrderIsSorted
<1> HIDE DEF s, n
<1>6. Len(s) = n
  BY <1>5, LenIs
<1>7. \A i, j \in 1..n : i # j => s[i] # s[j]
  <2>1. \A i, j \in 1..n : i < j \/ i = j \/ j < i
    BY <1>5
  <2> QED
    BY <1>5, <2>1
<1>8. \A i, j \in 1..n : i < j => s[i].received >= s[j].received
  <2> SUFFICES ASSUME NEW i \in 1..n, NEW j \in 1..n, i < j
               PROVE  s[i].received >= s[j].received
    OBVIOUS
  <2>1. s[i] \in T /\ s[j] \in T /\ Newer(s[i], s[j])
    BY <1>2, <1>5
  <2> QED
    BY <1>1, <2>1 DEF Newer
<1> QED
  BY <1>1, <1>5, <1>6, <1>7, <1>8 DEF Lists, s, n

\* As many places hold a row of U as there are rows in U.
LEMMA PlacesCount ==
  ASSUME NEW ms, NEW T, Lists(ms, T), NEW U \in SUBSET T
  PROVE  LET P == {i \in 1..Len(ms) : ms[i] \in U}
         IN IsFiniteSet(P) /\ Cardinality(P) = Cardinality(U) /\ Cardinality(P) \in Nat
<1> DEFINE n == Cardinality(T)
           P == {i \in 1..n : ms[i] \in U}
           f == [i \in P |-> ms[i]]
<1>1. n \in Nat /\ Len(ms) = n /\ ms \in [1..n -> T]
      /\ (\A m \in T : \E i \in 1..n : ms[i] = m)
      /\ \A i, j \in 1..n : i # j => ms[i] # ms[j]
  BY DEF Lists
<1>2. f \in Bijection(P, U)
  <2>1. f \in [P -> U]
    OBVIOUS
  <2>2. \A i, j \in P : f[i] = f[j] => i = j
    BY <1>1
  <2>3. \A m \in U : \E i \in P : f[i] = m
    BY <1>1
  <2> HIDE DEF f, P
  <2> QED
    BY <2>1, <2>2, <2>3 DEF Bijection, Injection, Surjection, IsInjective
<1>3. IsFiniteSet(P)
  <2>1. IsFiniteSet(1..n) /\ P \in SUBSET (1..n)
    BY <1>1, FS_Interval
  <2> HIDE DEF P
  <2> QED
    BY <2>1, FS_Subset
<1> HIDE DEF f
<1>4. Cardinality(U) = Cardinality(P)
  <2> HIDE DEF P
  <2>1. ExistsBijection(P, U)
    BY <1>2 DEF ExistsBijection
  <2> QED
    BY <1>3, <2>1, FS_Bijection
<1>5. Cardinality(P) \in Nat
  BY <1>3, FS_CardinalityType
<1> QED
  BY <1>1, <1>3, <1>4, <1>5

Ratings == {"CRITICAL", "HIGH", "NORMAL", "LOW"}

LEMMA RatingsAre == ToSet(Levels) = Ratings
<1>1. DOMAIN Levels = 1..4
  BY DEF Levels
<1>2. Levels[1] = "CRITICAL" /\ Levels[2] = "HIGH" /\ Levels[3] = "NORMAL" /\ Levels[4] = "LOW"
  BY DEF Levels
<1>3. \A i \in 1..4 : i = 1 \/ i = 2 \/ i = 3 \/ i = 4
  OBVIOUS
<1>4. 1 \in 1..4 /\ 2 \in 1..4 /\ 3 \in 1..4 /\ 4 \in 1..4
  OBVIOUS
<1> QED
  BY <1>1, <1>2, <1>3, <1>4 DEF ToSet, Ratings

LEMMA ListedIs == ASSUME NEW ms, NEW T, Lists(ms, T) PROVE ToSet(ms) = T
<1>1. DOMAIN ms = 1..Cardinality(T)
  BY DEF Lists
<1> QED
  BY <1>1 DEF Lists, ToSet

\* A row of a table: its columns, and the level it is shown with.
LEMMA RowIs ==
  ASSUME NEW S, IsTable(S), NEW m \in S
  PROVE  /\ m.id \in Nat \ {0} /\ m.kind \in Kinds /\ m.received \in Nat
         /\ m.override \in Ratings \union {""}
         /\ m.read \in BOOLEAN /\ m.reply \in BOOLEAN /\ m.action \in BOOLEAN
         /\ EffectiveLevel(m) \in Ratings
         /\ m.override # "" => EffectiveLevel(m) = m.override
<1>1. /\ m.id \in Nat \ {0} /\ m.kind \in Kinds /\ m.received \in Nat
      /\ {m.level, m.override} \subseteq Ratings \union {""}
      /\ {m.read, m.reply, m.action} \subseteq BOOLEAN
  BY RatingsAre DEF IsTable
<1>2. EffectiveLevel(m) \in Ratings /\ (m.override # "" => EffectiveLevel(m) = m.override)
  BY <1>1 DEF EffectiveLevel, Ratings
<1> QED
  BY <1>1, <1>2

LEMMA NothingTyped == Trim(<<>>) = <<>>
<1>1. {i \in 1..Len(<<>>) : <<>>[i] \notin {" ", "\n"}} = {}
  OBVIOUS
<1> QED
  BY <1>1 DEF Trim

\* What is left of the conditions when only some are asked for.
Asks(f) == /\ f.source \in Kinds \union {""} /\ f.level \in Ratings \union {"all"}
           /\ f.status \in {"all", "read", "unread"}
           /\ {f.reply, f.action} \subseteq {"all", "yes", "no"} /\ f.q = <<>>

\* A filter of the screens, without a search.
LEMMA AsksFor ==
  ASSUME NEW S, IsTable(S), NEW m \in S, NEW f, Asks(f), NEW at
  PROVE  Matches(m, f, at) <=>
           /\ f.source # "" => m.kind = f.source
           /\ f.level # "all" => EffectiveLevel(m) = f.level
           /\ f.status = "unread" => ~m.read
           /\ f.status = "read" => m.read
           /\ f.reply # "all" => m.reply = (f.reply = "yes")
           /\ f.action # "all" => m.action = (f.action = "yes")
           /\ m.received >= PeriodStart(f.period, f.tz, at)
<1>1. Trim(f.q) = <<>>
  BY NothingTyped DEF Asks
<1>2. f.source \in {"", m.kind} <=> (f.source # "" => m.kind = f.source)
  OBVIOUS
<1>3. f.level \in {"", "all", EffectiveLevel(m)}
        <=> (f.level # "all" => EffectiveLevel(m) = f.level)
  <2>1. f.level # ""
    BY DEF Asks, Ratings
  <2> QED
    BY <2>1
<1>4. (CASE f.status = "unread" -> ~m.read [] f.status = "read" -> m.read
         [] f.status = "done" -> m.status = "DONE" [] OTHER -> TRUE)
      <=> (f.status = "unread" => ~m.read) /\ (f.status = "read" => m.read)
  <2>1. m.read \in BOOLEAN
    BY RowIs
  <2>2. f.status = "all" \/ f.status = "read" \/ f.status = "unread"
    BY DEF Asks
  <2>3. CASE f.status = "all"
    BY <2>3
  <2>4. CASE f.status = "read"
    BY <2>1, <2>4
  <2>5. CASE f.status = "unread"
    BY <2>1, <2>5
  <2> QED
    BY <2>2, <2>3, <2>4, <2>5
<1>5. /\ f.reply \in {"yes", "no"} <=> f.reply # "all"
      /\ f.action \in {"yes", "no"} <=> f.action # "all"
  BY DEF Asks
<1> QED
  BY <1>1, <1>2, <1>3, <1>4, <1>5, Zenon DEF Matches

\* What the feed answers: the rows that match, each once and the newest first.
LEMMA PageIs ==
  ASSUME NEW S, IsTable(S), NEW f, NEW at
  PROVE  LET page == FilteredMessages(S, f, at)
             T == {m \in S : Matches(m, f, at)}
         IN /\ T \in SUBSET S /\ Lists(page, T) /\ ToSet(page) = T
            /\ Len(page) = Cardinality(T)
            /\ \A i, j \in 1..Len(page) : i < j => page[i].received >= page[j].received
<1> DEFINE T == {m \in S : Matches(m, f, at)}
<1>1. T \in SUBSET S /\ FilteredMessages(S, f, at) = NewestFirst(T)
  BY DEF FilteredMessages
<1> HIDE DEF T
<1>2. Lists(NewestFirst(T), T) /\ Len(NewestFirst(T)) = Cardinality(T)
  BY <1>1, NewestIsSorted DEF Lists
<1>3. \A i, j \in 1..Len(NewestFirst(T)) :
        i < j => NewestFirst(T)[i].received >= NewestFirst(T)[j].received
  BY <1>1, <1>2, NewestIsSorted
<1> QED
  BY <1>1, <1>2, <1>3, ListedIs DEF T

LEMMA StartIs ==
  ASSUME NEW tz, NEW at
  PROVE  /\ PeriodStart("all", tz, at) = 0
         /\ PeriodStart("week", tz, at) = at - 168
         /\ PeriodStart("month", tz, at) = at - 720
         /\ PeriodStart("today", tz, at)
              = ((at + Clamped(tz)) - ((at + Clamped(tz)) % 24)) - Clamped(tz)
BY DEF PeriodStart, Day

\* Since midnight is on the same day or a later one, a day being counted from midnight.
LEMMA Midnight ==
  \A at, c, t \in Int :
    /\ t >= ((at + c) - ((at + c) % 24)) - c <=> (t + c) \div 24 >= (at + c) \div 24
    /\ ((at + c) - ((at + c) % 24)) - c >= at - 23
<1> SUFFICES ASSUME NEW at \in Int, NEW c \in Int, NEW t \in Int
             PROVE  /\ t >= ((at + c) - ((at + c) % 24)) - c
                         <=> (t + c) \div 24 >= (at + c) \div 24
                    /\ ((at + c) - ((at + c) % 24)) - c >= at - 23
  OBVIOUS
<1>1. PICK n \in Int : n = at + c
  OBVIOUS
<1>2. PICK a \in Int : a = t + c
  OBVIOUS
<1>3. n % 24 \in 0..23 /\ n = 24 * (n \div 24) + (n % 24) /\ n \div 24 \in Int
  OBVIOUS
<1>4. a % 24 \in 0..23 /\ a = 24 * (a \div 24) + (a % 24) /\ a \div 24 \in Int
  OBVIOUS
<1>5. a >= n - (n % 24) <=> a \div 24 >= n \div 24
  BY <1>3, <1>4
<1>6. n - (n % 24) \in Int /\ n - (n % 24) >= n - 23
  BY <1>3
<1>7. /\ t >= (n - (n % 24)) - c <=> a >= n - (n % 24)
      /\ (n - (n % 24)) - c >= at - 23
  BY <1>1, <1>2, <1>6
<1> QED
  BY <1>1, <1>2, <1>5, <1>7

\* All that is used of a state.
Here == IsTable(table) /\ hour \in Int

\* What the feed lists under a filter, as sets.
LEMMA ListedAre ==
  ASSUME Here, NEW f
  PROVE  LET T == {m \in table : Matches(m, f, hour)}
         IN /\ Listed(f) = T /\ Lists(Page(f), T) /\ Len(Page(f)) = Cardinality(T)
            /\ T \in SUBSET table
            /\ \A i, j \in 1..Len(Page(f)) :
                 i < j => Page(f)[i].received >= Page(f)[j].received
<1>1. IsTable(table) /\ Page(f) = FilteredMessages(table, f, hour) /\ Listed(f) = ToSet(Page(f))
  BY DEF Here, Page, Listed
<1> QED
  BY <1>1, PageIs

\* The filters that the screens offer, one or two at a time.
LEMMA Filters ==
  ASSUME Here, NEW m \in table
  PROVE  /\ Matches(m, AllPass, hour)
         /\ \A l \in Ratings : Matches(m, [AllPass EXCEPT !.level = l], hour)
                                 <=> EffectiveLevel(m) = l
         /\ \A k \in Kinds : /\ Matches(m, [AllPass EXCEPT !.source = k], hour) <=> m.kind = k
                             /\ Matches(m, [AllPass EXCEPT !.source = k, !.status = "unread"],
                                        hour) <=> m.kind = k /\ ~m.read
                             /\ \A l \in Ratings :
                                  Matches(m, [AllPass EXCEPT !.source = k, !.level = l], hour)
                                    <=> m.kind = k /\ EffectiveLevel(m) = l
         /\ Matches(m, [AllPass EXCEPT !.status = "read"], hour) <=> m.read
         /\ Matches(m, [AllPass EXCEPT !.status = "unread"], hour) <=> ~m.read
         /\ Matches(m, [AllPass EXCEPT !.reply = "yes"], hour) <=> m.reply
         /\ Matches(m, [AllPass EXCEPT !.reply = "no"], hour) <=> ~m.reply
         /\ Matches(m, [AllPass EXCEPT !.action = "yes"], hour) <=> m.action
         /\ Matches(m, [AllPass EXCEPT !.action = "no"], hour) <=> ~m.action
         /\ Matches(m, [AllPass EXCEPT !.period = "week"], hour) <=> m.received >= hour - 168
         /\ Matches(m, [AllPass EXCEPT !.period = "month"], hour) <=> m.received >= hour - 720
         /\ \A z : Matches(m, [AllPass EXCEPT !.period = "today", !.tz = z], hour)
                   <=> m.received >= PeriodStart("today", z, hour)
<1>0. /\ IsTable(table) /\ m.received \in Nat /\ EffectiveLevel(m) \in Ratings
      /\ m.read \in BOOLEAN /\ m.reply \in BOOLEAN /\ m.action \in BOOLEAN
  <2>1. IsTable(table)
    BY DEF Here
  <2> QED
    BY <2>1, RowIs
<1>1. /\ IsTable(table) /\ m.received >= 0 /\ EffectiveLevel(m) \in Ratings
      /\ m.read \in BOOLEAN /\ m.reply \in BOOLEAN /\ m.action \in BOOLEAN
  BY <1>0
<1>2. /\ AllPass.source = "" /\ AllPass.level = "all" /\ AllPass.status = "all"
      /\ AllPass.reply = "all" /\ AllPass.action = "all" /\ AllPass.period = "all"
      /\ AllPass.q = <<>> /\ AllPass.tz = 0
      /\ "" \notin Kinds /\ "all" \notin Ratings
  BY OverviewOK DEF AllPass, OverviewOK, Ratings
<1>3. \A tz : m.received >= PeriodStart("all", tz, hour)
  BY <1>1, StartIs
<1>4. \A f : Asks(f) => (Matches(m, f, hour) <=>
           /\ f.source # "" => m.kind = f.source
           /\ f.level # "all" => EffectiveLevel(m) = f.level
           /\ f.status = "unread" => ~m.read
           /\ f.status = "read" => m.read
           /\ f.reply # "all" => m.reply = (f.reply = "yes")
           /\ f.action # "all" => m.action = (f.action = "yes")
           /\ m.received >= PeriodStart(f.period, f.tz, hour))
  BY <1>1, AsksFor
<1>5. Asks(AllPass)
  BY <1>2 DEF Asks
<1>6. Matches(m, AllPass, hour)
  BY <1>2, <1>3, <1>4, <1>5
<1>7. ASSUME NEW l \in Ratings
      PROVE  Matches(m, [AllPass EXCEPT !.level = l], hour) <=> EffectiveLevel(m) = l
  <2> DEFINE f == [AllPass EXCEPT !.level = l]
  <2>1. /\ f.source = "" /\ f.level = l /\ f.status = "all" /\ f.reply = "all"
        /\ f.action = "all" /\ f.period = "all" /\ f.q = <<>>
    BY <1>2 DEF AllPass
  <2> HIDE DEF f
  <2>2. Asks(f)
    BY <2>1 DEF Asks
  <2>3. Matches(m, f, hour) <=> EffectiveLevel(m) = l
    BY <1>2, <1>3, <1>4, <2>1, <2>2
  <2> QED
    BY <2>3 DEF f
<1>8. ASSUME NEW k \in Kinds
      PROVE  Matches(m, [AllPass EXCEPT !.source = k], hour) <=> m.kind = k
  <2> DEFINE f == [AllPass EXCEPT !.source = k]
  <2>1. /\ f.source = k /\ f.level = "all" /\ f.status = "all" /\ f.reply = "all"
        /\ f.action = "all" /\ f.period = "all" /\ f.q = <<>>
    BY <1>2 DEF AllPass
  <2> HIDE DEF f
  <2>2. Asks(f)
    BY <2>1 DEF Asks
  <2>3. Matches(m, f, hour) <=> m.kind = k
    BY <1>2, <1>3, <1>4, <2>1, <2>2
  <2> QED
    BY <2>3 DEF f
<1>9. ASSUME NEW k \in Kinds
      PROVE  Matches(m, [AllPass EXCEPT !.source = k, !.status = "unread"], hour)
               <=> m.kind = k /\ ~m.read
  <2> DEFINE f == [AllPass EXCEPT !.source = k, !.status = "unread"]
  <2>1. /\ f.source = k /\ f.level = "all" /\ f.status = "unread" /\ f.reply = "all"
        /\ f.action = "all" /\ f.period = "all" /\ f.q = <<>>
    BY <1>2 DEF AllPass
  <2> HIDE DEF f
  <2>2. Asks(f)
    BY <2>1 DEF Asks
  <2>3. Matches(m, f, hour) <=> m.kind = k /\ ~m.read
    BY <1>2, <1>3, <1>4, <2>1, <2>2
  <2> QED
    BY <2>3 DEF f
<1>10. ASSUME NEW k \in Kinds, NEW l \in Ratings
      PROVE  Matches(m, [AllPass EXCEPT !.source = k, !.level = l], hour)
               <=> m.kind = k /\ EffectiveLevel(m) = l
  <2> DEFINE f == [AllPass EXCEPT !.source = k, !.level = l]
  <2>1. /\ f.source = k /\ f.level = l /\ f.status = "all" /\ f.reply = "all"
        /\ f.action = "all" /\ f.period = "all" /\ f.q = <<>>
    BY <1>2 DEF AllPass
  <2> HIDE DEF f
  <2>2. Asks(f)
    BY <2>1 DEF Asks
  <2>3. Matches(m, f, hour) <=> m.kind = k /\ EffectiveLevel(m) = l
    BY <1>2, <1>3, <1>4, <2>1, <2>2
  <2> QED
    BY <2>3 DEF f
<1>11. ASSUME NEW v \in {"read", "unread"}
       PROVE  Matches(m, [AllPass EXCEPT !.status = v], hour) <=> m.read = (v = "read")
  <2> DEFINE f == [AllPass EXCEPT !.status = v]
  <2>1. /\ f.source = "" /\ f.level = "all" /\ f.status = v /\ f.reply = "all"
        /\ f.action = "all" /\ f.period = "all" /\ f.q = <<>>
    BY <1>2 DEF AllPass
  <2> HIDE DEF f
  <2>2. Asks(f)
    BY <2>1 DEF Asks
  <2>3. Matches(m, f, hour) <=> m.read = (v = "read")
    <3>1. v = "read" \/ v = "unread"
      OBVIOUS
    <3> QED
      BY <1>1, <1>2, <1>3, <1>4, <2>1, <2>2, <3>1
  <2> QED
    BY <2>3 DEF f
<1>12. ASSUME NEW v \in {"yes", "no"}
       PROVE  Matches(m, [AllPass EXCEPT !.reply = v], hour) <=> m.reply = (v = "yes")
  <2> DEFINE f == [AllPass EXCEPT !.reply = v]
  <2>1. /\ f.source = "" /\ f.level = "all" /\ f.status = "all" /\ f.reply = v
        /\ f.action = "all" /\ f.period = "all" /\ f.q = <<>>
    BY <1>2 DEF AllPass
  <2> HIDE DEF f
  <2>2. Asks(f) /\ v # "all"
    BY <2>1 DEF Asks
  <2>3. Matches(m, f, hour) <=> m.reply = (v = "yes")
    BY <1>2, <1>3, <1>4, <2>1, <2>2
  <2> QED
    BY <2>3 DEF f
<1>13. ASSUME NEW v \in {"yes", "no"}
       PROVE  Matches(m, [AllPass EXCEPT !.action = v], hour) <=> m.action = (v = "yes")
  <2> DEFINE f == [AllPass EXCEPT !.action = v]
  <2>1. /\ f.source = "" /\ f.level = "all" /\ f.status = "all" /\ f.reply = "all"
        /\ f.action = v /\ f.period = "all" /\ f.q = <<>>
    BY <1>2 DEF AllPass
  <2> HIDE DEF f
  <2>2. Asks(f) /\ v # "all"
    BY <2>1 DEF Asks
  <2>3. Matches(m, f, hour) <=> m.action = (v = "yes")
    BY <1>2, <1>3, <1>4, <2>1, <2>2
  <2> QED
    BY <2>3 DEF f
<1>14. ASSUME NEW p
       PROVE  Matches(m, [AllPass EXCEPT !.period = p], hour)
                <=> m.received >= PeriodStart(p, 0, hour)
  <2> DEFINE f == [AllPass EXCEPT !.period = p]
  <2>1. /\ f.source = "" /\ f.level = "all" /\ f.status = "all" /\ f.reply = "all"
        /\ f.action = "all" /\ f.period = p /\ f.q = <<>> /\ f.tz = 0
    BY <1>2 DEF AllPass
  <2> HIDE DEF f
  <2>2. Asks(f)
    BY <2>1 DEF Asks
  <2>3. Matches(m, f, hour) <=> m.received >= PeriodStart(p, 0, hour)
    BY <1>2, <1>4, <2>1, <2>2
  <2> QED
    BY <2>3 DEF f
<1>15. ASSUME NEW z
       PROVE  Matches(m, [AllPass EXCEPT !.period = "today", !.tz = z], hour)
                <=> m.received >= PeriodStart("today", z, hour)
  <2> DEFINE f == [AllPass EXCEPT !.period = "today", !.tz = z]
  <2>1. /\ f.source = "" /\ f.level = "all" /\ f.status = "all" /\ f.reply = "all"
        /\ f.action = "all" /\ f.period = "today" /\ f.q = <<>> /\ f.tz = z
    BY <1>2 DEF AllPass
  <2> HIDE DEF f
  <2>2. Asks(f)
    BY <2>1 DEF Asks
  <2>3. Matches(m, f, hour) <=> m.received >= PeriodStart("today", z, hour)
    BY <1>2, <1>4, <2>1, <2>2
  <2> QED
    BY <2>3 DEF f
<1>16. /\ Matches(m, [AllPass EXCEPT !.period = "week"], hour) <=> m.received >= hour - 168
       /\ Matches(m, [AllPass EXCEPT !.period = "month"], hour) <=> m.received >= hour - 720
  BY <1>14, StartIs
<1>17. /\ Matches(m, [AllPass EXCEPT !.status = "read"], hour) <=> m.read
       /\ Matches(m, [AllPass EXCEPT !.status = "unread"], hour) <=> ~m.read
  BY <1>1, <1>11
<1>18. /\ Matches(m, [AllPass EXCEPT !.reply = "yes"], hour) <=> m.reply
       /\ Matches(m, [AllPass EXCEPT !.reply = "no"], hour) <=> ~m.reply
  BY <1>1, <1>12
<1>19. /\ Matches(m, [AllPass EXCEPT !.action = "yes"], hour) <=> m.action
       /\ Matches(m, [AllPass EXCEPT !.action = "no"], hour) <=> ~m.action
  BY <1>1, <1>13
<1> QED
  BY <1>6, <1>7, <1>8, <1>9, <1>10, <1>15, <1>16, <1>17, <1>18, <1>19

\* Every part of what is said of the filters holds of every table.
LEMMA PagesRight == ASSUME Here PROVE PagesAgree
<1>0. IsTable(table) /\ hour \in Int
  BY DEF Here
<1>1. \A f : /\ Listed(f) = {m \in table : Matches(m, f, hour)}
             /\ Len(Page(f)) = Cardinality(Listed(f))
             /\ \A i, j \in 1..Len(Page(f)) :
                  i < j => Page(f)[i].received >= Page(f)[j].received
  BY ListedAre
<1>2. \A f, m : m \in Listed(f) <=> m \in table /\ Matches(m, f, hour)
  BY <1>1
<1>3. Listed(AllPass) = table
  <2>1. \A m \in table : Matches(m, AllPass, hour)
    BY Here, Filters
  <2> QED
    BY <1>1, <2>1, Zenon
<1>4. \A x : Cardinality({x}) = 1
  BY FS_Singleton
<1>5. ASSUME NEW z \in Int PROVE Clamped(z) \in Int
  BY <1>5, QueriesOK DEF QueriesOK, Clamped
<1>6. ASSUME NEW m \in table
      PROVE  /\ Matches(m, [AllPass EXCEPT !.period = "week"], hour) <=> m.received >= hour - 168
             /\ \A z : Matches(m, [AllPass EXCEPT !.period = "today", !.tz = z], hour)
                       <=> m.received >= PeriodStart("today", z, hour)
  BY Here, Filters
<1>7. ASSUME NEW m \in table
      PROVE
       /\ Cardinality({l \in ToSet(Levels) : m \in Listed([AllPass EXCEPT !.level = l])}) = 1
       /\ Cardinality({k \in Kinds : m \in Listed([AllPass EXCEPT !.source = k])}) = 1
       /\ Cardinality({s \in {"read", "unread"} :
                         m \in Listed([AllPass EXCEPT !.status = s])}) = 1
       /\ Cardinality({y \in {"yes", "no"} : m \in Listed([AllPass EXCEPT !.reply = y])}) = 1
       /\ Cardinality({y \in {"yes", "no"} : m \in Listed([AllPass EXCEPT !.action = y])}) = 1
       /\ m.override # "" => m \in Listed([AllPass EXCEPT !.level = m.override])
       /\ \A z \in Offsets \cap ((-MaxTZOffset)..MaxTZOffset) :
            m \in Listed([AllPass EXCEPT !.period = "today", !.tz = z])
              <=> (m.received + z) \div Day >= (hour + z) \div Day
  <2>0. /\ m.kind \in Kinds /\ m.received \in Nat /\ EffectiveLevel(m) \in Ratings
        /\ m.read \in BOOLEAN /\ m.reply \in BOOLEAN /\ m.action \in BOOLEAN
        /\ m.override # "" => EffectiveLevel(m) = m.override
    BY <1>0, RowIs
  <2>1. {l \in ToSet(Levels) : m \in Listed([AllPass EXCEPT !.level = l])} = {EffectiveLevel(m)}
    <3>1. \A l \in Ratings : m \in Listed([AllPass EXCEPT !.level = l]) <=> EffectiveLevel(m) = l
      BY <1>2, Here, Filters, Zenon
    <3> QED
      BY <2>0, <3>1, RatingsAre, Zenon
  <2>2. {k \in Kinds : m \in Listed([AllPass EXCEPT !.source = k])} = {m.kind}
    <3>1. \A k \in Kinds : m \in Listed([AllPass EXCEPT !.source = k]) <=> m.kind = k
      BY <1>2, Here, Filters, Zenon
    <3> QED
      BY <2>0, <3>1, Zenon
  <2>3. {s \in {"read", "unread"} : m \in Listed([AllPass EXCEPT !.status = s])}
          = {IF m.read THEN "read" ELSE "unread"}
    <3>1. /\ m \in Listed([AllPass EXCEPT !.status = "read"]) <=> m.read
          /\ m \in Listed([AllPass EXCEPT !.status = "unread"]) <=> ~m.read
      BY <1>2, Here, Filters
    <3> QED
      BY <2>0, <3>1, Zenon
  <2>4. {y \in {"yes", "no"} : m \in Listed([AllPass EXCEPT !.reply = y])}
          = {IF m.reply THEN "yes" ELSE "no"}
    <3>1. /\ m \in Listed([AllPass EXCEPT !.reply = "yes"]) <=> m.reply
          /\ m \in Listed([AllPass EXCEPT !.reply = "no"]) <=> ~m.reply
      BY <1>2, Here, Filters
    <3> QED
      BY <2>0, <3>1, Zenon
  <2>5. {y \in {"yes", "no"} : m \in Listed([AllPass EXCEPT !.action = y])}
          = {IF m.action THEN "yes" ELSE "no"}
    <3>1. /\ m \in Listed([AllPass EXCEPT !.action = "yes"]) <=> m.action
          /\ m \in Listed([AllPass EXCEPT !.action = "no"]) <=> ~m.action
      <4>1. /\ Matches(m, [AllPass EXCEPT !.action = "yes"], hour) <=> m.action
            /\ Matches(m, [AllPass EXCEPT !.action = "no"], hour) <=> ~m.action
        BY Here, Filters
      <4> QED
        BY <1>2, <4>1, Zenon
    <3> QED
      BY <2>0, <3>1, Zenon
  <2>6. m.override # "" => m \in Listed([AllPass EXCEPT !.level = m.override])
    BY <1>2, <2>0, Here, Filters
  <2>7. ASSUME NEW z \in Offsets \cap ((-MaxTZOffset)..MaxTZOffset)
        PROVE  m \in Listed([AllPass EXCEPT !.period = "today", !.tz = z])
                 <=> (m.received + z) \div Day >= (hour + z) \div Day
    <3>1. z \in Int /\ Clamped(z) = z
      BY QueriesOK DEF QueriesOK, Clamped
    <3>2. m \in Listed([AllPass EXCEPT !.period = "today", !.tz = z])
            <=> m.received >= PeriodStart("today", z, hour)
      BY <1>2, <1>6, Zenon
    <3>3. PeriodStart("today", z, hour) = ((hour + z) - ((hour + z) % 24)) - z
      BY <3>1, StartIs
    <3>4. m.received >= ((hour + z) - ((hour + z) % 24)) - z
            <=> (m.received + z) \div 24 >= (hour + z) \div 24
      <4>1. m.received \in Nat
        BY <1>0, RowIs
      <4>2. m.received \in Int
        BY <4>1
      <4> QED
        BY <1>0, <3>1, <4>2, Midnight
    <3>5. m.received >= PeriodStart("today", z, hour)
            <=> (m.received + z) \div 24 >= (hour + z) \div 24
      BY <3>3, <3>4
    <3> QED
      BY <3>2, <3>5 DEF Day
  <2> QED
    BY <1>4, <2>1, <2>2, <2>3, <2>4, <2>5, <2>6, <2>7
<1>8. ASSUME NEW z \in Offsets
      PROVE  Listed([AllPass EXCEPT !.period = "today", !.tz = z])
               \subseteq Listed([AllPass EXCEPT !.period = "week"])
  <2>0. z \in Int /\ Clamped(z) \in Int
    BY <1>5, OverviewOK DEF OverviewOK
  <2>1. PICK c \in Int : c = Clamped(z)
    BY <2>0
  <2>2. PeriodStart("today", z, hour) = ((hour + c) - ((hour + c) % 24)) - c
    BY <2>1, StartIs
  <2>3. PeriodStart("today", z, hour) \in Int
    BY <1>0, <2>1, <2>2
  <2>4. PeriodStart("today", z, hour) >= hour - 23
    BY <1>0, <2>1, <2>2, Midnight
  <2>5. \A m \in table : m.received >= PeriodStart("today", z, hour) => m.received >= hour - 168
    <3>1. \A m \in table : m.received \in Nat
      BY <1>0, RowIs
    <3> QED
      BY <1>0, <2>3, <2>4, <3>1
  <2>6. ASSUME NEW m \in table
        PROVE  /\ m \in Listed([AllPass EXCEPT !.period = "today", !.tz = z])
                    <=> m.received >= PeriodStart("today", z, hour)
               /\ m \in Listed([AllPass EXCEPT !.period = "week"]) <=> m.received >= hour - 168
    BY <1>2, <1>6, Zenon
  <2>7. Listed([AllPass EXCEPT !.period = "today", !.tz = z]) \subseteq table
    BY <1>2, Zenon
  <2> QED
    BY <2>5, <2>6, <2>7, Zenon
<1> QED
  BY <1>1, <1>3, <1>7, <1>8 DEF PagesAgree

\* The rows of a level, and how many the distribution says there are.
Level(T, l) == {m \in T : EffectiveLevel(m) = l}

\* The four segments of the bar, of their sizes, share out the rows.
LEMMA LevelsShare ==
  ASSUME NEW S, IsTable(S), NEW T \in SUBSET S, NEW ms, Lists(ms, T)
  PROVE  /\ \A l \in Ratings : /\ Distribution(ms)[l] = Cardinality(Level(T, l))
                               /\ Cardinality(Level(T, l)) \in Nat
                               /\ IsFiniteSet(Level(T, l))
         /\ Sum(Distribution(ms)) = Cardinality(T)
<1>1. ASSUME NEW l \in Ratings
      PROVE  /\ Distribution(ms)[l] = Cardinality(Level(T, l))
             /\ Cardinality(Level(T, l)) \in Nat
             /\ IsFiniteSet(Level(T, l))
  <2>1. Level(T, l) \in SUBSET T
    BY DEF Level
  <2>2. IsFiniteSet(T)
    BY DEF Lists
  <2>3. IsFiniteSet(Level(T, l)) /\ Cardinality(Level(T, l)) \in Nat
    BY <2>1, <2>2, FS_Subset, FS_CardinalityType
  <2>4. Cardinality({i \in 1..Len(ms) : ms[i] \in Level(T, l)}) = Cardinality(Level(T, l))
    BY <2>1, PlacesCount
  <2>5. AtLevel(ms, l) = {i \in 1..Len(ms) : ms[i] \in Level(T, l)}
    BY DEF AtLevel, Lists, Level
  <2>6. Distribution(ms)[l] = Cardinality(AtLevel(ms, l))
    BY RatingsAre DEF Distribution
  <2> QED
    BY <2>3, <2>4, <2>5, <2>6
<1>2. Sum(Distribution(ms)) = Cardinality(T)
  <2> DEFINE c == Level(T, "CRITICAL")
             h == Level(T, "HIGH")
             n == Level(T, "NORMAL")
             l == Level(T, "LOW")
  <2>1. \A m \in T : EffectiveLevel(m) \in Ratings
    BY RowIs
  <2>2. /\ T = (c \union h) \union (n \union l)
        /\ c \intersect h = {} /\ n \intersect l = {}
        /\ (c \union h) \intersect (n \union l) = {}
    BY <2>1 DEF Level, Ratings
  <2>3. /\ IsFiniteSet(c) /\ IsFiniteSet(h) /\ IsFiniteSet(n) /\ IsFiniteSet(l)
        /\ Cardinality(c) \in Nat /\ Cardinality(h) \in Nat
        /\ Cardinality(n) \in Nat /\ Cardinality(l) \in Nat
        /\ Distribution(ms)["CRITICAL"] = Cardinality(c)
        /\ Distribution(ms)["HIGH"] = Cardinality(h)
        /\ Distribution(ms)["NORMAL"] = Cardinality(n)
        /\ Distribution(ms)["LOW"] = Cardinality(l)
    BY <1>1 DEF Ratings
  <2> HIDE DEF c, h, n, l
  <2>4. \A A, B : /\ IsFiniteSet(A) /\ IsFiniteSet(B) /\ A \intersect B = {}
                  => /\ IsFiniteSet(A \union B)
                     /\ Cardinality(A \union B) = Cardinality(A) + Cardinality(B) - 0
    BY FS_Union, FS_EmptySet
  <2>5. IsFiniteSet(c \union h) /\ Cardinality(c \union h) = Cardinality(c) + Cardinality(h) - 0
    BY <2>2, <2>3, <2>4
  <2>6. IsFiniteSet(n \union l) /\ Cardinality(n \union l) = Cardinality(n) + Cardinality(l) - 0
    BY <2>2, <2>3, <2>4
  <2>7. Cardinality(T) = Cardinality(c \union h) + Cardinality(n \union l) - 0
    BY <2>2, <2>4, <2>5, <2>6
  <2> QED
    BY <2>3, <2>5, <2>6, <2>7 DEF Sum
<1> QED
  BY <1>1, <1>2

\* What a loop picks from a list: the rows of those places, in the order of the list.
InTurn(q, n, ms) == \A i, j \in 1..n : i < j =>
                      \E a, b \in 1..Len(ms) : a < b /\ q[i] = ms[a] /\ q[j] = ms[b]

LEMMA PickedIs ==
  ASSUME NEW ms, NEW T, Lists(ms, T), NEW U \in SUBSET T
  PROVE  LET q == Picked(ms, {i \in 1..Len(ms) : ms[i] \in U})
         IN Lists(q, U) /\ InTurn(q, Cardinality(U), ms)
<1> DEFINE P == {i \in 1..Len(ms) : ms[i] \in U}
           q == Picked(ms, P)
           n == Cardinality(U)
           before == {p \in P \X P : p[1] < p[2]}
           at == InOrder(P, before)
<1>1. IsFiniteSet(P) /\ Cardinality(P) = n /\ n \in Nat
  BY PlacesCount
<1>2. IsFiniteSet(U)
  BY FS_Subset DEF Lists
<1>3. /\ Len(ms) \in Nat /\ P \subseteq 1..Len(ms) /\ P \subseteq Int
      /\ \A i \in P : ms[i] \in U
      /\ \A m \in U : \E i \in P : ms[i] = m
      /\ \A i, j \in P : i # j => ms[i] # ms[j]
  BY DEF Lists
<1>4. \A i, j \in P : <<i, j>> \in before <=> i < j
  BY DEF before
<1>5. q = [k \in 1..n |-> ms[at[k]]]
  BY <1>1 DEF Picked
<1> HIDE DEF P, before
<1>6. IsOrder(P, before)
  BY <1>3, <1>4 DEF IsOrder
<1>7. /\ at \in [1..n -> P]
      /\ \A x \in P : \E i \in 1..n : at[i] = x
      /\ \A i, j \in 1..n : i < j => <<at[i], at[j]>> \in before /\ at[i] # at[j]
  BY <1>1, <1>6, OrderIsSorted
<1> HIDE DEF at, q
<1>8. q \in [1..n -> U]
  BY <1>3, <1>5, <1>7
<1>9. \A m \in U : \E i \in 1..n : q[i] = m
  BY <1>3, <1>5, <1>7
<1>10. \A i, j \in 1..n : i # j => q[i] # q[j]
  <2>1. \A i, j \in 1..n : i < j \/ i = j \/ j < i
    BY <1>1
  <2>2. \A i, j \in 1..n : i # j => at[i] # at[j]
    BY <1>7, <2>1
  <2> QED
    BY <1>3, <1>5, <1>7, <2>2
<1>11. Len(q) = n
  BY <1>1, <1>8, LenIs
<1>12. ASSUME NEW i \in 1..n, NEW j \in 1..n, i < j
       PROVE  \E a, b \in 1..Len(ms) : a < b /\ q[i] = ms[a] /\ q[j] = ms[b]
  <2>1. at[i] \in P /\ at[j] \in P /\ at[i] < at[j]
    BY <1>4, <1>7, <1>12
  <2>2. q[i] = ms[at[i]] /\ q[j] = ms[at[j]] /\ at[i] \in 1..Len(ms) /\ at[j] \in 1..Len(ms)
    BY <1>3, <1>5, <2>1
  <2> QED
    BY <2>1, <2>2
<1>13. Lists(q, U)
  BY <1>1, <1>2, <1>8, <1>9, <1>10, <1>11 DEF Lists
<1> QED
  BY <1>12, <1>13 DEF q, P, InTurn

\* The rows of a level, newest first.
LEMMA OfLevelIs ==
  ASSUME NEW S, IsTable(S), NEW T \in SUBSET S, NEW l
  PROVE  LET q == OfLevel(NewestFirst(T), l)
         IN /\ Lists(q, Level(T, l))
            /\ \A i, j \in 1..Cardinality(Level(T, l)) :
                 i < j => q[i].received >= q[j].received
<1> DEFINE ms == NewestFirst(T)
           U == Level(T, l)
           P == {i \in 1..Len(ms) : ms[i] \in U}
           q == OfLevel(ms, l)
<1>1. /\ Lists(ms, T)
      /\ \A i, j \in 1..Cardinality(T) : i < j => ms[i].received >= ms[j].received
  BY NewestIsSorted
<1> HIDE DEF ms
<1>2. Len(ms) = Cardinality(T) /\ \A i \in 1..Len(ms) : ms[i] \in T
  BY <1>1 DEF Lists
<1>3. U \in SUBSET T /\ AtLevel(ms, l) = P
  BY <1>2 DEF Level, AtLevel
<1>4. q = Picked(ms, P)
  BY <1>3 DEF OfLevel
<1> HIDE DEF q, U
<1>5. Lists(q, U) /\ InTurn(q, Cardinality(U), ms)
  <2>1. Lists(Picked(ms, P), U) /\ InTurn(Picked(ms, P), Cardinality(U), ms)
    BY <1>1, <1>3, PickedIs
  <2> QED
    BY <1>4, <2>1
<1>6. \A i, j \in 1..Cardinality(U) : i < j => q[i].received >= q[j].received
  BY <1>1, <1>2, <1>5 DEF InTurn
<1> QED
  BY <1>5, <1>6 DEF ms, q, U

\* c lists A as a does and then B as b does.
OneAfterAnother(c, a, A, b, B) ==
  /\ Lists(c, A \union B)
  /\ Cardinality(A \union B) = Cardinality(A) + Cardinality(B)
  /\ \A i \in 1..Cardinality(A) : c[i] = a[i]
  /\ \A j \in 1..Cardinality(B) : c[Cardinality(A) + j] = b[j]

LEMMA TwoLists ==
  ASSUME NEW A, NEW B, NEW a, NEW b, Lists(a, A), Lists(b, B), A \intersect B = {}
  PROVE  OneAfterAnother(a \o b, a, A, b, B)
<1> DEFINE X == A \union B
           m == Cardinality(A)
           n == Cardinality(B)
           c == a \o b
<1>1. /\ m \in Nat /\ n \in Nat /\ IsFiniteSet(A) /\ IsFiniteSet(B)
      /\ a \in [1..m -> A] /\ b \in [1..n -> B] /\ Len(a) = m /\ Len(b) = n
  BY DEF Lists
<1>2. /\ \A x \in A : \E i \in 1..m : a[i] = x
      /\ \A i, j \in 1..m : i # j => a[i] # a[j]
      /\ \A x \in B : \E i \in 1..n : b[i] = x
      /\ \A i, j \in 1..n : i # j => b[i] # b[j]
  BY DEF Lists
<1>3. IsFiniteSet(X) /\ Cardinality(X) = m + n
  <2>1. Cardinality(X) = m + n - 0
    BY <1>1, FS_Union, FS_EmptySet
  <2>2. IsFiniteSet(X)
    BY <1>1, FS_Union
  <2> QED
    BY <1>1, <2>1, <2>2
<1>4. a \in Seq(X) /\ b \in Seq(X)
  BY <1>1
<1> HIDE DEF X, m, n
<1>5. /\ c \in Seq(X) /\ Len(c) = m + n
      /\ \A i \in 1..m : c[i] = a[i]
      /\ \A j \in 1..n : c[m + j] = b[j]
  BY <1>1, <1>4
<1>6. \A i \in 1..(m + n) : i \in 1..m \/ \E j \in 1..n : i = m + j
  <2> SUFFICES ASSUME NEW i \in 1..(m + n), i \notin 1..m PROVE \E j \in 1..n : i = m + j
    OBVIOUS
  <2>1. i - m \in 1..n /\ i = m + (i - m)
    BY <1>1
  <2> QED
    BY <2>1
<1>7. \A i \in 1..m : i \in 1..(m + n)
  BY <1>1
<1>8. \A j \in 1..n : m + j \in 1..(m + n)
  BY <1>1
<1> HIDE DEF c
<1>9. c \in [1..(m + n) -> X]
  BY <1>5
<1>10. \A x \in X : \E i \in 1..(m + n) : c[i] = x
  BY <1>2, <1>5, <1>7, <1>8 DEF X
<1>11. ASSUME NEW i \in 1..(m + n), NEW j \in 1..(m + n), i # j PROVE c[i] # c[j]
  <2>1. \A k \in 1..m : c[k] \in A
    BY <1>1, <1>5
  <2>2. \A k \in 1..n : c[m + k] \in B
    BY <1>1, <1>5
  <2>3. CASE i \in 1..m /\ j \in 1..m
    BY <1>2, <1>5, <1>11, <2>3
  <2>4. CASE i \in 1..m /\ j \notin 1..m
    BY <1>6, <2>1, <2>2, <2>4
  <2>5. CASE i \notin 1..m /\ j \in 1..m
    BY <1>6, <2>1, <2>2, <2>5
  <2>6. CASE i \notin 1..m /\ j \notin 1..m
    <3>1. PICK k \in 1..n, h \in 1..n : i = m + k /\ j = m + h
      BY <1>6, <2>6
    <3> QED
      BY <1>2, <1>5, <1>11, <3>1
  <2> QED
    BY <2>3, <2>4, <2>5, <2>6
<1>12. Lists(c, X)
  BY <1>1, <1>3, <1>5, <1>9, <1>10, <1>11 DEF Lists
<1> QED
  BY <1>3, <1>5, <1>12 DEF c, X, m, n, OneAfterAnother

\* What is critical or high, each once, and nothing before something that goes first.
LEMMA UrgentIs ==
  ASSUME NEW S, IsTable(S), NEW T \in SUBSET S, NEW ms, ms = NewestFirst(T),
         NEW u, u = OfLevel(ms, "CRITICAL") \o OfLevel(ms, "HIGH")
  PROVE  /\ Lists(u, {m \in T : IsUrgent(m)})
         /\ \A i, j \in 1..Len(u) : i < j => GoesFirst(u[i], u[j])
<1> DEFINE A == Level(T, "CRITICAL")
           B == Level(T, "HIGH")
           a == OfLevel(ms, "CRITICAL")
           b == OfLevel(ms, "HIGH")
           m == Cardinality(A)
           n == Cardinality(B)
<1>1. /\ Lists(a, A) /\ \A i, j \in 1..m : i < j => a[i].received >= a[j].received
      /\ Lists(b, B) /\ \A i, j \in 1..n : i < j => b[i].received >= b[j].received
  BY OfLevelIs
<1>2. A \intersect B = {} /\ A \union B = {x \in T : IsUrgent(x)}
  BY DEF Level, IsUrgent
<1>3. /\ \A x \in A : EffectiveLevel(x) = "CRITICAL"
      /\ \A x \in B : EffectiveLevel(x) = "HIGH"
  BY DEF Level
<1>4. u = a \o b
  OBVIOUS
<1> HIDE DEF A, B, a, b
<1>5. /\ Lists(u, A \union B) /\ Cardinality(A \union B) = m + n
      /\ \A i \in 1..m : u[i] = a[i]
      /\ \A j \in 1..n : u[m + j] = b[j]
  <2>1. Lists(a, A) /\ Lists(b, B) /\ A \intersect B = {}
    BY <1>1, <1>2
  <2>2. OneAfterAnother(a \o b, a, A, b, B)
    BY <2>1, TwoLists
  <2> QED
    BY <1>4, <2>2, Zenon DEF OneAfterAnother
<1>6. /\ m \in Nat /\ n \in Nat /\ Len(u) = m + n
      /\ \A i \in 1..m : a[i] \in A
      /\ \A i \in 1..n : b[i] \in B
  BY <1>1, <1>5 DEF Lists
<1> HIDE DEF m, n
<1>7. \A i \in 1..Len(u) : i \in 1..m \/ (i - m \in 1..n /\ u[i] = b[i - m])
  <2> SUFFICES ASSUME NEW i \in 1..Len(u), i \notin 1..m
               PROVE  i - m \in 1..n /\ u[i] = b[i - m]
    OBVIOUS
  <2>1. i - m \in 1..n /\ m + (i - m) = i
    BY <1>6
  <2> QED
    BY <1>5, <2>1
<1>8. ASSUME NEW i \in 1..Len(u), NEW j \in 1..Len(u), i < j PROVE GoesFirst(u[i], u[j])
  <2>1. CASE i \in 1..m /\ j \in 1..m
    <3>1. a[i] \in A /\ a[j] \in A /\ a[i].received >= a[j].received
      BY <1>1, <1>6, <1>8, <2>1 DEF m
    <3> QED
      BY <1>3, <1>5, <2>1, <3>1 DEF GoesFirst
  <2>2. CASE i \in 1..m /\ j \notin 1..m
    <3>1. u[i] \in A /\ u[j] \in B
      BY <1>5, <1>6, <1>7, <2>2
    <3> QED
      BY <1>3, <3>1 DEF GoesFirst
  <2>3. CASE i \notin 1..m /\ j \notin 1..m
    <3>1. i - m \in 1..n /\ j - m \in 1..n /\ i - m < j - m /\ u[i] = b[i - m] /\ u[j] = b[j - m]
      <4>1. i - m < j - m
        BY <1>6, <1>8
      <4> QED
        BY <1>7, <2>3, <4>1
    <3>2. u[i] \in B /\ u[j] \in B /\ u[i].received >= u[j].received
      BY <1>1, <1>6, <3>1 DEF n
    <3> QED
      BY <1>3, <3>2 DEF GoesFirst
  <2>4. ~(i \notin 1..m /\ j \in 1..m)
    BY <1>6, <1>8
  <2> QED
    BY <2>1, <2>2, <2>3, <2>4
<1>9. Lists(u, {x \in T : IsUrgent(x)})
  BY <1>2, <1>5
<1> QED
  BY <1>8, <1>9

\* The first ones of a list, no more than a limit, and their identifiers.
LEMMA FirstOnes ==
  ASSUME NEW X, NEW u \in Seq(X), NEW k, k = IF Len(u) < TopLimit THEN Len(u) ELSE TopLimit
  PROVE  /\ k \in Nat /\ k <= Len(u) /\ k <= TopLimit /\ (k < Len(u) => k = TopLimit)
         /\ Len(SubSeq(u, 1, k)) = k
         /\ \A i \in 1..k : SubSeq(u, 1, k)[i] = u[i] /\ u[i] \in X
<1>1. Len(u) \in Nat /\ TopLimit \in Nat
  BY QueriesOK DEF QueriesOK
<1>2. k \in Nat /\ k <= Len(u) /\ k <= TopLimit /\ (k < Len(u) => k = TopLimit)
  BY <1>1
<1>3. \A i \in 1..k : i \in 1..Len(u) /\ u[i] \in X
  BY <1>1, <1>2
<1>4. SubSeq(u, 1, k) = [i \in 1..k |-> u[i]]
  BY <1>2, <1>3
<1>5. SubSeq(u, 1, k) \in [1..k -> X]
  BY <1>3, <1>4, Zenon
<1>6. Len(SubSeq(u, 1, k)) = k
  BY <1>2, <1>5, LenIs
<1> QED
  BY <1>2, <1>3, <1>4, <1>6

\* The top: urgent rows, each once; what is left out finds it full of what goes first.
Serves(ids, top, T) ==
  /\ Len(ids) = Cardinality(top) /\ \A m \in top : IsUrgent(m)
  /\ \A n \in T \ top :
       IsUrgent(n) => Len(ids) = TopLimit /\ \A m \in top : GoesFirst(m, n)

LEMMA TopIs ==
  ASSUME NEW S, IsTable(S), NEW T \in SUBSET S, NEW ms, ms = NewestFirst(T),
         NEW ids, ids = Ids(Top(ms)), NEW top, top = {m \in T : m.id \in ToSet(ids)}
  PROVE  Serves(ids, top, T)
<1> DEFINE u == OfLevel(ms, "CRITICAL") \o OfLevel(ms, "HIGH")
           U == {m \in T : IsUrgent(m)}
           k == IF Len(u) < TopLimit THEN Len(u) ELSE TopLimit
           t == SubSeq(u, 1, k)
<1>1. Lists(u, U) /\ \A i, j \in 1..Len(u) : i < j => GoesFirst(u[i], u[j])
  BY UrgentIs
<1>2. Top(ms) = t
  BY DEF Top
<1>3. \A m, n \in T : m.id = n.id => m = n
  BY DEF IsTable
<1>4. \A m : m \in U <=> m \in T /\ IsUrgent(m)
  OBVIOUS
<1> HIDE DEF u, U
<1>5. /\ u \in Seq(U) /\ Len(u) \in Nat /\ u \in [1..Len(u) -> U]
      /\ \A m \in U : \E i \in 1..Len(u) : u[i] = m
      /\ \A i, j \in 1..Len(u) : i # j => u[i] # u[j]
  BY <1>1 DEF Lists
<1>6. /\ k \in Nat /\ k <= Len(u) /\ (k < Len(u) => k = TopLimit) /\ Len(t) = k
      /\ \A i \in 1..k : t[i] = u[i] /\ u[i] \in U
  BY <1>5, FirstOnes
<1> HIDE DEF k, t
<1>7. ids = [i \in 1..k |-> u[i].id]
  BY <1>2, <1>6 DEF Ids
<1>8. Len(ids) = k
  <2>1. ids \in [1..k -> {u[i].id : i \in 1..k}]
    BY <1>7
  <2> QED
    BY <1>6, <2>1, LenIs
<1>9. \A x : x \in ToSet(ids) <=> \E i \in 1..k : x = u[i].id
  BY <1>7 DEF ToSet
<1>10. top = {u[i] : i \in 1..k}
  <2>1. ASSUME NEW m \in T, NEW i \in 1..k, m.id = u[i].id PROVE m = u[i]
    BY <1>3, <1>4, <1>6, <2>1
  <2> QED
    BY <1>4, <1>6, <1>9, <2>1
<1>11. \A i \in 1..k : i \in 1..Len(u)
  BY <1>5, <1>6
<1>12. Cardinality(top) = k
  <2> DEFINE f == [i \in 1..k |-> u[i]]
  <2>1. f \in Bijection(1..k, top)
    <3>1. \A i, j \in 1..k : f[i] = f[j] => i = j
      BY <1>5, <1>11
    <3>2. f \in [1..k -> top] /\ \A m \in top : \E i \in 1..k : f[i] = m
      BY <1>10
    <3> HIDE DEF f
    <3> QED
      BY <3>1, <3>2 DEF Bijection, Injection, Surjection, IsInjective
  <2> HIDE DEF f
  <2>2. IsFiniteSet(1..k) /\ Cardinality(1..k) = k
    <3>1. IsFiniteSet(1..k) /\ Cardinality(1..k) = IF 1 > k THEN 0 ELSE k - 1 + 1
      BY <1>6, FS_Interval
    <3> QED
      BY <1>6, <3>1
  <2>3. ExistsBijection(1..k, top)
    BY <2>1 DEF ExistsBijection
  <2> QED
    BY <2>2, <2>3, FS_Bijection
<1>13. \A m \in top : IsUrgent(m)
  BY <1>4, <1>6, <1>10
<1>14. ASSUME NEW n \in T, n \notin top, IsUrgent(n)
       PROVE  Len(ids) = TopLimit /\ \A m \in top : GoesFirst(m, n)
  <2>1. PICK j \in 1..Len(u) : u[j] = n
    BY <1>4, <1>5, <1>14
  <2>2. j \notin 1..k
    BY <1>10, <1>14, <2>1
  <2>3. k < j /\ k < Len(u)
    BY <1>5, <1>6, <2>2
  <2>4. \A i \in 1..k : GoesFirst(u[i], n)
    BY <1>1, <1>6, <1>11, <2>1, <2>3
  <2> QED
    BY <1>6, <1>8, <1>10, <2>3, <2>4
<1> QED
  BY <1>8, <1>12, <1>13, <1>14 DEF Serves

\* The urgent message of a card: none if there is nothing urgent, else what goes first.
LEMMA UrgentOneIs ==
  ASSUME NEW S, IsTable(S), NEW T \in SUBSET S, NEW ms, ms = NewestFirst(T)
  PROVE  /\ Urgent(ms) = 0 <=> ~ \E m \in T : IsUrgent(m)
         /\ Urgent(ms) # 0 =>
              \E m \in T : /\ m.id = Urgent(ms)
                           /\ \A n \in T : IsUrgent(n) => GoesFirst(m, n)
<1> DEFINE u == OfLevel(ms, "CRITICAL") \o OfLevel(ms, "HIGH")
           U == {m \in T : IsUrgent(m)}
<1>1. Lists(u, U) /\ \A i, j \in 1..Len(u) : i < j => GoesFirst(u[i], u[j])
  BY UrgentIs
<1>2. Urgent(ms) = IF u = <<>> THEN 0 ELSE u[1].id
  BY DEF Urgent
<1>3. \A m \in T : m.id # 0 /\ m.received \in Nat
  BY DEF IsTable
<1>4. \A m : m \in U <=> m \in T /\ IsUrgent(m)
  OBVIOUS
<1> HIDE DEF u, U
<1>5. /\ u \in Seq(U) /\ Len(u) \in Nat /\ u \in [1..Len(u) -> U]
      /\ \A m \in U : \E i \in 1..Len(u) : u[i] = m
  BY <1>1 DEF Lists
<1>6. CASE u = <<>>
  <2>1. U = {}
    BY <1>5, <1>6
  <2> QED
    BY <1>2, <1>4, <1>6, <2>1
<1>7. CASE u # <<>>
  <2>1. Len(u) > 0 /\ 1 \in 1..Len(u)
    BY <1>5, <1>7
  <2>2. u[1] \in T /\ IsUrgent(u[1]) /\ Urgent(ms) = u[1].id /\ Urgent(ms) # 0
    BY <1>2, <1>3, <1>4, <1>5, <1>7, <2>1
  <2>3. ASSUME NEW n \in T, IsUrgent(n) PROVE GoesFirst(u[1], n)
    <3>1. PICK j \in 1..Len(u) : u[j] = n
      BY <1>4, <1>5, <2>3
    <3>2. CASE j = 1
      BY <1>3, <2>3, <3>1, <3>2 DEF GoesFirst
    <3>3. CASE j # 1
      <4>1. 1 < j
        BY <1>5, <3>3
      <4> QED
        BY <1>1, <2>1, <3>1, <4>1
    <3> QED
      BY <3>2, <3>3
  <2> QED
    BY <2>2, <2>3
<1> QED
  BY <1>6, <1>7

\* What the summary of a period says of the rows of its window.
LEMMA PeriodRight == ASSUME Here, NEW p \in AllPeriods PROVE PeriodAgrees(p)
<1> DEFINE s == Summary(table, p, hour)
           since == {m \in table : hour - m.received <= Hours(p)}
           top == {m \in since : m.id \in ToSet(s.top)}
           ms == NewestFirst(since)
<1>1. /\ IsTable(table) /\ hour \in Int /\ \A m \in table : m.received \in Nat
      /\ since \in SUBSET table
  <2>1. IsTable(table) /\ hour \in Int
    BY DEF Here
  <2> QED
    BY <2>1, RowIs
<1>2. SummaryPeriodStart(p, hour) = hour - Hours(p) /\ Hours(p) \in Int
  BY DEF SummaryPeriodStart, Hours, Day, AllPeriods
<1>3. \A m \in table : m.received >= hour - Hours(p) <=> hour - m.received <= Hours(p)
  BY <1>1, <1>2
<1>4. since = {m \in table : m.received >= SummaryPeriodStart(p, hour)}
  BY <1>2, <1>3
<1>5. MessagesSince(table, SummaryPeriodStart(p, hour)) = ms
  BY <1>4 DEF MessagesSince
<1>6. Lists(ms, since) /\ Len(ms) = Cardinality(since)
  BY <1>1, NewestIsSorted DEF Lists
<1> HIDE DEF ms
<1>7. /\ s.total = Len(ms) /\ s.distribution = Distribution(ms)
      /\ s.reply = Cardinality({i \in 1..Len(ms) : ms[i].reply})
      /\ s.action = Cardinality({i \in 1..Len(ms) : ms[i].action})
      /\ s.top = Ids(Top(ms))
  BY <1>5 DEF Summary
<1> HIDE DEF s
<1>8. /\ Sum(Distribution(ms)) = Cardinality(since)
      /\ \A l \in Ratings : Distribution(ms)[l] = Cardinality(Level(since, l))
  BY <1>1, <1>6, LevelsShare
<1>9. /\ Cardinality({i \in 1..Len(ms) : ms[i].reply}) = Cardinality({m \in since : m.reply})
      /\ Cardinality({i \in 1..Len(ms) : ms[i].action}) = Cardinality({m \in since : m.action})
  <2>1. ASSUME NEW U \in SUBSET since
        PROVE  Cardinality({i \in 1..Len(ms) : ms[i] \in U}) = Cardinality(U)
    BY <1>6, PlacesCount
  <2>2. \A i \in 1..Len(ms) : ms[i] \in since
    BY <1>6 DEF Lists
  <2>3. /\ {i \in 1..Len(ms) : ms[i].reply} = {i \in 1..Len(ms) : ms[i] \in {m \in since : m.reply}}
        /\ {i \in 1..Len(ms) : ms[i].action}
             = {i \in 1..Len(ms) : ms[i] \in {m \in since : m.action}}
    BY <2>2
  <2>4. {m \in since : m.reply} \in SUBSET since /\ {m \in since : m.action} \in SUBSET since
    OBVIOUS
  <2> QED
    BY <2>1, <2>3, <2>4
<1>10. Serves(s.top, top, since)
  BY <1>1, <1>7, TopIs DEF ms
<1>11. p \in {"week", "month"} => Len(Page([AllPass EXCEPT !.period = p])) = Cardinality(since)
  <2> SUFFICES ASSUME p \in {"week", "month"}
               PROVE  Len(Page([AllPass EXCEPT !.period = p])) = Cardinality(since)
    OBVIOUS
  <2>1. \A m \in table : Matches(m, [AllPass EXCEPT !.period = p], hour)
                           <=> m.received >= hour - Hours(p)
    <3>1. p = "week" => Hours(p) = 168
      BY DEF Hours
    <3>2. p = "month" => Hours(p) = 720
      BY DEF Hours
    <3>3. ASSUME NEW m \in table
          PROVE  /\ Matches(m, [AllPass EXCEPT !.period = "week"], hour)
                      <=> m.received >= hour - 168
                 /\ Matches(m, [AllPass EXCEPT !.period = "month"], hour)
                      <=> m.received >= hour - 720
      BY Here, Filters
    <3>4. CASE p = "week"
      BY <3>1, <3>4, <3>3
    <3>5. CASE p = "month"
      BY <3>2, <3>5, <3>3
    <3> QED
      BY <3>4, <3>5
  <2>2. since = {m \in table : Matches(m, [AllPass EXCEPT !.period = p], hour)}
    BY <1>3, <2>1
  <2> QED
    BY Here, <2>2, ListedAre
<1>12. \A l \in ToSet(Levels) :
         s.distribution[l] = Cardinality({m \in since : EffectiveLevel(m) = l})
  BY <1>7, <1>8, RatingsAre DEF Level
<1> QED
  BY <1>6, <1>7, <1>8, <1>9, <1>10, <1>11, <1>12 DEF PeriodAgrees, Serves, s

\* What the card of a source says of the rows of that source.
LEMMA CardRight == ASSUME Here, NEW k \in Kinds PROVE CardAgrees(k)
<1> DEFINE c == Card(table, k, "active")
           feed == [AllPass EXCEPT !.source = k]
           T == {m \in table : m.kind = k}
           ms == NewestFirst(T)
<1>1. IsTable(table) /\ T \in SUBSET table
  BY DEF Here
<1>2. Lists(ms, T) /\ Len(ms) = Cardinality(T)
  BY <1>1, NewestIsSorted DEF Lists
<1>3. /\ c.total = Len(ms) /\ c.distribution = Distribution(ms) /\ c.urgent = Urgent(ms)
      /\ c.unread = Cardinality({i \in 1..Len(ms) : ~ms[i].read})
  BY DEF Card
<1>4. /\ \A m \in table : Matches(m, feed, hour) <=> m.kind = k
      /\ \A m \in table : Matches(m, [feed EXCEPT !.status = "unread"], hour)
                            <=> m.kind = k /\ ~m.read
      /\ \A l \in Ratings : \A m \in table :
           Matches(m, [feed EXCEPT !.level = l], hour) <=> m.kind = k /\ EffectiveLevel(m) = l
  <2>1. /\ [feed EXCEPT !.status = "unread"] = [AllPass EXCEPT !.source = k, !.status = "unread"]
        /\ \A l : [feed EXCEPT !.level = l] = [AllPass EXCEPT !.source = k, !.level = l]
    OBVIOUS
  <2>2. ASSUME NEW m \in table
        PROVE  /\ Matches(m, [AllPass EXCEPT !.source = k], hour) <=> m.kind = k
               /\ Matches(m, [AllPass EXCEPT !.source = k, !.status = "unread"], hour)
                    <=> m.kind = k /\ ~m.read
               /\ \A l \in Ratings :
                    Matches(m, [AllPass EXCEPT !.source = k, !.level = l], hour)
                      <=> m.kind = k /\ EffectiveLevel(m) = l
    BY Here, Filters
  <2> QED
    BY <2>1, <2>2, Zenon
<1>5. \A f : /\ Listed(f) = {m \in table : Matches(m, f, hour)}
             /\ Len(Page(f)) = Cardinality({m \in table : Matches(m, f, hour)})
  BY ListedAre
<1>6. /\ Listed(feed) = T /\ Len(Page(feed)) = Cardinality(T)
      /\ Len(Page([feed EXCEPT !.status = "unread"])) = Cardinality({m \in T : ~m.read})
      /\ \A l \in Ratings : Len(Page([feed EXCEPT !.level = l])) = Cardinality(Level(T, l))
  <2>1. {m \in table : Matches(m, feed, hour)} = T
    BY <1>4
  <2>2. {m \in table : Matches(m, [feed EXCEPT !.status = "unread"], hour)} = {m \in T : ~m.read}
    BY <1>4
  <2>3. \A l \in Ratings :
          {m \in table : Matches(m, [feed EXCEPT !.level = l], hour)} = Level(T, l)
    BY <1>4 DEF Level
  <2> HIDE DEF T
  <2> QED
    BY <1>5, <2>1, <2>2, <2>3
<1> HIDE DEF ms, T, c, feed
<1>7. /\ Sum(Distribution(ms)) = Cardinality(T)
      /\ \A l \in Ratings : /\ Distribution(ms)[l] = Cardinality(Level(T, l))
                            /\ Cardinality(Level(T, l)) \in Nat
                            /\ IsFiniteSet(Level(T, l))
  BY <1>1, <1>2, LevelsShare
<1>8. Cardinality({i \in 1..Len(ms) : ~ms[i].read}) = Cardinality({m \in T : ~m.read})
  <2>1. {i \in 1..Len(ms) : ~ms[i].read} = {i \in 1..Len(ms) : ms[i] \in {m \in T : ~m.read}}
    BY <1>2 DEF Lists
  <2>2. {m \in T : ~m.read} \in SUBSET T
    OBVIOUS
  <2> QED
    BY <1>2, <2>1, <2>2, PlacesCount
<1>9. /\ Urgent(ms) = 0 <=> ~ \E m \in T : IsUrgent(m)
      /\ Urgent(ms) # 0 =>
           \E m \in T : /\ m.id = Urgent(ms)
                        /\ \A n \in T : IsUrgent(n) => GoesFirst(m, n)
  BY <1>1, UrgentOneIs DEF ms
<1>10. Urgent(ms) = 0 <=> Distribution(ms)["CRITICAL"] + Distribution(ms)["HIGH"] = 0
  <2>1. \A l \in Ratings : Distribution(ms)[l] \in Nat
                           /\ (Distribution(ms)[l] = 0 <=> Level(T, l) = {})
    BY <1>7, FS_EmptySet
  <2>2. Distribution(ms)["CRITICAL"] + Distribution(ms)["HIGH"] = 0
          <=> Level(T, "CRITICAL") = {} /\ Level(T, "HIGH") = {}
    BY <2>1 DEF Ratings
  <2>3. (Level(T, "CRITICAL") = {} /\ Level(T, "HIGH") = {}) <=> ~ \E m \in T : IsUrgent(m)
    BY DEF Level, IsUrgent
  <2> QED
    BY <1>9, <2>2, <2>3
<1> QED
  BY <1>2, <1>3, <1>6, <1>7, <1>8, <1>9, <1>10, RatingsAre DEF CardAgrees, c, feed

LEMMA SummaryRight == ASSUME Here PROVE SummaryAgrees
<1>1. Periods \subseteq AllPeriods
  BY OverviewOK DEF OverviewOK
<1> QED
  BY Here, <1>1, PeriodRight, CardRight DEF SummaryAgrees

(***************************************************************************)
(* What the feed, the summary and the cards show of the rows is what their *)
(* labels say, for every table the schema admits, every hour, filter and   *)
(* period, every offset and every number of messages.                      *)
(***************************************************************************)
THEOREM RowsAreRight == OverviewSpec => []RowsAgree
<1>1. ASSUME OverviewTypeOK PROVE RowsAgree
  <2>1. IsTable(table)
    BY <1>1, TablesOK DEF OverviewTypeOK
  <2>2. hour \in Int
    BY <1>1, Horizon DEF OverviewTypeOK
  <2> QED
    BY <2>1, <2>2, PagesRight, SummaryRight DEF RowsAgree, Here
<1> QED
  BY <1>1, ScreenTypes, PTL
=============================================================================
