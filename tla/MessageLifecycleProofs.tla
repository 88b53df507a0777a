------------------------ MODULE MessageLifecycleProofs ------------------------
(* Type correctness of MessageLifecycle, the consistency of its cards, the  *)
(* list of the ways a message can be stranded and of those in which the log *)
(* and a row part, for any mailbox, any number of concurrent requests,      *)
(* faults and restarts; and, for any mailbox, what a change of the criteria *)
(* and the events promise while nothing fails and nobody edits a message.   *)
EXTENDS MessageLifecycle, TLAPS

LEMMA InitTypeOK == Init => TypeOK
  <1> SUFFICES ASSUME Init PROVE TypeOK
      OBVIOUS
  <1> USE ConstantsOK DEF ConstantsOK
  <1>1. NewRow \in Row /\ \A c \in Criteria : RatedRow(c, Default) \in Row
        BY DEF NewRow, RatedRow, Row
  <1>2. IdleWorker \in WorkerState /\ IdleSyncer \in SyncerState /\ IdleReq \in ReqState
        BY <1>1 DEF IdleWorker, IdleSyncer, IdleReq, WorkerState, SyncerState, ReqState
  <1>3. NoEvent \in EventType
        BY <1>1 DEF NoEvent, EventType
  <1>4. IdsAreStored
        BY DEF Init, IdsAreStored, ReqIds, IdleWorker, IdleSyncer, IdleReq
  <1>5. rows \in [Messages -> Row] /\ stored \subseteq Messages
        BY <1>1 DEF Init
  <1>6. queue \in Seq(Messages)
        BY DEF Init
  <1>7. overrideLog \in [Messages -> Seq(Levels)]
        BY DEF Init
  <1>8. req \in [Handlers -> ReqState] /\ lastEvent \in [Messages -> EventType]
        BY <1>2, <1>3 DEF Init
  <1> QED
      BY <1>2, <1>4, <1>5, <1>6, <1>7, <1>8 DEF Init, TypeOK

-----------------------------------------------------------------------------
(* What the local steps keep, stated once for the actions that share them. *)

LEMMA Shapes ==
    /\ NewRow \in Row
    /\ IdleWorker \in WorkerState /\ IdleWorker.pc = "idle"
    /\ IdleSyncer \in SyncerState /\ IdleSyncer.pc = "idle"
    /\ IdleReq \in ReqState /\ ReqIds(IdleReq)
  BY ConstantsOK DEF NewRow, Row, IdleWorker, WorkerState, IdleSyncer, SyncerState,
                     IdleReq, ReqState, ReqIds

LEMMA GotoKeepsType ==
    ASSUME TypeOK, NEW h \in Handlers, NEW r \in ReqState, ReqIds(r),
           Goto(h, r), UNCHANGED stored
    PROVE  /\ req' \in [Handlers -> ReqState]
           /\ \A k \in Handlers : ReqIds(req[k])'
  <1>1. req' \in [Handlers -> ReqState]
        BY DEF TypeOK, Goto
  <1>2. \A k \in Handlers : req'[k] = IF k = h THEN r ELSE req[k]
        BY DEF TypeOK, Goto
  <1>3. \A k \in Handlers : ReqIds(req[k])
        BY DEF TypeOK, IdsAreStored
  <1> QED
      BY <1>1, <1>2, <1>3 DEF ReqIds

LEMMA PublishKeepsType ==
    ASSUME TypeOK, NEW m \in Messages, NEW r \in Row,
           NEW name \in {"message.created", "message.analyzed"}, Publish(name, m, r)
    PROVE  lastEvent' \in [Messages -> EventType]
  BY DEF TypeOK, Publish, Event, EventType

LEMMA PushKeepsType ==
    ASSUME TypeOK, NEW m \in stored, Push(m), UNCHANGED stored
    PROVE  /\ queue' \in Seq(Messages)
           /\ \A i \in 1..Len(queue') : queue'[i] \in stored'
  BY DEF TypeOK, IdsAreStored, Push
-----------------------------------------------------------------------------
(* Each action keeps TypeOK. *)

LEMMA SyncerKeepsType ==
    ASSUME TypeOK
    PROVE  /\ \A m \in Messages : StoreInsert(m) => TypeOK'
           /\ SyncerStep => TypeOK'
  <1> USE Shapes DEF TypeOK, IdsAreStored, table, counters
  <1>1. ASSUME NEW m \in Messages, StoreInsert(m) PROVE TypeOK'
        BY <1>1 DEF StoreInsert, Save, SyncerState, ReqIds
  <1>2. ASSUME StorePublish PROVE TypeOK'
    <2>1. syncer.msg \in Messages /\ syncer' \in SyncerState
          /\ syncer'.msg = syncer.msg /\ syncer.pc # "idle"
          BY <1>2 DEF StorePublish, SyncerState
    <2>2. lastEvent' \in [Messages -> EventType]
          BY <1>2, <2>1, PublishKeepsType DEF StorePublish
    <2> QED
        BY <1>2, <2>1, <2>2 DEF StorePublish, ReqIds
  <1>3. ASSUME StoreEnqueue PROVE TypeOK'
    <2>1. syncer.msg \in stored
          BY <1>3 DEF StoreEnqueue
    <2>2. queue' \in Seq(Messages) /\ \A i \in 1..Len(queue') : queue'[i] \in stored'
          BY <1>3, <2>1, PushKeepsType DEF StoreEnqueue
    <2> QED
        BY <1>3, <2>2 DEF StoreEnqueue, ReqIds
  <1> QED
      BY <1>1, <1>2, <1>3 DEF SyncerStep

LEMMA RowUpdates ==
    ASSUME NEW r \in Row
    PROVE  /\ \A l \in Levels, c \in Criteria \cup {NoCriteria} : Rated(r, c, l) \in Row
           /\ Unavailable(r) \in Row
           /\ [r EXCEPT !.read = TRUE] \in Row
           /\ [r EXCEPT !.status = "PROCESSING"] \in Row
           /\ \A l \in Levels : /\ [r EXCEPT !.override = l] \in Row
                                /\ [r EXCEPT !.override = l].override = l
  BY ConstantsOK DEF ConstantsOK, Row, Rated, Unavailable

LEMMA WorkerUpdates ==
    ASSUME NEW w \in WorkerState
    PROVE  /\ \A c \in Criteria :
                  [w EXCEPT !.pc = "ask", !.asked = c, !.attempt = 1] \in WorkerState
           /\ \A r \in Row : /\ [w EXCEPT !.pc = "save", !.row = r] \in WorkerState
                             /\ [w EXCEPT !.pc = "save", !.row = r].msg = w.msg
           /\ w.attempt < MaxAttempts
                  => /\ [w EXCEPT !.attempt = @ + 1] \in WorkerState
                     /\ [w EXCEPT !.attempt = @ + 1].msg = w.msg
  <1>1. MaxAttempts \in Nat /\ 1 \in 0..MaxAttempts
        BY ConstantsOK DEF ConstantsOK
  <1>2. w.attempt \in 0..MaxAttempts
        BY DEF WorkerState
  <1>3. w.attempt < MaxAttempts => w.attempt + 1 \in 0..MaxAttempts
        BY <1>1, <1>2
  <1> QED
      BY <1>1, <1>3 DEF WorkerState

LEMMA WorkerKeepsType ==
    ASSUME TypeOK, WorkerStep
    PROVE  TypeOK'
  <1> USE Shapes DEF TypeOK, IdsAreStored, table, counters
  <1>1. CASE Pop
    <2>0. queue \in Seq(Messages) /\ queue # <<>> /\ \A i \in 1..Len(queue) : queue[i] \in stored
          BY <1>1 DEF Pop, TypeOK, IdsAreStored
    <2>1. Head(queue) \in stored /\ Head(queue) \in Messages /\ Tail(queue) \in Seq(Messages)
          BY <2>0
    <2>2. \A i \in 1..Len(Tail(queue)) : Tail(queue)[i] = queue[i + 1] /\ i + 1 \in 1..Len(queue)
          BY <1>1 DEF Pop
    <2>3. worker' \in WorkerState /\ worker'.msg = Head(queue)
          BY <1>1, <2>1 DEF Pop, WorkerState, IdleWorker
    <2> QED
        BY <1>1, <2>1, <2>2, <2>3 DEF Pop, ReqIds
  <1>2. CASE WorkerExit
        BY <1>2 DEF WorkerExit, WorkerState, ReqIds
  <1>3. CASE LoadMessage
    <2>1. worker' \in WorkerState /\ worker'.msg = worker.msg
          BY <1>3 DEF LoadMessage, WorkerState
    <2> QED
        BY <1>3, <2>1 DEF LoadMessage, ReqIds
  <1>4. CASE BuildRequest
    <2>1. worker' \in WorkerState /\ worker'.msg = worker.msg
          BY <1>4, WorkerUpdates DEF BuildRequest, WorkerState
    <2> QED
        BY <1>4, <2>1 DEF BuildRequest, ReqIds
  <1>5. ASSUME NEW l \in Levels, ModelAnswers(l) PROVE TypeOK'
    <2>1. worker' \in WorkerState /\ worker'.msg = worker.msg
          BY <1>5, RowUpdates DEF ModelAnswers, WorkerState
    <2> QED
        BY <1>5, <2>1 DEF ModelAnswers, ReqIds
  <1>6. CASE ModelFails
    <2>1. worker' \in WorkerState /\ worker'.msg = worker.msg
      <3>1. worker \in WorkerState /\ Unavailable(worker.row) \in Row
            BY RowUpdates DEF WorkerState
      <3>2. worker' = IF worker.attempt < MaxAttempts
                      THEN [worker EXCEPT !.attempt = @ + 1]
                      ELSE [worker EXCEPT !.pc = "save", !.row = Unavailable(worker.row)]
            BY <1>6, <3>1 DEF ModelFails, WorkerState
      <3> HIDE DEF TypeOK, IdsAreStored
      <3> QED
          BY <3>1, <3>2, WorkerUpdates
    <2> QED
        BY <1>6, <2>1 DEF ModelFails, ReqIds
  <1>7. CASE SaveVerdict
    <2>1. worker' \in WorkerState /\ worker'.msg = worker.msg /\ worker.row \in Row
          BY <1>7 DEF SaveVerdict, WorkerState
    <2> QED
        BY <1>7, <2>1 DEF SaveVerdict, Save, ReqIds
  <1>8. CASE PublishVerdict
    <2>1. worker.msg \in Messages /\ worker.row \in Row
          BY <1>8 DEF PublishVerdict, WorkerState
    <2>2. lastEvent' \in [Messages -> EventType]
          BY <1>8, <2>1, PublishKeepsType DEF PublishVerdict
    <2> QED
        BY <1>8, <2>2 DEF PublishVerdict, ReqIds
  <1>9. CASE WorkerFault
        BY <1>9 DEF WorkerFault, Fault, ReqIds
  <1> QED
      BY <1>1, <1>2, <1>3, <1>4, <1>5, <1>6, <1>7, <1>8, <1>9 DEF WorkerStep

LEMMA HandlerKeepsType ==
    ASSUME TypeOK, NEW h \in Handlers, Arrival(h) \/ HandlerStep(h)
    PROVE  TypeOK'
  <1> USE Shapes DEF TypeOK, IdsAreStored, table, counters
  <1>1. ASSUME NEW m \in Messages, MarkRead(h, m) PROVE TypeOK'
    <2> DEFINE r == [IdleReq EXCEPT !.pc = "saveRead", !.msg = m, !.row = [rows[m] EXCEPT !.read = TRUE]]
    <2>1. r \in ReqState /\ ReqIds(r)
      <3>1. m \in stored /\ rows[m] \in Row
            BY <1>1 DEF MarkRead
      <3>2. r.row \in Row
            BY <3>1, RowUpdates DEF IdleReq
      <3>3. r \in [pc: {"saveRead"}, msg: {m}, row: {r.row}, want: {NoCriteria},
                  seen: {NoCriteria}, todo: {{}}]
            BY DEF IdleReq
      <3> QED
          BY <3>1, <3>2, <3>3 DEF ReqState, ReqIds
    <2>2. Goto(h, r) /\ UNCHANGED stored
          BY <1>1 DEF MarkRead, Arrives, Goto
    <2>3. req' \in [Handlers -> ReqState] /\ \A k \in Handlers : ReqIds(req[k])'
          BY <2>1, <2>2, GotoKeepsType
    <2> QED
        BY <1>1, <2>2, <2>3 DEF MarkRead, Arrives
  <1>2. CASE SaveRead(h)
    <2> DEFINE r == IdleReq
    <2>1. r \in ReqState /\ ReqIds(r)
          OBVIOUS
    <2>2. Goto(h, r) /\ UNCHANGED stored
          BY <1>2 DEF SaveRead, Respond, Goto
    <2>3. req' \in [Handlers -> ReqState] /\ \A k \in Handlers : ReqIds(req[k])'
          BY <2>1, <2>2, GotoKeepsType
    <2>4. rows' \in [Messages -> Row]
          BY <1>2 DEF SaveRead, Save, ReqState
    <2> QED
        BY <1>2, <2>2, <2>3, <2>4 DEF SaveRead
  <1>3. ASSUME NEW m \in Messages, NEW l \in Levels, SetLevel(h, m, l) PROVE TypeOK'
    <2> DEFINE r == [IdleReq EXCEPT !.pc = IF l = EffectiveLevel(rows[m]) THEN "saveLevel" ELSE "log", !.msg = m, !.row = [rows[m] EXCEPT !.override = l]]
    <2>1. r \in ReqState /\ ReqIds(r)
      <3>1. m \in stored /\ rows[m] \in Row
            BY <1>3 DEF SetLevel
      <3>2. r.row \in Row /\ r.row.override = l
            BY <3>1, RowUpdates DEF IdleReq
      <3>3. r \in [pc: {"saveLevel", "log"}, msg: {m}, row: {r.row}, want: {NoCriteria},
                  seen: {NoCriteria}, todo: {{}}]
            BY DEF IdleReq
      <3> QED
          BY <3>1, <3>2, <3>3 DEF ReqState, ReqIds
    <2>2. Goto(h, r) /\ UNCHANGED stored
          BY <1>3 DEF SetLevel, Arrives, Goto
    <2>3. req' \in [Handlers -> ReqState] /\ \A k \in Handlers : ReqIds(req[k])'
          BY <2>1, <2>2, GotoKeepsType
    <2> QED
        BY <1>3, <2>2, <2>3 DEF SetLevel, Arrives
  <1>4. CASE AddOverrideLog(h)
    <2> DEFINE r == [req[h] EXCEPT !.pc = "saveLevel"]
    <2>1. r \in ReqState /\ ReqIds(r)
          BY <1>4 DEF AddOverrideLog, Step, ReqState, ReqIds
    <2>2. Goto(h, r) /\ UNCHANGED stored
          BY <1>4 DEF AddOverrideLog, Step, Goto
    <2>3. req' \in [Handlers -> ReqState] /\ \A k \in Handlers : ReqIds(req[k])'
          BY <2>1, <2>2, GotoKeepsType
    <2>4. overrideLog' \in [Messages -> Seq(Levels)]
          BY <1>4 DEF AddOverrideLog, ReqIds
    <2> QED
        BY <1>4, <2>2, <2>3, <2>4 DEF AddOverrideLog
  <1>5. CASE SaveLevel(h)
    <2> DEFINE r == [req[h] EXCEPT !.pc = "publishLevel"]
    <2>1. r \in ReqState /\ ReqIds(r)
          BY <1>5 DEF SaveLevel, Step, ReqState, ReqIds
    <2>2. Goto(h, r) /\ UNCHANGED stored
          BY <1>5 DEF SaveLevel, Step, Goto
    <2>3. req' \in [Handlers -> ReqState] /\ \A k \in Handlers : ReqIds(req[k])'
          BY <2>1, <2>2, GotoKeepsType
    <2>4. rows' \in [Messages -> Row]
          BY <1>5 DEF SaveLevel, Save, ReqState
    <2> QED
        BY <1>5, <2>2, <2>3, <2>4 DEF SaveLevel
  <1>6. CASE PublishLevel(h)
    <2> DEFINE r == IdleReq
    <2>1. r \in ReqState /\ ReqIds(r)
          OBVIOUS
    <2>2. Goto(h, r) /\ UNCHANGED stored
          BY <1>6 DEF PublishLevel, Respond, Goto
    <2>3. req' \in [Handlers -> ReqState] /\ \A k \in Handlers : ReqIds(req[k])'
          BY <2>1, <2>2, GotoKeepsType
    <2>4. lastEvent' \in [Messages -> EventType]
          BY <1>6, PublishKeepsType DEF PublishLevel, ReqState, ReqIds
    <2> QED
        BY <1>6, <2>2, <2>3, <2>4 DEF PublishLevel
  <1>7. ASSUME NEW w \in Criteria \cup {NoCriteria}, UpdateMe(h, w) PROVE TypeOK'
    <2> DEFINE r == [IdleReq EXCEPT !.pc = "saveUser", !.want = w, !.seen = user]
    <2>1. r \in ReqState /\ ReqIds(r)
          BY <1>7, ConstantsOK DEF UpdateMe, Arrives, ReqState, ReqIds, IdleReq
    <2>2. Goto(h, r) /\ UNCHANGED stored
          BY <1>7 DEF UpdateMe, Arrives, Goto
    <2>3. req' \in [Handlers -> ReqState] /\ \A k \in Handlers : ReqIds(req[k])'
          BY <2>1, <2>2, GotoKeepsType
    <2> QED
        BY <1>7, <2>2, <2>3 DEF UpdateMe, Arrives
  <1>8. CASE SelectAll(h)
    <2> DEFINE r == IF stored = {} THEN IdleReq ELSE [req[h] EXCEPT !.pc = "mark", !.todo = stored]
    <2>1. r \in ReqState /\ ReqIds(r)
          BY <1>8 DEF SelectAll, Respond, ReqState, ReqIds
    <2>2. Goto(h, r) /\ UNCHANGED stored
          BY <1>8 DEF SelectAll, Respond, Goto
    <2>3. req' \in [Handlers -> ReqState] /\ \A k \in Handlers : ReqIds(req[k])'
          BY <2>1, <2>2, GotoKeepsType
    <2> QED
        BY <1>8, <2>2, <2>3 DEF SelectAll
  <1>9. CASE MarkAll(h)
    <2> DEFINE r == [req[h] EXCEPT !.pc = "enqueue"]
    <2>1. r \in ReqState /\ ReqIds(r)
          BY <1>9 DEF MarkAll, Step, ReqState, ReqIds
    <2>2. Goto(h, r) /\ UNCHANGED stored
          BY <1>9 DEF MarkAll, Step, Goto
    <2>3. req' \in [Handlers -> ReqState] /\ \A k \in Handlers : ReqIds(req[k])'
          BY <2>1, <2>2, GotoKeepsType
    <2>4. rows' \in [Messages -> Row]
          BY <1>9 DEF MarkAll, Row
    <2> QED
        BY <1>9, <2>2, <2>3, <2>4 DEF MarkAll
  <1>10. ASSUME NEW m \in Messages, EnqueueNewest(h, m) PROVE TypeOK'
    <2> DEFINE r == IF req[h].todo = {m} THEN IdleReq ELSE [req[h] EXCEPT !.todo = @ \ {m}]
    <2>1. r \in ReqState /\ ReqIds(r)
          BY <1>10 DEF EnqueueNewest, Respond, ReqState, ReqIds
    <2>2. Goto(h, r) /\ UNCHANGED stored
          BY <1>10 DEF EnqueueNewest, Respond, Goto
    <2>3. req' \in [Handlers -> ReqState] /\ \A k \in Handlers : ReqIds(req[k])'
          BY <2>1, <2>2, GotoKeepsType
    <2>4. queue' \in Seq(Messages) /\ \A i \in 1..Len(queue') : queue'[i] \in stored'
          BY <1>10, PushKeepsType DEF EnqueueNewest, ReqIds
    <2> QED
        BY <1>10, <2>2, <2>3, <2>4 DEF EnqueueNewest
  <1>11. CASE HandlerFault(h)
    <2> DEFINE r == IdleReq
    <2>1. r \in ReqState /\ ReqIds(r)
          OBVIOUS
    <2>2. Goto(h, r) /\ UNCHANGED stored
          BY <1>11 DEF HandlerFault, Respond, Fault, Goto
    <2>3. req' \in [Handlers -> ReqState] /\ \A k \in Handlers : ReqIds(req[k])'
          BY <2>1, <2>2, GotoKeepsType
    <2> QED
        BY <1>11, <2>2, <2>3 DEF HandlerFault, Fault
  <1>12. CASE SaveUser(h)
    <2> DEFINE r == IF req[h].want # NoCriteria /\ req[h].want # req[h].seen THEN [req[h] EXCEPT !.pc = "select"] ELSE IdleReq
    <2>1. r \in ReqState /\ ReqIds(r)
          BY <1>12 DEF SaveUser, Step, Respond, ReqState, ReqIds
    <2>2. Goto(h, r) /\ UNCHANGED stored
          BY <1>12 DEF SaveUser, Step, Respond, Goto
    <2>3. req' \in [Handlers -> ReqState] /\ \A k \in Handlers : ReqIds(req[k])'
          BY <2>1, <2>2, GotoKeepsType
    <2>4. user' \in Criteria
          BY <1>12 DEF SaveUser, ReqState, ReqIds
    <2> QED
        BY <1>12, <2>2, <2>3, <2>4 DEF SaveUser
  <1> QED
      BY <1>1, <1>2, <1>3, <1>4, <1>5, <1>6, <1>7, <1>8, <1>9, <1>10, <1>11, <1>12
         DEF Arrival, HandlerStep

LEMMA ProcessKeepsType ==
    ASSUME TypeOK, Stop \/ Restart
    PROVE  TypeOK'
  <1> USE Shapes DEF TypeOK, IdsAreStored, table, counters
  <1>1. CASE Stop
        BY <1>1 DEF Stop, ReqIds
  <1>2. CASE Restart
    <2>1. \A h \in Handlers : req'[h] = IdleReq
          BY <1>2 DEF Restart
    <2>2. queue' \in Seq(Messages) /\ Len(queue') = 0
          BY <1>2 DEF Restart
    <2>3. /\ worker' = IdleWorker /\ syncer' = IdleSyncer /\ crashes' = crashes + 1
          /\ closed' = FALSE /\ UNCHANGED <<stored, rows, user, overrideLog, lastEvent, requests, faults>>
          BY <1>2 DEF Restart
    <2>4. req' \in [Handlers -> ReqState] /\ \A h \in Handlers : ReqIds(req[h])'
          BY <1>2, <2>1, <2>3 DEF Restart, ReqIds
    <2>5. IdsAreStored'
          BY <2>2, <2>3, <2>4
    <2>6. closed' \in BOOLEAN
          BY <2>3
    <2>7. crashes' \in Nat
          BY <2>3
    <2> QED
        BY <2>2, <2>3, <2>4, <2>5, <2>6, <2>7
  <1> QED
      BY <1>1, <1>2

LEMMA TypeStep == TypeOK /\ [Next]_vars => TypeOK'
  <1> SUFFICES ASSUME TypeOK, [Next]_vars PROVE TypeOK'
      OBVIOUS
  <1>1. CASE UNCHANGED vars
        BY <1>1 DEF vars, table, counters, TypeOK, IdsAreStored, ReqIds
  <1> QED
      BY <1>1, SyncerKeepsType, WorkerKeepsType, HandlerKeepsType, ProcessKeepsType DEF Next

(* The variables keep their shape, and no id in memory dangles: the worker  *)
(* and the handlers only ever hold ids of stored rows.                      *)
THEOREM TypeCorrect == Spec => []TypeOK
  BY InitTypeOK, TypeStep, PTL DEF Spec
-----------------------------------------------------------------------------
(* Cards. *)

LEMMA ConsistentRows ==
    /\ RowConsistent(NewRow)
    /\ \A c \in Criteria : RowConsistent(RatedRow(c, Default))
    /\ \A r \in Row :
           /\ \A c \in Criteria \cup {NoCriteria}, l \in Levels :
                  RowConsistent(Rated(r, c, l)) /\ Rated(r, c, l).status = "DONE"
           /\ RowConsistent(r) => /\ RowConsistent(Unavailable(r))
                                  /\ RowConsistent([r EXCEPT !.read = TRUE])
                                  /\ RowConsistent([r EXCEPT !.status = "PROCESSING"])
                                  /\ \A l \in Levels : RowConsistent([r EXCEPT !.override = l])
           /\ Unavailable(r).status = "DONE"
  <1>1. Default # NoLevel /\ \A l \in Levels : l # NoLevel
        BY ConstantsOK DEF ConstantsOK
  <1>2. RowConsistent(NewRow)
        BY DEF RowConsistent, NewRow
  <1>3. \A c \in Criteria : RowConsistent(RatedRow(c, Default))
        BY <1>1 DEF RowConsistent, RatedRow, NewRow
  <1>4. ASSUME NEW r \in Row, NEW c \in Criteria \cup {NoCriteria}, NEW l \in Levels
        PROVE  RowConsistent(Rated(r, c, l)) /\ Rated(r, c, l).status = "DONE"
        BY <1>1 DEF RowConsistent, Rated, Row
  <1>5. ASSUME NEW r \in Row, RowConsistent(r)
        PROVE  /\ RowConsistent(Unavailable(r))
               /\ RowConsistent([r EXCEPT !.read = TRUE])
               /\ RowConsistent([r EXCEPT !.status = "PROCESSING"])
               /\ \A l \in Levels : RowConsistent([r EXCEPT !.override = l])
        BY <1>1, <1>5 DEF RowConsistent, Unavailable, Row
  <1>6. \A r \in Row : Unavailable(r).status = "DONE"
        BY DEF Unavailable, Row
  <1> QED
      BY <1>2, <1>3, <1>4, <1>5, <1>6

LEMMA InitCards == Init => CardsConsistent
  <1> SUFFICES ASSUME Init PROVE CardsConsistent
      OBVIOUS
  <1>1. \A m \in stored : rows[m] = RatedRow(user, Default)
        BY ConstantsOK DEF ConstantsOK, Init
  <1>2. \A m \in stored : RowConsistent(rows[m])
        BY <1>1, ConsistentRows DEF Init
  <1> QED
      BY <1>2, ConsistentRows DEF Init, CardsConsistent, IdleWorker, IdleReq, NoEvent

LEMMA GotoKeepsCards ==
    ASSUME TypeOK, CardsConsistent, NEW h \in Handlers, NEW r, RowConsistent(r.row), Goto(h, r)
    PROVE  \A k \in Handlers : RowConsistent(req'[k].row)
  BY DEF TypeOK, CardsConsistent, Goto

LEMMA CardsStep == TypeOK /\ CardsConsistent /\ [Next]_vars => CardsConsistent'
  <1> SUFFICES ASSUME TypeOK, CardsConsistent, [Next]_vars PROVE CardsConsistent'
      OBVIOUS
  <1> USE ConsistentRows DEF CardsConsistent, table, counters
  <1>t. /\ rows \in [Messages -> Row] /\ stored \subseteq Messages
        /\ worker \in WorkerState /\ req \in [Handlers -> ReqState] /\ user \in Criteria
        /\ lastEvent \in [Messages -> EventType]
        BY DEF TypeOK
  <1>w. worker.row \in Row /\ worker.asked \in Criteria \cup {NoCriteria}
        BY <1>t DEF WorkerState
  <1>1. ASSUME NEW m \in Messages, StoreInsert(m) PROVE CardsConsistent'
        BY <1>1, <1>t DEF StoreInsert, Save
  <1>2. CASE StorePublish
        BY <1>2, <1>t DEF StorePublish, Publish, Event
  <1>3. CASE StoreEnqueue
        BY <1>3 DEF StoreEnqueue
  <1>4. CASE Pop
        BY <1>4 DEF Pop, IdleWorker
  <1>5. CASE WorkerExit
        BY <1>5, <1>t DEF WorkerExit, WorkerState
  <1>6. CASE LoadMessage
    <2>1. worker.msg \in stored
          BY <1>6 DEF LoadMessage, TypeOK, IdsAreStored
    <2> QED
        BY <1>6, <1>t, <2>1 DEF LoadMessage, WorkerState
  <1>7. CASE BuildRequest
        BY <1>7, <1>t DEF BuildRequest, WorkerState
  <1>8. ASSUME NEW l \in Levels, ModelAnswers(l) PROVE CardsConsistent'
    <2>1. worker'.row = Rated(worker.row, worker.asked, l)
          BY <1>8, <1>t DEF ModelAnswers, WorkerState
    <2>2. RowConsistent(worker'.row) /\ worker'.row.status = "DONE"
          BY <1>w, <2>1
    <2> QED
        BY <1>8, <2>2 DEF ModelAnswers
  <1>9. CASE ModelFails
    <2>1. CASE worker.attempt < MaxAttempts
          BY <1>9, <1>t, <2>1 DEF ModelFails, WorkerState
    <2>2. CASE ~(worker.attempt < MaxAttempts)
      <3>1. worker'.row = Unavailable(worker.row)
            BY <1>9, <1>t, <2>2 DEF ModelFails, WorkerState
      <3>2. RowConsistent(worker'.row) /\ worker'.row.status = "DONE"
            BY <1>9, <1>w, <3>1 DEF ModelFails
      <3> QED
          BY <1>9, <3>2 DEF ModelFails
    <2> QED
        BY <2>1, <2>2
  <1>10. CASE SaveVerdict
        BY <1>10, <1>t DEF SaveVerdict, Save, WorkerState
  <1>11. CASE PublishVerdict
        BY <1>11, <1>t DEF PublishVerdict, Publish, Event, IdleWorker
  <1>12. CASE WorkerFault
        BY <1>12 DEF WorkerFault, IdleWorker
  <1>13. ASSUME NEW h \in Handlers, Arrival(h) PROVE CardsConsistent'
    <2>1. ASSUME NEW m \in Messages, MarkRead(h, m) PROVE CardsConsistent'
      <3> DEFINE r == [IdleReq EXCEPT !.pc = "saveRead", !.msg = m,
                                      !.row = [rows[m] EXCEPT !.read = TRUE]]
      <3>1. RowConsistent(r.row) /\ Goto(h, r)
            BY <1>t, <2>1 DEF MarkRead, IdleReq
      <3>2. \A k \in Handlers : RowConsistent(req'[k].row)
            BY <3>1, GotoKeepsCards
      <3> QED
          BY <2>1, <3>2 DEF MarkRead
    <2>2. ASSUME NEW m \in Messages, NEW l \in Levels, SetLevel(h, m, l) PROVE CardsConsistent'
      <3> DEFINE r == [IdleReq EXCEPT
                          !.pc = IF l = EffectiveLevel(rows[m]) THEN "saveLevel" ELSE "log",
                          !.msg = m, !.row = [rows[m] EXCEPT !.override = l]]
      <3>1. RowConsistent(r.row) /\ Goto(h, r)
            BY <1>t, <2>2 DEF SetLevel, IdleReq
      <3>2. \A k \in Handlers : RowConsistent(req'[k].row)
            BY <3>1, GotoKeepsCards
      <3> QED
          BY <2>2, <3>2 DEF SetLevel
    <2>3. ASSUME NEW c \in Criteria \cup {NoCriteria}, UpdateMe(h, c) PROVE CardsConsistent'
        BY <1>t, <2>3 DEF UpdateMe, Goto, IdleReq
    <2> QED
        BY <1>13, <2>1, <2>2, <2>3 DEF Arrival
  <1>14. ASSUME NEW h \in Handlers, HandlerStep(h) PROVE CardsConsistent'
    <2>0. Respond(h) => \A k \in Handlers : RowConsistent(req'[k].row)
      <3>1. RowConsistent(IdleReq.row)
            BY DEF IdleReq
      <3> QED
          BY <3>1, GotoKeepsCards DEF Respond
    <2>c. \A pc : Step(h, pc) => \A k \in Handlers : RowConsistent(req'[k].row)
      <3> SUFFICES ASSUME NEW pc, Step(h, pc)
                   PROVE  \A k \in Handlers : RowConsistent(req'[k].row)
          OBVIOUS
      <3>1. [req[h] EXCEPT !.pc = pc].row = req[h].row
            BY <1>t DEF ReqState
      <3> QED
          BY <3>1, GotoKeepsCards DEF Step
    <2>d. \A todo : [req[h] EXCEPT !.todo = todo].row = req[h].row
          BY <1>t DEF ReqState
    <2>e. \A r : Goto(h, r) /\ r.row = req[h].row
                    => \A k \in Handlers : RowConsistent(req'[k].row)
          BY GotoKeepsCards
    <2>r. \A k \in Handlers : RowConsistent(req'[k].row)
      <3>1. CASE SelectAll(h)
        <4>1. [req[h] EXCEPT !.pc = "mark", !.todo = stored].row = req[h].row
              BY <1>t DEF ReqState
        <4> QED
            BY <2>0, <2>e, <3>1, <4>1 DEF SelectAll
      <3>2. ASSUME NEW m \in Messages, EnqueueNewest(h, m)
            PROVE  \A k \in Handlers : RowConsistent(req'[k].row)
            BY <2>0, <2>d, <2>e, <3>2 DEF EnqueueNewest
      <3> QED
          BY <1>14, <2>0, <2>c, <3>1, <3>2 DEF HandlerStep, SaveRead, AddOverrideLog,
             SaveLevel, PublishLevel, SaveUser, MarkAll, HandlerFault
    <2>1. CASE SaveRead(h)
          BY <1>t, <2>1, <2>r DEF SaveRead, Save
    <2>2. CASE AddOverrideLog(h)
          BY <2>2, <2>r DEF AddOverrideLog
    <2>3. CASE SaveLevel(h)
          BY <1>t, <2>3, <2>r DEF SaveLevel, Save
    <2>4. CASE PublishLevel(h)
          BY <1>t, <2>4, <2>r DEF PublishLevel, Publish, Event
    <2>5. CASE SaveUser(h)
          BY <2>5, <2>r DEF SaveUser
    <2>6. CASE SelectAll(h)
          BY <2>6, <2>r DEF SelectAll
    <2>7. CASE MarkAll(h)
          BY <1>t, <2>7, <2>r DEF MarkAll
    <2>8. CASE HandlerFault(h)
          BY <2>8, <2>r DEF HandlerFault
    <2>9. ASSUME NEW m \in Messages, EnqueueNewest(h, m) PROVE CardsConsistent'
          BY <2>9, <2>r DEF EnqueueNewest
    <2> QED
        BY <1>14, <2>1, <2>2, <2>3, <2>4, <2>5, <2>6, <2>7, <2>8, <2>9 DEF HandlerStep
  <1>15. CASE Stop
        BY <1>15 DEF Stop
  <1>16. CASE Restart
        BY <1>16 DEF Restart, IdleWorker, IdleReq
  <1>17. CASE UNCHANGED vars
        BY <1>17 DEF vars
  <1> QED
      BY <1>1, <1>2, <1>3, <1>4, <1>5, <1>6, <1>7, <1>8, <1>9, <1>10, <1>11, <1>12, <1>13,
         <1>14, <1>15, <1>16, <1>17 DEF Next, SyncerStep, WorkerStep

(* A closed card always shows a level, in the table, in every copy of a row *)
(* a goroutine still holds and in every event, whichever copy wins.         *)
THEOREM CardsAreConsistent == Spec => []CardsConsistent
  BY TypeCorrect, InitCards, CardsStep, PTL DEF Spec
-----------------------------------------------------------------------------
(* Who still has to close a message. *)

LEMMA PushKeepsInQueue ==
    ASSUME TypeOK, NEW k \in Messages, Push(k)
    PROVE  InQueue(k)' /\ \A m \in Messages : InQueue(m) => InQueue(m)'
  <1>1. /\ Len(queue') = Len(queue) + 1 /\ Len(queue) \in Nat
        /\ \A i \in 1..Len(queue) : queue'[i] = queue[i]
        /\ queue'[Len(queue) + 1] = k
        BY DEF TypeOK, Push
  <1>2. InQueue(k)'
        BY <1>1 DEF InQueue
  <1>3. ASSUME NEW m \in Messages, InQueue(m) PROVE InQueue(m)'
        BY <1>1, <1>3 DEF InQueue
  <1> QED
      BY <1>2, <1>3

LEMMA PopTakesHead ==
    ASSUME TypeOK, queue # <<>>, queue' = Tail(queue), NEW m, InQueue(m)
    PROVE  m = Head(queue) \/ InQueue(m)'
  <1>1. PICK i \in 1..Len(queue) : queue[i] = m
        BY DEF InQueue
  <1>2. CASE i = 1
        BY <1>1, <1>2 DEF TypeOK
  <1>3. CASE i # 1
    <2>1. i - 1 \in 1..Len(queue') /\ queue'[i - 1] = queue[i]
          BY <1>3 DEF TypeOK
    <2> QED
        BY <1>1, <2>1 DEF InQueue
  <1> QED
      BY <1>2, <1>3

Excused(m) ==
    \/ crashes' # crashes
    \/ worker.msg = m /\ faults' # faults
    \/ worker.pc = "exited"
    \/ StaleSave(m)
    \/ MissedBySelect(m)

LEMMA LeakStep ==
    ASSUME TypeOK, CardsConsistent, [Next]_vars,
           NEW m \in Messages, ~Stranded(m), Stranded(m)', ~Excused(m)
    PROVE  FALSE
  <1> USE DEF table, counters
  <1>t. /\ worker \in WorkerState /\ req \in [Handlers -> ReqState] /\ syncer \in SyncerState
        /\ rows \in [Messages -> Row] /\ stored \subseteq Messages
        BY DEF TypeOK
  <1>e. worker.pc # "exited" /\ crashes' = crashes
        BY DEF Excused
  <1>s. m \in stored' /\ rows'[m].status = "PROCESSING" /\ ~Covered(m)'
        BY DEF Stranded
  <1>c. m \in stored /\ rows'[m] = rows[m] => Covered(m)
        BY <1>s DEF Stranded
  <1>1. ASSUME NEW n \in Messages, StoreInsert(n) PROVE FALSE
    <2>1. n # m
          BY <1>1, <1>s DEF StoreInsert, Covered
    <2>2. Covered(m)
          BY <1>1, <1>c, <1>s, <1>t, <2>1 DEF StoreInsert, Save
    <2> QED
        BY <1>1, <1>s, <2>2 DEF StoreInsert, Covered, InQueue
  <1>2. CASE StorePublish
        BY <1>2, <1>c, <1>s, <1>t DEF StorePublish, Covered, InQueue, SyncerState
  <1>3. CASE StoreEnqueue
    <2>1. PICK k \in Messages : k = syncer.msg
          BY <1>3 DEF StoreEnqueue, TypeOK, IdsAreStored
    <2>2. Push(k)
          BY <1>3, <2>1 DEF StoreEnqueue
    <2>3. InQueue(k)' /\ (InQueue(m) => InQueue(m)')
          BY <2>2, PushKeepsInQueue
    <2> QED
        BY <1>3, <1>c, <1>s, <1>e, <2>1, <2>3 DEF StoreEnqueue, Covered
  <1>4. CASE Pop
    <2>1. InQueue(m) => m = Head(queue) \/ InQueue(m)'
          BY <1>4, PopTakesHead DEF Pop
    <2>2. worker' = [IdleWorker EXCEPT !.pc = "load", !.msg = Head(queue)]
          BY <1>4 DEF Pop
    <2>3. worker'.pc = "load" /\ worker'.msg = Head(queue)
          BY <2>2 DEF IdleWorker
    <2> QED
        BY <1>4, <1>c, <1>s, <2>1, <2>3 DEF Pop, Covered
  <1>5. CASE WorkerExit
    <2>1. ~InQueue(m)
          BY <1>5 DEF WorkerExit, InQueue
    <2> QED
        BY <1>5, <1>c, <1>s, <2>1 DEF WorkerExit, Covered
  <1>6. CASE LoadMessage
    <2>1. worker'.pc = "build" /\ worker'.msg = worker.msg
          BY <1>6, <1>t DEF LoadMessage, WorkerState
    <2> QED
        BY <1>6, <1>c, <1>s, <2>1 DEF LoadMessage, Covered, InQueue
  <1>7. CASE BuildRequest
    <2>1. worker'.pc = "ask" /\ worker'.msg = worker.msg
          BY <1>7, <1>t DEF BuildRequest, WorkerState
    <2> QED
        BY <1>7, <1>c, <1>s, <2>1 DEF BuildRequest, Covered, InQueue
  <1>8. ASSUME NEW l \in Levels, ModelAnswers(l) PROVE FALSE
    <2>1. worker'.pc = "save" /\ worker'.msg = worker.msg
          BY <1>8, <1>t DEF ModelAnswers, WorkerState
    <2> QED
        BY <1>8, <1>c, <1>s, <2>1 DEF ModelAnswers, Covered, InQueue
  <1>9. CASE ModelFails
    <2>1. worker'.pc \in {"ask", "save"} /\ worker'.msg = worker.msg
          BY <1>9, <1>t DEF ModelFails, WorkerState
    <2> QED
        BY <1>9, <1>c, <1>s, <2>1 DEF ModelFails, Covered, InQueue
  <1>10. CASE SaveVerdict
    <2>1. worker.msg # m
          BY <1>10, <1>s, <1>t DEF SaveVerdict, Save, CardsConsistent
    <2>2. Covered(m)
          BY <1>10, <1>c, <1>s, <1>t, <2>1 DEF SaveVerdict, Save
    <2>3. worker'.pc = "publish"
          BY <1>10, <1>t DEF SaveVerdict, WorkerState
    <2> QED
        BY <1>10, <1>s, <2>1, <2>2, <2>3 DEF SaveVerdict, Covered, InQueue
  <1>11. CASE PublishVerdict
        BY <1>11, <1>c, <1>s DEF PublishVerdict, Covered, InQueue, IdleWorker
  <1>12. CASE WorkerFault
    <2>1. worker.msg # m
          BY <1>12 DEF WorkerFault, Fault, Excused, TypeOK
    <2> QED
        BY <1>12, <1>c, <1>s, <2>1 DEF WorkerFault, Covered, InQueue, IdleWorker
  <1>13. ASSUME NEW h \in Handlers, Arrival(h) \/ HandlerStep(h) PROVE FALSE
    <2>k. \A k \in Handlers : k # h => req'[k] = req[k]
          BY <1>13, <1>t DEF Arrival, HandlerStep, MarkRead, SetLevel, UpdateMe, SaveRead,
             AddOverrideLog, SaveLevel, PublishLevel, SaveUser, SelectAll, MarkAll,
             HandlerFault, EnqueueNewest, Step, Respond, Goto
    <2>1. ASSUME Covered(m), req[h].pc # "enqueue", UNCHANGED <<queue, worker, syncer>>
          PROVE  FALSE
          BY <1>s, <2>k, <2>1 DEF Covered, InQueue
    <2>2. ASSUME NEW n \in Messages, MarkRead(h, n) \/ \E l \in Levels : SetLevel(h, n, l)
          PROVE  FALSE
          BY <1>c, <1>s, <2>1, <2>2 DEF MarkRead, SetLevel, Arrives
    <2>3. ASSUME NEW c \in Criteria \cup {NoCriteria}, UpdateMe(h, c) PROVE FALSE
          BY <1>c, <1>s, <2>1, <2>3 DEF UpdateMe, Arrives
    <2>4. CASE SaveRead(h) \/ SaveLevel(h)
      <3>1. req[h].pc \in {"saveRead", "saveLevel"} /\ req[h].msg \in Messages
            /\ rows' = [rows EXCEPT ![req[h].msg] = req[h].row]
            /\ UNCHANGED <<stored, queue, worker, syncer>>
            BY <2>4, <1>t DEF SaveRead, SaveLevel, Save, TypeOK, IdsAreStored, ReqIds
      <3>2. Covered(m)
        <4>1. CASE req[h].msg = m
          <5>1. req[h].row.status = "PROCESSING"
                BY <1>s, <1>t, <3>1, <4>1
          <5>2. rows[m].status # "DONE"
                BY <3>1, <4>1, <5>1 DEF Excused, StaleSave
          <5>3. rows[m].status = "PROCESSING"
                BY <1>t, <5>2 DEF Row
          <5> QED
              BY <1>s, <3>1, <5>3 DEF Stranded
        <4>2. CASE req[h].msg # m
              BY <1>c, <1>s, <1>t, <3>1, <4>2
        <4> QED
            BY <4>1, <4>2
      <3> QED
          BY <2>1, <3>1, <3>2
    <2>5. CASE \/ AddOverrideLog(h) \/ PublishLevel(h) \/ SaveUser(h) \/ SelectAll(h)
               \/ HandlerFault(h)
          BY <1>c, <1>s, <2>1, <2>5
             DEF AddOverrideLog, PublishLevel, SaveUser, SelectAll, HandlerFault
    <2>6. CASE MarkAll(h)
      <3>1. m \in req[h].todo
            BY <2>6 DEF Excused, MissedBySelect, MarkAll
      <3>2. req'[h].pc = "enqueue" /\ req'[h].todo = req[h].todo
            BY <1>t, <2>6 DEF MarkAll, Step, Goto, ReqState
      <3> QED
          BY <1>s, <3>1, <3>2 DEF Covered
    <2>7. ASSUME NEW n \in Messages, EnqueueNewest(h, n) PROVE FALSE
      <3>1. InQueue(n)' /\ (InQueue(m) => InQueue(m)')
            BY <2>7, PushKeepsInQueue DEF EnqueueNewest
      <3>2. n # m
            BY <1>e, <1>s, <2>7, <3>1 DEF EnqueueNewest, Covered
      <3>3. m \in req[h].todo => req'[h].pc = "enqueue" /\ m \in req'[h].todo
            BY <1>t, <2>7, <3>2 DEF EnqueueNewest, Goto, ReqState
      <3> QED
          BY <1>c, <1>s, <2>7, <2>k, <3>1, <3>3 DEF EnqueueNewest, Covered
    <2> QED
        BY <1>13, <2>2, <2>3, <2>4, <2>5, <2>6, <2>7 DEF Arrival, HandlerStep
  <1>14. CASE Stop
        BY <1>14, <1>c, <1>s DEF Stop, Covered, InQueue
  <1>15. CASE Restart
        BY <1>15, <1>e DEF Restart, TypeOK
  <1>16. CASE UNCHANGED vars
        BY <1>16, <1>c, <1>s DEF vars, Covered, InQueue
  <1> QED
      BY <1>1, <1>2, <1>3, <1>4, <1>5, <1>6, <1>7, <1>8, <1>9, <1>10, <1>11, <1>12, <1>13,
         <1>14, <1>15, <1>16 DEF Next, SyncerStep, WorkerStep

(* The five leaks named by OnlyKnownLeaks are all there are: any other step *)
(* leaves a PROCESSING message with somebody who will close it.             *)
THEOREM LeaksAreKnown == Spec => OnlyKnownLeaks
  <1>1. ASSUME TypeOK, CardsConsistent, [Next]_vars
        PROVE  [\A m \in Messages : ~Stranded(m) /\ Stranded(m)' =>
                    \/ crashes' # crashes
                    \/ worker.msg = m /\ faults' # faults
                    \/ worker.pc = "exited"
                    \/ StaleSave(m)
                    \/ MissedBySelect(m)]_vars
        BY <1>1, LeakStep DEF Excused
  <1> QED
      BY <1>1, TypeCorrect, CardsAreConsistent, PTL DEF Spec, OnlyKnownLeaks
-----------------------------------------------------------------------------
(* The log of the levels set by hand. *)

LoggedAreStored == \A m \in Messages : overrideLog[m] # <<>> => m \in stored

LEMMA LoggedStep == TypeOK /\ LoggedAreStored /\ [Next]_vars => LoggedAreStored'
  <1> SUFFICES ASSUME TypeOK, LoggedAreStored, [Next]_vars PROVE LoggedAreStored'
      OBVIOUS
  <1> USE DEF table, counters
  <1>1. ASSUME NEW h \in Handlers, AddOverrideLog(h) PROVE LoggedAreStored'
    <2>1. req[h].msg \in stored /\ overrideLog \in [Messages -> Seq(Levels)]
          BY <1>1 DEF AddOverrideLog, TypeOK, IdsAreStored, ReqIds
    <2>2. \A m \in Messages : m # req[h].msg => overrideLog'[m] = overrideLog[m]
          BY <1>1, <2>1 DEF AddOverrideLog
    <2> QED
        BY <1>1, <2>1, <2>2 DEF AddOverrideLog, LoggedAreStored
  <1>2. ASSUME NEW h \in Handlers, Arrival(h) \/ HandlerStep(h), ~AddOverrideLog(h)
        PROVE  UNCHANGED <<stored, overrideLog>>
        BY <1>2 DEF Arrival, HandlerStep, MarkRead, SetLevel, UpdateMe, SaveRead, SaveLevel,
           PublishLevel, SaveUser, SelectAll, MarkAll, HandlerFault, EnqueueNewest
  <1>3. ASSUME NEW m \in Messages, StoreInsert(m) PROVE LoggedAreStored'
        BY <1>3 DEF StoreInsert, LoggedAreStored
  <1>4. ASSUME SyncerStep \/ WorkerStep \/ Stop \/ Restart \/ UNCHANGED vars
        PROVE  UNCHANGED <<stored, overrideLog>>
        BY <1>4 DEF SyncerStep, WorkerStep, StorePublish, StoreEnqueue, Pop, WorkerExit,
           LoadMessage, BuildRequest, ModelAnswers, ModelFails, SaveVerdict, PublishVerdict,
           WorkerFault, Stop, Restart, vars
  <1> QED
      BY <1>1, <1>2, <1>3, <1>4 DEF Next, LoggedAreStored

\* What leaves the log, the level of the row and the request about to save it alone.
LEMMA NothingToTheLog ==
    ASSUME NEW m \in Messages, LogHolds(m), overrideLog'[m] = overrideLog[m],
           rows'[m].override = rows[m].override,
           \A h \in Handlers : req[h].pc = "saveLevel" => req'[h] = req[h]
    PROVE  LogHolds(m)'
  BY DEF LogHolds

LEMMA LogStep ==
    ASSUME TypeOK, LoggedAreStored, [Next]_vars, NEW m \in Messages, LogHolds(m),
           faults' = faults, crashes' = crashes, rows' # rows => ~OldCopyOf(m)
    PROVE  LogHolds(m)'
  <1> USE DEF table, counters
  <1>t. /\ worker \in WorkerState /\ req \in [Handlers -> ReqState]
        /\ rows \in [Messages -> Row] /\ stored \subseteq Messages
        /\ overrideLog \in [Messages -> Seq(Levels)]
        /\ faults \in Nat /\ crashes \in Nat
        BY DEF TypeOK
  <1>1. ASSUME NEW n \in Messages, StoreInsert(n) PROVE LogHolds(m)'
    <2>1. CASE n = m
          BY <1>1, <2>1 DEF StoreInsert, LoggedAreStored, LogHolds
    <2>2. CASE n # m
          BY <1>1, <1>t, <2>2, NothingToTheLog DEF StoreInsert, Save
    <2> QED
        BY <2>1, <2>2
  <1>2. CASE SyncerStep \/ Stop \/ UNCHANGED vars
        BY <1>2, NothingToTheLog DEF SyncerStep, StorePublish, StoreEnqueue, Stop, vars
  <1>3. CASE WorkerStep
    <2>1. CASE SaveVerdict
      <3>1. worker.pc = "save" /\ rows' = [rows EXCEPT ![worker.msg] = worker.row]
            /\ UNCHANGED <<overrideLog, req>>
            BY <2>1 DEF SaveVerdict, Save
      <3>2. rows'[m].override = rows[m].override
        <4>1. CASE rows' = rows
              BY <4>1
        <4>2. CASE rows' # rows
              BY <1>t, <3>1, <4>2 DEF OldCopyOf
        <4> QED
            BY <4>1, <4>2
      <3> QED
          BY <3>1, <3>2, NothingToTheLog
    <2>2. CASE ~SaveVerdict
      <3>1. UNCHANGED <<rows, overrideLog, req>>
            BY <1>3, <2>2 DEF WorkerStep, Pop, WorkerExit, LoadMessage, BuildRequest,
               ModelAnswers, ModelFails, PublishVerdict, WorkerFault
      <3> QED
          BY <3>1, NothingToTheLog
    <2> QED
        BY <2>1, <2>2
  <1>4. ASSUME NEW h \in Handlers, Arrival(h) \/ HandlerStep(h) PROVE LogHolds(m)'
    <2>k. \A k \in Handlers : k # h => req'[k] = req[k]
          BY <1>4, <1>t DEF Arrival, HandlerStep, MarkRead, SetLevel, UpdateMe, SaveRead,
             AddOverrideLog, SaveLevel, PublishLevel, SaveUser, SelectAll, MarkAll,
             HandlerFault, EnqueueNewest, Step, Respond, Goto
    <2>1. CASE SaveRead(h)
      <3>1. req[h].pc = "saveRead" /\ rows' = [rows EXCEPT ![req[h].msg] = req[h].row]
            /\ UNCHANGED overrideLog
            BY <2>1 DEF SaveRead, Save
      <3>2. rows'[m].override = rows[m].override
        <4>1. CASE rows' = rows
              BY <4>1
        <4>2. CASE rows' # rows
              BY <1>t, <3>1, <4>2 DEF OldCopyOf
        <4> QED
            BY <4>1, <4>2
      <3> QED
          BY <2>k, <3>1, <3>2, NothingToTheLog
    <2>2. CASE SaveLevel(h)
      <3>1. req[h].pc = "saveLevel" /\ rows' = [rows EXCEPT ![req[h].msg] = req[h].row]
            /\ UNCHANGED overrideLog
            BY <2>2 DEF SaveLevel, Save
      <3>2. CASE req[h].msg # m
        <4>1. rows'[m] = rows[m]
              BY <1>t, <3>1, <3>2
        <4>2. CASE overrideLog[m] = <<>> \/ Last(overrideLog[m]) = rows[m].override
              BY <3>1, <4>1, <4>2 DEF LogHolds
        <4>3. CASE \E k \in Handlers : /\ req[k].pc = "saveLevel" /\ req[k].msg = m
                                       /\ Last(overrideLog[m]) = req[k].row.override
          <5>1. PICK k \in Handlers : /\ req[k].pc = "saveLevel" /\ req[k].msg = m
                                      /\ Last(overrideLog[m]) = req[k].row.override
                BY <4>3
          <5>2. req'[k] = req[k]
                BY <2>k, <3>2, <5>1
          <5> QED
              BY <3>1, <5>1, <5>2 DEF LogHolds
        <4> QED
            BY <4>2, <4>3 DEF LogHolds
      <3>3. CASE req[h].msg = m
        <4>1. rows'[m] = req[h].row
              BY <1>t, <3>1, <3>3
        <4>2. CASE req[h].row.override = Last(overrideLog[m])
              BY <3>1, <4>1, <4>2 DEF LogHolds
        <4>3. CASE req[h].row.override # Last(overrideLog[m])
          <5>1. rows' = rows
                BY <3>1, <3>3, <4>3 DEF OldCopyOf
          <5>2. rows[m].override # Last(overrideLog[m])
                BY <4>1, <4>3, <5>1
          <5>3. CASE overrideLog[m] = <<>>
                BY <3>1, <5>3 DEF LogHolds
          <5>4. CASE \E k \in Handlers : /\ req[k].pc = "saveLevel" /\ req[k].msg = m
                                         /\ Last(overrideLog[m]) = req[k].row.override
            <6>1. PICK k \in Handlers : /\ req[k].pc = "saveLevel" /\ req[k].msg = m
                                        /\ Last(overrideLog[m]) = req[k].row.override
                  BY <5>4
            <6>2. req'[k] = req[k]
                  BY <2>k, <4>3, <6>1
            <6> QED
                BY <3>1, <6>1, <6>2 DEF LogHolds
          <5> QED
              BY <5>2, <5>3, <5>4 DEF LogHolds
        <4> QED
            BY <4>2, <4>3
      <3> QED
          BY <3>2, <3>3
    <2>3. CASE AddOverrideLog(h)
      <3>1. /\ req[h].pc = "log" /\ UNCHANGED rows
            /\ overrideLog' = [overrideLog EXCEPT ![req[h].msg] = Append(@, req[h].row.override)]
            /\ req' = [req EXCEPT ![h] = [req[h] EXCEPT !.pc = "saveLevel"]]
            BY <2>3 DEF AddOverrideLog, Step, Goto
      <3>2. CASE req[h].msg # m
            BY <1>t, <2>k, <3>1, <3>2, NothingToTheLog
      <3>3. CASE req[h].msg = m
        <4>1. req'[h].pc = "saveLevel" /\ req'[h].msg = m /\ req'[h].row = req[h].row
              BY <1>t, <3>1, <3>3 DEF ReqState
        <4>2. overrideLog'[m] = Append(overrideLog[m], req[h].row.override)
              BY <1>t, <3>1, <3>3
        <4>3. Last(overrideLog'[m]) = req[h].row.override
              BY <1>t, <4>2 DEF Last
        <4> QED
            BY <4>1, <4>3 DEF LogHolds
      <3> QED
          BY <3>2, <3>3
    <2>4. CASE MarkAll(h)
      <3>1. rows'[m].override = rows[m].override /\ UNCHANGED overrideLog /\ req[h].pc = "mark"
            BY <1>t, <2>4 DEF MarkAll, Row
      <3> QED
          BY <2>k, <3>1, NothingToTheLog
    <2>5. ~HandlerFault(h)
          BY <1>t DEF HandlerFault, Fault
    <2>6. CASE /\ ~SaveRead(h) /\ ~SaveLevel(h) /\ ~AddOverrideLog(h) /\ ~MarkAll(h)
      <3>1. CASE Arrival(h)
            BY <2>k, <3>1, NothingToTheLog DEF Arrival, MarkRead, SetLevel, UpdateMe, Arrives
      <3>2. \/ UNCHANGED <<rows, overrideLog>> /\ req[h].pc # "saveLevel"
            \/ Arrival(h)
            BY <1>4, <2>5, <2>6 DEF HandlerStep, PublishLevel, SaveUser, SelectAll, EnqueueNewest
      <3> QED
          BY <2>k, <3>1, <3>2, NothingToTheLog
    <2> QED
        BY <2>1, <2>2, <2>3, <2>4, <2>6
  <1>5. CASE Restart
        BY <1>5, <1>t DEF Restart
  <1> QED
      BY <1>1, <1>2, <1>3, <1>4, <1>5 DEF Next

(* The log and the row part only when something fails, or when a copy that  *)
(* does not know of the level set last is saved.                            *)
THEOREM LogStaysInStep == Spec => LogAgrees
  <1>1. Init => LoggedAreStored
        BY DEF Init, LoggedAreStored
  <1>2. Spec => []LoggedAreStored
        BY <1>1, TypeCorrect, LoggedStep, PTL DEF Spec
  <1>3. ASSUME TypeOK, LoggedAreStored, [Next]_vars
        PROVE  [\A m \in Messages : LogHolds(m) /\ ~LogHolds(m)' =>
                    \/ faults' # faults \/ crashes' # crashes
                    \/ OldCopyOf(m) /\ rows' # rows]_vars
        BY <1>3, LogStep
  <1> QED
      BY <1>2, <1>3, TypeCorrect, PTL DEF Spec, LogAgrees
-----------------------------------------------------------------------------
(* What holds while nothing but the profile is requested, no statement     *)
(* fails and the process stays up.  None of the three can be dropped: an   *)
(* opened or re-graded message is saved without, or across, the worker's   *)
(* event; a fault or a restart ends a re-analysis half-way.                *)
Calm == Ops \subseteq {"profile"} /\ MaxFaults = 0 /\ MaxCrashes = 0

OnlyProfile == \A h \in Handlers : req[h].pc \in {"idle", "saveUser", "select", "mark", "enqueue"}

CalmNext ==
    \/ \E m \in Messages : StoreInsert(m)
    \/ StorePublish \/ StoreEnqueue
    \/ Pop \/ WorkerExit \/ LoadMessage \/ BuildRequest
    \/ (\E l \in Levels : ModelAnswers(l)) \/ ModelFails \/ SaveVerdict \/ PublishVerdict
    \/ \E h \in Handlers :
          \/ (\E c \in Criteria \cup {NoCriteria} : UpdateMe(h, c)) \/ SaveUser(h)
          \/ SelectAll(h) \/ MarkAll(h) \/ (\E m \in Messages : EnqueueNewest(h, m))
    \/ UNCHANGED vars

LEMMA CalmSteps ==
    ASSUME Calm, TypeOK, OnlyProfile, [Next]_vars
    PROVE  CalmNext
  <1>1. ~Fault /\ ~Restart /\ ~Stop
        BY DEF Calm, Fault, Restart, Stop, TypeOK
  <1>2. \A h \in Handlers, m \in Messages : ~MarkRead(h, m) /\ \A l \in Levels : ~SetLevel(h, m, l)
        BY DEF Calm, MarkRead, SetLevel, Arrives
  <1>3. \A h \in Handlers : ~SaveRead(h) /\ ~AddOverrideLog(h) /\ ~SaveLevel(h) /\ ~PublishLevel(h)
        BY DEF OnlyProfile, SaveRead, AddOverrideLog, SaveLevel, PublishLevel
  <1>4. ~WorkerFault /\ \A h \in Handlers : ~HandlerFault(h)
        BY <1>1 DEF WorkerFault, HandlerFault
  <1> QED
      BY <1>1, <1>2, <1>3, <1>4 DEF CalmNext, Next, SyncerStep, WorkerStep, HandlerStep, Arrival

\* A request goes to one place and the others stay.
LEMMA OneMoves ==
    ASSUME TypeOK, NEW h \in Handlers, NEW r, Goto(h, r)
    PROVE  req'[h] = r /\ \A k \in Handlers : k # h => req'[k] = req[k]
  BY DEF TypeOK, Goto

LEMMA ProfileMoves ==
    ASSUME TypeOK, NEW h \in Handlers
    PROVE  /\ \A pc : Step(h, pc)
                 => /\ req'[h].pc = pc /\ req'[h].todo = req[h].todo /\ req'[h].seen = req[h].seen
                    /\ \A k \in Handlers : k # h => req'[k] = req[k]
           /\ Respond(h) => /\ req'[h].pc = "idle"
                            /\ \A k \in Handlers : k # h => req'[k] = req[k]
  <1>1. req[h] \in ReqState
        BY DEF TypeOK
  <1>2. ASSUME NEW pc, Step(h, pc)
        PROVE  /\ req'[h].pc = pc /\ req'[h].todo = req[h].todo /\ req'[h].seen = req[h].seen
               /\ \A k \in Handlers : k # h => req'[k] = req[k]
        BY <1>1, <1>2, OneMoves DEF Step, ReqState
  <1>3. ASSUME Respond(h)
        PROVE  req'[h].pc = "idle" /\ \A k \in Handlers : k # h => req'[k] = req[k]
        BY <1>3, OneMoves, Shapes DEF Respond, IdleReq
  <1> QED
      BY <1>2, <1>3

\* What each step of a profile request does to its locals.
LEMMA ProfileSteps ==
    ASSUME TypeOK, NEW h \in Handlers
    PROVE  /\ \A c \in Criteria \cup {NoCriteria} : UpdateMe(h, c)
                 => /\ req[h].pc = "idle" /\ req'[h].pc = "saveUser" /\ req'[h].seen = user
                    /\ \A k \in Handlers : k # h => req'[k] = req[k]
           /\ SaveUser(h)
                 => /\ req[h].pc = "saveUser" /\ req'[h].pc \in {"select", "idle"}
                    /\ req'[h].pc = "idle" /\ req[h].seen = user => user' = user
                    /\ \A k \in Handlers : k # h => req'[k] = req[k]
           /\ SelectAll(h)
                 => /\ req[h].pc = "select"
                    /\ \/ req'[h].pc = "idle" /\ stored = {}
                       \/ req'[h].pc = "mark" /\ req'[h].todo = stored
                    /\ \A k \in Handlers : k # h => req'[k] = req[k]
           /\ MarkAll(h)
                 => /\ req[h].pc = "mark" /\ req'[h].pc = "enqueue" /\ req'[h].todo = req[h].todo
                    /\ \A k \in Handlers : k # h => req'[k] = req[k]
           /\ \A m \in Messages : EnqueueNewest(h, m)
                 => /\ req[h].pc = "enqueue" /\ req'[h].pc \in {"enqueue", "idle"}
                    /\ \A n \in req[h].todo : n # m => req'[h].pc = "enqueue" /\ n \in req'[h].todo
                    /\ \A k \in Handlers : k # h => req'[k] = req[k]
  <1>1. req[h] \in ReqState
        BY DEF TypeOK
  <1>2. ASSUME NEW c \in Criteria \cup {NoCriteria}, UpdateMe(h, c)
        PROVE  /\ req[h].pc = "idle" /\ req'[h].pc = "saveUser" /\ req'[h].seen = user
               /\ \A k \in Handlers : k # h => req'[k] = req[k]
    <2>1. [IdleReq EXCEPT !.pc = "saveUser", !.want = c, !.seen = user].pc = "saveUser"
          /\ [IdleReq EXCEPT !.pc = "saveUser", !.want = c, !.seen = user].seen = user
          BY DEF IdleReq
    <2> QED
        BY <1>2, <2>1, OneMoves DEF UpdateMe, Arrives
  <1>3. ASSUME SaveUser(h)
        PROVE  /\ req[h].pc = "saveUser" /\ req'[h].pc \in {"select", "idle"}
               /\ req'[h].pc = "idle" /\ req[h].seen = user => user' = user
               /\ \A k \in Handlers : k # h => req'[k] = req[k]
        BY <1>3, ProfileMoves DEF SaveUser
  <1>4. ASSUME SelectAll(h)
        PROVE  /\ req[h].pc = "select"
               /\ \/ req'[h].pc = "idle" /\ stored = {}
                  \/ req'[h].pc = "mark" /\ req'[h].todo = stored
               /\ \A k \in Handlers : k # h => req'[k] = req[k]
    <2>1. CASE stored = {}
          BY <1>4, <2>1, ProfileMoves DEF SelectAll
    <2>2. CASE stored # {}
      <3>1. [req[h] EXCEPT !.pc = "mark", !.todo = stored].pc = "mark"
            /\ [req[h] EXCEPT !.pc = "mark", !.todo = stored].todo = stored
            BY <1>1 DEF ReqState
      <3> QED
          BY <1>4, <2>2, <3>1, OneMoves DEF SelectAll
    <2> QED
        BY <2>1, <2>2
  <1>5. ASSUME MarkAll(h)
        PROVE  /\ req[h].pc = "mark" /\ req'[h].pc = "enqueue" /\ req'[h].todo = req[h].todo
               /\ \A k \in Handlers : k # h => req'[k] = req[k]
        BY <1>5, ProfileMoves DEF MarkAll
  <1>6. ASSUME NEW m \in Messages, EnqueueNewest(h, m)
        PROVE  /\ req[h].pc = "enqueue" /\ req'[h].pc \in {"enqueue", "idle"}
               /\ \A n \in req[h].todo : n # m => req'[h].pc = "enqueue" /\ n \in req'[h].todo
               /\ \A k \in Handlers : k # h => req'[k] = req[k]
    <2>1. CASE req[h].todo = {m}
          BY <1>6, <2>1, ProfileMoves DEF EnqueueNewest
    <2>2. CASE req[h].todo # {m}
      <3> DEFINE left == req[h].todo \ {m}
      <3>1. Goto(h, [req[h] EXCEPT !.todo = left]) /\ req[h].pc = "enqueue"
            BY <1>6, <2>2 DEF EnqueueNewest
      <3>2. \A n \in req[h].todo : n # m => n \in left
            OBVIOUS
      <3> HIDE DEF left
      <3>3. [req[h] EXCEPT !.todo = left].pc = "enqueue" /\ [req[h] EXCEPT !.todo = left].todo = left
            BY <1>1, <3>1 DEF ReqState
      <3> QED
          BY <3>1, <3>2, <3>3, OneMoves
    <2> QED
        BY <2>1, <2>2
  <1> QED
      BY <1>2, <1>3, <1>4, <1>5, <1>6

LEMMA OnlyProfileStays ==
    Calm /\ TypeOK /\ OnlyProfile /\ [Next]_vars => OnlyProfile'
  <1> SUFFICES ASSUME Calm, TypeOK, OnlyProfile, [Next]_vars PROVE OnlyProfile'
      OBVIOUS
  <1>1. CalmNext
        BY CalmSteps
  <1>2. CASE UNCHANGED req
        BY <1>2 DEF OnlyProfile
  <1>3. ASSUME NEW h \in Handlers,
               \/ (\E c \in Criteria \cup {NoCriteria} : UpdateMe(h, c)) \/ SaveUser(h)
               \/ SelectAll(h) \/ MarkAll(h) \/ (\E m \in Messages : EnqueueNewest(h, m))
        PROVE  OnlyProfile'
    <2>1. /\ req'[h].pc \in {"idle", "saveUser", "select", "mark", "enqueue"}
          /\ \A k \in Handlers : k # h => req'[k] = req[k]
          BY <1>3, ProfileSteps
    <2> QED
        BY <2>1 DEF OnlyProfile
  <1>4. CASE \/ (\E m \in Messages : StoreInsert(m)) \/ StorePublish \/ StoreEnqueue
             \/ Pop \/ WorkerExit \/ LoadMessage \/ BuildRequest
             \/ (\E l \in Levels : ModelAnswers(l)) \/ ModelFails \/ SaveVerdict \/ PublishVerdict
             \/ UNCHANGED vars
        BY <1>2, <1>4 DEF StoreInsert, StorePublish, StoreEnqueue, Pop, WorkerExit, LoadMessage,
                          BuildRequest, ModelAnswers, ModelFails, SaveVerdict, PublishVerdict, vars
  <1> QED
      BY <1>1, <1>3, <1>4 DEF CalmNext
-----------------------------------------------------------------------------
(* Every row that may differ from its last event is marked, or somebody is *)
(* still to publish it.                                                     *)
Awaits(m) ==
    \/ InQueue(m)
    \/ worker.pc \in {"load", "build", "ask", "save", "publish"} /\ worker.msg = m
    \/ syncer.pc # "idle" /\ syncer.msg = m
    \/ \E h \in Handlers : req[h].pc = "enqueue" /\ m \in req[h].todo

Announced(m) ==
    \/ rows[m].status = "PROCESSING"
    \/ Awaits(m)
    \/ lastEvent[m].row = rows[m]
    \/ lastEvent[m].name = "none" /\ m \in Preloaded

EventsInStep ==
    /\ \A m \in stored : Announced(m)
    /\ worker.pc = "publish"
           => worker.row = rows[worker.msg] \/ rows[worker.msg].status = "PROCESSING"

\* The worker goes on with its message.
LEMMA WorkerMoves ==
    ASSUME TypeOK
    PROVE  /\ LoadMessage => worker'.pc = "build" /\ worker'.msg = worker.msg
                             /\ worker'.row = rows[worker.msg]
           /\ BuildRequest => worker'.pc = "ask" /\ worker'.msg = worker.msg
                              /\ worker'.row = worker.row /\ worker'.asked = user
           /\ \A l \in Levels : ModelAnswers(l)
                 => /\ worker'.pc = "save" /\ worker'.msg = worker.msg
                    /\ worker'.asked = worker.asked /\ worker'.row = Rated(worker.row, worker.asked, l)
           /\ ModelFails
                 => /\ worker'.msg = worker.msg /\ worker'.asked = worker.asked
                    /\ \/ worker'.pc = "ask" /\ worker'.row = worker.row
                       \/ worker'.pc = "save" /\ worker'.row = Unavailable(worker.row)
           /\ SaveVerdict => worker'.pc = "publish" /\ worker'.msg = worker.msg
                             /\ worker'.row = worker.row
           /\ Pop => worker'.pc = "load" /\ worker'.msg = Head(queue)
           /\ WorkerExit => worker'.pc = "exited"
           /\ PublishVerdict => worker'.pc = "idle"
  <1>1. worker \in WorkerState
        BY DEF TypeOK
  <1>2. LoadMessage \/ BuildRequest \/ SaveVerdict \/ WorkerExit
          => /\ LoadMessage => worker'.pc = "build" /\ worker'.msg = worker.msg
                               /\ worker'.row = rows[worker.msg]
             /\ BuildRequest => worker'.pc = "ask" /\ worker'.msg = worker.msg
                                /\ worker'.row = worker.row /\ worker'.asked = user
             /\ SaveVerdict => worker'.pc = "publish" /\ worker'.msg = worker.msg
                               /\ worker'.row = worker.row
             /\ WorkerExit => worker'.pc = "exited"
        BY <1>1 DEF LoadMessage, BuildRequest, SaveVerdict, WorkerExit, WorkerState
  <1>3. ASSUME NEW l \in Levels, ModelAnswers(l)
        PROVE  /\ worker'.pc = "save" /\ worker'.msg = worker.msg
               /\ worker'.asked = worker.asked /\ worker'.row = Rated(worker.row, worker.asked, l)
    <2> DEFINE r == Rated(worker.row, worker.asked, l)
    <2>1. worker' = [worker EXCEPT !.pc = "save", !.row = r]
          BY <1>3 DEF ModelAnswers
    <2> HIDE DEF r
    <2>2. worker'.pc = "save" /\ worker'.msg = worker.msg /\ worker'.asked = worker.asked
          /\ worker'.row = r
          BY <1>1, <2>1 DEF WorkerState
    <2> QED
        BY <2>2 DEF r
  <1>4. ASSUME ModelFails
        PROVE  /\ worker'.msg = worker.msg /\ worker'.asked = worker.asked
               /\ \/ worker'.pc = "ask" /\ worker'.row = worker.row
                  \/ worker'.pc = "save" /\ worker'.row = Unavailable(worker.row)
    <2> DEFINE r == Unavailable(worker.row)
    <2>1. worker.pc = "ask" /\ (worker' = [worker EXCEPT !.attempt = @ + 1]
                                \/ worker' = [worker EXCEPT !.pc = "save", !.row = r])
          BY <1>4 DEF ModelFails
    <2> HIDE DEF r
    <2>2. /\ worker'.msg = worker.msg /\ worker'.asked = worker.asked
          /\ \/ worker'.pc = "ask" /\ worker'.row = worker.row
             \/ worker'.pc = "save" /\ worker'.row = r
          BY <1>1, <2>1 DEF WorkerState
    <2> QED
        BY <2>2 DEF r
  <1>5. Pop => worker'.pc = "load" /\ worker'.msg = Head(queue)
    <2>1. [IdleWorker EXCEPT !.pc = "load", !.msg = Head(queue)].pc = "load"
          /\ [IdleWorker EXCEPT !.pc = "load", !.msg = Head(queue)].msg = Head(queue)
          BY Shapes DEF WorkerState
    <2> QED
        BY <2>1 DEF Pop
  <1>6. PublishVerdict => worker'.pc = "idle"
        BY Shapes DEF PublishVerdict
  <1> QED
      BY <1>2, <1>3, <1>4, <1>5, <1>6

LEMMA AnnouncedStep ==
    ASSUME TypeOK, EventsInStep, CalmNext, NEW m \in Messages, m \in stored'
    PROVE  Announced(m)'
  <1> USE DEF table, counters
  <1>t. /\ worker \in WorkerState /\ syncer \in SyncerState
        /\ rows \in [Messages -> Row] /\ lastEvent \in [Messages -> EventType]
        BY DEF TypeOK
  <1>i. /\ worker.pc \notin {"idle", "exited"} => worker.msg \in stored
        /\ m \in stored => Announced(m)
        BY DEF TypeOK, IdsAreStored, EventsInStep
  <1>a. Announced(m)' <=> \/ rows'[m].status = "PROCESSING"
                          \/ InQueue(m)'
                          \/ /\ worker'.pc \in {"load", "build", "ask", "save", "publish"}
                             /\ worker'.msg = m
                          \/ syncer'.pc # "idle" /\ syncer'.msg = m
                          \/ \E h \in Handlers : req'[h].pc = "enqueue" /\ m \in req'[h].todo
                          \/ lastEvent'[m].row = rows'[m]
                          \/ lastEvent'[m].name = "none" /\ m \in Preloaded
        BY DEF Announced, Awaits
  <1>1. ASSUME NEW n \in Messages, StoreInsert(n) PROVE Announced(m)'
    <2>1. CASE n = m
          BY <1>1, <1>a, <2>1 DEF StoreInsert
    <2>2. CASE n # m
          BY <1>1, <1>a, <1>i, <1>t, <2>2 DEF StoreInsert, Save, Announced, Awaits, InQueue
    <2> QED
        BY <2>1, <2>2
  <1>2. CASE StorePublish
    <2>1. syncer'.pc = "enqueue" /\ syncer'.msg = syncer.msg /\ UNCHANGED <<table, queue, worker, req>>
          BY <1>2, <1>t DEF StorePublish, SyncerState
    <2>2. m # syncer.msg => lastEvent'[m] = lastEvent[m]
          BY <1>2, <1>t DEF StorePublish, Publish
    <2> QED
        BY <1>a, <1>i, <2>1, <2>2 DEF Announced, Awaits, InQueue
  <1>3. CASE StoreEnqueue
    <2>1. PICK k \in Messages : k = syncer.msg
          BY <1>3 DEF StoreEnqueue, TypeOK, IdsAreStored
    <2>2. InQueue(k)' /\ (InQueue(m) => InQueue(m)')
          BY <1>3, <2>1, PushKeepsInQueue DEF StoreEnqueue
    <2>3. UNCHANGED <<table, worker, req, lastEvent>>
          BY <1>3 DEF StoreEnqueue
    <2> QED
        BY <1>a, <1>i, <2>1, <2>2, <2>3 DEF Announced, Awaits
  <1>4. CASE Pop
    <2>1. InQueue(m) => m = Head(queue) \/ InQueue(m)'
          BY <1>4, PopTakesHead DEF Pop
    <2>2. worker'.pc = "load" /\ worker'.msg = Head(queue) /\ worker.pc = "idle"
          /\ UNCHANGED <<table, syncer, req, lastEvent>>
          BY <1>4, WorkerMoves DEF Pop
    <2> QED
        BY <1>a, <1>i, <2>1, <2>2 DEF Announced, Awaits
  <1>5. CASE WorkerExit
        BY <1>5, <1>a, <1>i DEF WorkerExit, Announced, Awaits, InQueue
  <1>6. CASE LoadMessage \/ BuildRequest \/ (\E l \in Levels : ModelAnswers(l)) \/ ModelFails
    <2>1. /\ worker'.msg = worker.msg /\ worker'.pc \in {"build", "ask", "save"}
          /\ worker.pc # "publish" /\ UNCHANGED <<table, queue, syncer, req, lastEvent>>
          BY <1>6, WorkerMoves DEF LoadMessage, BuildRequest, ModelAnswers, ModelFails
    <2> QED
        BY <1>a, <1>i, <2>1 DEF Announced, Awaits, InQueue
  <1>7. CASE SaveVerdict
    <2>1. /\ worker'.msg = worker.msg /\ worker'.pc = "publish"
          /\ UNCHANGED <<stored, queue, syncer, req, lastEvent>>
          /\ m # worker.msg => rows'[m] = rows[m]
          BY <1>7, <1>t, WorkerMoves DEF SaveVerdict, Save
    <2> QED
        BY <1>a, <1>i, <2>1 DEF Announced, Awaits, InQueue
  <1>8. CASE PublishVerdict
    <2>1. /\ worker'.pc = "idle" /\ worker.pc = "publish" /\ UNCHANGED <<table, queue, syncer, req>>
          /\ m # worker.msg => lastEvent'[m] = lastEvent[m]
          /\ m = worker.msg => lastEvent'[m].row = worker.row
          BY <1>8, <1>t, WorkerMoves DEF PublishVerdict, Publish, Event
    <2>2. m = worker.msg => worker.row = rows[m] \/ rows[m].status = "PROCESSING"
          BY <2>1 DEF EventsInStep
    <2> QED
        BY <1>a, <1>i, <2>1, <2>2 DEF Announced, Awaits, InQueue
  <1>9. ASSUME NEW h \in Handlers,
               (\E c \in Criteria \cup {NoCriteria} : UpdateMe(h, c)) \/ SaveUser(h) \/ SelectAll(h)
        PROVE  Announced(m)'
    <2>1. UNCHANGED <<stored, rows, queue, worker, syncer, lastEvent>>
          BY <1>9 DEF UpdateMe, SaveUser, SelectAll
    <2>2. req[h].pc # "enqueue" /\ \A k \in Handlers : k # h => req'[k] = req[k]
          BY <1>9, ProfileSteps
    <2> QED
        BY <1>a, <1>i, <2>1, <2>2 DEF Announced, Awaits, InQueue
  <1>10. ASSUME NEW h \in Handlers, MarkAll(h) PROVE Announced(m)'
    <2>1. m \in stored /\ rows'[m].status = "PROCESSING"
          BY <1>10, <1>t DEF MarkAll, Row
    <2> QED
        BY <1>a, <2>1
  <1>11. ASSUME NEW h \in Handlers, NEW n \in Messages, EnqueueNewest(h, n) PROVE Announced(m)'
    <2>1. InQueue(n)' /\ (InQueue(m) => InQueue(m)')
          BY <1>11, PushKeepsInQueue DEF EnqueueNewest
    <2>2. UNCHANGED <<table, worker, syncer, lastEvent>>
          BY <1>11 DEF EnqueueNewest
    <2>3. /\ \A k \in req[h].todo : k # n => req'[h].pc = "enqueue" /\ k \in req'[h].todo
          /\ \A k \in Handlers : k # h => req'[k] = req[k]
          BY <1>11, ProfileSteps
    <2> QED
        BY <1>a, <1>i, <2>1, <2>2, <2>3 DEF Announced, Awaits
  <1>12. CASE UNCHANGED vars
        BY <1>12, <1>a, <1>i DEF vars, Announced, Awaits, InQueue
  <1> QED
      BY <1>1, <1>2, <1>3, <1>4, <1>5, <1>6, <1>7, <1>8, <1>9, <1>10, <1>11, <1>12 DEF CalmNext

LEMMA EventsStep ==
    ASSUME TypeOK, EventsInStep, CalmNext, TypeOK'
    PROVE  EventsInStep'
  <1> USE DEF table, counters
  <1>1. \A m \in stored' : Announced(m)'
        BY AnnouncedStep DEF TypeOK
  <1>t. /\ rows \in [Messages -> Row] /\ stored \subseteq Messages
        /\ worker.pc = "publish" => worker.msg \in stored /\ worker.msg \in Messages
        /\ worker.pc = "save" => worker.msg \in Messages
        BY DEF TypeOK, IdsAreStored
  <1>2. ASSUME worker'.pc = "publish"
        PROVE  worker'.row = rows'[worker'.msg] \/ rows'[worker'.msg].status = "PROCESSING"
    <2>1. CASE SaveVerdict
      <3>1. worker'.msg = worker.msg /\ worker'.row = worker.row
            /\ rows' = [rows EXCEPT ![worker.msg] = worker.row] /\ worker.pc = "save"
            BY <2>1, WorkerMoves DEF SaveVerdict, Save
      <3> QED
          BY <1>t, <3>1
    <2>2. CASE Pop \/ WorkerExit \/ LoadMessage \/ BuildRequest \/ ModelFails \/ PublishVerdict
               \/ \E l \in Levels : ModelAnswers(l)
      <3>1. worker'.pc # "publish"
            BY <2>2, WorkerMoves
      <3> QED
          BY <1>2, <3>1
    <2>3. ASSUME NEW n \in Messages, StoreInsert(n) PROVE
             worker'.row = rows'[worker'.msg] \/ rows'[worker'.msg].status = "PROCESSING"
      <3>1. n # worker.msg /\ worker' = worker
            BY <1>2, <1>t, <2>3 DEF StoreInsert
      <3> QED
          BY <1>2, <1>t, <2>3, <3>1 DEF StoreInsert, Save, EventsInStep
    <2>4. ASSUME NEW h \in Handlers, MarkAll(h)
          PROVE  rows'[worker'.msg].status = "PROCESSING"
      <3>1. worker' = worker /\ worker.msg \in stored
            BY <1>2, <1>t, <2>4 DEF MarkAll
      <3> QED
          BY <1>t, <2>4, <3>1 DEF MarkAll, Row
    <2>5. CASE UNCHANGED <<rows, worker>>
          BY <1>2, <2>5 DEF EventsInStep
    <2>6. ASSUME NEW h \in Handlers,
                 \/ (\E c \in Criteria \cup {NoCriteria} : UpdateMe(h, c)) \/ SaveUser(h)
                 \/ SelectAll(h) \/ \E m \in Messages : EnqueueNewest(h, m)
          PROVE  UNCHANGED <<rows, worker>>
          BY <2>6 DEF UpdateMe, SaveUser, SelectAll, EnqueueNewest
    <2>7. StorePublish \/ StoreEnqueue \/ UNCHANGED vars => UNCHANGED <<rows, worker>>
          BY DEF StorePublish, StoreEnqueue, vars
    <2> QED
        BY <2>1, <2>2, <2>3, <2>4, <2>5, <2>6, <2>7 DEF CalmNext
  <1> QED
      BY <1>1, <1>2 DEF EventsInStep

(* The last event about a message is the truth, for any mailbox and any    *)
(* number of requests at once that change the criteria, as long as no      *)
(* statement fails and the process is not stopped: the hypotheses of the   *)
(* run, and each is needed, as TLC shows when it is left out.              *)
LEMMA EventsAtFirst == Calm /\ Init => OnlyProfile /\ EventsInStep
  <1> SUFFICES ASSUME Init PROVE OnlyProfile /\ EventsInStep
      OBVIOUS
  <1>1. OnlyProfile
        BY DEF Init, OnlyProfile, IdleReq
  <1>2. worker.pc # "publish"
        BY Shapes DEF Init
  <1>3. \A m \in stored : lastEvent[m].name = "none" /\ m \in Preloaded
        BY ConstantsOK DEF Init, NoEvent, ConstantsOK
  <1> QED
      BY <1>1, <1>2, <1>3 DEF EventsInStep, Announced

LEMMA EventsAreTrue ==
    TypeOK /\ EventsInStep => LastEventIsCurrent
  <1> SUFFICES ASSUME TypeOK, EventsInStep, Quiet, NEW m \in stored
               PROVE  \/ lastEvent[m].row = rows[m]
                      \/ lastEvent[m].name = "none" /\ m \in Preloaded
                      \/ Stranded(m)
      BY DEF LastEventIsCurrent
  <1>1. ~InQueue(m)
        BY DEF Quiet, InQueue
  <1>2. ~Awaits(m) /\ ~Covered(m)
        BY <1>1 DEF Quiet, Awaits, Covered
  <1> QED
      BY <1>2 DEF EventsInStep, Announced, Stranded

THEOREM LastEventIsTrue == Calm /\ Spec => []LastEventIsCurrent
  <1> DEFINE IInv == Calm /\ TypeOK /\ OnlyProfile /\ EventsInStep
  <1>1. Calm /\ Init => IInv
        BY InitTypeOK, EventsAtFirst
  <1>2. IInv /\ [Next]_vars => IInv'
    <2> SUFFICES ASSUME IInv, [Next]_vars PROVE IInv'
        OBVIOUS
    <2>1. TypeOK' /\ OnlyProfile'
          BY TypeStep, OnlyProfileStays
    <2>2. EventsInStep'
          BY <2>1, CalmSteps, EventsStep
    <2>3. Calm'
          BY DEF Calm
    <2> QED
        BY <2>1, <2>2, <2>3
  <1>3. IInv => LastEventIsCurrent
        BY EventsAreTrue
  <1> QED
      BY <1>1, <1>2, <1>3, PTL DEF Spec
-----------------------------------------------------------------------------
(* A verdict of older criteria is about to be replaced.  The owner of the  *)
(* inbox changes the profile in one request at a time: with two, the one   *)
(* that read the profile first may write back the criteria of then.        *)
OneRequest == \A g, h \in Handlers : g = h

\* A re-analysis, or the synchroniser, will hand this message to the worker.
Coming(m) ==
    \/ InQueue(m)
    \/ \E h \in Handlers : \/ req[h].pc = "select"
                           \/ req[h].pc \in {"mark", "enqueue"} /\ m \in req[h].todo

Outdated(r) == r.analyzed /\ ~r.failed /\ r.basis # user

BeingReplaced(m) ==
    \/ Coming(m)
    \/ worker.pc \in {"load", "build"} /\ worker.msg = m
    \/ worker.pc \in {"ask", "save"} /\ worker.msg = m /\ worker.asked = user

WorkerKnows ==
    /\ worker.pc \in {"ask", "save"} /\ worker.asked # user => Coming(worker.msg)
    /\ worker.pc = "save" /\ ~worker.row.failed => worker.row.basis = worker.asked
    /\ worker.pc \in {"build", "ask"} => /\ worker.row.analyzed = rows[worker.msg].analyzed
                                         /\ worker.row.level = rows[worker.msg].level
                                         /\ worker.row.basis = rows[worker.msg].basis
    /\ FailureKeepsVerdict

ProfileIsFresh == \A h \in Handlers : req[h].pc = "saveUser" => req[h].seen = user

VerdictsInStep ==
    /\ \A m \in stored : Outdated(rows[m]) => BeingReplaced(m)
    /\ WorkerKnows
    /\ ProfileIsFresh

\* What is coming stays so until the worker takes it.
LEMMA ComingStays ==
    ASSUME TypeOK, CalmNext, NEW m \in stored, Coming(m)
    PROVE  Coming(m)' \/ (Pop /\ m = Head(queue))
  <1>a. Coming(m)' <=> \/ InQueue(m)'
                       \/ \E h \in Handlers :
                             \/ req'[h].pc = "select"
                             \/ req'[h].pc \in {"mark", "enqueue"} /\ m \in req'[h].todo
        BY DEF Coming
  <1>m. m \in Messages
        BY DEF TypeOK
  <1>1. CASE UNCHANGED <<queue, req>>
        BY <1>1, <1>a DEF Coming, InQueue
  <1>2. CASE StoreEnqueue
    <2>1. InQueue(m) => InQueue(m)'
          BY <1>2, <1>m, PushKeepsInQueue DEF StoreEnqueue, TypeOK, IdsAreStored
    <2> QED
        BY <1>2, <1>a, <2>1 DEF StoreEnqueue, Coming
  <1>3. CASE Pop
    <2>1. InQueue(m) => m = Head(queue) \/ InQueue(m)'
          BY <1>3, <1>m, PopTakesHead DEF Pop
    <2> QED
        BY <1>3, <1>a, <2>1 DEF Pop, Coming
  <1>4. ASSUME NEW h \in Handlers, SelectAll(h) PROVE Coming(m)'
    <2>1. req'[h].pc = "mark" /\ m \in req'[h].todo
          BY <1>4, ProfileSteps
    <2> QED
        BY <1>a, <2>1
  <1>5. ASSUME NEW h \in Handlers,
               (\E c \in Criteria \cup {NoCriteria} : UpdateMe(h, c)) \/ SaveUser(h) \/ MarkAll(h)
        PROVE  Coming(m)'
    <2>1. UNCHANGED queue
          BY <1>5 DEF UpdateMe, SaveUser, MarkAll
    <2>2. \A k \in Handlers : k # h => req'[k] = req[k]
          BY <1>5, ProfileSteps
    <2>3. \/ req[h].pc \in {"idle", "saveUser"}
          \/ req[h].pc = "mark" /\ req'[h].pc = "enqueue" /\ req'[h].todo = req[h].todo
          BY <1>5, ProfileSteps
    <2> QED
        BY <1>a, <2>1, <2>2, <2>3 DEF Coming, InQueue
  <1>6. ASSUME NEW h \in Handlers, NEW n \in Messages, EnqueueNewest(h, n) PROVE Coming(m)'
    <2>1. InQueue(n)' /\ (InQueue(m) => InQueue(m)')
          BY <1>6, <1>m, PushKeepsInQueue DEF EnqueueNewest
    <2>2. /\ req[h].pc = "enqueue"
          /\ \A k \in req[h].todo : k # n => req'[h].pc = "enqueue" /\ k \in req'[h].todo
          /\ \A k \in Handlers : k # h => req'[k] = req[k]
          BY <1>6, ProfileSteps
    <2> QED
        BY <1>a, <2>1, <2>2 DEF Coming
  <1>7. ASSUME \/ \E n \in Messages : StoreInsert(n)
               \/ StorePublish \/ WorkerExit \/ LoadMessage \/ BuildRequest
               \/ (\E l \in Levels : ModelAnswers(l)) \/ ModelFails \/ SaveVerdict \/ PublishVerdict
               \/ UNCHANGED vars
        PROVE  UNCHANGED <<queue, req>>
        BY <1>7 DEF StoreInsert, StorePublish, WorkerExit, LoadMessage, BuildRequest, ModelAnswers,
               ModelFails, SaveVerdict, PublishVerdict, vars
  <1> QED
      BY <1>1, <1>2, <1>3, <1>4, <1>5, <1>6, <1>7 DEF CalmNext

\* The profile a request read is still the profile when it writes it.
LEMMA ProfileStays ==
    ASSUME TypeOK, OneRequest, ProfileIsFresh, CalmNext
    PROVE  ProfileIsFresh'
  <1>1. CASE UNCHANGED <<user, req>>
        BY <1>1 DEF ProfileIsFresh
  <1>2. ASSUME NEW h \in Handlers, NEW c \in Criteria \cup {NoCriteria}, UpdateMe(h, c)
        PROVE  ProfileIsFresh'
    <2>1. user' = user
          BY <1>2 DEF UpdateMe, table
    <2>2. req'[h].seen = user /\ \A k \in Handlers : k = h
          BY <1>2, ProfileSteps DEF OneRequest
    <2> QED
        BY <2>1, <2>2 DEF ProfileIsFresh
  <1>3. ASSUME NEW h \in Handlers, \/ SaveUser(h) \/ SelectAll(h) \/ MarkAll(h)
                                   \/ \E m \in Messages : EnqueueNewest(h, m)
        PROVE  ProfileIsFresh'
    <2>1. req'[h].pc # "saveUser"
          BY <1>3, ProfileSteps
    <2>2. \A k \in Handlers : k = h
          BY DEF OneRequest
    <2> QED
        BY <2>1, <2>2 DEF ProfileIsFresh
  <1>4. ASSUME \/ \E n \in Messages : StoreInsert(n)
               \/ StorePublish \/ StoreEnqueue \/ Pop \/ WorkerExit \/ LoadMessage \/ BuildRequest
               \/ (\E l \in Levels : ModelAnswers(l)) \/ ModelFails \/ SaveVerdict \/ PublishVerdict
               \/ UNCHANGED vars
        PROVE  UNCHANGED <<user, req>>
        BY <1>4 DEF StoreInsert, StorePublish, StoreEnqueue, Pop, WorkerExit, LoadMessage, BuildRequest,
               ModelAnswers, ModelFails, SaveVerdict, PublishVerdict, vars, table
  <1> QED
      BY <1>1, <1>2, <1>3, <1>4 DEF CalmNext

\* What stays with whoever holds a message, when the rows and the criteria do.
LEMMA ReplacedStays ==
    ASSUME TypeOK, VerdictsInStep, CalmNext, UNCHANGED <<stored, rows, user, worker>>
    PROVE  (\A m \in stored' : Outdated(rows[m])' => BeingReplaced(m)') /\ WorkerKnows'
  <1>1. ~Pop
        BY Shapes DEF Pop, TypeOK, WorkerState
  <1>2. \A m \in stored : Coming(m) => Coming(m)'
        BY <1>1, ComingStays
  <1>3. worker.pc \in {"ask", "save"} => worker.msg \in stored
        BY DEF TypeOK, IdsAreStored
  <1>4. \A m \in stored' : Outdated(rows[m])' => BeingReplaced(m)'
        BY <1>2 DEF VerdictsInStep, Outdated, BeingReplaced
  <1>5. WorkerKnows'
        BY <1>2, <1>3 DEF VerdictsInStep, WorkerKnows, FailureKeepsVerdict
  <1> QED
      BY <1>4, <1>5

LEMMA VerdictsStep ==
    ASSUME TypeOK, OnlyProfile, OneRequest, VerdictsInStep, CalmNext
    PROVE  VerdictsInStep'
  <1> USE DEF table, counters
  <1>p. ProfileIsFresh'
        BY ProfileStays DEF VerdictsInStep
  <1>t. /\ worker \in WorkerState /\ rows \in [Messages -> Row] /\ stored \subseteq Messages
        /\ worker.pc \notin {"idle", "exited"} => worker.msg \in stored /\ worker.msg \in Messages
        BY DEF TypeOK, IdsAreStored
  <1>i. /\ \A m \in stored : Outdated(rows[m]) => BeingReplaced(m)
        /\ WorkerKnows
        BY DEF VerdictsInStep
  <1>r. \A m : BeingReplaced(m)' <=>
               \/ Coming(m)'
               \/ worker'.pc \in {"load", "build"} /\ worker'.msg = m
               \/ worker'.pc \in {"ask", "save"} /\ worker'.msg = m /\ worker'.asked = user'
        BY DEF BeingReplaced
  <1>c. ~Pop => \A m \in stored : Coming(m) => Coming(m)'
        BY ComingStays
  <1> DEFINE Replaced == \A m \in stored' : Outdated(rows[m])' => BeingReplaced(m)'
  <1> SUFFICES Replaced /\ WorkerKnows'
      BY <1>p DEF VerdictsInStep
  <1> HIDE DEF Replaced
  <1>1. ASSUME NEW n \in Messages, StoreInsert(n) PROVE Replaced /\ WorkerKnows'
    <2>1. /\ n \notin stored /\ stored' = stored \cup {n} /\ rows'[n] = NewRow
          /\ \A m \in stored : rows'[m] = rows[m]
          /\ UNCHANGED <<user, worker>>
          BY <1>1, <1>t DEF StoreInsert, Save
    <2>2. ~Pop
          BY <2>1, <1>1 DEF StoreInsert, Pop
    <2>3. ~Outdated(rows[n])'
          BY <2>1 DEF Outdated, NewRow
    <2>4. Replaced
          BY <1>c, <1>i, <1>r, <2>1, <2>2, <2>3 DEF Replaced, Outdated, BeingReplaced
    <2>5. WorkerKnows'
          BY <1>c, <1>i, <1>t, <2>1, <2>2 DEF WorkerKnows, FailureKeepsVerdict
    <2> QED
        BY <2>4, <2>5
  <1>2. CASE Pop
    <2>1. /\ worker'.pc = "load" /\ worker'.msg = Head(queue) /\ worker.pc = "idle"
          /\ UNCHANGED <<stored, rows, user>>
          BY <1>2, WorkerMoves DEF Pop
    <2>2. Replaced
          BY <1>i, <1>r, <2>1, ComingStays DEF Replaced, Outdated, BeingReplaced
    <2> QED
        BY <2>1, <2>2 DEF WorkerKnows, FailureKeepsVerdict
  <1>3. CASE WorkerExit
    <2>1. /\ worker'.pc = "exited" /\ worker.pc = "idle"
          /\ UNCHANGED <<stored, rows, user>> /\ ~Pop
          BY <1>3, WorkerMoves DEF WorkerExit, Pop
    <2>2. Replaced
          BY <1>c, <1>i, <1>r, <2>1 DEF Replaced, Outdated, BeingReplaced
    <2> QED
        BY <2>1, <2>2 DEF WorkerKnows, FailureKeepsVerdict
  <1>4. CASE LoadMessage
    <2>1. /\ worker'.pc = "build" /\ worker'.msg = worker.msg /\ worker.pc = "load"
          /\ worker'.row = rows[worker.msg] /\ UNCHANGED <<stored, rows, user>> /\ ~Pop
          BY <1>4, WorkerMoves DEF LoadMessage, Pop
    <2>2. Replaced
          BY <1>c, <1>i, <1>r, <2>1 DEF Replaced, Outdated, BeingReplaced
    <2> QED
        BY <2>1, <2>2 DEF WorkerKnows, FailureKeepsVerdict
  <1>5. CASE BuildRequest
    <2>1. /\ worker'.pc = "ask" /\ worker'.msg = worker.msg /\ worker.pc = "build"
          /\ worker'.row = worker.row /\ worker'.asked = user
          /\ UNCHANGED <<stored, rows, user>> /\ ~Pop
          BY <1>5, WorkerMoves DEF BuildRequest, Pop
    <2>2. Replaced
          BY <1>c, <1>i, <1>r, <2>1 DEF Replaced, Outdated, BeingReplaced
    <2> QED
        BY <1>i, <2>1, <2>2 DEF WorkerKnows, FailureKeepsVerdict
  <1>6. ASSUME NEW l \in Levels, ModelAnswers(l) PROVE Replaced /\ WorkerKnows'
    <2>1. /\ worker'.pc = "save" /\ worker'.msg = worker.msg /\ worker.pc = "ask"
          /\ worker'.asked = worker.asked /\ worker'.row = Rated(worker.row, worker.asked, l)
          /\ UNCHANGED <<stored, rows, user>> /\ ~Pop
          BY <1>6, WorkerMoves DEF ModelAnswers, Pop
    <2>2. Replaced
          BY <1>c, <1>i, <1>r, <2>1 DEF Replaced, Outdated, BeingReplaced
    <2>3. worker'.row.basis = worker'.asked /\ (worker'.row.failed # TRUE)
          BY <1>t, <2>1 DEF Rated, WorkerState, Row
    <2>4. worker'.asked # user' => Coming(worker.msg)'
          BY <1>c, <1>i, <1>t, <2>1 DEF WorkerKnows
    <2> QED
        BY <2>1, <2>2, <2>3, <2>4 DEF WorkerKnows, FailureKeepsVerdict
  <1>7. CASE ModelFails
    <2>1. /\ worker'.msg = worker.msg /\ worker'.asked = worker.asked /\ worker.pc = "ask"
          /\ \/ worker'.pc = "ask" /\ worker'.row = worker.row
             \/ worker'.pc = "save" /\ worker'.row = Unavailable(worker.row)
          /\ UNCHANGED <<stored, rows, user>> /\ ~Pop
          BY <1>7, WorkerMoves DEF ModelFails, Pop
    <2>2. Replaced
          BY <1>c, <1>i, <1>r, <2>1 DEF Replaced, Outdated, BeingReplaced
    <2>3. worker'.asked # user' => Coming(worker.msg)'
          BY <1>c, <1>i, <1>t, <2>1 DEF WorkerKnows
    <2>4. CASE worker'.pc = "ask"
          BY <1>i, <2>1, <2>2, <2>3, <2>4 DEF WorkerKnows, FailureKeepsVerdict
    <2>5. CASE worker'.pc = "save"
      <3>1. worker.row \in Row
            BY <1>t DEF WorkerState
      <3>2. /\ worker'.row.failed = TRUE
            /\ worker.row.analyzed => worker'.row.level = worker.row.level
            /\ worker'.row.basis = worker.row.basis
            BY <2>1, <2>5, <3>1 DEF Unavailable, Row
      <3>3. FailureKeepsVerdict'
            BY <1>i, <2>1, <3>2 DEF WorkerKnows, FailureKeepsVerdict
      <3> QED
          BY <2>1, <2>2, <2>3, <2>5, <3>2, <3>3 DEF WorkerKnows
    <2> QED
        BY <2>1, <2>4, <2>5
  <1>8. CASE SaveVerdict
    <2>1. /\ worker'.pc = "publish" /\ worker.pc = "save"
          /\ rows' = [rows EXCEPT ![worker.msg] = worker.row]
          /\ UNCHANGED <<stored, user>> /\ ~Pop
          BY <1>8, WorkerMoves DEF SaveVerdict, Pop, Save
    <2>2. ASSUME NEW m \in stored, Outdated(rows[m])' PROVE Coming(m)'
      <3>1. CASE m = worker.msg
        <4>1. rows'[m] = worker.row
              BY <1>t, <2>1, <3>1
        <4>2. ~worker.row.failed /\ worker.row.basis # user
              BY <2>1, <2>2, <4>1 DEF Outdated
        <4> QED
            BY <1>c, <1>i, <2>1, <3>1, <4>2 DEF WorkerKnows
      <3>2. CASE m # worker.msg
        <4>1. rows'[m] = rows[m]
              BY <1>t, <2>1, <3>2
        <4>2. Outdated(rows[m])
              BY <2>1, <2>2, <4>1 DEF Outdated
        <4> QED
            BY <1>c, <1>i, <2>1, <3>2, <4>2 DEF BeingReplaced
      <3> QED
          BY <3>1, <3>2
    <2> QED
        BY <1>r, <2>1, <2>2 DEF Replaced, WorkerKnows, FailureKeepsVerdict
  <1>9. CASE PublishVerdict
    <2>1. /\ worker'.pc = "idle" /\ worker.pc = "publish"
          /\ UNCHANGED <<stored, rows, user>> /\ ~Pop
          BY <1>9, WorkerMoves DEF PublishVerdict, Pop
    <2>2. Replaced
          BY <1>c, <1>i, <1>r, <2>1 DEF Replaced, Outdated, BeingReplaced
    <2> QED
        BY <2>1, <2>2 DEF WorkerKnows, FailureKeepsVerdict
  <1>10. ASSUME NEW h \in Handlers, SaveUser(h) PROVE Replaced /\ WorkerKnows'
    <2>1. UNCHANGED <<stored, rows, worker>>
          BY <1>10 DEF SaveUser
    <2>2. CASE req'[h].pc = "select"
      <3>1. \A m : Coming(m)'
            BY <2>2 DEF Coming
      <3> QED
          BY <1>i, <1>r, <2>1, <3>1 DEF Replaced, WorkerKnows, FailureKeepsVerdict
    <2>3. CASE req'[h].pc = "idle"
      <3>1. user' = user
            BY <1>10, <2>3, ProfileSteps DEF VerdictsInStep, ProfileIsFresh
      <3> QED
          BY <2>1, <3>1, ReplacedStays DEF Replaced
    <2> QED
        BY <1>10, <2>2, <2>3, ProfileSteps
  <1>11. ASSUME NEW h \in Handlers, MarkAll(h) PROVE Replaced /\ WorkerKnows'
    <2>1. UNCHANGED <<stored, user, worker>>
          BY <1>11 DEF MarkAll
    <2>2. \A m \in stored : /\ rows'[m].analyzed = rows[m].analyzed
                            /\ rows'[m].failed = rows[m].failed
                            /\ rows'[m].basis = rows[m].basis
                            /\ rows'[m].level = rows[m].level
          BY <1>11, <1>t DEF MarkAll, Row
    <2>3. ~Pop
          BY <1>11, <2>1, Shapes DEF Pop, TypeOK, WorkerState
    <2>4. Replaced
          BY <1>c, <1>i, <1>r, <2>1, <2>2, <2>3 DEF Replaced, Outdated, BeingReplaced
    <2>5. WorkerKnows'
          BY <1>c, <1>i, <1>t, <2>1, <2>2, <2>3 DEF WorkerKnows, FailureKeepsVerdict
    <2> QED
        BY <2>4, <2>5
  <1>12. ASSUME NEW h \in Handlers, \/ \E c \in Criteria \cup {NoCriteria} : UpdateMe(h, c)
                                    \/ SelectAll(h)
                                    \/ \E m \in Messages : EnqueueNewest(h, m)
         PROVE  UNCHANGED <<stored, rows, user, worker>>
         BY <1>12 DEF UpdateMe, SelectAll, EnqueueNewest
  <1>13. StorePublish \/ StoreEnqueue \/ UNCHANGED vars => UNCHANGED <<stored, rows, user, worker>>
         BY DEF StorePublish, StoreEnqueue, vars
  <1> QED
      BY <1>1, <1>2, <1>3, <1>4, <1>5, <1>6, <1>7, <1>8, <1>9, <1>10, <1>11, <1>12, <1>13,
         ReplacedStays DEF CalmNext, Replaced

(* A change of the criteria costs no message its verdict, for any mailbox, *)
(* however often the model fails and whatever mail arrives meanwhile: one  *)
(* request at a time, and nothing fails or stops, as in the run.  TLC      *)
(* finds a verdict that is lost when any of the hypotheses is left out.    *)
THEOREM ReanalysisIsSound == Calm /\ OneRequest /\ Spec => []ReanalysisIsSafe
  <1> DEFINE IInv == Calm /\ OneRequest /\ TypeOK /\ OnlyProfile /\ VerdictsInStep
  <1>1. Calm /\ OneRequest /\ Init => IInv
    <2> SUFFICES ASSUME Calm, OneRequest, Init PROVE IInv
        OBVIOUS
    <2>1. TypeOK /\ OnlyProfile
          BY InitTypeOK, EventsAtFirst
    <2>2. \A m \in stored : rows[m] = RatedRow(user, Default)
          BY ConstantsOK DEF Init, ConstantsOK
    <2>3. RatedRow(user, Default).basis = user
          BY DEF RatedRow, NewRow
    <2>4. worker.pc = "idle" /\ \A h \in Handlers : req[h].pc = "idle"
          BY Shapes DEF Init, IdleReq
    <2> QED
        BY <2>1, <2>2, <2>3, <2>4
           DEF VerdictsInStep, Outdated, WorkerKnows, FailureKeepsVerdict, ProfileIsFresh
  <1>2. IInv /\ [Next]_vars => IInv'
    <2> SUFFICES ASSUME IInv, [Next]_vars PROVE IInv'
        OBVIOUS
    <2>1. TypeOK' /\ OnlyProfile'
          BY TypeStep, OnlyProfileStays
    <2>2. VerdictsInStep'
          BY CalmSteps, VerdictsStep
    <2>3. Calm' /\ OneRequest'
          BY DEF Calm, OneRequest
    <2> QED
        BY <2>1, <2>2, <2>3
  <1>3. IInv => ReanalysisIsSafe
    <2> SUFFICES ASSUME IInv PROVE ReanalysisIsSafe
        OBVIOUS
    <2>1. ASSUME NEW m \in stored, BeingReplaced(m)
          PROVE  \/ Reanalysing \/ WillReadCriteria(m)
                 \/ worker.pc \in {"ask", "save"} /\ worker.msg = m /\ worker.asked = user
          BY <2>1 DEF BeingReplaced, Coming, Reanalysing, WillReadCriteria
    <2> QED
        BY <2>1 DEF ReanalysisIsSafe, StaleVerdictIsScheduled, VerdictsInStep, Outdated, WorkerKnows
  <1> QED
      BY <1>1, <1>2, <1>3, PTL DEF Spec
=============================================================================
