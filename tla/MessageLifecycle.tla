-------------------------- MODULE MessageLifecycle --------------------------
(***************************************************************************)
(* The life of a message in Personal Inbox: it is stored by the mail       *)
(* synchroniser (services/ingest), rated by the analysis worker            *)
(* (services/analysis), marked read and re-graded by HTTP handlers         *)
(* (routers/messages.go), and rated again when the owner changes the       *)
(* criteria (routers/me.go).  All of them run in one process and share the *)
(* rows of the table "message", the row of the user, and the worker's      *)
(* in-memory queue.  Every SQL statement is one atomic step; what a        *)
(* goroutine read before a step may be stale by the time it writes.        *)
(*                                                                         *)
(* A message is abstracted to the columns SaveMessage writes; category,    *)
(* deadline, needs_* and summary always change together with "level" and   *)
(* are folded into it.                                                     *)
(***************************************************************************)
EXTENDS Naturals, Sequences, SequencesExt

CONSTANTS
    Messages,      \* ids a mailbox can hold; a greater id was received later
    Preloaded,     \* those rated before the process starts
    Handlers,      \* HTTP requests that can be in progress at once
    Ops,           \* which requests arrive: "read", "level", "profile"
    Criteria,      \* texts the criteria can hold
    Levels,        \* urgency levels
    MaxAttempts,   \* len(Worker.RetryDelays)
    MaxRequests,   \* bound: requests that arrive
    MaxFaults,     \* bound: SQL statements that fail
    MaxCrashes     \* bound: restarts of the process

NoMsg == 0
NoLevel == ""
NoCriteria == "null"
Default == "NORMAL"

ASSUME ConstantsOK ==
    /\ Messages \subseteq Nat \ {NoMsg}
    /\ Preloaded \subseteq Messages
    /\ Default \in Levels
    /\ NoLevel \notin Levels
    /\ NoCriteria \notin Criteria
    /\ MaxAttempts \in Nat \ {0}
    /\ {MaxRequests, MaxFaults, MaxCrashes} \subseteq Nat

VARIABLES
    stored,        \* ids in the table "message"
    rows,          \* the mutable columns of each row
    user,          \* user_account.criteria
    overrideLog,   \* levels logged for each message in override_log, the latest last
    queue,         \* Worker.queue.items
    closed,        \* Worker.queue.closed
    worker,        \* local state of Worker.run
    syncer,        \* local state of Ingestor.store, run by the scheduler
    req,           \* local state of each request handler
    lastEvent,     \* the last event the bus carried about each message
    requests, faults, crashes

table == <<stored, rows, user, overrideLog>>
counters == <<requests, faults, crashes>>
vars == <<table, queue, closed, worker, syncer, req, lastEvent, counters>>
-----------------------------------------------------------------------------
(* "basis" is a history column: the criteria the stored level was asked    *)
(* for under.  It is written wherever the level is and read by no action.  *)
Row == [status: {"PROCESSING", "DONE"}, level: Levels \cup {NoLevel},
        basis: Criteria \cup {NoCriteria}, override: Levels \cup {NoLevel},
        read: BOOLEAN, analyzed: BOOLEAN, failed: BOOLEAN]

NewRow == [status |-> "PROCESSING", level |-> NoLevel, basis |-> NoCriteria,
           override |-> NoLevel, read |-> FALSE, analyzed |-> FALSE,
           failed |-> FALSE]

RatedRow(c, l) == [NewRow EXCEPT !.status = "DONE", !.level = l, !.basis = c,
                                 !.analyzed = TRUE]

EffectiveLevel(r) == IF r.override # NoLevel THEN r.override
                     ELSE IF r.level # NoLevel THEN r.level ELSE Default

IdleWorker == [pc |-> "idle", msg |-> NoMsg, row |-> NewRow,
               asked |-> NoCriteria, attempt |-> 0]
IdleSyncer == [pc |-> "idle", msg |-> NoMsg]
IdleReq == [pc |-> "idle", msg |-> NoMsg, row |-> NewRow,
            want |-> NoCriteria, seen |-> NoCriteria, todo |-> {}]

NoEvent == [name |-> "none", row |-> NewRow]
Event(name, r) == [name |-> name, row |-> r]

Init ==
    /\ stored = Preloaded
    /\ user \in Criteria
    /\ rows = [m \in Messages |-> IF m \in Preloaded
                                  THEN RatedRow(user, Default) ELSE NewRow]
    /\ overrideLog = [m \in Messages |-> <<>>]
    /\ queue = <<>>
    /\ closed = FALSE
    /\ worker = IdleWorker
    /\ syncer = IdleSyncer
    /\ req = [h \in Handlers |-> IdleReq]
    /\ lastEvent = [m \in Messages |-> NoEvent]
    /\ requests = 0
    /\ faults = 0
    /\ crashes = 0
-----------------------------------------------------------------------------
(* A statement fails: the caller gives up and nothing is written. *)
Fault == faults < MaxFaults /\ faults' = faults + 1

Save(m, r) == rows' = [rows EXCEPT ![m] = r]
Push(m) == queue' = Append(queue, m)
Publish(name, m, r) ==
    lastEvent' = [lastEvent EXCEPT ![m] = Event(name, r)]
-----------------------------------------------------------------------------
(* Ingestor.store, called by the one goroutine of the scheduler. *)

\* The duplicate check and the insert: a stored external id is skipped.
StoreInsert(m) ==
    /\ syncer.pc = "idle"
    /\ m \notin stored
    /\ stored' = stored \cup {m}
    /\ Save(m, NewRow)
    /\ syncer' = [pc |-> "publish", msg |-> m]
    /\ UNCHANGED <<user, overrideLog, queue, closed, worker, req, lastEvent, counters>>

StorePublish ==
    /\ syncer.pc = "publish"
    /\ Publish("message.created", syncer.msg, NewRow)
    /\ syncer' = [syncer EXCEPT !.pc = "enqueue"]
    /\ UNCHANGED <<table, queue, closed, worker, req, counters>>

StoreEnqueue ==
    /\ syncer.pc = "enqueue"
    /\ Push(syncer.msg)
    /\ syncer' = IdleSyncer
    /\ UNCHANGED <<table, closed, worker, req, lastEvent, counters>>
-----------------------------------------------------------------------------
(* Worker.run and ProcessMessage. *)

Pop ==
    /\ worker.pc = "idle"
    /\ queue # <<>>
    /\ worker' = [IdleWorker EXCEPT !.pc = "load", !.msg = Head(queue)]
    /\ queue' = Tail(queue)
    /\ UNCHANGED <<table, closed, syncer, req, lastEvent, counters>>

\* Mutant: a closed queue ends the worker while items remain.
ExitsWhenClosed ==
    /\ worker.pc = "idle"
    /\ closed
    /\ worker' = [worker EXCEPT !.pc = "exited"]
    /\ UNCHANGED <<table, queue, closed, syncer, req, lastEvent, counters>>

\* pop returns false only when the queue is both closed and empty.
WorkerExit ==
    /\ worker.pc = "idle"
    /\ closed
    /\ queue = <<>>
    /\ worker' = [worker EXCEPT !.pc = "exited"]
    /\ UNCHANGED <<table, queue, closed, syncer, req, lastEvent, counters>>

LoadMessage ==
    /\ worker.pc = "load"
    /\ worker' = [worker EXCEPT !.pc = "build", !.row = rows[worker.msg]]
    /\ UNCHANGED <<table, queue, closed, syncer, req, lastEvent, counters>>

BuildRequest ==
    /\ worker.pc = "build"
    /\ worker' = [worker EXCEPT !.pc = "ask", !.asked = user, !.attempt = 1]
    /\ UNCHANGED <<table, queue, closed, syncer, req, lastEvent, counters>>

Rated(r, c, l) == [r EXCEPT !.status = "DONE", !.level = l, !.basis = c,
                            !.analyzed = TRUE, !.failed = FALSE]

\* Mutants: the failure always resets the level; it never sets one.
ResetsVerdict(r) ==
    [r EXCEPT !.status = "DONE", !.failed = TRUE, !.analyzed = TRUE,
              !.level = Default]
LeavesLevelEmpty(r) ==
    [r EXCEPT !.status = "DONE", !.failed = TRUE, !.analyzed = TRUE]

\* An earlier verdict survives the failure; a first one becomes NORMAL.
Unavailable(r) ==
    [r EXCEPT !.status = "DONE", !.failed = TRUE, !.analyzed = TRUE,
              !.level = IF r.analyzed THEN @ ELSE Default]

ModelAnswers(l) ==
    /\ worker.pc = "ask"
    /\ worker' = [worker EXCEPT !.pc = "save",
                                !.row = Rated(worker.row, worker.asked, l)]
    /\ UNCHANGED <<table, queue, closed, syncer, req, lastEvent, counters>>

\* Mutants: one attempt too many; the last failure gives the message up.
OneAttemptMore ==
    /\ worker.pc = "ask"
    /\ worker' = IF worker.attempt <= MaxAttempts
                 THEN [worker EXCEPT !.attempt = @ + 1]
                 ELSE [worker EXCEPT !.pc = "save", !.row = Unavailable(@)]
    /\ UNCHANGED <<table, queue, closed, syncer, req, lastEvent, counters>>
GivesUp ==
    /\ worker.pc = "ask"
    /\ worker' = IF worker.attempt < MaxAttempts
                 THEN [worker EXCEPT !.attempt = @ + 1]
                 ELSE IdleWorker
    /\ UNCHANGED <<table, queue, closed, syncer, req, lastEvent, counters>>

ModelFails ==
    /\ worker.pc = "ask"
    /\ worker' = IF worker.attempt < MaxAttempts
                 THEN [worker EXCEPT !.attempt = @ + 1]
                 ELSE [worker EXCEPT !.pc = "save", !.row = Unavailable(@)]
    /\ UNCHANGED <<table, queue, closed, syncer, req, lastEvent, counters>>

SaveVerdict ==
    /\ worker.pc = "save"
    /\ Save(worker.msg, worker.row)
    /\ worker' = [worker EXCEPT !.pc = "publish"]
    /\ UNCHANGED <<stored, user, overrideLog, queue, closed, syncer, req, lastEvent,
                   counters>>

\* Mutant: a failed assessment is not announced.
PublishesOnlySuccess ==
    /\ worker.pc = "publish"
    /\ IF worker.row.failed THEN UNCHANGED lastEvent
       ELSE Publish("message.analyzed", worker.msg, worker.row)
    /\ worker' = IdleWorker
    /\ UNCHANGED <<table, queue, closed, syncer, req, counters>>

PublishVerdict ==
    /\ worker.pc = "publish"
    /\ Publish("message.analyzed", worker.msg, worker.row)
    /\ worker' = IdleWorker
    /\ UNCHANGED <<table, queue, closed, syncer, req, counters>>

\* The error of ProcessMessage is logged and the message is not requeued.
WorkerFault ==
    /\ worker.pc \in {"load", "build", "save", "publish"}
    /\ Fault
    /\ worker' = IdleWorker
    /\ UNCHANGED <<table, queue, closed, syncer, req, lastEvent, requests, crashes>>
-----------------------------------------------------------------------------
(* Request handlers.  Each begins with a read of the row it will save.     *)

Arrives(h, op) ==
    /\ req[h].pc = "idle"
    /\ op \in Ops
    /\ requests < MaxRequests
    /\ requests' = requests + 1

Goto(h, r) == req' = [req EXCEPT ![h] = r]
Step(h, pc) == Goto(h, [req[h] EXCEPT !.pc = pc])
Respond(h) == Goto(h, IdleReq)

\* handleMarkRead: a message already read is not saved again.
MarkRead(h, m) ==
    /\ Arrives(h, "read")
    /\ m \in stored
    /\ ~rows[m].read
    /\ Goto(h, [IdleReq EXCEPT !.pc = "saveRead", !.msg = m,
                               !.row = [rows[m] EXCEPT !.read = TRUE]])
    /\ UNCHANGED <<table, queue, closed, worker, syncer, lastEvent, faults, crashes>>

SaveRead(h) ==
    /\ req[h].pc = "saveRead"
    /\ Save(req[h].msg, req[h].row)
    /\ Respond(h)
    /\ UNCHANGED <<stored, user, overrideLog, queue, closed, worker, syncer, lastEvent,
                   counters>>

\* handleSetLevel: a level that changes what is shown is logged first.
SetLevel(h, m, l) ==
    /\ Arrives(h, "level")
    /\ m \in stored
    /\ Goto(h, [IdleReq EXCEPT
                    !.pc = IF l = EffectiveLevel(rows[m]) THEN "saveLevel" ELSE "log",
                    !.msg = m, !.row = [rows[m] EXCEPT !.override = l]])
    /\ UNCHANGED <<table, queue, closed, worker, syncer, lastEvent, faults, crashes>>

\* Mutant: the two levels of the entry are swapped.
LogsPrevious(h) ==
    /\ req[h].pc = "log"
    /\ overrideLog' = [overrideLog EXCEPT ![req[h].msg] =
                          Append(@, EffectiveLevel(rows[req[h].msg]))]
    /\ Step(h, "saveLevel")
    /\ UNCHANGED <<stored, rows, user, queue, closed, worker, syncer, lastEvent, counters>>

AddOverrideLog(h) ==
    /\ req[h].pc = "log"
    /\ overrideLog' = [overrideLog EXCEPT ![req[h].msg] = Append(@, req[h].row.override)]
    /\ Step(h, "saveLevel")
    /\ UNCHANGED <<stored, rows, user, queue, closed, worker, syncer, lastEvent, counters>>

SaveLevel(h) ==
    /\ req[h].pc = "saveLevel"
    /\ Save(req[h].msg, req[h].row)
    /\ Step(h, "publishLevel")
    /\ UNCHANGED <<stored, user, overrideLog, queue, closed, worker, syncer, lastEvent,
                   counters>>

PublishLevel(h) ==
    /\ req[h].pc = "publishLevel"
    /\ Publish("message.analyzed", req[h].msg, req[h].row)
    /\ Respond(h)
    /\ UNCHANGED <<table, queue, closed, worker, syncer, counters>>

\* handleUpdateMe; want = NoCriteria is a request for the theme or density.
UpdateMe(h, want) ==
    /\ Arrives(h, "profile")
    /\ Goto(h, [IdleReq EXCEPT !.pc = "saveUser", !.want = want, !.seen = user])
    /\ UNCHANGED <<table, queue, closed, worker, syncer, lastEvent, faults, crashes>>

\* SaveUser writes every column, the criteria as they were when it was read.
SaveUser(h) ==
    LET r == req[h]
        criteriaChanged == r.want # NoCriteria /\ r.want # r.seen
    IN  /\ r.pc = "saveUser"
        /\ user' = IF r.want # NoCriteria THEN r.want ELSE r.seen
        /\ IF criteriaChanged THEN Step(h, "select") ELSE Respond(h)
        /\ UNCHANGED <<stored, rows, overrideLog, queue, closed, worker, syncer,
                       lastEvent, counters>>

\* Mutant: messages already being rated are left out.
SelectsOnlyDone(h) ==
    LET ids == {m \in stored : rows[m].status = "DONE"}
    IN  /\ req[h].pc = "select"
        /\ IF ids = {} THEN Respond(h)
           ELSE Goto(h, [req[h] EXCEPT !.pc = "mark", !.todo = ids])
        /\ UNCHANGED <<table, queue, closed, worker, syncer, lastEvent, counters>>

\* MarkAllProcessing, the SELECT of the ids.
SelectAll(h) ==
    /\ req[h].pc = "select"
    /\ IF stored = {} THEN Respond(h)
       ELSE Goto(h, [req[h] EXCEPT !.pc = "mark", !.todo = stored])
    /\ UNCHANGED <<table, queue, closed, worker, syncer, lastEvent, counters>>

\* MarkAllProcessing, the UPDATE, which does not use the ids.
MarkAll(h) ==
    /\ req[h].pc = "mark"
    /\ rows' = [m \in Messages |-> IF m \in stored
                                   THEN [rows[m] EXCEPT !.status = "PROCESSING"]
                                   ELSE rows[m]]
    /\ Step(h, "enqueue")
    /\ UNCHANGED <<stored, user, overrideLog, queue, closed, worker, syncer, lastEvent,
                   counters>>

\* Mutant: the message the worker is at is not pushed again.
SkipsMessageInFlight(h, m) ==
    /\ req[h].pc = "enqueue"
    /\ m \in req[h].todo
    /\ \A k \in req[h].todo : k <= m
    /\ IF worker.msg = m THEN UNCHANGED queue ELSE Push(m)
    /\ IF req[h].todo = {m} THEN Respond(h)
       ELSE Goto(h, [req[h] EXCEPT !.todo = @ \ {m}])
    /\ UNCHANGED <<table, closed, worker, syncer, lastEvent, counters>>

\* QueueReanalysis pushes the ids one by one, the newest first.
EnqueueNewest(h, m) ==
    /\ req[h].pc = "enqueue"
    /\ m \in req[h].todo
    /\ \A k \in req[h].todo : k <= m
    /\ Push(m)
    /\ IF req[h].todo = {m} THEN Respond(h)
       ELSE Goto(h, [req[h] EXCEPT !.todo = @ \ {m}])
    /\ UNCHANGED <<table, closed, worker, syncer, lastEvent, counters>>

HandlerFault(h) ==
    /\ req[h].pc \in {"saveRead", "log", "saveLevel", "saveUser", "select", "mark"}
    /\ Fault
    /\ Respond(h)
    /\ UNCHANGED <<table, queue, closed, worker, syncer, lastEvent, requests, crashes>>
-----------------------------------------------------------------------------
(* The process: SIGTERM closes the queue, and the process ends, or is      *)
(* killed, with whatever was in memory.  The next one starts idle.         *)

Stop ==
    /\ ~closed
    /\ crashes < MaxCrashes
    /\ closed' = TRUE
    /\ UNCHANGED <<table, queue, worker, syncer, req, lastEvent, counters>>

Restart ==
    /\ crashes < MaxCrashes
    /\ crashes' = crashes + 1
    /\ queue' = <<>>
    /\ closed' = FALSE
    /\ worker' = IdleWorker
    /\ syncer' = IdleSyncer
    /\ req' = [h \in Handlers |-> IdleReq]
    /\ UNCHANGED <<table, lastEvent, requests, faults>>
-----------------------------------------------------------------------------
SyncerStep == StorePublish \/ StoreEnqueue

WorkerStep ==
    \/ Pop \/ WorkerExit \/ LoadMessage \/ BuildRequest
    \/ \E l \in Levels : ModelAnswers(l)
    \/ ModelFails \/ SaveVerdict \/ PublishVerdict \/ WorkerFault

HandlerStep(h) ==
    \/ SaveRead(h) \/ AddOverrideLog(h) \/ SaveLevel(h) \/ PublishLevel(h)
    \/ SaveUser(h) \/ SelectAll(h) \/ MarkAll(h) \/ HandlerFault(h)
    \/ \E m \in Messages : EnqueueNewest(h, m)

Arrival(h) ==
    \/ \E m \in Messages : MarkRead(h, m) \/ \E l \in Levels : SetLevel(h, m, l)
    \/ \E c \in Criteria \cup {NoCriteria} : UpdateMe(h, c)

Next ==
    \/ \E m \in Messages : StoreInsert(m)
    \/ SyncerStep
    \/ WorkerStep
    \/ \E h \in Handlers : Arrival(h) \/ HandlerStep(h)
    \/ Stop
    \/ Restart

Spec == Init /\ [][Next]_vars

(* A goroutine that has work goes on: the Go scheduler runs it, a model    *)
(* call ends by its HTTP timeout and a retry pause by its timer.  Mail,    *)
(* requests, faults, shutdown and restarts happen or not.                  *)
Fairness ==
    /\ WF_vars(SyncerStep)
    /\ WF_vars(WorkerStep)
    /\ \A h \in Handlers : WF_vars(HandlerStep(h))

FairSpec == Spec /\ Fairness
-----------------------------------------------------------------------------
(* Every variable has its shape, and the ids held in memory are of stored  *)
(* rows (ProcessMessage never meets ErrNotFound while nothing is deleted). *)
WorkerState == [pc: {"idle", "load", "build", "ask", "save", "publish", "exited"},
                msg: Messages \cup {NoMsg}, row: Row,
                asked: Criteria \cup {NoCriteria}, attempt: 0..MaxAttempts]
SyncerState == [pc: {"idle", "publish", "enqueue"}, msg: Messages \cup {NoMsg}]
ReqState == [pc: {"idle", "saveRead", "log", "saveLevel", "publishLevel", "saveUser",
                  "select", "mark", "enqueue"},
             msg: Messages \cup {NoMsg}, row: Row, want: Criteria \cup {NoCriteria},
             seen: Criteria \cup {NoCriteria}, todo: SUBSET Messages]
EventType == [name: {"none", "message.created", "message.analyzed"}, row: Row]

ReqIds(r) ==
    /\ r.pc \in {"saveRead", "log", "saveLevel", "publishLevel"} => r.msg \in stored
    /\ r.pc = "log" => r.row.override \in Levels
    /\ r.pc = "saveUser" => r.seen \in Criteria
    /\ r.todo \subseteq stored

IdsAreStored ==
    /\ \A i \in 1..Len(queue) : queue[i] \in stored
    /\ worker.pc \notin {"idle", "exited"} => worker.msg \in stored
    /\ syncer.pc # "idle" => syncer.msg \in stored
    /\ \A h \in Handlers : ReqIds(req[h])

TypeOK ==
    /\ stored \subseteq Messages
    /\ rows \in [Messages -> Row]
    /\ user \in Criteria
    /\ overrideLog \in [Messages -> Seq(Levels)]
    /\ queue \in Seq(Messages)
    /\ closed \in BOOLEAN
    /\ worker \in WorkerState
    /\ syncer \in SyncerState
    /\ req \in [Handlers -> ReqState]
    /\ lastEvent \in [Messages -> EventType]
    /\ requests \in Nat /\ faults \in Nat /\ crashes \in Nat
    /\ IdsAreStored
-----------------------------------------------------------------------------
(* A card that is closed shows a level, and a failed assessment never      *)
(* leaves it without one (analysis.go:191-216).  The rule has to hold of   *)
(* every copy of a row too: each copy may be what SaveMessage writes next. *)
RowConsistent(r) ==
    /\ r.status = "DONE" => r.analyzed
    /\ r.failed => r.analyzed
    /\ r.analyzed <=> r.level # NoLevel

CardsConsistent ==
    /\ \A m \in stored : RowConsistent(rows[m])
    /\ worker.pc \in {"build", "ask", "save", "publish"} => RowConsistent(worker.row)
    /\ worker.pc \in {"save", "publish"} => worker.row.status = "DONE"
    /\ \A h \in Handlers : RowConsistent(req[h].row)
    /\ \A m \in Messages : RowConsistent(lastEvent[m].row)

(* Who will still close a message: the queue of a running worker, the      *)
(* worker before its save, the synchroniser before its push, or a          *)
(* re-analysis that has marked the message and not pushed it yet.          *)
InQueue(m) == \E i \in 1..Len(queue) : queue[i] = m

Covered(m) ==
    \/ worker.pc # "exited" /\ InQueue(m)
    \/ worker.pc \in {"load", "build", "ask", "save"} /\ worker.msg = m
    \/ syncer.pc # "idle" /\ syncer.msg = m
    \/ \E h \in Handlers : req[h].pc = "enqueue" /\ m \in req[h].todo

Stranded(m) == m \in stored /\ rows[m].status = "PROCESSING" /\ ~Covered(m)

(* The code has no sweep that would pick a stranded message up, so every   *)
(* way to strand one matters.  There are five and no other: the process    *)
(* restarts; a statement fails while ProcessMessage has the message; it is *)
(* pushed after the worker has exited; a handler saves the row it read     *)
(* before the worker closed it; the UPDATE of MarkAllProcessing hits a row *)
(* its SELECT did not return.                                              *)
StaleSave(m) ==
    /\ rows[m].status = "DONE"
    /\ \E h \in Handlers : /\ req[h].pc \in {"saveRead", "saveLevel"}
                           /\ req[h].msg = m
                           /\ req[h].row.status = "PROCESSING"

MissedBySelect(m) == \E h \in Handlers : req[h].pc = "mark" /\ m \notin req[h].todo

OnlyKnownLeaks ==
    [][\A m \in Messages : ~Stranded(m) /\ Stranded(m)' =>
           \/ crashes' # crashes
           \/ worker.msg = m /\ faults' # faults
           \/ worker.pc = "exited"
           \/ StaleSave(m)
           \/ MissedBySelect(m)]_vars

(* The prompt quotes the log to the model, so the log has to say what the  *)
(* user decided: its last entry about a message is the level set on it or  *)
(* about to be saved (messages.go:184-192).  They part in three ways only, *)
(* entry and row being written apart: the save fails or the process ends   *)
(* between the two; a copy read before the level was set is written over   *)
(* it; and of two requests for one message the earlier saves last.         *)
LogHolds(m) ==
    \/ overrideLog[m] = <<>>
    \/ Last(overrideLog[m]) = rows[m].override
    \/ \E h \in Handlers : /\ req[h].pc = "saveLevel" /\ req[h].msg = m
                           /\ Last(overrideLog[m]) = req[h].row.override

\* A copy that does not know what the row, or the log, says of the level now.
OldCopyOf(m) ==
    \/ worker.pc = "save" /\ worker.msg = m /\ worker.row.override # rows[m].override
    \/ \E h \in Handlers :
          /\ req[h].msg = m
          /\ \/ req[h].pc = "saveRead" /\ req[h].row.override # rows[m].override
             \/ req[h].pc = "saveLevel" /\ req[h].row.override # Last(overrideLog[m])

LogAgrees ==
    [][\A m \in Messages : LogHolds(m) /\ ~LogHolds(m)' =>
           \/ faults' # faults \/ crashes' # crashes
           \/ OldCopyOf(m) /\ rows' # rows]_vars

(* A verdict of older criteria is never left as it is: the message is      *)
(* about to be rated again, or the request that changed the criteria has   *)
(* not finished its re-analysis (me.go:51-71, analysis.go:232-241).  In    *)
(* particular a verdict being computed when the criteria change is saved   *)
(* late and then corrected.                                                *)
Reanalysing == \E h \in Handlers : req[h].pc \in {"select", "mark"}

WillReadCriteria(m) ==
    \/ InQueue(m)
    \/ worker.pc \in {"load", "build"} /\ worker.msg = m
    \/ \E h \in Handlers : req[h].pc = "enqueue" /\ m \in req[h].todo

StaleVerdictIsScheduled ==
    \A m \in stored :
        rows[m].analyzed /\ ~rows[m].failed /\ rows[m].basis # user
            => \/ Reanalysing
               \/ WillReadCriteria(m)
               \/ /\ worker.pc \in {"ask", "save"}
                  /\ worker.msg = m
                  /\ worker.asked = user

(* Decision 38: a re-analysis that fails leaves the earlier verdict, the   *)
(* one the table holds when the failure is saved (analysis.go:191-204).    *)
FailureKeepsVerdict ==
    worker.pc = "save" /\ worker.row.failed /\ rows[worker.msg].analyzed
        => /\ worker.row.level = rows[worker.msg].level
           /\ worker.row.basis = rows[worker.msg].basis

(* A change of the criteria costs no message its verdict: what is outdated *)
(* is about to be replaced, and by a verdict, not by a failure.            *)
ReanalysisIsSafe == StaleVerdictIsScheduled /\ FailureKeepsVerdict

(* When nothing is in progress, the last event about a message carried     *)
(* what the table holds, so that a client that applied the events shows    *)
(* the truth, however the events of synchroniser and worker interleave     *)
(* (ingest.go:77-79, analysis.go:217-225).  A level set by hand is         *)
(* published by its handler and may cross the worker's event               *)
(* (messages.go:189-193): with "level" in Ops this does not hold.          *)
Quiet == /\ queue = <<>> /\ worker.pc = "idle" /\ syncer.pc = "idle"
         /\ \A h \in Handlers : req[h].pc = "idle"

LastEventIsCurrent ==
    Quiet => \A m \in stored :
                 \/ lastEvent[m].row = rows[m]
                 \/ lastEvent[m].name = "none" /\ m \in Preloaded
                 \/ Stranded(m)

(* Spec section 6.1: a message that is being rated is eventually closed. *)
EveryMessageCloses ==
    \A m \in Messages : (m \in stored /\ rows[m].status = "PROCESSING")
                            ~> rows[m].status = "DONE"

(* Spec section 6.4: a change of the criteria reaches every message, those *)
(* in the hands of the worker included.                                    *)
VerdictsCatchUp ==
    <>[](\A m \in stored : /\ rows[m].status = "DONE"
                           /\ rows[m].failed \/ rows[m].basis = user)

(* Both of these, apart from the gap between the two statements of         *)
(* MarkAllProcessing (messages.go:118-153): as long as no row slips into   *)
(* it, every message is closed and the criteria reach every verdict,       *)
(* whatever mail arrives and however often the model fails.                *)
NoGap == [](\A m \in Messages : ~MissedBySelect(m))
CatchesUpUnlessMissed == NoGap => EveryMessageCloses /\ VerdictsCatchUp

(* Decision 15: an override, once set, is not lost to a re-analysis.       *)
OverrideSurvives ==
    [][\A m \in stored : rows[m].override # NoLevel
           => rows'[m].override # NoLevel]_vars
=============================================================================
