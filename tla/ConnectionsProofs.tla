-------------------------- MODULE ConnectionsProofs --------------------------
(***************************************************************************)
(* Proofs about Connections for any kinds, handlers and bounds: rows stay  *)
(* coherent under every interleaving of their writers, and the scheduler   *)
(* undoes the user's last decision only by a round that had read the row   *)
(* before it.                                                              *)
(***************************************************************************)
EXTENDS Connections, TLAPS

\* A copy the scheduler still holds of a row the user did not save over since
\* it was read carries the user's credentials: saving it changes none.
CopiesAgree ==
  \A k \in Kinds : ~raced[k] =>
    /\ conn[k].cred = wish[k]
    /\ \A t \in sync.todo : t.kind = k => t.row.cred = wish[k]
    /\ sync.pc \in {"fetch", "save"} /\ sync.kind = k => sync.row.cred = wish[k]

IInv == TypeOK /\ RowsCoherent /\ CopiesAgree

\* The shapes named once, so that the steps below need not open records.
Request == [pc : {"idle", "lookup", "insert", "login", "off"},
            kind : Kinds, cred : Creds, row : Row]
Round == [pc : {"idle", "next", "fetch", "save"}, todo : SUBSET Snapshot,
          kind : Kinds, row : Row]

LEMMA Constants == /\ MaxLogins \in Nat /\ MaxRequests \in Nat /\ MaxCrashes \in Nat
                   /\ 0 \in Creds /\ (CHOOSE k \in Kinds : TRUE) \in Kinds
BY ConstantsOK DEF ConstantsOK, Creds

LEMMA RowShapes ==
  /\ NoRow \in Row /\ FreshRow \in Row /\ FreshRow.state = "off" /\ FreshRow.cred = 0
  /\ NoRow.cred = 0 /\ NoRow.state = "none"
  /\ AtRest \in Request /\ AtRest.pc = "idle"
  /\ Asleep \in Round /\ Asleep.pc = "idle" /\ Asleep.todo = {}
BY Constants DEF NoRow, FreshRow, AtRest, Asleep, Row, Request, Round

LEMMA RowUpdates ==
  ASSUME NEW r \in Row
  PROVE  /\ r.state \in {"none", "off", "active", "reauth"} /\ r.cred \in Creds /\ r.cursor \in Creds
         /\ [r EXCEPT !.state = "off", !.cred = 0] \in Row
         /\ [r EXCEPT !.state = "off", !.cred = 0].cred = 0
         /\ Coherent([r EXCEPT !.state = "off", !.cred = 0])
         /\ \A c \in Creds \ {0} :
              LET n == [r EXCEPT !.state = "active", !.cred = c, !.cursor = 0]
              IN n \in Row /\ n.cred = c /\ Coherent(n)
         /\ r.cred # 0 /\ Coherent(r) =>
              LET n == [r EXCEPT !.state = "active", !.cursor = r.cred]
              IN n \in Row /\ n.cred = r.cred /\ Coherent(n)
         /\ r.cred # 0 /\ Coherent(r) =>
              LET n == [r EXCEPT !.state = "reauth"]
              IN n \in Row /\ n.cred = r.cred /\ Coherent(n)
BY Constants DEF Row, Coherent

LEMMA RoundUpdates ==
  ASSUME NEW s \in Round
  PROVE  /\ s.pc \in {"idle", "next", "fetch", "save"} /\ s.todo \subseteq Snapshot
         /\ s.kind \in Kinds /\ s.row \in Row
         /\ \A T \in SUBSET Snapshot :
              LET n == [s EXCEPT !.pc = "next", !.todo = T]
              IN n \in Round /\ n.pc = "next" /\ n.todo = T
         /\ LET n == [s EXCEPT !.pc = "next", !.row = NoRow]
            IN n \in Round /\ n.pc = "next" /\ n.todo = s.todo
         /\ LET n == [s EXCEPT !.pc = "save", !.row.state = "active", !.row.cursor = s.row.cred]
            IN /\ n.pc = "save" /\ n.todo = s.todo /\ n.kind = s.kind
               /\ n.row = [s.row EXCEPT !.state = "active", !.cursor = s.row.cred]
               /\ n.row \in Row => n \in Round
         /\ LET n == [s EXCEPT !.pc = "save", !.row.state = "reauth"]
            IN /\ n.pc = "save" /\ n.todo = s.todo /\ n.kind = s.kind
               /\ n.row = [s.row EXCEPT !.state = "reauth"]
               /\ n.row \in Row => n \in Round
BY RowShapes DEF Round

LEMMA SnapshotShape ==
  /\ \A k \in Kinds, r \in Row :
       /\ [kind |-> k, row |-> r] \in Snapshot
       /\ [kind |-> k, row |-> r].kind = k /\ [kind |-> k, row |-> r].row = r
  /\ \A t \in Snapshot : t.kind \in Kinds /\ t.row \in Row
BY DEF Snapshot

LEMMA RequestUpdates ==
  ASSUME NEW q \in Request
  PROVE  /\ q.pc \in {"idle", "lookup", "insert", "login", "off"}
         /\ q.kind \in Kinds /\ q.cred \in Creds /\ q.row \in Row
         /\ \A r \in Row, at \in {"idle", "lookup", "insert", "login", "off"} :
              LET n == [q EXCEPT !.row = r, !.pc = at]
              IN n \in Request /\ n.pc = at /\ n.row = r /\ n.cred = q.cred /\ n.kind = q.kind
BY DEF Request

LEMMA NewRequest ==
  \A k \in Kinds, c \in Creds, r \in Row, at \in {"lookup", "off"} :
    LET n == [pc |-> at, kind |-> k, cred |-> c, row |-> r]
    IN n \in Request /\ n.pc = at /\ n.row = r /\ n.cred = c
BY DEF Request

\* TypeOK in the names above.
Shapes ==
  /\ conn \in [Kinds -> Row]
  /\ req \in [Handlers -> Request]
  /\ \A h \in Handlers : /\ req[h].pc \in {"login", "off"} => req[h].row.state # "none"
                         /\ req[h].pc \in {"lookup", "insert", "login"} => req[h].cred # 0
  /\ sync \in Round
  /\ sync.pc = "idle" => sync.todo = {}
  /\ revoked \subseteq 1..granted /\ granted \in Creds
  /\ wish \in [Kinds -> Creds] /\ raced \in [Kinds -> BOOLEAN]
  /\ requests \in 0..MaxRequests /\ crashes \in 0..MaxCrashes

LEMMA ShapesAreTypes == (TypeOK <=> Shapes) /\ (TypeOK' <=> Shapes')
BY DEF TypeOK, Shapes, Request, Round

-----------------------------------------------------------------------------
(* One lemma per group of steps *)

LEMMA RequestAtHand ==
  ASSUME Shapes, NEW h \in Handlers
  PROVE  /\ req[h] \in Request /\ req[h].kind \in Kinds /\ req[h].cred \in Creds
         /\ req[h].row \in Row /\ conn[req[h].kind] \in Row
         /\ req[h].pc \in {"login", "off"} => req[h].row.state # "none"
         /\ req[h].pc \in {"lookup", "insert", "login"} => req[h].cred # 0
<1>1. req[h] \in Request
  BY DEF Shapes
<1>2. req[h].kind \in Kinds /\ req[h].cred \in Creds /\ req[h].row \in Row
  BY <1>1, RequestUpdates
<1> QED
  BY <1>1, <1>2 DEF Shapes

\* Steps of requests that leave the rows and the scheduler alone.
LEMMA RequestStep ==
  ASSUME IInv, NEW h \in Handlers, req'[h] \in Request,
         req' = [req EXCEPT ![h] = req'[h]],
         req'[h].pc \in {"login", "off"} => req'[h].row.state # "none",
         req'[h].pc \in {"lookup", "insert", "login"} => req'[h].cred # 0,
         granted' \in Creds, granted <= granted', requests' \in 0..MaxRequests,
         UNCHANGED <<conn, sync, revoked, wish, raced, crashes>>
  PROVE  IInv'
<1>1. Shapes /\ RowsCoherent /\ CopiesAgree
  BY ShapesAreTypes DEF IInv
<1>2. revoked \subseteq 1..granted'
  <2>1. granted \in Int /\ granted' \in Int
    BY <1>1, Constants DEF Shapes, Creds
  <2> QED
    BY <1>1, <2>1 DEF Shapes
<1>3. Shapes'
  BY <1>1, <1>2 DEF Shapes
<1>4. RowsCoherent' /\ CopiesAgree'
  BY <1>1 DEF RowsCoherent, CopiesAgree
<1>5. TypeOK'
  BY <1>3, ShapesAreTypes
<1> QED
  BY <1>4, <1>5 DEF IInv

LEMMA RequestsKeep ==
  ASSUME IInv, NEW h \in Handlers
  PROVE  /\ \A k \in Kinds : SignedIn(h, k) => IInv'
         /\ \A k \in Kinds : Disconnect(h, k) => IInv'
         /\ Lookup(h) => IInv'
         /\ RequestFails(h) => IInv'
<1>1. Shapes
  BY ShapesAreTypes DEF IInv
<1>2. /\ req \in [Handlers -> Request] /\ conn \in [Kinds -> Row]
      /\ granted \in Nat /\ granted \in Creds /\ requests \in 0..MaxRequests
      /\ MaxRequests \in Nat
  BY <1>1, Constants DEF Shapes, Creds
<1>3. ASSUME NEW k \in Kinds, SignedIn(h, k) PROVE IInv'
  <2>1. granted + 1 \in Creds /\ granted + 1 # 0 /\ granted <= granted + 1
    BY <1>2, <1>3, Constants DEF SignedIn, Creds
  <2> DEFINE q == [pc |-> "lookup", kind |-> k, cred |-> granted + 1, row |-> NoRow]
  <2>2. q \in Request /\ q.pc = "lookup" /\ q.cred = granted + 1
    BY <2>1, RowShapes, NewRequest
  <2>3. req' = [req EXCEPT ![h] = q]
    BY <1>3 DEF SignedIn
  <2> HIDE DEF q
  <2>4. req'[h] = q /\ requests' \in 0..MaxRequests /\ granted' = granted + 1
    BY <1>2, <1>3, <2>3 DEF SignedIn
  <2>5. UNCHANGED <<conn, sync, revoked, wish, raced, crashes>>
    BY <1>3 DEF SignedIn
  <2> QED
    BY <2>1, <2>2, <2>3, <2>4, <2>5, RequestStep
<1>4. ASSUME NEW k \in Kinds, Disconnect(h, k) PROVE IInv'
  <2> DEFINE q == [pc |-> "off", kind |-> k, cred |-> 0, row |-> conn[k]]
  <2>1. q \in Request /\ q.pc = "off" /\ q.row = conn[k]
    BY <1>2, Constants, NewRequest
  <2>2. req' = [req EXCEPT ![h] = q]
    BY <1>4 DEF Disconnect
  <2> HIDE DEF q
  <2>3. req'[h] = q /\ requests' \in 0..MaxRequests /\ granted' = granted
    BY <1>2, <1>4, <2>2 DEF Disconnect
  <2>4. UNCHANGED <<conn, sync, revoked, wish, raced, crashes>> /\ conn[k].state # "none"
    BY <1>4 DEF Disconnect, Stored
  <2>5. granted' \in Creds /\ granted <= granted'
    BY <1>2, <2>3
  <2> QED
    BY <2>1, <2>2, <2>3, <2>4, <2>5, RequestStep
<1>5. ASSUME Lookup(h) PROVE IInv'
  <2> DEFINE at == IF ~Stored(req[h].kind) THEN "insert" ELSE "login"
             q == [req[h] EXCEPT !.row = conn[req[h].kind], !.pc = at]
  <2>1. /\ req[h] \in Request /\ req[h].kind \in Kinds /\ conn[req[h].kind] \in Row
        /\ req[h].cred # 0 /\ at \in {"insert", "login"}
    BY <1>1, <1>5, RequestAtHand DEF Lookup
  <2>2. q \in Request /\ q.pc = at /\ q.row = conn[req[h].kind] /\ q.cred = req[h].cred
    <3>1. at \in {"idle", "lookup", "insert", "login", "off"}
      BY <2>1
    <3> HIDE DEF at
    <3> QED
      BY <2>1, <3>1 DEF Request
  <2>3. req' = [req EXCEPT ![h] = q]
    BY <1>5 DEF Lookup
  <2>4. at = "login" => conn[req[h].kind].state # "none"
    BY DEF Stored
  <2> HIDE DEF q, at
  <2>5. req'[h] = q
    BY <1>2, <2>3
  <2>6. UNCHANGED <<conn, sync, revoked, granted, wish, raced, requests, crashes>>
    BY <1>5 DEF Lookup
  <2>7. /\ granted' \in Creds /\ granted <= granted' /\ requests' \in 0..MaxRequests
        /\ UNCHANGED <<conn, sync, revoked, wish, raced, crashes>>
    BY <1>2, <2>6
  <2>8. q.pc \in {"login", "off"} => q.row.state # "none"
    BY <2>1, <2>2, <2>4
  <2> QED
    BY <2>1, <2>2, <2>3, <2>5, <2>7, <2>8, RequestStep
<1>6. ASSUME RequestFails(h) PROVE IInv'
  <2>1. req' = [req EXCEPT ![h] = AtRest] /\ req'[h] = AtRest
    BY <1>2, <1>6 DEF RequestFails, Finish
  <2>2. /\ granted' \in Creds /\ granted <= granted' /\ requests' \in 0..MaxRequests
        /\ UNCHANGED <<conn, sync, revoked, wish, raced, crashes>>
    BY <1>2, <1>6 DEF RequestFails
  <2> QED
    BY <2>1, <2>2, RowShapes, RequestStep
<1> QED
  BY <1>3, <1>4, <1>5, <1>6

\* A row is inserted, without credentials: nothing the scheduler holds is of it.
LEMMA InsertKeeps ==
  ASSUME IInv, NEW h \in Handlers, InsertRow(h)
  PROVE  IInv'
<1>1. Shapes /\ RowsCoherent /\ CopiesAgree
  BY ShapesAreTypes DEF IInv
<1>2. /\ req \in [Handlers -> Request] /\ conn \in [Kinds -> Row]
      /\ req[h] \in Request /\ req[h].kind \in Kinds /\ req[h].cred # 0
      /\ granted \in Nat /\ granted \in Creds /\ requests \in 0..MaxRequests
  <2>1. /\ req \in [Handlers -> Request] /\ conn \in [Kinds -> Row]
        /\ granted \in Nat /\ granted \in Creds /\ requests \in 0..MaxRequests
    BY <1>1, Constants DEF Shapes, Creds
  <2>2. req[h].pc = "insert"
    BY DEF InsertRow
  <2> QED
    BY <1>1, <2>1, <2>2, RequestAtHand
<1>3. UNCHANGED <<sync, revoked, granted, wish, raced, requests, crashes>>
  BY DEF InsertRow
<1>4. CASE Stored(req[h].kind)
  <2>1. conn' = conn /\ req' = [req EXCEPT ![h] = AtRest] /\ req'[h] = AtRest
    BY <1>2, <1>4 DEF InsertRow, Finish
  <2>2. /\ granted' \in Creds /\ granted <= granted' /\ requests' \in 0..MaxRequests
        /\ UNCHANGED <<conn, sync, revoked, wish, raced, crashes>>
    BY <1>2, <1>3, <2>1
  <2> QED
    BY <2>1, <2>2, RowShapes, RequestStep
<1>5. CASE ~Stored(req[h].kind)
  <2> DEFINE k == req[h].kind
             q == [req[h] EXCEPT !.row = FreshRow, !.pc = "login"]
  <2>1. q \in Request /\ q.pc = "login" /\ q.row = FreshRow /\ q.cred # 0
    <3>1. FreshRow \in Row /\ "login" \in {"idle", "lookup", "insert", "login", "off"}
      BY RowShapes
    <3> QED
      BY <1>2, <3>1 DEF Request
  <2>2. /\ conn' = [conn EXCEPT ![k] = FreshRow] /\ req' = [req EXCEPT ![h] = q]
    BY <1>5 DEF InsertRow
  <2>3. conn[k].cred = 0
    BY <1>1, <1>2, <1>5 DEF RowsCoherent, Coherent, Stored
  <2>4. Coherent(FreshRow) /\ FreshRow.cred = 0
    BY RowShapes DEF Coherent
  <2> HIDE DEF q, k
  <2>5. /\ k \in Kinds
        /\ \A j \in Kinds : conn'[j].cred = conn[j].cred
        /\ \A j \in Kinds : Coherent(conn'[j])
    BY <1>1, <1>2, <2>2, <2>3, <2>4 DEF k, RowsCoherent
  <2>6. Shapes'
    BY <1>1, <1>2, <1>3, <2>1, <2>2, RowShapes DEF Shapes
  <2>7. RowsCoherent'
    BY <1>1, <1>3, <2>5 DEF RowsCoherent
  <2>8. CopiesAgree'
    BY <1>1, <1>3, <2>5 DEF CopiesAgree
  <2> QED
    BY <2>6, <2>7, <2>8, ShapesAreTypes DEF IInv
<1> QED
  BY <1>4, <1>5

\* The user's save: whatever the scheduler holds of the row is known to be old.
LEMMA UserSaveKeeps ==
  ASSUME IInv, NEW h \in Handlers, NEW k \in Kinds, NEW row \in Row,
         Coherent(row), UserSaves(h, k, row, row.cred)
  PROVE  IInv'
<1>1. Shapes /\ RowsCoherent /\ CopiesAgree
  BY ShapesAreTypes DEF IInv
<1>2. /\ conn' = [conn EXCEPT ![k] = row] /\ wish' = [wish EXCEPT ![k] = row.cred]
      /\ req' = [req EXCEPT ![h] = AtRest]
      /\ UNCHANGED <<sync, revoked, granted, requests, crashes>>
  BY DEF UserSaves, Finish
<1>3. raced' = [raced EXCEPT ![k] = /\ sync.pc # "idle"
                                    /\ \/ sync.pc # "next" /\ sync.kind = k
                                       \/ \E t \in sync.todo : t.kind = k]
  BY DEF UserSaves
<1>4. raced' \in [Kinds -> BOOLEAN] /\ \A j \in Kinds : j # k => raced'[j] = raced[j]
  BY <1>1, <1>3 DEF Shapes
<1>5. row.cred \in Creds
  BY RowUpdates
<1>6. conn' \in [Kinds -> Row] /\ wish' \in [Kinds -> Creds] /\ req' \in [Handlers -> Request]
  BY <1>1, <1>2, <1>5, RowShapes DEF Shapes
<1>7. \A g \in Handlers : g # h => req'[g] = req[g]
  BY <1>1, <1>2 DEF Shapes
<1>8. req'[h].pc = "idle"
  BY <1>1, <1>2, RowShapes DEF Shapes
<1>9. Shapes'
  BY <1>1, <1>2, <1>4, <1>6, <1>7, <1>8 DEF Shapes
<1>10. RowsCoherent'
  BY <1>1, <1>2 DEF RowsCoherent, Shapes
<1>11. CopiesAgree'
  <2> SUFFICES ASSUME NEW j \in Kinds, ~raced'[j]
               PROVE  /\ conn'[j].cred = wish'[j]
                      /\ \A t \in sync.todo : t.kind = j => t.row.cred = wish'[j]
                      /\ sync.pc \in {"fetch", "save"} /\ sync.kind = j
                           => sync.row.cred = wish'[j]
    BY <1>2 DEF CopiesAgree
  <2>1. CASE j = k
    <3>1. conn'[k].cred = wish'[k]
      BY <1>1, <1>2 DEF Shapes
    <3>2. sync.pc = "idle" \/ (~(sync.pc # "next" /\ sync.kind = k)
                               /\ ~\E t \in sync.todo : t.kind = k)
      BY <1>1, <1>3, <2>1 DEF Shapes
    <3>3. sync.pc = "idle" => sync.todo = {}
      BY <1>1 DEF Shapes
    <3> QED
      BY <2>1, <3>1, <3>2, <3>3
  <2>2. CASE j # k
    BY <1>1, <1>2, <1>4, <2>2 DEF Shapes, CopiesAgree
  <2> QED
    BY <2>1, <2>2
<1> QED
  BY <1>9, <1>10, <1>11, ShapesAreTypes DEF IInv

LEMMA SavesKeep ==
  ASSUME IInv, NEW h \in Handlers, SaveLogin(h) \/ SaveOff(h)
  PROVE  IInv'
<1>1. /\ req[h] \in Request /\ req[h].kind \in Kinds /\ req[h].row \in Row
      /\ req[h].cred \in Creds /\ (req[h].pc = "login" => req[h].cred # 0)
  <2>1. Shapes
    BY ShapesAreTypes DEF IInv
  <2> QED
    BY <2>1, RequestAtHand
<1>2. CASE SaveLogin(h)
  <2> DEFINE n == [req[h].row EXCEPT !.state = "active", !.cred = req[h].cred, !.cursor = 0]
  <2>1. n \in Row /\ n.cred = req[h].cred /\ Coherent(n)
    BY <1>1, <1>2, RowUpdates DEF SaveLogin
  <2>2. UserSaves(h, req[h].kind, n, req[h].cred)
    BY <1>2 DEF SaveLogin
  <2> HIDE DEF n
  <2> QED
    BY <1>1, <2>1, <2>2, UserSaveKeeps
<1>3. CASE SaveOff(h)
  <2> DEFINE n == [req[h].row EXCEPT !.state = "off", !.cred = 0]
  <2>1. n \in Row /\ n.cred = 0 /\ Coherent(n)
    BY <1>1, RowUpdates
  <2>2. UserSaves(h, req[h].kind, n, 0)
    BY <1>3 DEF SaveOff
  <2> HIDE DEF n
  <2> QED
    BY <1>1, <2>1, <2>2, UserSaveKeeps
<1> QED
  BY <1>2, <1>3

\* Steps of the scheduler that write no row.
LEMMA RoundStep ==
  ASSUME IInv, sync' \in Round, sync'.pc = "idle" => sync'.todo = {},
         sync'.pc \in {"fetch", "save"} => Coherent(sync'.row) /\ sync'.row.cred # 0,
         \A t \in sync'.todo : Coherent(t.row) /\ t.row.cred # 0,
         \A k \in Kinds : ~raced[k] =>
           /\ \A t \in sync'.todo : t.kind = k => t.row.cred = conn[k].cred
           /\ sync'.pc \in {"fetch", "save"} /\ sync'.kind = k => sync'.row.cred = conn[k].cred,
         UNCHANGED <<conn, req, revoked, granted, wish, raced, requests, crashes>>
  PROVE  IInv'
<1>1. Shapes /\ RowsCoherent /\ CopiesAgree
  BY ShapesAreTypes DEF IInv
<1>2. Shapes'
  BY <1>1 DEF Shapes
<1>3. RowsCoherent'
  BY <1>1 DEF RowsCoherent
<1>4. CopiesAgree'
  BY <1>1 DEF CopiesAgree
<1> QED
  BY <1>2, <1>3, <1>4, ShapesAreTypes DEF IInv

\* The end of a source's turn keeps what is left to visit and holds no copy.
LEMMA ProceedShape ==
  ASSUME Shapes, Proceed
  PROVE  /\ sync' \in Round /\ sync'.todo = sync.todo
         /\ sync'.pc \in {"idle", "next"} /\ (sync'.pc = "idle" => sync'.todo = {})
<1>1. sync \in Round
  BY DEF Shapes
<1>2. CASE sync.todo = {}
  BY <1>2, RowShapes DEF Proceed
<1>3. CASE sync.todo # {}
  <2> DEFINE n == [sync EXCEPT !.pc = "next", !.row = NoRow]
  <2>1. n \in Round /\ n.pc = "next" /\ n.todo = sync.todo
    BY <1>1, RoundUpdates
  <2>2. sync' = n
    BY <1>3 DEF Proceed
  <2> HIDE DEF n
  <2> QED
    BY <2>1, <2>2
<1> QED
  BY <1>2, <1>3

LEMMA RoundsKeep ==
  ASSUME IInv
  PROVE  /\ StartRound => IInv'
         /\ NextSource => IInv'
         /\ Failed => IInv'
         /\ \A k \in Kinds : Fetched(k) => IInv'
         /\ \A k \in Kinds : Refused(k) => IInv'
<1>1. Shapes /\ RowsCoherent /\ CopiesAgree
  BY ShapesAreTypes DEF IInv
<1>2. sync \in Round /\ conn \in [Kinds -> Row] /\ sync.todo \subseteq Snapshot
      /\ sync.kind \in Kinds /\ sync.row \in Row
  BY <1>1, RoundUpdates DEF Shapes
<1>3. \A k \in Kinds : ~raced[k] =>
        /\ \A t \in sync.todo : t.kind = k => t.row.cred = conn[k].cred
        /\ sync.pc \in {"fetch", "save"} /\ sync.kind = k => sync.row.cred = conn[k].cred
  BY <1>1 DEF CopiesAgree
<1>4. ASSUME StartRound PROVE IInv'
  <2> DEFINE A == {k \in Kinds : conn[k].state = "active"}
             T == {[kind |-> k, row |-> conn[k]] : k \in A}
             n == [sync EXCEPT !.pc = "next", !.todo = T]
  <2>1. \A t \in T : /\ t \in Snapshot /\ t.kind \in A /\ t.row = conn[t.kind]
    BY <1>2, SnapshotShape
  <2>2. n \in Round /\ n.pc = "next" /\ n.todo = T
    <3>1. T \in SUBSET Snapshot
      BY <2>1
    <3> HIDE DEF T
    <3> QED
      BY <1>2, <3>1, RoundUpdates
  <2>3. sync' = n
    BY <1>4 DEF StartRound
  <2>4. \A k \in A : Coherent(conn[k]) /\ conn[k].cred # 0
    BY <1>1 DEF RowsCoherent, Coherent
  <2>5. UNCHANGED <<conn, req, revoked, granted, wish, raced, requests, crashes>>
    BY <1>4 DEF StartRound
  <2>6. \A t \in T : Coherent(t.row) /\ t.row.cred # 0
    BY <2>1, <2>4
  <2> HIDE DEF n, T
  <2> QED
    BY <2>1, <2>2, <2>3, <2>5, <2>6, RoundStep
<1>5. ASSUME NextSource PROVE IInv'
  <2>1. PICK t \in sync.todo :
          sync' = [pc |-> "fetch", todo |-> sync.todo \ {t}, kind |-> t.kind, row |-> t.row]
    BY <1>5 DEF NextSource
  <2>2. t \in Snapshot /\ t.kind \in Kinds /\ t.row \in Row
    BY <1>2, SnapshotShape
  <2>3. /\ sync' \in Round /\ sync'.pc = "fetch" /\ sync'.todo = sync.todo \ {t}
        /\ sync'.kind = t.kind /\ sync'.row = t.row
    BY <1>2, <2>1, <2>2 DEF Round
  <2>4. Coherent(t.row) /\ t.row.cred # 0
    BY <1>1 DEF RowsCoherent
  <2>5. UNCHANGED <<conn, req, revoked, granted, wish, raced, requests, crashes>>
    BY <1>5 DEF NextSource
  <2>6. \A r \in sync'.todo : Coherent(r.row) /\ r.row.cred # 0
    BY <1>1, <2>3 DEF RowsCoherent
  <2>7. \A k \in Kinds : ~raced[k] =>
          /\ \A r \in sync'.todo : r.kind = k => r.row.cred = conn[k].cred
          /\ sync'.kind = k => sync'.row.cred = conn[k].cred
    BY <1>3, <2>3
  <2> QED
    BY <2>3, <2>4, <2>5, <2>6, <2>7, RoundStep
<1>6. ASSUME Failed PROVE IInv'
  <2>1. /\ sync' \in Round /\ sync'.todo = sync.todo
        /\ sync'.pc \in {"idle", "next"} /\ (sync'.pc = "idle" => sync'.todo = {})
    BY <1>1, <1>6, ProceedShape DEF Failed
  <2>2. UNCHANGED <<conn, req, revoked, granted, wish, raced, requests, crashes>>
    BY <1>6 DEF Failed
  <2>3. \A t \in sync'.todo : Coherent(t.row) /\ t.row.cred # 0
    BY <1>1, <2>1 DEF RowsCoherent
  <2> QED
    BY <1>3, <2>1, <2>2, <2>3, RoundStep
<1>7. ASSUME NEW k \in Kinds, Fetched(k) PROVE IInv'
  <2> DEFINE n == [sync EXCEPT !.pc = "save", !.row.state = "active",
                               !.row.cursor = sync.row.cred]
             r == [sync.row EXCEPT !.state = "active", !.cursor = sync.row.cred]
  <2>1. sync.pc = "fetch" /\ sync.row.cred # 0 /\ Coherent(sync.row)
    BY <1>1, <1>7 DEF Fetched, RowsCoherent
  <2>2. r \in Row /\ r.cred = sync.row.cred /\ Coherent(r)
    BY <1>2, <2>1, RowUpdates
  <2>3. /\ n.pc = "save" /\ n.todo = sync.todo /\ n.kind = sync.kind /\ n.row = r
        /\ n.row \in Row => n \in Round
    BY <1>2, RoundUpdates
  <2>4. sync' = n /\ UNCHANGED <<conn, req, revoked, granted, wish, raced, requests, crashes>>
    BY <1>7 DEF Fetched
  <2>5. \A t \in sync.todo : Coherent(t.row) /\ t.row.cred # 0
    BY <1>1 DEF RowsCoherent
  <2> HIDE DEF n, r
  <2> QED
    BY <1>3, <2>1, <2>2, <2>3, <2>4, <2>5, RoundStep
<1>8. ASSUME NEW k \in Kinds, Refused(k) PROVE IInv'
  <2> DEFINE n == [sync EXCEPT !.pc = "save", !.row.state = "reauth"]
             r == [sync.row EXCEPT !.state = "reauth"]
  <2>1. sync.pc = "fetch" /\ sync.row.cred # 0 /\ Coherent(sync.row)
    BY <1>1, <1>8 DEF Refused, RowsCoherent
  <2>2. r \in Row /\ r.cred = sync.row.cred /\ Coherent(r)
    BY <1>2, <2>1, RowUpdates
  <2>3. /\ n.pc = "save" /\ n.todo = sync.todo /\ n.kind = sync.kind /\ n.row = r
        /\ n.row \in Row => n \in Round
    BY <1>2, RoundUpdates
  <2>4. sync' = n /\ UNCHANGED <<conn, req, revoked, granted, wish, raced, requests, crashes>>
    BY <1>8 DEF Refused
  <2>5. \A t \in sync.todo : Coherent(t.row) /\ t.row.cred # 0
    BY <1>1 DEF RowsCoherent
  <2> HIDE DEF n, r
  <2> QED
    BY <1>3, <2>1, <2>2, <2>3, <2>4, <2>5, RoundStep
<1> QED
  BY <1>4, <1>5, <1>6, <1>7, <1>8

\* Saving a copy nobody overwrote brings back what the row holds already.
LEMMA SaveSyncKeeps ==
  ASSUME IInv, NEW k \in Kinds, SaveSync(k)
  PROVE  IInv'
<1>1. Shapes /\ RowsCoherent /\ CopiesAgree
  BY ShapesAreTypes DEF IInv
<1>2. /\ sync.pc = "save" /\ sync.kind = k /\ sync.row \in Row
      /\ conn' = [conn EXCEPT ![k] = sync.row] /\ conn \in [Kinds -> Row]
      /\ UNCHANGED <<req, revoked, granted, wish, raced, requests, crashes>>
  BY <1>1, RoundUpdates DEF SaveSync, Shapes
<1>3. /\ sync' \in Round /\ sync'.todo = sync.todo
      /\ sync'.pc \in {"idle", "next"} /\ (sync'.pc = "idle" => sync'.todo = {})
  BY <1>1, ProceedShape DEF SaveSync
<1>4. Coherent(sync.row)
  BY <1>1, <1>2 DEF RowsCoherent
<1>5. conn'[k] = sync.row /\ \A j \in Kinds : j # k => conn'[j] = conn[j]
  BY <1>2
<1>6. Shapes'
  BY <1>1, <1>2, <1>3 DEF Shapes
<1>7. RowsCoherent'
  BY <1>1, <1>3, <1>4, <1>5 DEF RowsCoherent
<1>8. CopiesAgree'
  BY <1>1, <1>2, <1>3, <1>5 DEF CopiesAgree
<1> QED
  BY <1>6, <1>7, <1>8, ShapesAreTypes DEF IInv

LEMMA EnvironmentKeeps ==
  ASSUME IInv, Revoke \/ Restart \/ UNCHANGED vars
  PROVE  IInv'
<1>1. Shapes /\ RowsCoherent /\ CopiesAgree
  BY ShapesAreTypes DEF IInv
<1>2. CASE Revoke
  <2>1. Shapes'
    BY <1>1, <1>2 DEF Shapes, Revoke
  <2>2. RowsCoherent' /\ CopiesAgree'
    BY <1>1, <1>2 DEF RowsCoherent, CopiesAgree, Revoke
  <2> QED
    BY <2>1, <2>2, ShapesAreTypes DEF IInv
<1>3. CASE Restart
  <2>1. /\ sync' = Asleep /\ req' = [h \in Handlers |-> AtRest]
        /\ UNCHANGED <<conn, revoked, granted, wish, raced, requests>>
        /\ crashes' \in 0..MaxCrashes
    BY <1>1, <1>3, Constants DEF Shapes, Restart
  <2>2. Shapes'
    BY <1>1, <2>1, RowShapes DEF Shapes
  <2>3. RowsCoherent' /\ CopiesAgree'
    BY <1>1, <2>1, RowShapes DEF RowsCoherent, CopiesAgree
  <2> QED
    BY <2>2, <2>3, ShapesAreTypes DEF IInv
<1>4. CASE UNCHANGED vars
  <2>1. Shapes'
    BY <1>1, <1>4 DEF Shapes, vars
  <2>2. RowsCoherent' /\ CopiesAgree'
    BY <1>1, <1>4 DEF RowsCoherent, CopiesAgree, vars
  <2> QED
    BY <2>1, <2>2, ShapesAreTypes DEF IInv
<1> QED
  BY <1>2, <1>3, <1>4
-----------------------------------------------------------------------------
(* The theorems *)

LEMMA InitEstablishes == Init => IInv
<1> SUFFICES ASSUME Init PROVE IInv
  OBVIOUS
<1>1. Shapes
  BY Constants, RowShapes DEF Init, Shapes, Creds
<1>2. RowsCoherent
  BY RowShapes DEF Init, RowsCoherent, Coherent, NoRow
<1>3. CopiesAgree
  BY RowShapes DEF Init, CopiesAgree
<1> QED
  BY <1>1, <1>2, <1>3, ShapesAreTypes DEF IInv

LEMMA StepKeeps == IInv /\ [Next]_vars => IInv'
<1> SUFFICES ASSUME IInv, [Next]_vars PROVE IInv'
  OBVIOUS
<1>1. CASE UNCHANGED vars
  BY <1>1, EnvironmentKeeps
<1>2. CASE Next
  <2>1. CASE \E h \in Handlers : \/ HandlerStep(h) \/ RequestFails(h)
                                \/ \E k \in Kinds : SignedIn(h, k) \/ Disconnect(h, k)
    BY <2>1, RequestsKeep, InsertKeeps, SavesKeep DEF HandlerStep
  <2>2. CASE StartRound \/ NextSource \/ Failed
    BY <2>2, RoundsKeep
  <2>3. CASE \E k \in Kinds : Answered(k) \/ SaveSync(k)
    BY <2>3, RoundsKeep, SaveSyncKeeps DEF Answered
  <2>4. CASE Revoke \/ Restart
    BY <2>4, EnvironmentKeeps
  <2> QED
    BY <1>2, <2>1, <2>2, <2>3, <2>4 DEF Next
<1> QED
  BY <1>1, <1>2

THEOREM Invariance == Spec => []IInv
BY InitEstablishes, StepKeeps, PTL DEF Spec

(***************************************************************************)
(* Rows, requests and the scheduler's round keep their shape, and a        *)
(* handler never saves a copy of a row that does not exist.                *)
(***************************************************************************)
THEOREM TypeCorrect == Spec => []TypeOK
<1>1. IInv => TypeOK
  BY DEF IInv
<1> QED
  BY <1>1, Invariance, PTL

-----------------------------------------------------------------------------
(* A source asks for a sign-in only if it was refused *)

MayAsk(k, c) == c \in revoked \/ k \in QuotaKinds

\* The scheduler visits active sources, and asks for a sign-in after a refusal.
AsksAfterRefusal ==
  /\ ReauthOnlyIfRefused
  /\ \A t \in sync.todo : t.row.state = "active"
  /\ sync.pc = "fetch" => sync.row.state = "active"
  /\ sync.pc = "save" /\ sync.row.state = "reauth" => MayAsk(sync.kind, sync.row.cred)

\* A request never writes "reauth".
LEMMA RequestsAskNothing ==
  ASSUME Shapes, AsksAfterRefusal, NEW h \in Handlers, HandlerStep(h)
  PROVE  AsksAfterRefusal'
<1> USE DEF AsksAfterRefusal, ReauthOnlyIfRefused, MayAsk
<1>1. req[h].kind \in Kinds /\ req[h].row \in Row /\ req[h].cred \in Creds
  BY RequestAtHand
<1>2. conn \in [Kinds -> Row]
  BY DEF Shapes
<1>3. CASE Lookup(h)
  BY <1>3 DEF Lookup
<1>4. CASE InsertRow(h)
  <2>1. UNCHANGED <<sync, revoked>>
    BY <1>4 DEF InsertRow
  <2>2. conn' = conn \/ conn' = [conn EXCEPT ![req[h].kind] = FreshRow]
    BY <1>4 DEF InsertRow
  <2> QED
    BY <1>1, <1>2, <2>1, <2>2, RowShapes
<1>5. ASSUME NEW n \in Row, n.state # "reauth", NEW c, UserSaves(h, req[h].kind, n, c)
      PROVE  AsksAfterRefusal'
  <2>1. UNCHANGED <<sync, revoked>> /\ conn' = [conn EXCEPT ![req[h].kind] = n]
    BY <1>5 DEF UserSaves
  <2> QED
    BY <1>1, <1>2, <1>5, <2>1
<1>6. CASE SaveLogin(h)
  <2> DEFINE n == [req[h].row EXCEPT !.state = "active", !.cred = req[h].cred, !.cursor = 0]
  <2>1. n \in Row /\ n.state # "reauth"
    BY <1>1, Constants DEF Row
  <2>2. UserSaves(h, req[h].kind, n, req[h].cred)
    BY <1>6 DEF SaveLogin
  <2> HIDE DEF n
  <2> QED
    BY <1>5, <2>1, <2>2
<1>7. CASE SaveOff(h)
  <2> DEFINE n == [req[h].row EXCEPT !.state = "off", !.cred = 0]
  <2>1. n \in Row /\ n.state # "reauth"
    BY <1>1, Constants DEF Row
  <2>2. UserSaves(h, req[h].kind, n, 0)
    BY <1>7 DEF SaveOff
  <2> HIDE DEF n
  <2> QED
    BY <1>5, <2>1, <2>2
<1> QED
  BY <1>3, <1>4, <1>6, <1>7 DEF HandlerStep

LEMMA RoundsAskAfterRefusal ==
  ASSUME Shapes, RowsCoherent, AsksAfterRefusal,
         \/ StartRound \/ NextSource \/ Failed
         \/ \E k \in Kinds : Answered(k) \/ SaveSync(k)
  PROVE  AsksAfterRefusal'
<1> USE DEF AsksAfterRefusal, ReauthOnlyIfRefused, MayAsk
<1>1. /\ sync \in Round /\ sync.todo \subseteq Snapshot /\ sync.kind \in Kinds
      /\ sync.row \in Row /\ conn \in [Kinds -> Row]
  BY RoundUpdates DEF Shapes
<1>2. CASE StartRound
  <2>1. /\ UNCHANGED <<conn, revoked>> /\ sync'.pc = "next"
        /\ sync'.todo = {[kind |-> k, row |-> conn[k]] :
                           k \in {k \in Kinds : conn[k].state = "active"}}
    BY <1>1, <1>2 DEF StartRound, Round
  <2> QED
    BY <2>1
<1>3. CASE NextSource
  <2>1. PICK t \in sync.todo :
          sync' = [pc |-> "fetch", todo |-> sync.todo \ {t}, kind |-> t.kind, row |-> t.row]
    BY <1>3 DEF NextSource
  <2>2. UNCHANGED <<conn, revoked>>
    BY <1>3 DEF NextSource
  <2> QED
    BY <2>1, <2>2
<1>4. CASE Failed
  <2>1. sync'.todo = sync.todo /\ sync'.pc \in {"idle", "next"} /\ UNCHANGED <<conn, revoked>>
    BY <1>4, ProceedShape DEF Failed
  <2> QED
    BY <2>1
<1>5. ASSUME NEW k \in Kinds, Fetched(k) PROVE AsksAfterRefusal'
  <2>1. /\ UNCHANGED <<conn, revoked>> /\ sync'.pc = "save" /\ sync'.todo = sync.todo
        /\ sync'.row.state = "active"
    BY <1>1, <1>5 DEF Fetched, Round, Row
  <2> QED
    BY <2>1
<1>6. ASSUME NEW k \in Kinds, Refused(k) PROVE AsksAfterRefusal'
  <2>1. /\ UNCHANGED <<conn, revoked>> /\ sync'.pc = "save" /\ sync'.todo = sync.todo
        /\ sync'.row.cred = sync.row.cred /\ sync'.kind = k
    BY <1>1, <1>6 DEF Refused, Round, Row
  <2>2. sync.row.cred # 0
    BY <1>6 DEF RowsCoherent, Refused
  <2>3. MayAsk(k, sync.row.cred)
    BY <1>6, <2>2 DEF Refused
  <2> QED
    BY <2>1, <2>3
<1>7. ASSUME NEW k \in Kinds, SaveSync(k) PROVE AsksAfterRefusal'
  <2>1. sync'.todo = sync.todo /\ sync'.pc \in {"idle", "next"}
    BY <1>7, ProceedShape DEF SaveSync
  <2>2. /\ conn' = [conn EXCEPT ![k] = sync.row] /\ revoked' = revoked
        /\ sync.pc = "save" /\ sync.kind = k
    BY <1>7 DEF SaveSync
  <2> QED
    BY <1>1, <2>1, <2>2
<1> QED
  BY <1>2, <1>3, <1>4, <1>5, <1>6, <1>7 DEF Answered

LEMMA OthersAskNothing ==
  ASSUME Shapes, AsksAfterRefusal,
         \/ \E h \in Handlers : \/ RequestFails(h)
                               \/ \E k \in Kinds : SignedIn(h, k) \/ Disconnect(h, k)
         \/ Revoke \/ Restart \/ UNCHANGED vars
  PROVE  AsksAfterRefusal'
<1> USE DEF AsksAfterRefusal, ReauthOnlyIfRefused, MayAsk
<1>1. CASE \/ \E h \in Handlers : \/ RequestFails(h)
                                  \/ \E k \in Kinds : SignedIn(h, k) \/ Disconnect(h, k)
           \/ UNCHANGED vars
  <2>1. UNCHANGED <<conn, sync, revoked>>
    BY <1>1 DEF RequestFails, SignedIn, Disconnect, vars
  <2> QED
    BY <2>1
<1>2. CASE Revoke
  <2>1. UNCHANGED <<conn, sync>> /\ revoked \subseteq revoked'
    BY <1>2 DEF Revoke
  <2> QED
    BY <2>1
<1>3. CASE Restart
  <2>1. UNCHANGED <<conn, revoked>> /\ sync' = Asleep
    BY <1>3 DEF Restart
  <2> QED
    BY <2>1, RowShapes
<1> QED
  BY <1>1, <1>2, <1>3
(***************************************************************************)
(* State, credentials and cursor of a row always belong together, for any  *)
(* number of concurrent writers (SaveConnection, handleGmailCallback).     *)
(***************************************************************************)
THEOREM RowsStayCoherent == Spec => []RowsCoherent
<1>1. IInv => RowsCoherent
  BY DEF IInv
<1> QED
  BY <1>1, Invariance, PTL

(***************************************************************************)
(* What a row says is true: its parts belong together, and a source asks   *)
(* for a sign-in only if its credentials were refused (gmail.go and        *)
(* telegram.go, Sync; IsAuthError).                                        *)
(***************************************************************************)
THEOREM RowsStayTrue == Spec => []RowsAreTrue
<1>1. Init => AsksAfterRefusal
  BY RowShapes DEF Init, AsksAfterRefusal, ReauthOnlyIfRefused
<1>2. IInv /\ AsksAfterRefusal /\ [Next]_vars => AsksAfterRefusal'
  <2> SUFFICES ASSUME IInv, AsksAfterRefusal, [Next]_vars PROVE AsksAfterRefusal'
    OBVIOUS
  <2>1. Shapes /\ RowsCoherent
    BY ShapesAreTypes DEF IInv
  <2>2. CASE \E h \in Handlers : HandlerStep(h)
    BY <2>1, <2>2, RequestsAskNothing
  <2>3. CASE \/ StartRound \/ NextSource \/ Failed
             \/ \E k \in Kinds : Answered(k) \/ SaveSync(k)
    BY <2>1, <2>3, RoundsAskAfterRefusal
  <2>4. CASE \/ \E h \in Handlers : \/ RequestFails(h)
                                    \/ \E k \in Kinds : SignedIn(h, k) \/ Disconnect(h, k)
             \/ Revoke \/ Restart \/ UNCHANGED vars
    BY <2>1, <2>4, OthersAskNothing
  <2> QED
    BY <2>2, <2>3, <2>4 DEF Next
<1>3. IInv /\ AsksAfterRefusal => RowsAreTrue
  BY DEF IInv, AsksAfterRefusal, RowsAreTrue
<1> QED
  BY <1>1, <1>2, <1>3, Invariance, PTL DEF Spec

(***************************************************************************)
(* The user's last sign-in or disconnection stands unless a round of the   *)
(* scheduler that had read the row before was under way (gmail.go and      *)
(* telegram.go, Sync).                                                     *)
(***************************************************************************)
THEOREM UserDecides == Spec => []UserDecidesUnlessRaced
<1>1. IInv => UserDecidesUnlessRaced
  BY DEF IInv, CopiesAgree, UserDecidesUnlessRaced
<1> QED
  BY <1>1, Invariance, PTL
=============================================================================
