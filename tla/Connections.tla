----------------------------- MODULE Connections -----------------------------
(***************************************************************************)
(* The rows of table connection and those who write them: the handlers     *)
(* that finish a sign-in or disconnect a source (routers/connections.go)   *)
(* and the scheduler's goroutine (services/scheduler, gmail.Sync,          *)
(* telegram.Sync).  SaveConnection writes every mutable column of the copy *)
(* its caller holds, so a copy read earlier brings old values back.        *)
(*                                                                         *)
(* Credentials are numbered in the order in which they are granted, 0 is   *)
(* none; cursor stands for sync_cursor and last_sync_at and is the number  *)
(* of the credentials it was obtained with.  How a sign-in gets its        *)
(* credentials, what a synchronisation stores (MessageLifecycle) and the   *)
(* cache are left out.                                                     *)
(***************************************************************************)
EXTENDS Integers, FiniteSets

CONSTANTS Kinds,        \* the services a user can connect, gmail and telegram
          Handlers,     \* requests in progress at a time
          QuotaKinds,   \* kinds whose provider also answers 403 to too many calls
          MaxLogins, MaxRequests, MaxCrashes   \* bounds for TLC

ASSUME ConstantsOK == /\ Kinds # {} /\ QuotaKinds \subseteq Kinds
                      /\ MaxLogins \in Nat /\ MaxRequests \in Nat /\ MaxCrashes \in Nat

VARIABLES conn,         \* kind |-> its row
          req,          \* handler |-> [pc, kind, cred, row]
          sync,         \* the scheduler: [pc, todo, kind, row]
          revoked,      \* credentials the provider no longer accepts
          granted,      \* how many credentials were granted so far
          wish,         \* history: kind |-> credentials of the user's last save
          raced,        \* history: kind |-> was a copy being synchronised then
          requests, crashes

vars == <<conn, req, sync, revoked, granted, wish, raced, requests, crashes>>

Creds == 0..MaxLogins
Row == [state : {"none", "off", "active", "reauth"}, cred : Creds, cursor : Creds]
NoRow == [state |-> "none", cred |-> 0, cursor |-> 0]
Stored(k) == conn[k].state # "none"
FreshRow == [NoRow EXCEPT !.state = "off"]
Snapshot == [kind : Kinds, row : Row]

AtRest == [pc |-> "idle", kind |-> CHOOSE k \in Kinds : TRUE, cred |-> 0, row |-> NoRow]
Asleep == [pc |-> "idle", todo |-> {}, kind |-> CHOOSE k \in Kinds : TRUE, row |-> NoRow]

Init == /\ conn = [k \in Kinds |-> NoRow]
        /\ req = [h \in Handlers |-> AtRest]
        /\ sync = Asleep
        /\ revoked = {} /\ granted = 0 /\ requests = 0 /\ crashes = 0
        /\ wish = [k \in Kinds |-> 0]
        /\ raced = [k \in Kinds |-> FALSE]

-----------------------------------------------------------------------------
(* Signing in: handleGmailCallback and handleTelegramConfirm once they hold *)
(* credentials, and GetOrCreateConnection                                   *)

Goto(h, at) == req' = [req EXCEPT ![h].pc = at]
Finish(h) == req' = [req EXCEPT ![h] = AtRest]

\* The user is done with a request and with it decides what the row should hold.
UserSaves(h, k, row, decision) ==
  /\ conn' = [conn EXCEPT ![k] = row]
  /\ wish' = [wish EXCEPT ![k] = decision]
  /\ raced' = [raced EXCEPT ![k] = /\ sync.pc # "idle"
                                   /\ \/ sync.pc # "next" /\ sync.kind = k
                                      \/ \E t \in sync.todo : t.kind = k]
  /\ Finish(h)
  /\ UNCHANGED <<sync, revoked, granted, requests, crashes>>

SignedIn(h, k) == /\ req[h].pc = "idle"
                  /\ requests < MaxRequests /\ granted < MaxLogins
                  /\ requests' = requests + 1
                  /\ granted' = granted + 1
                  /\ req' = [req EXCEPT ![h] = [pc |-> "lookup", kind |-> k,
                                                cred |-> granted + 1, row |-> NoRow]]
                  /\ UNCHANGED <<conn, sync, revoked, wish, raced, crashes>>

Lookup(h) == /\ req[h].pc = "lookup"
             /\ req' = [req EXCEPT ![h].row = conn[req[h].kind],
                                   ![h].pc = IF ~Stored(req[h].kind)
                                             THEN "insert" ELSE "login"]
             /\ UNCHANGED <<conn, sync, revoked, granted, wish, raced, requests, crashes>>

\* UNIQUE (user_id, kind) refuses the second of two inserts: that request ends
\* with an error and its credentials are lost.
InsertRow(h) == /\ req[h].pc = "insert"
                /\ \/ /\ ~Stored(req[h].kind)
                      /\ conn' = [conn EXCEPT ![req[h].kind] = FreshRow]
                      /\ req' = [req EXCEPT ![h].row = FreshRow, ![h].pc = "login"]
                   \/ /\ Stored(req[h].kind)
                      /\ Finish(h)
                      /\ UNCHANGED conn
                /\ UNCHANGED <<sync, revoked, granted, wish, raced, requests, crashes>>

\* Mutant: the mark of the account connected before is kept.
LoginKeepsCursor(h) ==
  /\ req[h].pc = "login"
  /\ UserSaves(h, req[h].kind, [req[h].row EXCEPT !.state = "active", !.cred = req[h].cred],
               req[h].cred)

\* Mutant: a row that asked for a sign-in goes on asking.
LoginKeepsState(h) ==
  /\ req[h].pc = "login"
  /\ UserSaves(h, req[h].kind,
               [req[h].row EXCEPT !.state = IF @ = "off" THEN "active" ELSE @,
                                  !.cred = req[h].cred, !.cursor = 0],
               req[h].cred)

\* New credentials, active, and the marks of the last synchronisation erased.
SaveLogin(h) ==
  /\ req[h].pc = "login"
  /\ UserSaves(h, req[h].kind, [req[h].row EXCEPT !.state = "active",
                                                  !.cred = req[h].cred, !.cursor = 0],
               req[h].cred)

-----------------------------------------------------------------------------
(* handleDisconnect *)

\* Mutant: a source that was never connected is not told from one that was.
DisconnectsAnything(h, k) ==
  /\ req[h].pc = "idle"
  /\ requests < MaxRequests
  /\ requests' = requests + 1
  /\ req' = [req EXCEPT ![h] = [pc |-> "off", kind |-> k, cred |-> 0, row |-> conn[k]]]
  /\ UNCHANGED <<conn, sync, revoked, granted, wish, raced, crashes>>

Disconnect(h, k) == /\ req[h].pc = "idle"
                    /\ requests < MaxRequests
                    /\ Stored(k)
                    /\ requests' = requests + 1
                    /\ req' = [req EXCEPT ![h] = [pc |-> "off", kind |-> k,
                                                  cred |-> 0, row |-> conn[k]]]
                    /\ UNCHANGED <<conn, sync, revoked, granted, wish, raced, crashes>>

\* Mutant: the credentials are left to the next sign-in.
SaveOffKeepsCredentials(h) ==
  /\ req[h].pc = "off"
  /\ UserSaves(h, req[h].kind, [req[h].row EXCEPT !.state = "off"], 0)

SaveOff(h) ==
  /\ req[h].pc = "off"
  /\ UserSaves(h, req[h].kind, [req[h].row EXCEPT !.state = "off", !.cred = 0], 0)

\* A statement fails: the client is answered 500, the row stays as it is.
RequestFails(h) == /\ req[h].pc # "idle"
                   /\ Finish(h)
                   /\ UNCHANGED <<conn, sync, revoked, granted, wish, raced, requests, crashes>>

-----------------------------------------------------------------------------
(* The scheduler: SyncAll, and Sync of both kinds *)

\* One SELECT of the active rows serves the whole round.
StartRound == /\ sync.pc = "idle"
              /\ \E k \in Kinds : conn[k].state = "active"
              /\ sync' = [sync EXCEPT !.pc = "next",
                            !.todo = {[kind |-> k, row |-> conn[k]] :
                                        k \in {k \in Kinds : conn[k].state = "active"}}]
              /\ UNCHANGED <<conn, req, revoked, granted, wish, raced, requests, crashes>>

\* The rows are visited by id; as either may be the older, any order is allowed.
NextSource == /\ sync.pc = "next"
              /\ \E t \in sync.todo :
                   sync' = [pc |-> "fetch", todo |-> sync.todo \ {t},
                            kind |-> t.kind, row |-> t.row]
              /\ UNCHANGED <<conn, req, revoked, granted, wish, raced, requests, crashes>>

\* The source is done with; after the last one the goroutine waits for a tick.
Proceed == sync' = IF sync.todo = {} THEN Asleep
                   ELSE [sync EXCEPT !.pc = "next", !.row = NoRow]

\* The provider serves the letters: the copy gets the new mark.
Fetched(k) == /\ sync.pc = "fetch" /\ sync.kind = k
              /\ sync.row.cred # 0 /\ sync.row.cred \notin revoked
              /\ sync' = [sync EXCEPT !.pc = "save", !.row.state = "active",
                                      !.row.cursor = sync.row.cred]
              /\ UNCHANGED <<conn, req, revoked, granted, wish, raced, requests, crashes>>

\* Mutant: a refusal is taken for a failure that may pass.
RefusalPasses(k) == /\ sync.pc = "fetch" /\ sync.kind = k
                    /\ \/ sync.row.cred = 0 \/ sync.row.cred \in revoked
                       \/ k \in QuotaKinds
                    /\ Proceed
                    /\ UNCHANGED <<conn, req, revoked, granted, wish, raced, requests, crashes>>

\* No or revoked credentials, or what IsAuthError takes for them.
Refused(k) == /\ sync.pc = "fetch" /\ sync.kind = k
              /\ \/ sync.row.cred = 0 \/ sync.row.cred \in revoked
                 \/ k \in QuotaKinds
              /\ sync' = [sync EXCEPT !.pc = "save", !.row.state = "reauth"]
              /\ UNCHANGED <<conn, req, revoked, granted, wish, raced, requests, crashes>>

\* Any other failure, the one of the final save included, leaves the row for
\* the next round.
Failed == /\ sync.pc \in {"fetch", "save"}
          /\ Proceed
          /\ UNCHANGED <<conn, req, revoked, granted, wish, raced, requests, crashes>>

SaveSync(k) == /\ sync.pc = "save" /\ sync.kind = k
               /\ conn' = [conn EXCEPT ![k] = sync.row]
               /\ Proceed
               /\ UNCHANGED <<req, revoked, granted, wish, raced, requests, crashes>>

-----------------------------------------------------------------------------
(* The environment *)

\* The user or the provider withdraws credentials that were granted.
Revoke == \E c \in 1..granted : /\ c \notin revoked
                                /\ revoked' = revoked \union {c}
                                /\ UNCHANGED <<conn, req, sync, granted, wish, raced,
                                               requests, crashes>>

\* A restart: requests and the round in progress are gone, the rows stay.
Restart == /\ crashes < MaxCrashes
           /\ crashes' = crashes + 1
           /\ req' = [h \in Handlers |-> AtRest]
           /\ sync' = Asleep
           /\ UNCHANGED <<conn, revoked, granted, wish, raced, requests>>

HandlerStep(h) == Lookup(h) \/ InsertRow(h) \/ SaveLogin(h) \/ SaveOff(h)
Answered(k) == Fetched(k) \/ Refused(k)

Next == \/ \E h \in Handlers : \/ HandlerStep(h) \/ RequestFails(h)
                               \/ \E k \in Kinds : SignedIn(h, k) \/ Disconnect(h, k)
        \/ StartRound \/ NextSource \/ Failed
        \/ \E k \in Kinds : Answered(k) \/ SaveSync(k)
        \/ Revoke \/ Restart

\* The ticker fires, and of the attempts at a source some are answered and
\* saved: a network or a database that failed every single time would excuse
\* the scheduler from everything.
Fairness == /\ WF_vars(StartRound) /\ WF_vars(NextSource)
            /\ \A k \in Kinds : SF_vars(Answered(k)) /\ SF_vars(SaveSync(k))

Spec == Init /\ [][Next]_vars /\ Fairness

-----------------------------------------------------------------------------
(* Properties *)

(***************************************************************************)
(* The rows and the copies of them that requests and the scheduler hold    *)
(* keep their shape, and what a handler is about to save is a copy of a    *)
(* row that exists (handleDisconnect's 404, GetOrCreateConnection).        *)
(***************************************************************************)
TypeOK ==
  /\ conn \in [Kinds -> Row]
  /\ req \in [Handlers -> [pc : {"idle", "lookup", "insert", "login", "off"},
                           kind : Kinds, cred : Creds, row : Row]]
  /\ \A h \in Handlers : /\ req[h].pc \in {"login", "off"} => req[h].row.state # "none"
                         /\ req[h].pc \in {"lookup", "insert", "login"} => req[h].cred # 0
  /\ sync \in [pc : {"idle", "next", "fetch", "save"}, todo : SUBSET Snapshot,
               kind : Kinds, row : Row]
  /\ sync.pc = "idle" => sync.todo = {}
  /\ revoked \subseteq 1..granted /\ granted \in Creds
  /\ wish \in [Kinds -> Creds] /\ raced \in [Kinds -> BOOLEAN]
  /\ requests \in 0..MaxRequests /\ crashes \in 0..MaxCrashes

\* A row whose state, credentials and mark of the last synchronisation agree.
Coherent(row) ==
  /\ row.cred # 0 <=> row.state \in {"active", "reauth"}
  /\ row.cred # 0 => row.cursor \in {0, row.cred}

(***************************************************************************)
(* However the writers interleave, a row is never half of one writer's and *)
(* half of another's: connected means credentials are there, off means     *)
(* they are erased, and the cursor belongs to the account connected now,   *)
(* so that a new account is never read from the old one's place            *)
(* (handleGmailCallback's reset, SaveConnection's whole row).              *)
(***************************************************************************)
RowsCoherent ==
  /\ \A k \in Kinds : Coherent(conn[k])
  /\ sync.pc \in {"fetch", "save"} => Coherent(sync.row) /\ sync.row.cred # 0
  /\ \A t \in sync.todo : Coherent(t.row) /\ t.row.cred # 0

(***************************************************************************)
(* The row holds what the user last decided - these credentials or none -  *)
(* unless the scheduler was in a round that had read the row before that   *)
(* decision: the one way in which a sign-in or a disconnection is undone.  *)
(***************************************************************************)
UserDecidesUnlessRaced ==
  \A k \in Kinds : ~raced[k] => conn[k].cred = wish[k]

(***************************************************************************)
(* A source whose credentials are no longer accepted does not stay active  *)
(* for good: the next answered round asks the user to sign in again        *)
(* (Sync's reauth branch; docs/00-product-spec.md:94).                     *)
(***************************************************************************)
Dead(k) == conn[k].state = "active" /\ conn[k].cred \in revoked
RevocationIsNoticed == \A k \in Kinds : Dead(k) ~> ~Dead(k)

(***************************************************************************)
(* A source asks for a new sign-in only when the credentials it has were   *)
(* refused: revoked, or taken for revoked by IsAuthError when the provider *)
(* answers 403 to too many calls (docs/00-product-spec.md:94,              *)
(* gmail.go:364-377), and never when they were replaced meanwhile.         *)
(***************************************************************************)
ReauthOnlyIfRefused ==
  \A k \in Kinds : conn[k].state = "reauth" => conn[k].cred \in revoked \/ k \in QuotaKinds

(***************************************************************************)
(* What a row says of the source is true: its parts are of one account,    *)
(* and the user is bothered with it only for a reason.                     *)
(***************************************************************************)
RowsAreTrue == RowsCoherent /\ ReauthOnlyIfRefused
=============================================================================
