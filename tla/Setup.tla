-------------------------------- MODULE Setup --------------------------------
(***************************************************************************)
(* What fills an empty database once a process has opened it: the one user *)
(* that the first request creates (postgres/users.go, LocalUser), and the  *)
(* demo feed (services/seed), loaded by the command (Seed) and played by   *)
(* the server or by the command (PlayLiveQueue), beside requests of the    *)
(* browser that write the same rows.  One SQL statement is one action.     *)
(*                                                                         *)
(* The migrations are those of Migrations.  The requests are three that    *)
(* meet the demo: theme (PATCH /me without criteria), a sign-in once it    *)
(* has credentials, and opening a message; criteria and the worker are in  *)
(* MessageLifecycle, competing sign-ins and synchronisation in Connections.*)
(***************************************************************************)
EXTENDS Migrations

CONSTANTS Players,      \* PlayLiveQueue of a server
          Loaders,      \* main of cmd/seed: Seed, then PlayLiveQueue with --live
          Handlers,     \* requests in progress
          Home,         \* actor |-> its process
          NSeed, NLive, \* items of the demo feed and of the live queue
          KindOf,       \* item |-> its source
          MaxUsers, MaxRequests         \* bounds

Routines == Players \union Loaders
Actors == Routines \union Handlers
Items == 1..(NSeed + NLive)                     \* the live ones come last
Live == (NSeed + 1)..(NSeed + NLive)
Kinds == {KindOf[n] : n \in Items}              \* the keys of Accounts

ASSUME SetupOK ==
  /\ Home \in [Actors -> Procs]
  /\ \A a \in Players \union Handlers : Home[a] = Server
  /\ \A a \in Loaders : Home[a] # Server
  /\ NSeed \in Nat \ {0} /\ NLive \in Nat \ {0} /\ DOMAIN KindOf = Items
  /\ MaxUsers \in Nat \ {0} /\ MaxRequests \in Nat

VARIABLES users,        \* criteria of the rows of users, by id
          conn,         \* <<user, kind>> |-> whose credentials the row holds
          rows,         \* <<user, item>> |-> the row of the message
          requests,     \* how many were made
          actor,        \* locals of a routine or of a request
          overlapped,   \* history: two actors found the table of users empty
          mixed,        \* history: users whose demo criteria raced a profile request
          stranded      \* history: live rows whose closing was cut short

dvars == <<users, conn, rows, requests, actor, overlapped, mixed, stranded>>
vars == <<mvars, dvars>>

UserIds == 1..MaxUsers
Unread(status) == [status |-> status, read |-> FALSE]
NoRow == Unread("none")
Idle == [pc |-> "idle", op |-> "none", user |-> 1, criteria |-> "", kinds |-> {},
         kind |-> KindOf[1], item |-> 1, live |-> FALSE, row |-> NoRow]

DInit == /\ users = <<>>
         /\ conn = [c \in UserIds \X Kinds |-> "none"]
         /\ rows = [m \in UserIds \X Items |-> NoRow]
         /\ actor = [a \in Actors |-> Idle]
         /\ requests = 0 /\ overlapped = FALSE /\ mixed = {} /\ stranded = {}

Sets(a, r) == actor' = [actor EXCEPT ![a] = r]
Runs(a, pc) == Open(Home[a]) /\ actor[a].pc = pc

-----------------------------------------------------------------------------
(* LocalUser and GetOrCreateUser *)

\* Mutant: the demo writes its messages before their source.
FeedFirst(a, u, c) ==
  [actor[a] EXCEPT !.user = u, !.pc = IF actor[a].op = "demo" THEN "look" ELSE "saveUser"]

\* What an actor does once it has its user u, whose criteria it read as c.
WithUser(a, u, c) ==
  [actor[a] EXCEPT !.user = u, !.criteria = IF actor[a].op = "theme" THEN c ELSE "",
     !.pc = CASE actor[a].op = "demo" -> IF c = "" THEN "criteria" ELSE "lookup"
              [] actor[a].op = "theme" -> "saveUser"
              [] actor[a].op = "signin" -> "lookup"
              [] actor[a].op = "open" -> "readRow"]

\* Mutant: a user of its own for every demo.
OwnUser(a) ==
  /\ Runs(a, "user")
  /\ Sets(a, [actor[a] EXCEPT !.pc = "insertUser"])
  /\ overlapped' = (overlapped \/ \E b \in Actors : actor[b].pc = "insertUser")
  /\ UNCHANGED <<requests, users, conn, rows, mixed, stranded>>

\* SELECT ... ORDER BY id LIMIT 1.
FindUser(a) ==
  /\ Runs(a, "user")
  /\ IF users = <<>>
       THEN /\ Sets(a, [actor[a] EXCEPT !.pc = "insertUser"])
            /\ overlapped' = (overlapped \/ \E b \in Actors : actor[b].pc = "insertUser")
       ELSE Sets(a, WithUser(a, 1, users[1])) /\ UNCHANGED overlapped
  /\ UNCHANGED <<requests, users, conn, rows, mixed, stranded>>

\* CreateUser.
InsertUser(a) ==
  /\ Runs(a, "insertUser") /\ Len(users) < MaxUsers
  /\ users' = Append(users, "")
  /\ Sets(a, WithUser(a, Len(users) + 1, ""))
  /\ UNCHANGED <<requests, conn, rows, overlapped, mixed, stranded>>

\* GetOrCreateUser: SaveUser with the demo criteria, because there were none.
SaveCriteria(a) ==
  /\ Runs(a, "criteria")
  /\ users' = [users EXCEPT ![actor[a].user] = "demo"]
  /\ Sets(a, [actor[a] EXCEPT !.pc = "lookup"])
  /\ mixed' = mixed \union {u \in {actor[a].user} :
                 \E b \in Handlers : actor[b].pc = "saveUser" /\ actor[b].user = u}
  /\ UNCHANGED <<requests, conn, rows, overlapped, stranded>>

\* handleUpdateMe with a theme: SaveUser writes the criteria it read, too.
SaveUser(a) ==
  /\ Runs(a, "saveUser")
  /\ users' = [users EXCEPT ![actor[a].user] = actor[a].criteria]
  /\ Sets(a, Idle)
  /\ UNCHANGED <<requests, conn, rows, overlapped, mixed, stranded>>

-----------------------------------------------------------------------------
(* GetOrCreateConnection, of the database and of the demo *)

Source(a) == <<actor[a].user, actor[a].kind>>

\* One source after another, in any order: Seed ranges over a map.
Lookup(a, k) ==
  /\ Runs(a, "lookup") /\ k \in actor[a].kinds
  /\ Sets(a, [actor[a] EXCEPT !.kind = k,
       !.pc = IF conn[<<actor[a].user, k>>] = "none" THEN "insertConn" ELSE "saveConn"])
  /\ UNCHANGED <<requests, users, conn, rows, overlapped, mixed, stranded>>

\* An error: Seed and PlayLiveQueue give up, a request answers 500.
Ended(a) == IF a \in Handlers THEN Idle ELSE [Idle EXCEPT !.pc = "failed"]

\* A user has one row of a kind: the unique key refuses a second.
InsertConn(a) ==
  /\ Runs(a, "insertConn")
  /\ IF conn[Source(a)] = "none"
       THEN conn' = [conn EXCEPT ![Source(a)] = "off"]
            /\ Sets(a, [actor[a] EXCEPT !.pc = "saveConn"])
       ELSE Sets(a, Ended(a)) /\ UNCHANGED conn
  /\ UNCHANGED <<requests, users, rows, overlapped, mixed, stranded>>

\* SaveConnection of the demo's state, or of a sign-in: either replaces the other's.
SaveConn(a) ==
  /\ Runs(a, "saveConn")
  /\ LET left == actor[a].kinds \ {actor[a].kind}
     IN IF a \in Handlers
          THEN conn' = [conn EXCEPT ![Source(a)] = "signed in"] /\ Sets(a, Idle)
          ELSE /\ conn' = [conn EXCEPT ![Source(a)] = "demo"]
               /\ Sets(a, [actor[a] EXCEPT !.kinds = left,
                            !.pc = IF left = {} THEN "look" ELSE "lookup"])
  /\ UNCHANGED <<requests, users, rows, overlapped, mixed, stranded>>

-----------------------------------------------------------------------------
(* Seed and playOne *)

Message(a) == <<actor[a].user, actor[a].item>>
Playing(a) == a \in Routines /\ actor[a].item \in Live

Play(r, n) == [r EXCEPT !.pc = "user", !.item = n, !.kinds = {KindOf[n]}]

Done(r) == [Idle EXCEPT !.pc = "done", !.op = r.op, !.user = r.user]

\* PlayLiveQueue, if the queue is played at all: playOne begins anew.
NextLive(a, n) == IF n \in Live /\ actor[a].live THEN Play(actor[a], n) ELSE Done(actor[a])

\* Past the item in hand: Seed goes on with the next of the feed, or is done with it.
NextItem(a) ==
  LET n == actor[a].item + 1
  IN IF n \in Items \ Live THEN [actor[a] EXCEPT !.pc = "look", !.item = n]
                            ELSE NextLive(a, n)

\* main of the server with DEMO_LIVE, or of the command with --live or without.
Begin(a, live) ==
  /\ Runs(a, "idle") /\ a \in Routines /\ (a \in Players => live)
  /\ LET r == [Idle EXCEPT !.op = "demo", !.live = live]
     IN Sets(a, IF a \in Loaders THEN [r EXCEPT !.pc = "user", !.kinds = Kinds]
                                 ELSE Play(r, NSeed + 1))
  /\ UNCHANGED <<requests, users, conn, rows, overlapped, mixed, stranded>>

\* Mutant: a message that is there ends the whole run.
StopsAtFirst(a) ==
  /\ Runs(a, "look")
  /\ Sets(a, [actor[a] EXCEPT !.pc = IF rows[Message(a)] # NoRow THEN "done" ELSE "insert"])
  /\ UNCHANGED <<requests, users, conn, rows, overlapped, mixed, stranded>>

\* MessageByExternalID: what is there is passed over, whatever its status.
Look(a) ==
  /\ Runs(a, "look")
  /\ Sets(a, IF rows[Message(a)] # NoRow THEN NextItem(a)
                                         ELSE [actor[a] EXCEPT !.pc = "insert"])
  /\ UNCHANGED <<requests, users, conn, rows, overlapped, mixed, stranded>>

\* Rated in advance, or in the process of it: the verdict follows after a pause.
SeedRow == Unread("DONE")
LiveRow == Unread("PROCESSING")

\* InsertMessage; the key of a message is unique.
InsertRow(a) ==
  /\ Runs(a, "insert")
  /\ IF rows[Message(a)] # NoRow
       THEN Sets(a, Ended(a)) /\ UNCHANGED rows
       ELSE IF Playing(a)
         THEN /\ rows' = [rows EXCEPT ![Message(a)] = LiveRow]
              /\ Sets(a, [actor[a] EXCEPT !.pc = "pause"])
         ELSE /\ rows' = [rows EXCEPT ![Message(a)] = SeedRow]
              /\ Sets(a, NextItem(a))
  /\ UNCHANGED <<requests, users, conn, overlapped, mixed, stranded>>

\* A request holds the row m as it was before.
HeldByRequest(m) == \E b \in Handlers : actor[b].pc = "saveRow" /\ Message(b) = m

\* Mutant: the row is left alone if it was opened in the meantime.
SavesIfUnread(a) ==
  /\ Runs(a, "pause")
  /\ rows' = [rows EXCEPT ![Message(a)].status = IF rows[Message(a)].read THEN @ ELSE "DONE"]
  /\ Sets(a, NextItem(a))
  /\ stranded' = stranded \union {m \in {Message(a)} : HeldByRequest(m)}
  /\ UNCHANGED <<requests, users, conn, overlapped, mixed>>

\* After the pause: SaveMessage writes the copy made at the insertion, unread.
SaveVerdict(a) ==
  /\ Runs(a, "pause")
  /\ rows' = [rows EXCEPT ![Message(a)] = Unread("DONE")]
  /\ Sets(a, NextItem(a))
  /\ stranded' = stranded \union {m \in {Message(a)} : HeldByRequest(m)}
  /\ UNCHANGED <<requests, users, conn, overlapped, mixed>>

-----------------------------------------------------------------------------
(* Requests, failures, crashes *)

Asks(h, r) == /\ Runs(h, "idle") /\ h \in Handlers
              /\ requests < MaxRequests /\ requests' = requests + 1
              /\ Sets(h, [r EXCEPT !.pc = "user"])
              /\ UNCHANGED <<users, conn, rows, overlapped, mixed, stranded>>

AskTheme(h) == Asks(h, [Idle EXCEPT !.op = "theme"])
AskSignIn(h, k) == Asks(h, [Idle EXCEPT !.op = "signin", !.kinds = {k}])

\* The other messages are written once, so that opening them disturbs nothing here.
AskOpen(h, n) == Asks(h, [Idle EXCEPT !.op = "open", !.item = n])

\* handleMarkRead: 404, nothing to do, or a copy that is written whole.
ReadRow(h) ==
  /\ Runs(h, "readRow")
  /\ LET row == rows[Message(h)]
     IN Sets(h, IF row = NoRow \/ row.read
                  THEN Idle
                  ELSE [actor[h] EXCEPT !.pc = "saveRow", !.row = [row EXCEPT !.read = TRUE]])
  /\ UNCHANGED <<requests, users, conn, rows, overlapped, mixed, stranded>>

SaveRow(h) ==
  /\ Runs(h, "saveRow")
  /\ rows' = [rows EXCEPT ![Message(h)] = actor[h].row]
  /\ Sets(h, Idle)
  /\ UNCHANGED <<requests, users, conn, overlapped, mixed, stranded>>

Stranding(A) == stranded' = stranded \union {Message(a) : a \in {b \in A : actor[b].pc = "pause"}}

\* A statement fails, and with it the routine or the request.
Fault(a) ==
  /\ actor[a].pc \notin {"idle", "done", "failed"} /\ faults < MaxFaults
  /\ faults' = faults + 1
  /\ Sets(a, Ended(a)) /\ Stranding({a})
  /\ UNCHANGED <<schema, applied, proc, runs, requests, users, conn, rows, overlapped, mixed>>

\* The process ends, and what runs in it.
Dies(p) == LET A == {a \in Actors : Home[a] = p}
           IN /\ actor' = [a \in Actors |-> IF a \in A THEN Idle ELSE actor[a]]
              /\ Stranding(A)
              /\ UNCHANGED <<requests, users, conn, rows, overlapped, mixed>>

\* The command ends with its work, or at once with its error.
Leaves(p) == /\ \A a \in Actors : Home[a] = p => actor[a].pc \in {"idle", "done", "failed"}
             /\ Exit(p) /\ Dies(p)

ActorStep(a) ==
  /\ UNCHANGED mvars
  /\ \/ FindUser(a) \/ InsertUser(a) \/ SaveCriteria(a) \/ SaveUser(a)
     \/ \E k \in Kinds : Lookup(a, k)
     \/ InsertConn(a) \/ SaveConn(a) \/ Look(a) \/ InsertRow(a) \/ SaveVerdict(a)
     \/ ReadRow(a) \/ SaveRow(a)
     \/ \E live \in BOOLEAN : Begin(a, live)
     \/ AskTheme(a)
     \/ \E k \in Kinds : AskSignIn(a, k)
     \/ \E n \in Live : AskOpen(a, n)

Init == MInit /\ DInit
Next == \/ \E p \in Procs : \/ Opening(p) /\ UNCHANGED dvars
                            \/ Crash(p) /\ Dies(p)
                            \/ Leaves(p)
        \/ \E a \in Actors : ActorStep(a) \/ Fault(a)

\* Postgres, and compose for the server, go on; a person need not.
Fairness == /\ WF_vars(Opening(Server) /\ UNCHANGED dvars)
            /\ \A p \in Procs \ {Server} :
                 WF_vars(Opening(p) /\ proc[p].pc # "down" /\ UNCHANGED dvars)
Spec == Init /\ [][Next]_vars /\ Fairness

-----------------------------------------------------------------------------
(* Properties *)

\* Tables and locals have their types, and a message belongs to a connection that exists.
TypeOK ==
  /\ MTypeOK
  /\ users \in Seq({"", "demo"}) /\ Len(users) <= MaxUsers
  /\ conn \in [UserIds \X Kinds -> {"none", "off", "demo", "signed in"}]
  /\ rows \in [UserIds \X Items -> [status : {"none", "PROCESSING", "DONE"}, read : BOOLEAN]]
  /\ \A u \in UserIds, n \in Items :
       rows[<<u, n>>] # NoRow => u <= Len(users) /\ conn[<<u, KindOf[n]>>] # "none"
  /\ \A a \in Actors : /\ actor[a].user \in UserIds /\ actor[a].item \in Items
                       /\ actor[a].pc # "idle" => Open(Home[a])
  /\ requests \in 0..MaxRequests /\ overlapped \in BOOLEAN /\ mixed \subseteq UserIds
  /\ stranded \subseteq UserIds \X Live

\* The server comes up: whatever it meets in the database, compose starts it until Open
\* succeeds, also when another process migrates at the same time or died in the midst of it.
ServerComesUp == []<>Open(Server)

\* There is one user, and one demo feed, unless two actors found no user at the same time.
\* A Seed that came to its end, after whatever crashes and repetitions, left this user every
\* source and every item, and the demo criteria if no profile request crossed it.
OneFeed ==
  ~overlapped =>
    /\ Len(users) <= 1
    /\ \A a \in Loaders : actor[a].op = "demo" /\ (actor[a].item \in Live \/ actor[a].pc = "done")
         => /\ \A n \in Items \ Live : rows[<<1, n>>] # NoRow
            /\ \A k \in Kinds : conn[<<1, k>>] \in {"demo", "signed in"}
            /\ users[1] = "" => 1 \in mixed

\* A live message that is being processed has somebody who will close it, unless that one
\* was stopped in its pause or a request held the row across it; nothing repairs it after.
LiveCloses ==
  \A u \in UserIds, n \in Live :
    rows[<<u, n>>].status = "PROCESSING"
      => \/ \E a \in Routines : actor[a].pc = "pause" /\ Message(a) = <<u, n>>
         \/ <<u, n>> \in stranded
=============================================================================
