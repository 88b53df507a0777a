------------------------------ MODULE Migrations ------------------------------
(***************************************************************************)
(* How a process opens the database (postgres/db.go, Open): it brings the  *)
(* schema up to date, file by file, before it does anything else.  Several *)
(* processes may do so at once: the server, which compose starts again     *)
(* whenever it ends, and the command that fills in the demo feed.  One     *)
(* statement is one action.  A file is one transaction: what it changes is *)
(* seen by itself alone until the commit, a statement on a table that      *)
(* another transaction has touched waits for it, and a process that ends   *)
(* takes its transaction with it.                                          *)
(***************************************************************************)
EXTENDS Integers, Sequences, FiniteSets

CONSTANTS Procs,        \* processes that open the database
          Server,       \* the one of them that compose restarts
          Files,        \* the migrations by name, each a sequence of statements
          MaxFaults,    \* bound: failing statements and crashes
          MaxRuns       \* bound: starts of the other processes

\* A statement locks one table, creates things and drops columns IF EXISTS.
Things == UNION {UNION {Files[f][i].makes : i \in 1..Len(Files[f])} : f \in 1..Len(Files)}

ASSUME FilesOK ==
  /\ Files \in Seq(Seq([table : STRING, makes : SUBSET STRING, drops : SUBSET STRING]))
  /\ \A f \in 1..Len(Files) : Len(Files[f]) > 0
ASSUME BoundsOK == Server \in Procs /\ MaxFaults \in Nat /\ MaxRuns \in Nat

VARIABLES schema,       \* tables and columns, as committed
          applied,      \* rows of schema_migrations
          proc,         \* process |-> locals of Migrate and applyMigration
          faults, runs

mvars == <<schema, applied, proc, faults, runs>>

Last == Len(Files)
Between(pc, f) == [pc |-> pc, file |-> f, at |-> 0, made |-> {}, gone |-> {}]
Down == Between("down", 1)
InTransaction(p) == proc[p].pc \in {"statement", "record", "commit"}
Open(p) == proc[p].pc = "open"

\* Tables touched by the transaction of p; the schema as p sees it.
Held(p) == {Files[proc[p].file][i].table : i \in 1..proc[p].at}
View(p) == (schema \ proc[p].gone) \union proc[p].made

MInit == /\ schema = {} /\ applied = {}
         /\ proc = [p \in Procs |-> Down]
         /\ faults = 0 /\ runs = 0

Becomes(p, r) == proc' = [proc EXCEPT ![p] = r]
Goes(p, pc) == Becomes(p, [proc[p] EXCEPT !.pc = pc])

-----------------------------------------------------------------------------
(* The steps of Open, Migrate and applyMigration *)

\* main calls Open.  Compose starts the server again, a person the command.
Start(p) == /\ proc[p].pc = "down"
            /\ p # Server => runs < MaxRuns
            /\ runs' = IF p = Server THEN runs ELSE runs + 1
            /\ Goes(p, "journal")
            /\ UNCHANGED <<schema, applied, faults>>

\* CREATE TABLE IF NOT EXISTS schema_migrations.
CreateJournal(p) == /\ proc[p].pc = "journal"
                    /\ Goes(p, "check")
                    /\ UNCHANGED <<schema, applied, faults, runs>>

\* SELECT COUNT(*): an applied file is passed over, a missing one begins its transaction.
CheckVersion(p) ==
  /\ proc[p].pc = "check"
  /\ IF proc[p].file > Last THEN Goes(p, "open")
     ELSE IF proc[p].file \in applied
       THEN Becomes(p, [proc[p] EXCEPT !.file = @ + 1])
       ELSE Goes(p, "statement")
  /\ UNCHANGED <<schema, applied, faults, runs>>

\* Mutant: the statements are run outside the transaction.
AutoCommitted(p) ==
  LET s == Files[proc[p].file][proc[p].at + 1]
  IN /\ proc[p].pc = "statement"
     /\ IF s.makes \cap schema # {}
          THEN Becomes(p, Down) /\ UNCHANGED schema
          ELSE /\ schema' = (schema \ s.drops) \union s.makes
               /\ Becomes(p, [proc[p] EXCEPT !.at = @ + 1,
                     !.pc = IF proc[p].at + 1 = Len(Files[proc[p].file]) THEN "record" ELSE @])
     /\ UNCHANGED <<applied, faults, runs>>

\* tx.Exec(statement).  Creating what exists is an error, and every error is log.Fatalf.
RunStatement(p) ==
  LET file == Files[proc[p].file]
      s == file[proc[p].at + 1]
  IN /\ proc[p].pc = "statement"
     /\ \A q \in Procs \ {p} : InTransaction(q) => s.table \notin Held(q)
     /\ IF s.makes \cap View(p) # {}
          THEN Becomes(p, Down)
          ELSE Becomes(p, [proc[p] EXCEPT
                 !.at = @ + 1,
                 !.made = (@ \ s.drops) \union s.makes,
                 !.gone = (@ \ s.makes) \union s.drops,
                 !.pc = IF proc[p].at + 1 = Len(file) THEN "record" ELSE @])
     /\ UNCHANGED <<schema, applied, faults, runs>>

\* INSERT INTO schema_migrations: the version is the primary key.
Record(p) == /\ proc[p].pc = "record"
             /\ IF proc[p].file \in applied THEN Becomes(p, Down) ELSE Goes(p, "commit")
             /\ UNCHANGED <<schema, applied, faults, runs>>

Commit(p) == /\ proc[p].pc = "commit"
             /\ schema' = View(p)
             /\ applied' = applied \union {proc[p].file}
             /\ Becomes(p, Between("check", proc[p].file + 1))
             /\ UNCHANGED <<faults, runs>>

\* The process is killed, or a statement fails and main ends it; Postgres rolls back.
Crash(p) == /\ proc[p].pc # "down" /\ faults < MaxFaults
            /\ faults' = faults + 1
            /\ Becomes(p, Down)
            /\ UNCHANGED <<schema, applied, runs>>

\* The command has done its work.
Exit(p) == /\ Open(p) /\ p # Server
           /\ Becomes(p, Down)
           /\ UNCHANGED <<schema, applied, faults, runs>>

Opening(p) == \/ Start(p) \/ CreateJournal(p) \/ CheckVersion(p)
              \/ RunStatement(p) \/ Record(p) \/ Commit(p)
MNext == \E p \in Procs : Opening(p) \/ Crash(p) \/ Exit(p)
MSpec == MInit /\ [][MNext]_mvars

-----------------------------------------------------------------------------
(* Properties *)

Pcs == {"down", "journal", "check", "statement", "record", "commit", "open"}

MTypeOK == /\ schema \subseteq Things
           /\ applied \subseteq 1..Last
           /\ proc \in [Procs -> [pc : Pcs, file : 1..(Last + 1), at : Nat,
                                  made : SUBSET Things, gone : SUBSET STRING]]
           /\ \A p \in Procs :
                /\ InTransaction(p) => /\ proc[p].file <= Last
                                       /\ proc[p].at <= Len(Files[proc[p].file])
                /\ proc[p].pc = "statement" => proc[p].at < Len(Files[proc[p].file])
                /\ proc[p].pc \in {"record", "commit"}
                     => proc[p].at = Len(Files[proc[p].file])
                /\ ~InTransaction(p) => proc[p].at = 0
           /\ faults \in 0..MaxFaults /\ runs \in 0..MaxRuns

\* Statement <<g, j>> comes no later than statement i of file f.
Before(g, j, f, i) == g < f \/ (g = f /\ j <= i)

\* What the first i statements of file f leave, after all files before it.
SchemaUpTo(f, i) ==
  {t \in Things : \E g \in 1..f : \E j \in 1..Len(Files[g]) :
     /\ Before(g, j, f, i) /\ t \in Files[g][j].makes
     /\ \A h \in g..f : \A k \in 1..Len(Files[h]) :
          Before(h, k, f, i) /\ ~Before(h, k, g, j) => t \notin Files[h][k].drops}

SchemaAfter(f) == IF f = 0 THEN {} ELSE SchemaUpTo(f, Len(Files[f]))

\* A migration is applied whole or not at all (db.go:138), files in order, each once,
\* whoever runs them, whoever crashes and wherever, and a process that has opened the
\* database finds all of them applied: the schema is the one the applied files leave.
SchemaWhole == /\ \E f \in 0..Last : applied = 1..f /\ schema = SchemaAfter(f)
               /\ \A p \in Procs : Open(p) => applied = 1..Last
=============================================================================
