---------------------------- MODULE SetupProofs ----------------------------
(***************************************************************************)
(* Four results for any processes, actors, files, items and bounds.        *)
(*                                                                         *)
(* The migrations are applied whole, in order and once.  What makes it so  *)
(* is the lock of a file's first statement: of two transactions of one     *)
(* file, only one has run a statement, and until it commits nobody else    *)
(* changes the schema.                                                     *)
(*                                                                         *)
(* A live message of the demo is closed by the routine in whose pause it   *)
(* is, unless that one was stopped or a request held the row.              *)
(*                                                                         *)
(* There is one user while nobody looked for it twice at a time, and the   *)
(* feed of a routine that is through holds each item once, whatever was    *)
(* begun and stopped before.  The variables keep their shape.              *)
(***************************************************************************)
EXTENDS Setup, SequenceTheorems, TLAPS

Shape == [pc : Pcs, file : 1..(Last + 1), at : Nat,
          made : SUBSET Things, gone : SUBSET STRING]

\* The files applied are the first ones, and the schema is what they leave.
Prefix == \E f \in 0..Last : applied = 1..f /\ schema = SchemaAfter(f)

\* A process passes over no file, and sees the schema as far as it has come.
OnTrack(p) ==
  /\ 1..(proc[p].file - 1) \subseteq applied
  /\ proc[p].pc = "open" => proc[p].file = Last + 1
  /\ proc[p].at = 0 => proc[p].made = {} /\ proc[p].gone = {}
  /\ proc[p].pc = "commit" => proc[p].file \notin applied
  /\ proc[p].at > 0 /\ proc[p].file \notin applied
       => View(p) = SchemaUpTo(proc[p].file, proc[p].at)

\* No two processes are past the first statement of one file.
Alone == \A p, q \in Procs :
           p # q /\ proc[p].at > 0 /\ proc[q].at > 0 => proc[p].file # proc[q].file

IInv == MTypeOK /\ Prefix /\ (\A p \in Procs : OnTrack(p)) /\ Alone

-----------------------------------------------------------------------------
(* Files and what they leave *)

LEMMA FileFacts ==
  /\ Last \in Nat
  /\ \A f \in 1..Last :
       /\ Len(Files[f]) \in Nat \ {0}
       /\ \A i \in 1..Len(Files[f]) :
            /\ Files[f][i] \in [table : STRING, makes : SUBSET STRING, drops : SUBSET STRING]
            /\ Files[f][i].makes \subseteq Things
            /\ Files[f][i].drops \subseteq STRING
<1>1. Last \in Nat
  BY FilesOK DEF Last
<1>2. ASSUME NEW f \in 1..Last
      PROVE  /\ Files[f] \in Seq([table : STRING, makes : SUBSET STRING, drops : SUBSET STRING])
             /\ Len(Files[f]) \in Nat \ {0}
  BY FilesOK DEF Last
<1>3. ASSUME NEW f \in 1..Last, NEW i \in 1..Len(Files[f])
      PROVE  /\ Files[f][i] \in [table : STRING, makes : SUBSET STRING, drops : SUBSET STRING]
             /\ Files[f][i].drops \subseteq STRING
  <2> DEFINE S == [table : STRING, makes : SUBSET STRING, drops : SUBSET STRING]
             file == Files[f]
  <2>1. file \in Seq(S) /\ i \in 1..Len(file)
    BY <1>2
  <2> HIDE DEF S, file
  <2>2. file[i] \in S
    BY <2>1
  <2> USE DEF S, file
  <2>3. QED
    BY <2>2
<1>4. ASSUME NEW f \in 1..Last, NEW i \in 1..Len(Files[f])
      PROVE  Files[f][i].makes \subseteq Things
  BY DEF Things, Last
<1>5. QED
  BY <1>1, <1>2, <1>3, <1>4

\* Nothing of a file leaves what the files before it left.
LEMMA NothingYet == \A f \in 1..Last : SchemaUpTo(f, 0) = SchemaAfter(f - 1)
<1>1. SUFFICES ASSUME NEW f \in 1..Last PROVE SchemaUpTo(f, 0) = SchemaAfter(f - 1)
  OBVIOUS
<1>2. CASE f = 1
  BY <1>2, FileFacts DEF SchemaUpTo, SchemaAfter, Before
<1>3. CASE f > 1
  <2>1. f \in Nat /\ f - 1 \in 1..Last /\ f - 1 # 0 /\ Len(Files[f - 1]) \in Nat
    BY <1>3, FileFacts
  <2>2. \A g \in 1..(f - 1) : \A j \in 1..Len(Files[g]) :
          /\ Before(g, j, f, 0)
          /\ Before(g, j, f - 1, Len(Files[f - 1]))
    BY <2>1, FileFacts DEF Before
  <2>3. \A j \in 1..Len(Files[f]) : ~Before(f, j, f, 0)
    BY FileFacts DEF Before
  <2>4. SchemaUpTo(f, 0) \subseteq SchemaUpTo(f - 1, Len(Files[f - 1]))
    <3>1. SUFFICES ASSUME NEW t \in SchemaUpTo(f, 0)
                   PROVE  t \in SchemaUpTo(f - 1, Len(Files[f - 1]))
      OBVIOUS
    <3>2. PICK g \in 1..f : \E j \in 1..Len(Files[g]) :
            /\ Before(g, j, f, 0) /\ t \in Files[g][j].makes
            /\ \A h \in g..f : \A k \in 1..Len(Files[h]) :
                 Before(h, k, f, 0) /\ ~Before(h, k, g, j) => t \notin Files[h][k].drops
      BY <3>1 DEF SchemaUpTo
    <3>3. g \in 1..(f - 1)
      BY <3>2, <2>3
    <3>4. QED
      BY <3>2, <3>3, <2>1, <2>2 DEF SchemaUpTo
  <2>5. SchemaUpTo(f - 1, Len(Files[f - 1])) \subseteq SchemaUpTo(f, 0)
    <3>1. SUFFICES ASSUME NEW t \in SchemaUpTo(f - 1, Len(Files[f - 1]))
                   PROVE  t \in SchemaUpTo(f, 0)
      OBVIOUS
    <3>2. PICK g \in 1..(f - 1) : \E j \in 1..Len(Files[g]) :
            /\ t \in Files[g][j].makes
            /\ \A h \in g..(f - 1) : \A k \in 1..Len(Files[h]) :
                 /\ Before(h, k, f - 1, Len(Files[f - 1])) /\ ~Before(h, k, g, j)
                 => t \notin Files[h][k].drops
      BY <3>1 DEF SchemaUpTo
    <3>3. PICK j \in 1..Len(Files[g]) :
            /\ t \in Files[g][j].makes
            /\ \A h \in g..(f - 1) : \A k \in 1..Len(Files[h]) :
                 /\ Before(h, k, f - 1, Len(Files[f - 1])) /\ ~Before(h, k, g, j)
                 => t \notin Files[h][k].drops
      BY <3>2
    <3>4. \A h \in g..f : \A k \in 1..Len(Files[h]) :
            Before(h, k, f, 0) /\ ~Before(h, k, g, j) => t \notin Files[h][k].drops
      BY <3>3, <2>1, <2>2, <2>3
    <3>5. g \in 1..f /\ t \in Things
      BY <3>1, <2>1 DEF SchemaUpTo
    <3>6. QED
      BY <3>3, <3>4, <3>5, <2>2 DEF SchemaUpTo
  <2>6. QED
    BY <1>3, <2>1, <2>4, <2>5 DEF SchemaAfter
<1>4. QED
  BY <1>2, <1>3

\* One statement more drops what it drops, then makes what it makes.
LEMMA OneMore ==
  \A f \in 1..Last : \A i \in 0..(Len(Files[f]) - 1) :
    SchemaUpTo(f, i + 1)
      = (SchemaUpTo(f, i) \ Files[f][i + 1].drops) \union Files[f][i + 1].makes
<1>1. SUFFICES ASSUME NEW f \in 1..Last, NEW i \in 0..(Len(Files[f]) - 1)
               PROVE  SchemaUpTo(f, i + 1)
                 = (SchemaUpTo(f, i) \ Files[f][i + 1].drops) \union Files[f][i + 1].makes
  OBVIOUS
<1> DEFINE s == Files[f][i + 1]
<1>2. i \in Nat /\ i + 1 \in 1..Len(Files[f]) /\ f \in Nat /\ s.makes \subseteq Things
  BY FileFacts
<1>3. ASSUME NEW g \in 1..f, NEW j \in 1..Len(Files[g])
      PROVE  /\ Before(g, j, f, i + 1) <=> Before(g, j, f, i) \/ (g = f /\ j = i + 1)
             /\ ~(Before(g, j, f, i) /\ g = f /\ j = i + 1)
             /\ Before(g, j, f, i) => ~Before(f, i + 1, g, j)
  BY <1>2, FileFacts DEF Before
<1>4. ASSUME NEW t \in SchemaUpTo(f, i + 1)
      PROVE  t \in (SchemaUpTo(f, i) \ s.drops) \union s.makes
  <2>0. PICK g \in 1..f : \E j \in 1..Len(Files[g]) :
          /\ Before(g, j, f, i + 1) /\ t \in Files[g][j].makes
          /\ \A h \in g..f : \A k \in 1..Len(Files[h]) :
               Before(h, k, f, i + 1) /\ ~Before(h, k, g, j) => t \notin Files[h][k].drops
    BY <1>4 DEF SchemaUpTo
  <2>1. PICK j \in 1..Len(Files[g]) :
          /\ Before(g, j, f, i + 1) /\ t \in Files[g][j].makes
          /\ \A h \in g..f : \A k \in 1..Len(Files[h]) :
               Before(h, k, f, i + 1) /\ ~Before(h, k, g, j) => t \notin Files[h][k].drops
    BY <2>0
  <2>2. CASE g = f /\ j = i + 1
    BY <2>1, <2>2
  <2>3. CASE Before(g, j, f, i)
    <3>1. t \notin s.drops
      BY <2>1, <2>3, <1>2, <1>3
    <3>2. \A h \in g..f : \A k \in 1..Len(Files[h]) :
            Before(h, k, f, i) /\ ~Before(h, k, g, j) => t \notin Files[h][k].drops
      BY <2>1, <1>3
    <3>3. t \in Things
      BY <1>4 DEF SchemaUpTo
    <3>4. QED
      BY <3>1, <3>2, <3>3, <2>1, <2>3 DEF SchemaUpTo
  <2>4. QED
    BY <2>1, <2>2, <2>3, <1>3
<1>5. ASSUME NEW t \in s.makes
      PROVE  t \in SchemaUpTo(f, i + 1)
  <2>1. Before(f, i + 1, f, i + 1) /\ f \in 1..f
    BY <1>2 DEF Before
  <2>2. QED
    BY <1>5, <1>2, <2>1 DEF SchemaUpTo
<1>6. ASSUME NEW t \in SchemaUpTo(f, i) \ s.drops
      PROVE  t \in SchemaUpTo(f, i + 1)
  <2>0. PICK g \in 1..f : \E j \in 1..Len(Files[g]) :
          /\ Before(g, j, f, i) /\ t \in Files[g][j].makes
          /\ \A h \in g..f : \A k \in 1..Len(Files[h]) :
               Before(h, k, f, i) /\ ~Before(h, k, g, j) => t \notin Files[h][k].drops
    BY <1>6 DEF SchemaUpTo
  <2>1. PICK j \in 1..Len(Files[g]) :
          /\ Before(g, j, f, i) /\ t \in Files[g][j].makes
          /\ \A h \in g..f : \A k \in 1..Len(Files[h]) :
               Before(h, k, f, i) /\ ~Before(h, k, g, j) => t \notin Files[h][k].drops
    BY <2>0
  <2>2. \A h \in g..f : \A k \in 1..Len(Files[h]) :
          Before(h, k, f, i + 1) /\ ~Before(h, k, g, j) => t \notin Files[h][k].drops
    BY <2>1, <1>3, <1>6
  <2>3. t \in Things
    BY <1>6 DEF SchemaUpTo
  <2>4. QED
    BY <2>1, <2>2, <2>3, <1>3 DEF SchemaUpTo
<1>7. QED
  BY <1>4, <1>5, <1>6

-----------------------------------------------------------------------------
(* The invariant *)

\* What MTypeOK asks of the place a process has reached.
Fits(r) ==
  /\ r \in Shape
  /\ r.pc \in {"statement", "record", "commit"}
       => r.file <= Last /\ r.at <= Len(Files[r.file])
  /\ r.pc = "statement" => r.at < Len(Files[r.file])
  /\ r.pc \in {"record", "commit"} => r.at = Len(Files[r.file])
  /\ r.pc \notin {"statement", "record", "commit"} => r.at = 0

LEMMA Typed ==
  MTypeOK <=> /\ schema \subseteq Things /\ applied \subseteq 1..Last
              /\ DOMAIN proc = Procs /\ proc = [p \in Procs |-> proc[p]]
              /\ \A p \in Procs : Fits(proc[p])
              /\ faults \in 0..MaxFaults /\ runs \in 0..MaxRuns
BY DEF MTypeOK, Fits, Shape, InTransaction

\* A process that is past a statement is in a transaction of a file.
LEMMA InFile ==
  ASSUME MTypeOK, NEW p \in Procs, proc[p].at > 0 \/ InTransaction(p)
  PROVE  proc[p].file \in 1..Last /\ proc[p].at \in 0..Len(Files[proc[p].file])
BY Typed, FileFacts DEF Fits, Shape, InTransaction

\* A file that is not applied is the next one, and so the one of every
\* transaction that may still come to its commit.
LEMMA NextFile ==
  ASSUME MTypeOK, Prefix, NEW p \in Procs, OnTrack(p),
         proc[p].file \in 1..Last, proc[p].file \notin applied
  PROVE  applied = 1..(proc[p].file - 1) /\ schema = SchemaAfter(proc[p].file - 1)
<1>1. PICK f \in 0..Last : applied = 1..f /\ schema = SchemaAfter(f)
  BY DEF Prefix
<1> DEFINE n == proc[p].file
<1>2. 1..(n - 1) \subseteq 1..f /\ n \notin 1..f /\ n \in Nat \ {0} /\ f \in Nat
  BY <1>1, FileFacts DEF OnTrack
<1> HIDE DEF n
<1>3. n > 1 => n - 1 \in 1..f
  BY <1>2
<1>4. f = n - 1
  BY <1>2, <1>3
<1> USE DEF n
<1>5. QED
  BY <1>1, <1>4

\* What a process sees of the schema when it has run no statement or some.
LEMMA SeesItsWork ==
  ASSUME IInv, NEW p \in Procs, InTransaction(p), proc[p].file \notin applied
  PROVE  View(p) = SchemaUpTo(proc[p].file, proc[p].at)
<1>1. OnTrack(p) /\ proc[p].at \in Nat /\ proc[p].file \in 1..Last
  BY InFile DEF IInv
<1>2. CASE proc[p].at = 0
  <2>1. View(p) = schema
    BY <1>1, <1>2 DEF OnTrack, View
  <2>2. schema = SchemaUpTo(proc[p].file, 0)
    BY <1>1, NextFile, NothingYet DEF IInv
  <2>3. QED
    BY <2>1, <2>2, <1>2
<1>3. CASE proc[p].at > 0
  BY <1>1, <1>3 DEF OnTrack
<1>4. QED
  BY <1>1, <1>2, <1>3

LEMMA Starting == MInit => IInv
<1> SUFFICES ASSUME MInit PROVE IInv
  OBVIOUS
<1>1. Down \in Shape /\ Fits(Down) /\ Down.at = 0 /\ Down.pc = "down" /\ Down.file = 1
      /\ Down.made = {} /\ Down.gone = {}
  BY FileFacts DEF Down, Between, Fits, Shape, Pcs
<1>2. \A p \in Procs : proc[p] = Down
  BY DEF MInit
<1>3. MTypeOK
  BY <1>1, <1>2, BoundsOK, Typed DEF MInit
<1>4. Prefix
  BY FileFacts DEF MInit, Prefix, SchemaAfter
<1>5. (\A p \in Procs : OnTrack(p)) /\ Alone
  BY <1>1, <1>2 DEF OnTrack, Alone
<1>6. QED
  BY <1>3, <1>4, <1>5 DEF IInv

\* A process that goes to a place where it has run no statement disturbs nobody.
LEMMA Quiet ==
  ASSUME IInv, NEW p \in Procs, NEW r, Fits(r), Becomes(p, r),
         r.at = 0, r.made = {}, r.gone = {}, r.pc # "commit",
         1..(r.file - 1) \subseteq applied, r.pc = "open" => r.file = Last + 1,
         UNCHANGED <<schema, applied>>,
         faults' \in 0..MaxFaults, runs' \in 0..MaxRuns
  PROVE  IInv'
<1>1. /\ proc' = [proc EXCEPT ![p] = r] /\ DOMAIN proc = Procs
      /\ proc = [q \in Procs |-> proc[q]]
  BY Typed DEF Becomes, IInv
<1>2. proc'[p] = r /\ \A q \in Procs \ {p} : proc'[q] = proc[q]
  BY <1>1
<1>3. MTypeOK'
  <2>1. /\ schema' \subseteq Things /\ applied' \subseteq 1..Last
        /\ DOMAIN proc' = Procs /\ proc' = [q \in Procs |-> proc'[q]]
    BY <1>1, Typed DEF IInv
  <2>2. \A q \in Procs : Fits(proc'[q])
    BY <1>2, Typed DEF IInv
  <2>3. QED
    BY <2>1, <2>2 DEF MTypeOK, Fits, Shape, InTransaction
<1>4. Prefix'
  BY DEF IInv, Prefix
<1>5. ASSUME NEW q \in Procs PROVE OnTrack(q)'
  <2>1. CASE q = p
    BY <1>2, <2>1 DEF OnTrack
  <2>2. CASE q # p
    BY <1>2, <2>2 DEF IInv, OnTrack, View
  <2>3. QED
    BY <2>1, <2>2
<1>6. Alone'
  BY <1>2 DEF IInv, Alone
<1>7. QED
  BY <1>3, <1>4, <1>5, <1>6 DEF IInv

-----------------------------------------------------------------------------
(* The steps *)

\* Whoever gives up or ends holds nothing any more.
LEMMA Ending ==
  ASSUME IInv, NEW p \in Procs, Becomes(p, Down), UNCHANGED <<schema, applied>>,
         faults' \in 0..MaxFaults, runs' \in 0..MaxRuns
  PROVE  IInv'
<1>1. Fits(Down) /\ Down.at = 0 /\ Down.pc = "down" /\ Down.file = 1
      /\ Down.made = {} /\ Down.gone = {}
  BY FileFacts DEF Down, Between, Fits, Shape, Pcs
<1>2. QED
  BY <1>1, Quiet

LEMMA Passing ==
  ASSUME IInv, NEW p \in Procs, Start(p) \/ CreateJournal(p) \/ CheckVersion(p)
  PROVE  IInv'
<1> DEFINE s == proc[p]
<1>1. /\ Fits(s) /\ OnTrack(p) /\ Last \in Nat /\ s.file \in 1..(Last + 1)
      /\ faults \in 0..MaxFaults /\ runs \in 0..MaxRuns
      /\ MaxRuns \in Nat
  BY Typed, FileFacts, BoundsOK DEF IInv, Fits, Shape
<1>2. CASE Start(p)
  <2>1. /\ Fits([s EXCEPT !.pc = "journal"])
        /\ s.pc = "down" /\ runs' \in 0..MaxRuns /\ s.at = 0
    BY <1>1, <1>2 DEF Start, Fits, Shape, Pcs
  <2>2. QED
    BY <1>1, <1>2, <2>1, Quiet DEF Start, Goes, Shape, OnTrack, Fits
<1>3. CASE CreateJournal(p)
  <2>1. Fits([s EXCEPT !.pc = "check"]) /\ s.at = 0
    BY <1>1, <1>3 DEF CreateJournal, Fits, Shape, Pcs
  <2>2. QED
    BY <1>1, <1>3, <2>1, Quiet DEF CreateJournal, Goes, Shape, OnTrack, Fits
<1>4. CASE CheckVersion(p)
  <2>1. s.at = 0 /\ s.made = {} /\ s.gone = {} /\ s.pc = "check"
    BY <1>1, <1>4 DEF CheckVersion, Fits, OnTrack
  <2>2. CASE s.file > Last
    <3>1. Fits([s EXCEPT !.pc = "open"]) /\ s.file = Last + 1
      BY <1>1, <2>1, <2>2 DEF Fits, Shape, Pcs
    <3>2. QED
      BY <1>1, <1>4, <2>1, <2>2, <3>1, Quiet DEF CheckVersion, Goes, Shape, OnTrack, Fits
  <2>3. CASE ~(s.file > Last) /\ s.file \in applied
    <3>1. Fits([s EXCEPT !.file = @ + 1])
      BY <1>1, <2>1, <2>3 DEF Fits, Shape, Pcs
    <3>2. 1..(s.file + 1 - 1) \subseteq applied
      BY <1>1, <2>3 DEF OnTrack
    <3>3. QED
      BY <1>1, <1>4, <2>1, <2>3, <3>1, <3>2, Quiet DEF CheckVersion, Shape, Fits
  <2>4. CASE ~(s.file > Last) /\ s.file \notin applied
    <3>1. Fits([s EXCEPT !.pc = "statement"])
      BY <1>1, <2>1, <2>4, FileFacts DEF Fits, Shape, Pcs
    <3>2. QED
      BY <1>1, <1>4, <2>1, <2>4, <3>1, Quiet DEF CheckVersion, Goes, Shape, OnTrack, Fits
  <2>5. QED
    BY <2>2, <2>3, <2>4
<1>5. QED
  BY <1>2, <1>3, <1>4

\* A statement is run by one transaction of a file only: the others wait for the
\* table of its first statement, which this one has touched.
LEMMA RunsAlone ==
  ASSUME IInv, NEW p \in Procs, NEW q \in Procs, p # q, RunStatement(p), proc[q].at > 0,
         proc[p].at = 0
  PROVE  proc[p].file # proc[q].file
<1>1. MTypeOK
  BY DEF IInv
<1>2. InTransaction(q) /\ proc[q].file \in 1..Last /\ proc[q].at \in 0..Len(Files[proc[q].file])
  BY <1>1, InFile, Typed DEF Fits, InTransaction
<1>3. 1 \in 1..proc[q].at
  BY <1>2, FileFacts
<1>4. Files[proc[q].file][1].table \in Held(q)
  BY <1>3 DEF Held
<1>5. Files[proc[p].file][1].table \notin Held(q)
  BY <1>2 DEF RunStatement
<1>6. QED
  BY <1>4, <1>5

\* A process that goes on within its transaction, and is alone past its first statement.
LEMMA Inside ==
  ASSUME IInv, NEW p \in Procs, NEW r, Fits(r), Becomes(p, r), InTransaction(p),
         r.at > 0, r.file = proc[p].file, r.pc # "open",
         r.pc = "commit" => r.file \notin applied,
         r.file \notin applied
           => (schema \ r.gone) \union r.made = SchemaUpTo(r.file, r.at),
         \A q \in Procs \ {p} : proc[q].at > 0 => proc[q].file # r.file,
         UNCHANGED <<schema, applied, faults, runs>>
  PROVE  IInv'
<1>1. /\ proc' = [proc EXCEPT ![p] = r] /\ DOMAIN proc = Procs
      /\ proc = [q \in Procs |-> proc[q]]
  BY Typed DEF Becomes, IInv
<1>2. proc'[p] = r /\ \A q \in Procs \ {p} : proc'[q] = proc[q]
  BY <1>1
<1>3. MTypeOK'
  <2>1. /\ schema' \subseteq Things /\ applied' \subseteq 1..Last
        /\ DOMAIN proc' = Procs /\ proc' = [q \in Procs |-> proc'[q]]
        /\ faults' \in 0..MaxFaults /\ runs' \in 0..MaxRuns
    BY <1>1, Typed DEF IInv
  <2>2. \A q \in Procs : Fits(proc'[q])
    BY <1>2, Typed DEF IInv
  <2>3. QED
    BY <2>1, <2>2 DEF MTypeOK, Fits, Shape, InTransaction
<1>4. Prefix'
  BY DEF IInv, Prefix
<1>5. ASSUME NEW q \in Procs PROVE OnTrack(q)'
  <2>1. CASE q = p
    <3>1. 1..(r.file - 1) \subseteq applied
      BY DEF IInv, OnTrack
    <3>2. QED
      BY <1>2, <2>1, <3>1 DEF OnTrack, View, Fits, Shape
  <2>2. CASE q # p
    BY <1>2, <2>2 DEF IInv, OnTrack, View
  <2>3. QED
    BY <2>1, <2>2
<1>6. Alone'
  BY <1>2 DEF IInv, Alone
<1>7. QED
  BY <1>3, <1>4, <1>5, <1>6 DEF IInv

LEMMA Stating == ASSUME IInv, NEW p \in Procs, RunStatement(p) PROVE IInv'
<1> DEFINE c == proc[p]
           s == Files[c.file][c.at + 1]
           r == [c EXCEPT !.at = @ + 1,
                          !.made = (@ \ s.drops) \union s.makes,
                          !.gone = (@ \ s.makes) \union s.drops,
                          !.pc = IF c.at + 1 = Len(Files[c.file]) THEN "record" ELSE @]
<1>1. /\ Fits(c) /\ OnTrack(p) /\ InTransaction(p) /\ c.pc = "statement"
      /\ UNCHANGED <<schema, applied, faults, runs>>
      /\ faults \in 0..MaxFaults /\ runs \in 0..MaxRuns /\ MTypeOK
  BY Typed DEF IInv, RunStatement, InTransaction
<1>2. c.file \in 1..Last /\ c.at \in 0..(Len(Files[c.file]) - 1) /\ c.at \in Nat
  BY <1>1, FileFacts DEF Fits, Shape
<1>3. CASE s.makes \cap View(p) # {}
  BY <1>1, <1>3, Ending DEF RunStatement
<1>4. CASE s.makes \cap View(p) = {}
  <2>1. Becomes(p, r)
    BY <1>4 DEF RunStatement
  <2>2. /\ r.at = c.at + 1 /\ r.file = c.file /\ r.pc \in {"record", "statement"}
        /\ r.made = (c.made \ s.drops) \union s.makes
        /\ r.gone = (c.gone \ s.makes) \union s.drops
    BY <1>1 DEF Fits, Shape
  <2>3. Fits(r)
    <3>1. c.at + 1 \in 1..Len(Files[c.file])
      BY <1>2, FileFacts
    <3>2. s.makes \subseteq Things /\ s.drops \subseteq STRING
      BY <1>2, <3>1, FileFacts
    <3>3. /\ (c.made \ s.drops) \union s.makes \in SUBSET Things
          /\ (c.gone \ s.makes) \union s.drops \in SUBSET STRING
          /\ c.at + 1 \in Nat /\ c.pc \in Pcs /\ "record" \in Pcs
      BY <1>1, <1>2, <3>2 DEF Fits, Shape, Pcs
    <3>4. r \in Shape
      <4> HIDE DEF s
      <4>1. QED
        BY <1>1, <3>3 DEF Fits, Shape
    <3>5. r.pc = IF r.at = Len(Files[c.file]) THEN "record" ELSE "statement"
      BY <1>1, <2>2 DEF Fits, Shape
    <3> HIDE DEF r
    <3>6. QED
      BY <1>2, <2>2, <3>1, <3>4, <3>5, FileFacts DEF Fits
  <2>4. ASSUME r.file \notin applied
        PROVE  (schema \ r.gone) \union r.made = SchemaUpTo(r.file, r.at)
    <3>1. View(p) = SchemaUpTo(c.file, c.at)
      BY <1>1, <2>2, <2>4, SeesItsWork
    <3>2. SchemaUpTo(c.file, c.at + 1) = (SchemaUpTo(c.file, c.at) \ s.drops) \union s.makes
      BY <1>2, OneMore
    <3> HIDE DEF r, s
    <3>3. (schema \ r.gone) \union r.made = (View(p) \ s.drops) \union s.makes
      BY <2>2 DEF View
    <3>4. QED
      BY <2>2, <3>1, <3>2, <3>3
  <2>5. ASSUME NEW q \in Procs \ {p}, proc[q].at > 0
        PROVE  proc[q].file # r.file
    <3>1. CASE c.at = 0
      BY <2>2, <2>5, <3>1, RunsAlone
    <3>2. CASE c.at > 0
      BY <2>2, <2>5, <3>2 DEF IInv, Alone
    <3>3. QED
      BY <3>1, <3>2, <1>2
  <2> HIDE DEF r
  <2>6. QED
    BY <1>1, <1>2, <2>1, <2>2, <2>3, <2>4, <2>5, Inside
<1>5. QED
  BY <1>3, <1>4

LEMMA Recording == ASSUME IInv, NEW p \in Procs, Record(p) PROVE IInv'
<1> DEFINE c == proc[p]
           r == [c EXCEPT !.pc = "commit"]
<1>1. /\ Fits(c) /\ OnTrack(p) /\ InTransaction(p) /\ c.pc = "record" /\ MTypeOK
      /\ UNCHANGED <<schema, applied, faults, runs>>
      /\ faults \in 0..MaxFaults /\ runs \in 0..MaxRuns
  BY Typed DEF IInv, Record, InTransaction
<1>2. c.file \in 1..Last /\ c.at = Len(Files[c.file]) /\ c.at \in Nat \ {0}
  BY <1>1, FileFacts DEF Fits, Shape
<1>3. CASE c.file \in applied
  BY <1>1, <1>3, Ending DEF Record
<1>4. CASE c.file \notin applied
  <2>1. Becomes(p, r)
    BY <1>4 DEF Record, Goes
  <2>2. /\ r.at = c.at /\ r.file = c.file /\ r.pc = "commit"
        /\ r.made = c.made /\ r.gone = c.gone /\ Fits(r)
    BY <1>1, <1>2 DEF Fits, Shape, Pcs
  <2>3. (schema \ r.gone) \union r.made = SchemaUpTo(r.file, r.at)
    BY <1>1, <1>4, <2>2, SeesItsWork DEF View
  <2>4. \A q \in Procs \ {p} : proc[q].at > 0 => proc[q].file # r.file
    BY <1>2, <2>2 DEF IInv, Alone
  <2> HIDE DEF r
  <2>5. QED
    BY <1>1, <1>2, <1>4, <2>1, <2>2, <2>3, <2>4, Inside
<1>5. QED
  BY <1>3, <1>4

\* After its commit a process looks at the next file.
LEMMA Restarted == \A f \in 1..Last : Fits(Between("check", f + 1))
<1> SUFFICES ASSUME NEW f \in 1..Last PROVE Fits(Between("check", f + 1))
  OBVIOUS
<1>1. f + 1 \in 1..(Last + 1)
  BY FileFacts
<1>2. Between("check", f + 1) \in Shape
  BY <1>1 DEF Shape, Pcs, Between
<1>3. QED
  BY <1>2 DEF Fits, Between

LEMMA Committing == ASSUME IInv, NEW p \in Procs, Commit(p) PROVE IInv'
<1> DEFINE c == proc[p]
           f == c.file
           r == Between("check", f + 1)
<1>1. /\ Fits(c) /\ OnTrack(p) /\ InTransaction(p) /\ c.pc = "commit" /\ MTypeOK /\ Prefix
      /\ UNCHANGED <<faults, runs>> /\ f \notin applied
      /\ faults \in 0..MaxFaults /\ runs \in 0..MaxRuns
  BY Typed DEF IInv, Commit, InTransaction, OnTrack
<1>2. f \in 1..Last /\ c.at = Len(Files[f]) /\ c.at \in Nat \ {0} /\ Last \in Nat
  BY <1>1, FileFacts DEF Fits, Shape
<1>3. /\ proc' = [proc EXCEPT ![p] = r] /\ DOMAIN proc = Procs
      /\ proc = [q \in Procs |-> proc[q]]
  BY Typed DEF Commit, Becomes, IInv
<1>4. proc'[p] = r /\ \A q \in Procs \ {p} : proc'[q] = proc[q]
  BY <1>3
<1>5. /\ r.pc = "check" /\ r.file = f + 1 /\ r.at = 0 /\ r.made = {} /\ r.gone = {}
      /\ Fits(r)
  BY <1>2, Restarted DEF Between
<1> HIDE DEF r
<1>6. applied = 1..(f - 1) /\ applied' = 1..f
  BY <1>1, <1>2, NextFile DEF Commit
<1>7. schema' = SchemaAfter(f)
  <2>1. schema' = SchemaUpTo(f, Len(Files[f]))
    BY <1>1, <1>2, SeesItsWork DEF Commit
  <2>2. QED
    BY <2>1, <1>2 DEF SchemaAfter
<1>8. MTypeOK'
  <2>1. schema' \subseteq Things
    BY <1>2, <1>7 DEF SchemaAfter, SchemaUpTo
  <2>2. applied' \subseteq 1..Last
    BY <1>2, <1>6
  <2>3. DOMAIN proc' = Procs /\ proc' = [q \in Procs |-> proc'[q]]
    BY <1>3
  <2>4. \A q \in Procs : Fits(proc'[q])
    BY <1>1, <1>4, <1>5, Typed
  <2>5. QED
    BY <1>1, <2>1, <2>2, <2>3, <2>4 DEF MTypeOK, Fits, Shape, InTransaction
<1>9. Prefix'
  <2>1. f \in 0..Last
    BY <1>2
  <2>2. SchemaAfter(f)' = SchemaAfter(f')
    BY DEF SchemaAfter, SchemaUpTo
  <2> HIDE DEF f
  <2>3. QED
    BY <1>6, <1>7, <2>1 DEF Prefix
<1>10. ASSUME NEW q \in Procs PROVE OnTrack(q)'
  <2>1. CASE q = p
    BY <1>2, <1>4, <1>5, <1>6, <2>1 DEF OnTrack
  <2>2. CASE q # p
    <3>1. proc'[q] = proc[q] /\ OnTrack(q)
      BY <1>4, <2>2 DEF IInv
    <3>2. 1..(proc[q].file - 1) \subseteq applied'
      BY <1>2, <1>6, <3>1 DEF OnTrack
    <3>3. proc[q].at > 0 => proc[q].file \in applied'
      <4>1. SUFFICES ASSUME proc[q].at > 0 PROVE proc[q].file \in 1..f
        BY <1>6
      <4>2. proc[q].file # f
        BY <1>2, <2>2, <4>1 DEF IInv, Alone
      <4>3. proc[q].file \in 1..Last
        BY <1>1, <4>1, InFile
      <4>4. CASE proc[q].file > f
        BY <1>1, <1>2, <1>6, <3>1, <4>3, <4>4 DEF OnTrack
      <4>5. QED
        BY <1>2, <4>2, <4>3, <4>4
    <3>4. proc[q].pc = "commit" => proc[q].at > 0
      BY <1>1, Typed, FileFacts DEF Fits, Shape
    <3>5. proc[q].pc # "commit"
      <4>1. SUFFICES ASSUME proc[q].pc = "commit" PROVE FALSE
        OBVIOUS
      <4>2. proc[q].at > 0 /\ proc[q].file \notin applied /\ proc[q].file # f
        BY <1>2, <2>2, <3>1, <3>4, <4>1 DEF OnTrack, IInv, Alone
      <4>3. QED
        BY <1>1, <1>2, <1>6, <3>3, <4>2
    <3>6. QED
      BY <3>1, <3>2, <3>3, <3>5 DEF OnTrack
  <2>3. QED
    BY <2>1, <2>2
<1>11. Alone'
  BY <1>4, <1>5 DEF IInv, Alone
<1>12. QED
  BY <1>8, <1>9, <1>10, <1>11 DEF IInv

LEMMA Steps == IInv /\ [MNext]_mvars => IInv'
<1> SUFFICES ASSUME IInv, [MNext]_mvars PROVE IInv'
  OBVIOUS
<1>1. ASSUME NEW p \in Procs, Opening(p) PROVE IInv'
  BY <1>1, Passing, Stating, Recording, Committing DEF Opening
<1>2. ASSUME NEW p \in Procs, Crash(p) PROVE IInv'
  <2>1. faults' \in 0..MaxFaults /\ runs' \in 0..MaxRuns
    BY <1>2, BoundsOK, Typed DEF IInv, Crash
  <2>2. QED
    BY <1>2, <2>1, Ending DEF Crash
<1>3. ASSUME NEW p \in Procs, Exit(p) PROVE IInv'
  <2>1. faults' \in 0..MaxFaults /\ runs' \in 0..MaxRuns
    BY <1>3, Typed DEF IInv, Exit
  <2>2. QED
    BY <1>3, <2>1, Ending DEF Exit
<1>4. CASE UNCHANGED mvars
  BY <1>4 DEF mvars, IInv, MTypeOK, InTransaction, Prefix, OnTrack, View, Alone
<1>5. QED
  BY <1>1, <1>2, <1>3, <1>4 DEF MNext

-----------------------------------------------------------------------------
(* Theorems *)

LEMMA WholeFromInvariant == IInv => SchemaWhole
<1> SUFFICES ASSUME IInv PROVE SchemaWhole
  OBVIOUS
<1>1. Prefix
  BY DEF IInv
<1>2. ASSUME NEW p \in Procs, Open(p) PROVE applied = 1..Last
  <2>1. 1..Last \subseteq applied /\ applied \subseteq 1..Last
    BY <1>2, FileFacts, Typed DEF IInv, OnTrack, Open
  <2>2. QED
    BY <2>1
<1>3. QED
  BY <1>1, <1>2 DEF SchemaWhole, Prefix

\* Processes that open the database, alone: every migration is applied whole or not
\* at all, and a process that has opened the database finds all of them.
THEOREM MigrationsWhole == MSpec => [](MTypeOK /\ SchemaWhole)
<1>1. MInit => IInv
  BY Starting
<1>2. IInv /\ [MNext]_mvars => IInv'
  BY Steps
<1>3. IInv => MTypeOK /\ SchemaWhole
  BY WholeFromInvariant DEF IInv
<1>4. QED
  BY <1>1, <1>2, <1>3, PTL DEF MSpec

\* What runs in the processes touches neither the schema nor its journal.
LEMMA SetupMigrates ==
  [Next]_vars => \/ [MNext]_mvars
                 \/ UNCHANGED <<schema, applied, proc, runs>> /\ faults < MaxFaults
                    /\ faults' = faults + 1
<1>1. ASSUME NEW a \in Actors, ActorStep(a) PROVE UNCHANGED mvars
  BY <1>1 DEF ActorStep
<1>2. ASSUME NEW a \in Actors, Fault(a)
      PROVE  UNCHANGED <<schema, applied, proc, runs>> /\ faults < MaxFaults
             /\ faults' = faults + 1
  BY <1>2 DEF Fault
<1>3. QED
  BY <1>1, <1>2 DEF Next, MNext, Leaves, vars

LEMMA FaultElsewhere ==
  IInv /\ UNCHANGED <<schema, applied, proc, runs>> /\ faults < MaxFaults
    /\ faults' = faults + 1 => IInv'
<1> SUFFICES ASSUME IInv, UNCHANGED <<schema, applied, proc, runs>>,
                    faults < MaxFaults, faults' = faults + 1
             PROVE  IInv'
  OBVIOUS
<1>1. faults' \in 0..MaxFaults
  BY BoundsOK, Typed DEF IInv
<1>2. QED
  BY <1>1 DEF IInv, MTypeOK, InTransaction, Prefix, OnTrack, View, Alone

\* The same beside the requests and the demo, which are another thing that may fail.
THEOREM SchemaStaysWhole == Spec => []SchemaWhole
<1>1. Init => IInv
  BY Starting DEF Init
<1>2. IInv /\ [Next]_vars => IInv'
  BY SetupMigrates, Steps, FaultElsewhere
<1>3. IInv => SchemaWhole
  BY WholeFromInvariant
<1>4. QED
  BY <1>1, <1>2, <1>3, PTL DEF Spec

-----------------------------------------------------------------------------
(* The live messages *)

MessageRow == [status : {"none", "PROCESSING", "DONE"}, read : BOOLEAN]

\* The locals that matter here; as a set of records they have too many fields to reason with.
Fields == {"pc", "op", "user", "criteria", "kinds", "kind", "item", "live", "row"}
Local(s) == /\ s = [f \in Fields |-> s[f]]
            /\ s.user \in UserIds /\ s.item \in Items
            /\ s.criteria \in {"", "demo"} /\ s.row \in MessageRow

\* Who may be where: a request opens messages, a routine closes them.
Roles(b) ==
  /\ actor[b].pc \notin {"idle", "done", "failed"}
       => actor[b].op \in {"demo", "theme", "signin", "open"}
  /\ actor[b].op = "open" => b \in Handlers
  /\ actor[b].pc \in {"readRow", "saveRow"} => actor[b].op = "open"
  /\ actor[b].pc = "pause" => Playing(b)

\* A request that is about to save a row holds its status, unless it held the row
\* across the end of the pause.
CopyAgrees(b) ==
  actor[b].pc = "saveRow"
    => /\ actor[b].row.status # "none"
       /\ Message(b) \in stranded \/ actor[b].row.status = rows[Message(b)].status

LInv == /\ rows \in [UserIds \X Items -> MessageRow]
        /\ users \in Seq({"", "demo"}) /\ Len(users) <= MaxUsers
        /\ actor = [b \in Actors |-> actor[b]]
        /\ \A b \in Actors : Local(actor[b]) /\ Roles(b) /\ CopyAgrees(b)
        /\ \A u \in UserIds, n \in Items : rows[<<u, n>>].status = "none" => rows[<<u, n>>] = NoRow
        /\ LiveCloses

LEMMA Sizes == /\ MaxUsers \in Nat \ {0} /\ 1 \in UserIds /\ 1 \in Items
               /\ NSeed \in Nat \ {0} /\ NLive \in Nat \ {0}
               /\ \A n \in Items : KindOf[n] \in Kinds
               /\ Live \subseteq Items
BY SetupOK DEF SetupOK, UserIds, Items, Kinds, Live

LEMMA IdleIsLocal == Local(Idle) /\ Idle.pc = "idle" /\ Idle.op = "none"
<1>1. /\ Idle.pc = "idle" /\ Idle.op = "none" /\ Idle.user = 1 /\ Idle.item = 1
      /\ Idle.criteria = "" /\ Idle.row = NoRow
  BY DEF Idle
<1>2. Idle = [f \in Fields |-> Idle[f]]
  BY DEF Idle, Fields
<1>3. NoRow \in MessageRow
  BY DEF NoRow, Unread, MessageRow
<1>4. QED
  BY <1>1, <1>2, <1>3, Sizes DEF Local

-----------------------------------------------------------------------------
\* Steps that write no message and lead to no place that holds one, and leave the
\* pause only by a failure.
LEMMA Aside ==
  ASSUME LInv, NEW a \in Actors, NEW r, Local(r), Sets(a, r), UNCHANGED rows, stranded \subseteq stranded',
         users' \in Seq({"", "demo"}), Len(users') <= MaxUsers,
         actor[a].pc = "pause" => Message(a) \in stranded', r.pc \notin {"pause", "saveRow"},
         r.op = "open" => a \in Handlers, r.pc = "readRow" => r.op = "open",
         r.pc \in {"idle", "done", "failed"} \/ r.op \in {"demo", "theme", "signin", "open"}
  PROVE  LInv'
<1>1. /\ actor' = [actor EXCEPT ![a] = r] /\ actor = [b \in Actors |-> actor[b]]
  BY DEF Sets, LInv
<1>2. actor'[a] = r /\ \A b \in Actors \ {a} : actor'[b] = actor[b]
  BY <1>1
<1>3. actor' = [b \in Actors |-> actor'[b]]
  BY <1>1
<1>4. ASSUME NEW b \in Actors PROVE Local(actor[b])' /\ Roles(b)' /\ CopyAgrees(b)'
  <2>1. CASE b = a
    BY <1>2, <2>1 DEF Roles, CopyAgrees, Local
  <2>2. CASE b # a
    BY <1>2, <2>2 DEF LInv, Roles, CopyAgrees, Message, Playing, Local
  <2>3. QED
    BY <2>1, <2>2
<1>5. LiveCloses'
  <2>1. SUFFICES ASSUME NEW u \in UserIds, NEW n \in Live, rows[<<u, n>>].status = "PROCESSING",
                        <<u, n>> \notin stranded'
                 PROVE  \E b \in Routines : actor'[b].pc = "pause" /\ Message(b)' = <<u, n>>
    BY DEF LiveCloses
  <2>2. PICK b \in Routines : actor[b].pc = "pause" /\ Message(b) = <<u, n>>
    BY <2>1 DEF LInv, LiveCloses
  <2>3. b # a /\ b \in Actors
    BY <2>1, <2>2 DEF Actors
  <2>4. QED
    BY <1>2, <2>2, <2>3 DEF Message
<1>6. QED
  BY <1>3, <1>4, <1>5 DEF LInv

LEMMA WithUserIsAside ==
  ASSUME LInv, NEW a \in Actors, NEW u \in UserIds, NEW c \in {"", "demo"},
         actor[a].pc \in {"user", "insertUser"}
  PROVE  /\ Local(WithUser(a, u, c))
         /\ WithUser(a, u, c).op = actor[a].op
         /\ WithUser(a, u, c).pc \notin {"pause", "saveRow"}
         /\ WithUser(a, u, c).pc = "readRow" => actor[a].op = "open"
         /\ actor[a].op \in {"demo", "theme", "signin", "open"}
<1> DEFINE s == actor[a]
           pc == CASE s.op = "demo" -> IF c = "" THEN "criteria" ELSE "lookup"
                   [] s.op = "theme" -> "saveUser"
                   [] s.op = "signin" -> "lookup"
                   [] s.op = "open" -> "readRow"
           k == IF s.op = "theme" THEN c ELSE ""
<1>1. Local(s) /\ s.op \in {"demo", "theme", "signin", "open"}
  BY DEF LInv, Roles
<1>2. /\ pc \in {"criteria", "lookup", "saveUser", "readRow"} /\ k \in {"", "demo"}
      /\ pc = "readRow" => s.op = "open"
  BY <1>1
<1>3. WithUser(a, u, c) = [s EXCEPT !.user = u, !.criteria = k, !.pc = pc]
  BY DEF WithUser
<1> HIDE DEF pc, k
<1>4. /\ Local([s EXCEPT !.user = u, !.criteria = k, !.pc = pc])
      /\ [s EXCEPT !.user = u, !.criteria = k, !.pc = pc].op = s.op
      /\ [s EXCEPT !.user = u, !.criteria = k, !.pc = pc].pc = pc
  BY <1>1, <1>2 DEF Local, Fields
<1>5. QED
  BY <1>1, <1>2, <1>3, <1>4

LEMMA NextItemIsAside ==
  ASSUME LInv, NEW a \in Actors, actor[a].pc \in {"look", "insert", "pause"}
  PROVE  /\ Local(NextItem(a)) /\ NextItem(a).op = actor[a].op
         /\ NextItem(a).pc \in {"done", "user", "look"}
         /\ actor[a].op \in {"demo", "theme", "signin", "open"}
<1> DEFINE s == actor[a]
           n == s.item + 1
<1>1. Local(s) /\ s.op \in {"demo", "theme", "signin", "open"}
      /\ s.item \in Items /\ s.user \in UserIds
  BY DEF LInv, Roles, Local
<1>2. CASE n \notin Items \/ (n \in Live /\ ~s.live)
  <2>1. NextItem(a) = Done(s)
    BY <1>2, Sizes DEF NextItem, NextLive
  <2>2. Done(s) = [Idle EXCEPT !.pc = "done", !.op = s.op, !.user = s.user]
    BY DEF Done
  <2>3. /\ Local([Idle EXCEPT !.pc = "done", !.op = s.op, !.user = s.user])
        /\ [Idle EXCEPT !.pc = "done", !.op = s.op, !.user = s.user].op = s.op
        /\ [Idle EXCEPT !.pc = "done", !.op = s.op, !.user = s.user].pc = "done"
    BY <1>1, IdleIsLocal DEF Local, Fields
  <2>4. QED
    BY <1>1, <2>1, <2>2, <2>3
<1>3. CASE n \in Live /\ s.live
  <2>1. NextItem(a) = Play(s, n)
    BY <1>3, Sizes DEF NextItem, NextLive
  <2>2. n \in Items
    BY <1>3, Sizes
  <2> HIDE DEF n
  <2> DEFINE K == {KindOf[n]}
  <2>3. Play(s, n) = [s EXCEPT !.pc = "user", !.item = n, !.kinds = K]
    BY DEF Play
  <2> HIDE DEF K
  <2>4. /\ Local([s EXCEPT !.pc = "user", !.item = n, !.kinds = K])
        /\ [s EXCEPT !.pc = "user", !.item = n, !.kinds = K].op = s.op
        /\ [s EXCEPT !.pc = "user", !.item = n, !.kinds = K].pc = "user"
    BY <1>1, <2>2 DEF Local, Fields
  <2>5. QED
    BY <1>1, <2>1, <2>3, <2>4
<1>4. CASE n \in Items /\ n \notin Live
  <2>1. NextItem(a) = [s EXCEPT !.pc = "look", !.item = n]
    BY <1>4 DEF NextItem
  <2> HIDE DEF n
  <2>2. /\ Local([s EXCEPT !.pc = "look", !.item = n])
        /\ [s EXCEPT !.pc = "look", !.item = n].op = s.op
        /\ [s EXCEPT !.pc = "look", !.item = n].pc = "look"
    BY <1>1, <1>4 DEF Local, Fields
  <2>3. QED
    BY <1>1, <2>1, <2>2
<1>5. QED
  BY <1>2, <1>3, <1>4

LEMMA EndedIsAside ==
  ASSUME NEW a \in Actors
  PROVE  Local(Ended(a)) /\ Ended(a).op = "none" /\ Ended(a).pc \in {"idle", "failed"}
BY IdleIsLocal DEF Ended, Local, Fields

-----------------------------------------------------------------------------
(* Each step of an actor *)

LEMMA Lists ==
  ASSUME NEW S, NEW q \in Seq(S), NEW x \in S
  PROVE  /\ q # <<>> => q[1] \in S
         /\ Append(q, x) \in Seq(S) /\ Len(Append(q, x)) = Len(q) + 1 /\ Len(q) \in Nat
<1>1. q # <<>> => q[1] \in S
  OBVIOUS
<1>2. Append(q, x) \in Seq(S) /\ Len(Append(q, x)) = Len(q) + 1 /\ Len(q) \in Nat
  OBVIOUS
<1>3. QED
  BY <1>1, <1>2

LEMMA CriteriaSaved ==
  ASSUME users \in Seq({"", "demo"}), Len(users) <= MaxUsers,
         NEW i, NEW c \in {"", "demo"}, users' = [users EXCEPT ![i] = c]
  PROVE  users' \in Seq({"", "demo"}) /\ Len(users') <= MaxUsers
<1> DEFINE C == {"", "demo"}
<1>1. users \in Seq(C) /\ c \in C
  OBVIOUS
<1> HIDE DEF C
<1>2. [users EXCEPT ![i] = c] \in Seq(C) /\ Len([users EXCEPT ![i] = c]) = Len(users)
  <2>1. CASE i \in 1..Len(users)
    BY <1>1, <2>1, ExceptSeq
  <2>2. CASE i \notin 1..Len(users)
    <3>1. users = [j \in 1..Len(users) |-> users[j]]
      BY <1>1, LenProperties
    <3>2. [users EXCEPT ![i] = c] = users
      BY <2>2, <3>1, Zenon
    <3>3. QED
      BY <1>1, <3>2
  <2>3. QED
    BY <2>1, <2>2
<1>3. QED
  BY <1>2 DEF C

LEMMA UserSteps ==
  ASSUME LInv, NEW a \in Actors,
         FindUser(a) \/ InsertUser(a) \/ SaveCriteria(a) \/ SaveUser(a)
  PROVE  LInv'
<1> DEFINE s == actor[a]
<1>1. Local(s) /\ Roles(a) /\ users \in Seq({"", "demo"}) /\ Len(users) <= MaxUsers
      /\ s.user \in UserIds
  BY DEF LInv, Local
<1>2. CASE FindUser(a)
  <2>1. s.pc = "user" /\ UNCHANGED <<rows, users, stranded>>
    BY <1>2 DEF FindUser, Runs
  <2>2. CASE users = <<>>
    <3>1. Sets(a, [s EXCEPT !.pc = "insertUser"])
      BY <1>2, <2>2 DEF FindUser
    <3>2. /\ Local([s EXCEPT !.pc = "insertUser"]) /\ [s EXCEPT !.pc = "insertUser"].op = s.op
          /\ [s EXCEPT !.pc = "insertUser"].pc = "insertUser"
      BY <1>1 DEF Local, Fields
    <3>3. QED
      BY <1>1, <2>1, <3>1, <3>2, Aside DEF Roles
  <2>3. CASE users # <<>>
    <3>1. users[1] \in {"", "demo"} /\ 1 \in UserIds
      BY <1>1, <2>3, Sizes, Lists
    <3>2. Sets(a, WithUser(a, 1, users[1]))
      BY <1>2, <2>3 DEF FindUser
    <3>3. QED
      BY <1>1, <2>1, <3>1, <3>2, WithUserIsAside, Aside DEF Roles
  <2>4. QED
    BY <2>2, <2>3
<1>3. CASE InsertUser(a)
  <2>1. /\ s.pc = "insertUser" /\ UNCHANGED <<rows, stranded>> /\ Len(users) < MaxUsers
        /\ users' = Append(users, "") /\ Sets(a, WithUser(a, Len(users) + 1, ""))
    BY <1>3 DEF InsertUser, Runs
  <2>2. /\ Len(users) + 1 \in UserIds /\ users' \in Seq({"", "demo"})
        /\ Len(users') <= MaxUsers
    <3> DEFINE C == {"", "demo"}
    <3>1. "" \in C
      OBVIOUS
    <3> HIDE DEF C
    <3>2. users \in Seq(C)
      BY <1>1 DEF C
    <3>3. users' \in Seq(C) /\ Len(users') = Len(users) + 1 /\ Len(users) \in Nat
      BY <2>1, <3>1, <3>2, Lists
    <3>4. Len(users) + 1 \in UserIds /\ Len(users') <= MaxUsers
      <4> DEFINE k == Len(users)
      <4>1. k \in Nat /\ k < MaxUsers /\ MaxUsers \in Nat /\ Len(users') = k + 1
        BY <2>1, <3>3, Sizes
      <4> HIDE DEF k
      <4>2. k + 1 \in UserIds /\ k + 1 <= MaxUsers
        BY <4>1 DEF UserIds
      <4>3. QED
        BY <4>1, <4>2 DEF k
    <3>5. QED
      BY <3>3, <3>4 DEF C
  <2>3. QED
    BY <1>1, <2>1, <2>2, WithUserIsAside, Aside DEF Roles
<1>4. CASE SaveCriteria(a)
  <2>1. /\ s.pc = "criteria" /\ UNCHANGED <<rows, stranded>>
        /\ users' = [users EXCEPT ![s.user] = "demo"] /\ Sets(a, [s EXCEPT !.pc = "lookup"])
    BY <1>4 DEF SaveCriteria, Runs
  <2>2. users' \in Seq({"", "demo"}) /\ Len(users') <= MaxUsers
    BY <1>1, <2>1, CriteriaSaved
  <2>3. /\ Local([s EXCEPT !.pc = "lookup"]) /\ [s EXCEPT !.pc = "lookup"].op = s.op
        /\ [s EXCEPT !.pc = "lookup"].pc = "lookup"
    BY <1>1 DEF Local, Fields
  <2>4. QED
    BY <1>1, <2>1, <2>2, <2>3, Aside DEF Roles
<1>5. CASE SaveUser(a)
  <2>1. /\ s.pc = "saveUser" /\ UNCHANGED <<rows, stranded>> /\ s.criteria \in {"", "demo"}
        /\ users' = [users EXCEPT ![s.user] = s.criteria] /\ Sets(a, Idle)
    BY <1>1, <1>5 DEF SaveUser, Runs, Local
  <2>2. users' \in Seq({"", "demo"}) /\ Len(users') <= MaxUsers
    BY <1>1, <2>1, CriteriaSaved
  <2>3. QED
    BY <1>1, <2>1, <2>2, IdleIsLocal, Aside
<1>6. QED
  BY <1>2, <1>3, <1>4, <1>5

LEMMA SourceSteps ==
  ASSUME LInv, NEW a \in Actors,
         (\E k \in Kinds : Lookup(a, k)) \/ InsertConn(a) \/ SaveConn(a)
  PROVE  LInv'
<1> DEFINE s == actor[a]
<1>1. Local(s) /\ Roles(a) /\ users \in Seq({"", "demo"}) /\ Len(users) <= MaxUsers
  BY DEF LInv
<1>2. /\ s.pc \in {"lookup", "insertConn", "saveConn"} /\ UNCHANGED <<rows, users, stranded>>
  BY DEF Lookup, InsertConn, SaveConn, Runs
<1>3. s.op \in {"demo", "theme", "signin", "open"} /\ (s.op = "open" => a \in Handlers)
  BY <1>1, <1>2 DEF Roles
<1>4. ASSUME NEW k \in Kinds, Lookup(a, k) PROVE LInv'
  <2> DEFINE pc == IF conn[<<s.user, k>>] = "none" THEN "insertConn" ELSE "saveConn"
             r == [s EXCEPT !.kind = k, !.pc = pc]
  <2>1. Sets(a, r) /\ pc \in {"insertConn", "saveConn"}
    BY <1>4 DEF Lookup
  <2> HIDE DEF pc
  <2>2. Local(r) /\ r.op = s.op /\ r.pc = pc
    BY <1>1 DEF Local, Fields
  <2> HIDE DEF r
  <2>3. QED
    BY <1>1, <1>2, <1>3, <2>1, <2>2, Aside
<1>5. CASE InsertConn(a)
  <2>1. Sets(a, [s EXCEPT !.pc = "saveConn"]) \/ Sets(a, Ended(a))
    BY <1>5 DEF InsertConn
  <2>2. /\ Local([s EXCEPT !.pc = "saveConn"]) /\ [s EXCEPT !.pc = "saveConn"].op = s.op
        /\ [s EXCEPT !.pc = "saveConn"].pc = "saveConn"
    BY <1>1 DEF Local, Fields
  <2>3. QED
    BY <1>1, <1>2, <1>3, <2>1, <2>2, EndedIsAside, Aside
<1>6. CASE SaveConn(a)
  <2> DEFINE left == s.kinds \ {s.kind}
             pc == IF left = {} THEN "look" ELSE "lookup"
             r == [s EXCEPT !.kinds = left, !.pc = pc]
  <2>1. (Sets(a, Idle) \/ Sets(a, r)) /\ pc \in {"look", "lookup"}
    BY <1>6 DEF SaveConn
  <2> HIDE DEF left, pc
  <2>2. Local(r) /\ r.op = s.op /\ r.pc = pc
    BY <1>1 DEF Local, Fields
  <2> HIDE DEF r
  <2>3. QED
    BY <1>1, <1>2, <1>3, <2>1, <2>2, IdleIsLocal, Aside
<1>7. QED
  BY <1>4, <1>5, <1>6

LEMMA Beginnings ==
  ASSUME LInv, NEW a \in Actors,
         \/ \E live \in BOOLEAN : Begin(a, live)
         \/ AskTheme(a) \/ (\E k \in Kinds : AskSignIn(a, k)) \/ \E n \in Live : AskOpen(a, n)
  PROVE  LInv'
<1>1. /\ users \in Seq({"", "demo"}) /\ Len(users) <= MaxUsers
      /\ actor[a].pc = "idle" /\ UNCHANGED <<rows, users, stranded>>
  BY DEF LInv, Begin, AskTheme, AskSignIn, AskOpen, Asks, Runs
<1>2. ASSUME NEW live \in BOOLEAN, Begin(a, live) PROVE LInv'
  <2> DEFINE r == [Idle EXCEPT !.op = "demo", !.live = live]
             q == [r EXCEPT !.pc = "user", !.kinds = Kinds]
  <2>1. Sets(a, q) \/ Sets(a, Play(r, NSeed + 1))
    BY <1>2 DEF Begin
  <2>2. Local(r) /\ r.op = "demo"
    BY IdleIsLocal DEF Local, Fields
  <2> HIDE DEF r
  <2>3. Local(q) /\ q.op = "demo" /\ q.pc = "user"
    BY <2>2 DEF Local, Fields
  <2> HIDE DEF q
  <2>4. CASE Sets(a, q)
    BY <1>1, <2>3, <2>4, Aside
  <2>5. CASE Sets(a, Play(r, NSeed + 1))
    <3> DEFINE n == NSeed + 1
               K == {KindOf[n]}
    <3>1. n \in Items
      BY Sizes DEF Items
    <3> HIDE DEF K, n
    <3>2. Play(r, n) = [r EXCEPT !.pc = "user", !.item = n, !.kinds = K]
      BY DEF Play, K
    <3>3. /\ Local([r EXCEPT !.pc = "user", !.item = n, !.kinds = K])
          /\ [r EXCEPT !.pc = "user", !.item = n, !.kinds = K].op = "demo"
          /\ [r EXCEPT !.pc = "user", !.item = n, !.kinds = K].pc = "user"
      BY <2>2, <3>1 DEF Local, Fields
    <3>4. QED
      BY <1>1, <2>5, <3>2, <3>3, Aside DEF n
  <2>6. QED
    BY <2>1, <2>4, <2>5
<1>3. ASSUME NEW r, Asks(a, r), Local(r), r.op \in {"theme", "signin", "open"} PROVE LInv'
  <2>1. Sets(a, [r EXCEPT !.pc = "user"]) /\ a \in Handlers
    BY <1>3 DEF Asks
  <2>2. /\ Local([r EXCEPT !.pc = "user"]) /\ [r EXCEPT !.pc = "user"].op = r.op
        /\ [r EXCEPT !.pc = "user"].pc = "user"
    BY <1>3 DEF Local, Fields
  <2>3. QED
    BY <1>1, <1>3, <2>1, <2>2, Aside
<1>4. CASE AskTheme(a)
  <2>1. Local([Idle EXCEPT !.op = "theme"]) /\ [Idle EXCEPT !.op = "theme"].op = "theme"
    BY IdleIsLocal DEF Local, Fields
  <2>2. QED
    BY <1>3, <1>4, <2>1 DEF AskTheme
<1>5. ASSUME NEW k \in Kinds, AskSignIn(a, k) PROVE LInv'
  <2> DEFINE K == {k}
             r == [Idle EXCEPT !.op = "signin", !.kinds = K]
  <2>1. Asks(a, r)
    BY <1>5 DEF AskSignIn
  <2> HIDE DEF K
  <2>2. Local(r) /\ r.op = "signin"
    BY IdleIsLocal DEF Local, Fields
  <2>3. QED
    BY <1>3, <2>1, <2>2
<1>6. ASSUME NEW n \in Live, AskOpen(a, n) PROVE LInv'
  <2> DEFINE r == [Idle EXCEPT !.op = "open", !.item = n]
  <2>1. Asks(a, r) /\ n \in Items
    BY <1>6, Sizes DEF AskOpen
  <2>2. Local(r) /\ r.op = "open"
    BY <2>1, IdleIsLocal DEF Local, Fields
  <2>3. QED
    BY <1>3, <2>1, <2>2
<1>7. QED
  BY <1>2, <1>4, <1>5, <1>6

LEMMA ItemSteps ==
  ASSUME LInv, NEW a \in Actors, Look(a) \/ ReadRow(a)
  PROVE  LInv'
<1> DEFINE s == actor[a]
<1>1. Local(s) /\ Roles(a) /\ users \in Seq({"", "demo"}) /\ Len(users) <= MaxUsers
      /\ actor = [b \in Actors |-> actor[b]] /\ UNCHANGED <<rows, users, stranded>>
  BY DEF LInv, Look, ReadRow
<1>2. CASE Look(a)
  <2>1. s.pc = "look" /\ (Sets(a, NextItem(a)) \/ Sets(a, [s EXCEPT !.pc = "insert"]))
    BY <1>2 DEF Look, Runs
  <2>2. s.op \in {"demo", "theme", "signin", "open"} /\ (s.op = "open" => a \in Handlers)
    BY <1>1, <2>1 DEF Roles
  <2>3. /\ Local([s EXCEPT !.pc = "insert"]) /\ [s EXCEPT !.pc = "insert"].op = s.op
        /\ [s EXCEPT !.pc = "insert"].pc = "insert"
    BY <1>1 DEF Local, Fields
  <2>4. QED
    BY <1>1, <2>1, <2>2, <2>3, NextItemIsAside, Aside
<1>3. CASE ReadRow(a)
  <2> DEFINE row == rows[Message(a)]
             copy == [row EXCEPT !.read = TRUE]
             r == [s EXCEPT !.pc = "saveRow", !.row = copy]
  <2>1. /\ s.pc = "readRow"
        /\ Sets(a, Idle) \/ (row # NoRow /\ ~row.read /\ Sets(a, r))
    BY <1>3 DEF ReadRow, Runs
  <2>2. CASE Sets(a, Idle)
    BY <1>1, <2>1, <2>2, IdleIsLocal, Aside
  <2>3. CASE row # NoRow /\ Sets(a, r)
    <3>1. a \in Handlers /\ s.op = "open"
      BY <1>1, <2>1 DEF Roles
    <3>2. Message(a) \in UserIds \X Items /\ row \in MessageRow
      BY <1>1 DEF LInv, Local, Message
    <3>3. copy \in MessageRow /\ copy.status = row.status
      BY <3>2 DEF MessageRow
    <3> HIDE DEF copy
    <3>4. Local(r) /\ r.op = s.op /\ r.pc = "saveRow" /\ r.row = copy /\ r.user = s.user
          /\ r.item = s.item
      BY <1>1, <3>3 DEF Local, Fields
    <3> HIDE DEF r
    <3>5. actor'[a] = r /\ (\A b \in Actors \ {a} : actor'[b] = actor[b])
          /\ actor' = [b \in Actors |-> actor'[b]]
      BY <1>1, <2>3 DEF Sets
    <3>6. Message(a)' = Message(a)
      BY <3>4, <3>5 DEF Message
    <3>7. row.status # "none"
      BY <2>3, <3>2 DEF LInv, Message, Local
    <3>8. ASSUME NEW b \in Actors PROVE Local(actor[b])' /\ Roles(b)' /\ CopyAgrees(b)'
      <4>1. CASE b = a
        BY <1>1, <3>1, <3>3, <3>4, <3>5, <3>6, <3>7, <4>1 DEF Roles, CopyAgrees, Local
      <4>2. CASE b # a
        <5>1. actor'[b] = actor[b] /\ Local(actor[b]) /\ Roles(b) /\ CopyAgrees(b)
          BY <3>5, <4>2 DEF LInv
        <5>2. Message(b)' = Message(b)
          BY <5>1 DEF Message
        <5>3. Local(actor[b])' /\ Roles(b)'
          BY <5>1 DEF Local, Roles, Playing
        <5>4. UNCHANGED <<rows, stranded>>
          BY <1>3 DEF ReadRow
        <5>5. QED
          BY <5>1, <5>2, <5>3, <5>4 DEF CopyAgrees
      <4>3. QED
        BY <4>1, <4>2
    <3>9. LiveCloses'
      <4>1. SUFFICES ASSUME NEW u \in UserIds, NEW n \in Live, rows[<<u, n>>].status = "PROCESSING",
                            <<u, n>> \notin stranded
                     PROVE  \E b \in Routines : actor'[b].pc = "pause" /\ Message(b)' = <<u, n>>
        BY <1>1 DEF LiveCloses
      <4>2. PICK b \in Routines : actor[b].pc = "pause" /\ Message(b) = <<u, n>>
        BY <4>1 DEF LInv, LiveCloses
      <4>3. b # a /\ b \in Actors
        BY <2>1, <4>2 DEF Actors
      <4>4. QED
        BY <3>5, <4>2, <4>3 DEF Message
    <3>10. QED
      BY <1>1, <3>5, <3>8, <3>9 DEF LInv
  <2>4. QED
    BY <2>1, <2>2, <2>3
<1>4. QED
  BY <1>2, <1>3

\* Steps that write the message in hand.
LEMMA Writing ==
  ASSUME LInv, NEW a \in Actors, NEW r, Local(r), Sets(a, r),
         NEW x \in MessageRow, x.status # "none", rows' = [rows EXCEPT ![Message(a)] = x],
         UNCHANGED users, stranded \subseteq stranded',
         r.pc \notin {"readRow", "saveRow"}, r.op = "open" => a \in Handlers,
         r.pc \in {"idle", "done", "failed"} \/ r.op \in {"demo", "theme", "signin", "open"},
         r.pc = "pause" => /\ Playing(a)
                           /\ r.user = actor[a].user /\ r.item = actor[a].item,
         \A b \in Actors \ {a} : actor[b].pc = "saveRow" /\ Message(b) = Message(a)
           => Message(a) \in stranded' \/ rows[Message(a)].status = x.status,
         x.status = "PROCESSING"
           => \/ r.pc = "pause" \/ Message(a) \in stranded'
              \/ rows[Message(a)].status = "PROCESSING" /\ actor[a].pc # "pause"
  PROVE  LInv'
<1>1. /\ actor' = [actor EXCEPT ![a] = r] /\ actor = [b \in Actors |-> actor[b]]
      /\ rows \in [UserIds \X Items -> MessageRow] /\ Message(a) \in UserIds \X Items
  BY DEF Sets, LInv, Local, Message
<1>2. /\ actor'[a] = r /\ (\A b \in Actors \ {a} : actor'[b] = actor[b])
      /\ actor' = [b \in Actors |-> actor'[b]]
  BY <1>1
<1>3. /\ rows' \in [UserIds \X Items -> MessageRow] /\ rows'[Message(a)] = x
      /\ \A m \in UserIds \X Items : m # Message(a) => rows'[m] = rows[m]
  BY <1>1
<1>4. ASSUME NEW b \in Actors PROVE Local(actor[b])' /\ Roles(b)' /\ CopyAgrees(b)'
  <2>1. CASE b = a
    BY <1>2, <2>1 DEF Roles, CopyAgrees, Local, Playing
  <2>2. CASE b # a
    <3>1. actor'[b] = actor[b] /\ Local(actor[b]) /\ Roles(b) /\ CopyAgrees(b)
      BY <1>2, <2>2 DEF LInv
    <3>2. Message(b)' = Message(b) /\ Message(b) \in UserIds \X Items
      BY <3>1 DEF Message, Local
    <3>3. Local(actor[b])' /\ Roles(b)'
      BY <3>1 DEF Local, Roles, Playing
    <3>4. CopyAgrees(b)'
      <4>1. CASE Message(b) = Message(a)
        BY <1>3, <2>2, <3>1, <3>2, <4>1 DEF CopyAgrees
      <4>2. CASE Message(b) # Message(a)
        BY <1>3, <3>1, <3>2, <4>2 DEF CopyAgrees
      <4>3. QED
        BY <4>1, <4>2
    <3>5. QED
      BY <3>3, <3>4
  <2>3. QED
    BY <2>1, <2>2
<1>5. \A u \in UserIds, n \in Items : rows'[<<u, n>>].status = "none" => rows'[<<u, n>>] = NoRow
  <2>1. SUFFICES ASSUME NEW u \in UserIds, NEW n \in Items, rows'[<<u, n>>].status = "none"
                 PROVE  rows'[<<u, n>>] = NoRow
    OBVIOUS
  <2>2. <<u, n>> \in UserIds \X Items
    OBVIOUS
  <2>3. <<u, n>> # Message(a)
    BY <1>3, <2>1
  <2>4. QED
    BY <1>3, <2>1, <2>2, <2>3 DEF LInv
<1>6. LiveCloses'
  <2>1. SUFFICES ASSUME NEW u \in UserIds, NEW n \in Live, rows'[<<u, n>>].status = "PROCESSING",
                        <<u, n>> \notin stranded'
                 PROVE  \E b \in Routines : actor'[b].pc = "pause" /\ Message(b)' = <<u, n>>
    BY DEF LiveCloses
  <2>2. <<u, n>> \in UserIds \X Items
    BY Sizes
  <2>3. ASSUME rows[<<u, n>>].status = "PROCESSING", actor[a].pc # "pause" \/ <<u, n>> # Message(a)
        PROVE  \E b \in Routines : actor'[b].pc = "pause" /\ Message(b)' = <<u, n>>
    <3>1. PICK b \in Routines : actor[b].pc = "pause" /\ Message(b) = <<u, n>>
      BY <2>1, <2>3 DEF LInv, LiveCloses
    <3>2. b # a /\ b \in Actors
      BY <2>3, <3>1 DEF Actors
    <3>3. QED
      BY <1>2, <3>1, <3>2 DEF Message
  <2>4. CASE <<u, n>> = Message(a)
    <3>1. CASE r.pc = "pause"
      BY <1>2, <2>4, <3>1 DEF Message, Playing
    <3>2. CASE r.pc # "pause"
      BY <1>3, <2>1, <2>3, <2>4, <3>2
    <3>3. QED
      BY <3>1, <3>2
  <2>5. CASE <<u, n>> # Message(a)
    BY <1>3, <2>1, <2>2, <2>3, <2>5
  <2>6. QED
    BY <2>4, <2>5
<1>7. QED
  BY <1>2, <1>3, <1>4, <1>5, <1>6 DEF LInv

LEMMA RowSteps ==
  ASSUME LInv, NEW a \in Actors, InsertRow(a) \/ SaveVerdict(a) \/ SaveRow(a)
  PROVE  LInv'
<1> DEFINE s == actor[a]
           m == Message(a)
<1>1. Local(s) /\ Roles(a) /\ CopyAgrees(a) /\ UNCHANGED users
      /\ users \in Seq({"", "demo"}) /\ Len(users) <= MaxUsers
  BY DEF LInv, InsertRow, SaveVerdict, SaveRow
<1>2. /\ LiveRow \in MessageRow /\ LiveRow.status = "PROCESSING"
      /\ SeedRow \in MessageRow /\ SeedRow.status = "DONE"
      /\ NoRow.status = "none" /\ Unread("DONE") = SeedRow
  BY DEF LiveRow, SeedRow, NoRow, Unread, MessageRow
<1>3. CASE InsertRow(a)
  <2>1. s.pc = "insert" /\ UNCHANGED stranded
    BY <1>3 DEF InsertRow, Runs
  <2>2. s.op \in {"demo", "theme", "signin", "open"} /\ (s.op = "open" => a \in Handlers)
    BY <1>1, <2>1 DEF Roles
  <2>3. CASE rows[m] # NoRow
    BY <1>1, <1>3, <2>1, <2>3, EndedIsAside, Aside DEF InsertRow
  <2>4. CASE rows[m] = NoRow
    <3>1. ASSUME NEW b \in Actors \ {a}, actor[b].pc = "saveRow", Message(b) = m
          PROVE  m \in stranded'
      <4>1. /\ actor[b].row.status # "none"
            /\ m \in stranded \/ actor[b].row.status = rows[m].status
        BY <3>1 DEF LInv, CopyAgrees
      <4>2. QED
        BY <1>2, <2>1, <2>4, <4>1
    <3>2. CASE Playing(a)
      <4> DEFINE r == [s EXCEPT !.pc = "pause"]
      <4>1. rows' = [rows EXCEPT ![m] = LiveRow] /\ Sets(a, r)
        BY <1>3, <2>4, <3>2 DEF InsertRow
      <4>2. Local(r) /\ r.op = s.op /\ r.pc = "pause" /\ r.user = s.user /\ r.item = s.item
        BY <1>1 DEF Local, Fields
      <4> HIDE DEF r
      <4>3. r.pc \notin {"readRow", "saveRow"} /\ (r.op = "open" => a \in Handlers)
            /\ r.op \in {"demo", "theme", "signin", "open"}
        BY <2>2, <4>2
      <4> HIDE DEF m
      <4>4. stranded \subseteq stranded' /\ m = Message(a)
        BY <2>1 DEF m
      <4>5. QED
        BY <1>1, <1>2, <3>1, <3>2, <4>1, <4>2, <4>3, <4>4, Writing
    <3>3. CASE ~Playing(a)
      <4>1. rows' = [rows EXCEPT ![m] = SeedRow] /\ Sets(a, NextItem(a))
        BY <1>3, <2>4, <3>3 DEF InsertRow
      <4>2. QED
        BY <1>1, <1>2, <2>1, <2>2, <3>1, <4>1, NextItemIsAside, Writing
    <3>4. QED
      BY <3>2, <3>3
  <2>5. QED
    BY <2>3, <2>4
<1>4. CASE SaveVerdict(a)
  <2>1. /\ s.pc = "pause" /\ Sets(a, NextItem(a))
        /\ rows' = [rows EXCEPT ![m] = SeedRow]
        /\ stranded \subseteq stranded' /\ (HeldByRequest(m) => m \in stranded')
    BY <1>2, <1>4 DEF SaveVerdict, Runs
  <2>2. s.op = "open" => a \in Handlers
    BY <1>1 DEF Roles
  <2>3. \A b \in Actors : actor[b].pc = "saveRow" /\ Message(b) = m => m \in stranded'
    BY <2>1 DEF LInv, Roles, HeldByRequest
  <2>4. QED
    BY <1>1, <1>2, <2>1, <2>2, <2>3, NextItemIsAside, Writing
<1>5. CASE SaveRow(a)
  <2>1. /\ s.pc = "saveRow" /\ Sets(a, Idle) /\ UNCHANGED stranded
        /\ rows' = [rows EXCEPT ![m] = s.row]
    BY <1>5 DEF SaveRow, Runs
  <2>2. /\ s.row \in MessageRow /\ s.row.status # "none"
        /\ m \in stranded \/ s.row.status = rows[m].status
    BY <1>1, <2>1 DEF Local, CopyAgrees
  <2>3. QED
    BY <1>1, <2>1, <2>2, IdleIsLocal, Writing
<1>6. QED
  BY <1>3, <1>4, <1>5

LEMMA Failures == ASSUME LInv, NEW a \in Actors, Fault(a) PROVE LInv'
<1>1. /\ Sets(a, Ended(a)) /\ UNCHANGED <<rows, users>> /\ stranded \subseteq stranded'
      /\ actor[a].pc = "pause" => Message(a) \in stranded'
      /\ users \in Seq({"", "demo"}) /\ Len(users) <= MaxUsers
  BY DEF Fault, Stranding, LInv
<1>2. QED
  BY <1>1, EndedIsAside, Aside

LEMMA Deaths == ASSUME LInv, NEW p \in Procs, Dies(p) PROVE LInv'
<1> DEFINE A == {b \in Actors : Home[b] = p}
<1>1. /\ actor' = [b \in Actors |-> IF b \in A THEN Idle ELSE actor[b]]
      /\ UNCHANGED <<rows, users>> /\ stranded \subseteq stranded'
      /\ \A b \in A : actor[b].pc = "pause" => Message(b) \in stranded'
  BY DEF Dies, Stranding
<1>2. ASSUME NEW b \in Actors PROVE Local(actor[b])' /\ Roles(b)' /\ CopyAgrees(b)'
  <2>1. CASE b \in A
    <3>1. actor'[b] = Idle
      BY <1>1, <2>1
    <3>2. QED
      BY <3>1, IdleIsLocal DEF Roles, CopyAgrees, Local
  <2>2. CASE b \notin A
    <3>1. actor'[b] = actor[b] /\ Local(actor[b]) /\ Roles(b) /\ CopyAgrees(b)
      BY <1>1, <2>2 DEF LInv
    <3>2. Message(b)' = Message(b)
      BY <3>1 DEF Message
    <3>3. QED
      BY <1>1, <3>1, <3>2 DEF Local, Roles, Playing, CopyAgrees
  <2>3. QED
    BY <2>1, <2>2
<1>3. LiveCloses'
  <2>1. SUFFICES ASSUME NEW u \in UserIds, NEW n \in Live, rows[<<u, n>>].status = "PROCESSING",
                        <<u, n>> \notin stranded'
                 PROVE  \E b \in Routines : actor'[b].pc = "pause" /\ Message(b)' = <<u, n>>
    BY <1>1 DEF LiveCloses
  <2>2. PICK b \in Routines : actor[b].pc = "pause" /\ Message(b) = <<u, n>>
    BY <1>1, <2>1 DEF LInv, LiveCloses
  <2>3. b \in Actors /\ b \notin A
    BY <1>1, <2>1, <2>2 DEF Actors
  <2>4. QED
    BY <1>1, <2>2, <2>3 DEF Message
<1>4. QED
  BY <1>1, <1>2, <1>3 DEF LInv

LEMMA Settled == LInv /\ UNCHANGED dvars => LInv'
<1> SUFFICES ASSUME LInv, UNCHANGED dvars PROVE LInv'
  OBVIOUS
<1>1. UNCHANGED <<users, rows, actor, stranded>>
  BY DEF dvars
<1>2. ASSUME NEW b \in Actors PROVE Local(actor[b])' /\ Roles(b)' /\ CopyAgrees(b)'
  BY <1>1 DEF LInv, Local, Roles, Playing, CopyAgrees, Message
<1>3. LiveCloses'
  BY <1>1 DEF LInv, LiveCloses, Message
<1>4. QED
  BY <1>1, <1>2, <1>3 DEF LInv

LEMMA LiveSteps == LInv /\ [Next]_vars => LInv'
<1> SUFFICES ASSUME LInv, [Next]_vars PROVE LInv'
  OBVIOUS
<1>1. ASSUME NEW a \in Actors, ActorStep(a) PROVE LInv'
  BY <1>1, UserSteps, SourceSteps, Beginnings, ItemSteps, RowSteps DEF ActorStep
<1>2. ASSUME NEW a \in Actors, Fault(a) PROVE LInv'
  BY <1>2, Failures
<1>3. ASSUME NEW p \in Procs, Dies(p) PROVE LInv'
  BY <1>3, Deaths
<1>4. CASE UNCHANGED dvars
  BY <1>4, Settled
<1>5. QED
  BY <1>1, <1>2, <1>3, <1>4 DEF Next, Leaves, vars

LEMMA Empty == DInit => LInv
<1> SUFFICES ASSUME DInit PROVE LInv
  OBVIOUS
<1>1. /\ rows = [m \in UserIds \X Items |-> NoRow] /\ users = <<>>
      /\ actor = [a \in Actors |-> Idle]
  BY DEF DInit
<1>2. NoRow \in MessageRow /\ NoRow.status = "none"
  BY DEF NoRow, Unread, MessageRow
<1>3. \A b \in Actors : Local(actor[b]) /\ Roles(b) /\ CopyAgrees(b)
  <2>1. \A b \in Actors : actor[b] = Idle
    BY <1>1
  <2>2. QED
    BY <2>1, IdleIsLocal DEF Roles, CopyAgrees
<1>4. LiveCloses
  BY <1>1, <1>2, Sizes DEF LiveCloses
<1>5. users \in Seq({"", "demo"}) /\ Len(users) <= MaxUsers
  BY <1>1, Sizes
<1>6. QED
  BY <1>1, <1>2, <1>3, <1>4, <1>5 DEF LInv

\* A live message in process is left without anybody to close it only by a routine that
\* stopped in its pause, or by a request that held the row across the end of the pause.
THEOREM LiveMessagesClose == Spec => []LiveCloses
<1>1. Init => LInv
  BY Empty DEF Init
<1>2. LInv /\ [Next]_vars => LInv'
  BY LiveSteps
<1>3. LInv => LiveCloses
  BY DEF LInv
<1>4. QED
  BY <1>1, <1>2, <1>3, PTL DEF Spec

-----------------------------------------------------------------------------
(* One user and one feed *)

Full == {"demo", "signed in"}
Finding == {"user", "insertUser", "criteria"}
Linking == {"lookup", "insertConn", "saveConn"}
Filling == {"look", "insert", "pause"}

\* The sources that an item of the demo needs: a live one its own, the others all.
Target(s) == IF s.item \in Live THEN {KindOf[s.item]} ELSE Kinds

\* Who is where, and with which sources still to come.
Role(b, s) ==
  /\ s.kinds \subseteq Kinds /\ s.kind \in Kinds
  /\ s.op \in {"theme", "signin", "open"} => b \in Handlers
  /\ s.pc = "saveUser" => s.op = "theme"
  /\ s.pc \in Linking => s.op \in {"demo", "signin"}
  /\ s.pc \in Filling \union {"criteria", "done"} => s.op = "demo"
  /\ s.op = "demo" /\ s.pc \in Finding => Target(s) \subseteq s.kinds
  /\ s.op = "demo" /\ s.pc \in Finding \union Linking /\ s.item \notin Live => s.item = 1

\* What an actor found or made stays: its user, its sources, the items it is past.
Has(s, us, cn, rw) ==
  /\ s.pc \in Linking \union Filling \union {"criteria", "saveUser", "readRow", "saveRow"}
       => s.user <= Len(us)
  /\ s.op = "demo" /\ s.pc \in Linking =>
       \A k \in Target(s) \ s.kinds : cn[<<s.user, k>>] \in Full
  /\ s.pc \in Filling => \A k \in Target(s) : cn[<<s.user, k>>] \in Full
  /\ s.pc \in {"look", "insert"} /\ s.item \notin Live =>
       \A n \in 1..(s.item - 1) : rw[<<s.user, n>>] # NoRow
  /\ s.pc \in {"pause", "saveRow"} => rw[<<s.user, s.item>>] # NoRow

\* The criteria that a request read are still those of its user, and a demo past them
\* finds its own, unless the two crossed.
Knows(s, us, mx) ==
  /\ s.pc = "saveUser" => us[s.user] = s.criteria \/ s.user \in mx
  /\ s.op = "demo" /\ s.pc \in Linking \union Filling => us[s.user] = "demo" \/ s.user \in mx

Belongs(us, cn, rw) ==
  \A u \in UserIds, n \in Items :
    rw[<<u, n>>] # NoRow => u <= Len(us) /\ cn[<<u, KindOf[n]>>] # "none"

\* Without an overlap there is one user at most, and one actor at most about to make it.
Single ==
  ~overlapped =>
    /\ Len(users) <= 1
    /\ \A b \in Actors : actor[b].user = 1 /\ (actor[b].pc = "insertUser" => Len(users) = 0)
    /\ \A b, c \in Actors : actor[b].pc = "insertUser" /\ actor[c].pc = "insertUser" => b = c

\* What a Seed that came to its end leaves.
Finished(b, s) == b \in Loaders /\ s.op = "demo" /\ (s.item \in Live \/ s.pc = "done")
Filled(us, cn, rw, mx) ==
  /\ \A n \in Items \ Live : rw[<<1, n>>] # NoRow
  /\ \A k \in Kinds : cn[<<1, k>>] \in Full
  /\ us[1] = "demo" \/ 1 \in mx

Tables == /\ conn \in [UserIds \X Kinds -> {"none", "off", "demo", "signed in"}]
          /\ requests \in 0..MaxRequests /\ overlapped \in BOOLEAN /\ mixed \subseteq UserIds
          /\ stranded \subseteq UserIds \X Live
          /\ Belongs(users, conn, rows)

FInv ==
  /\ Tables
  /\ \A b \in Actors : /\ Role(b, actor[b]) /\ Has(actor[b], users, conn, rows)
                       /\ Knows(actor[b], users, mixed)
  /\ Single
  /\ ~overlapped => \A b \in Loaders : Finished(b, actor[b]) => Filled(users, conn, rows, mixed)

\* A step takes nothing away.
Kept ==
  /\ Len(users) <= Len(users')
  /\ \A u \in UserIds, k \in Kinds : /\ conn[<<u, k>>] \in Full => conn'[<<u, k>>] \in Full
                                     /\ conn[<<u, k>>] # "none" => conn'[<<u, k>>] # "none"
  /\ \A u \in UserIds, n \in Items : rows[<<u, n>>] # NoRow => rows'[<<u, n>>] # NoRow
  /\ mixed \subseteq mixed'

\* Criteria change only to those of the demo, and behind nobody's back but a mixed user's.
Told(a) ==
  \A u \in 1..Len(users) :
    \/ users'[u] = users[u] \/ u \in mixed'
    \/ users'[u] = "demo" /\ \A b \in Actors \ {a} : actor[b].pc = "saveUser" => actor[b].user # u

LEMMA Lengths == \A q \in Seq({"", "demo"}) : Len(q) \in Nat
BY LenProperties

LEMMA OthersStay ==
  ASSUME LInv, LInv', FInv, NEW a \in Actors, Kept, Told(a), NEW b \in Actors \ {a}
  PROVE  /\ Role(b, actor[b]) /\ Has(actor[b], users', conn', rows')
         /\ Knows(actor[b], users', mixed')
<1> DEFINE s == actor[b]
<1>1. /\ Role(b, s) /\ Has(s, users, conn, rows) /\ Knows(s, users, mixed)
      /\ s.user \in UserIds /\ s.item \in Items
  BY DEF FInv, LInv, Local
<1> DEFINE len == Len(users)
           len2 == Len(users')
<1>a. len \in Nat /\ len2 \in Nat /\ len <= len2
  BY Lengths DEF LInv, Kept
<1>b. s.user \in Nat \ {0} /\ s.item \in Nat
  BY <1>1, Sizes DEF UserIds, Items
<1>2. Target(s) \subseteq Kinds
  BY <1>1, Sizes DEF Target
<1>3. Has(s, users', conn', rows')
  <2>1. \A n \in 1..(s.item - 1) : n \in Items
    BY <1>1, Sizes DEF Items
  <2>2. /\ \A k \in Kinds : conn[<<s.user, k>>] \in Full => conn'[<<s.user, k>>] \in Full
        /\ \A n \in Items : rows[<<s.user, n>>] # NoRow => rows'[<<s.user, n>>] # NoRow
    BY <1>1 DEF Kept
  <2>3. s.user <= Len(users) => s.user <= Len(users')
    <3> HIDE DEF len, len2
    <3>1. s.user <= len => s.user <= len2
      BY <1>a, <1>b
    <3>2. QED
      BY <3>1 DEF len, len2
  <2>4. QED
    BY <1>1, <1>2, <2>1, <2>2, <2>3 DEF Has
<1>4. Knows(s, users', mixed')
  <2>1. CASE s.user \in 1..Len(users)
    BY <1>1, <2>1 DEF Knows, Kept, Told
  <2>2. CASE s.user \notin 1..Len(users)
    <3> HIDE DEF len
    <3>1. ~(s.user <= len)
      <4>1. s.user \notin 1..len
        BY <2>2 DEF len
      <4>2. QED
        BY <1>a, <1>b, <4>1
    <3>2. QED
      BY <1>1, <3>1 DEF Has, Knows, len
  <2>3. QED
    BY <2>1, <2>2
<1>5. QED
  BY <1>1, <1>3, <1>4

LEMMA FilledStays ==
  ASSUME LInv, FInv, NEW a \in Actors, Kept, Told(a), Filled(users, conn, rows, mixed)
  PROVE  Filled(users', conn', rows', mixed')
<1> DEFINE len == Len(users)
<1>1. 1 \in UserIds /\ 1 \in Items \ Live
  BY Sizes DEF UserIds, Items, Live
<1>2. len \in Nat /\ 1 <= len
  BY <1>1, Lengths DEF LInv, FInv, Tables, Belongs, Filled
<1> HIDE DEF len
<1>3. 1 \in 1..Len(users)
  <2>1. 1 \in 1..len
    BY <1>2
  <2>2. QED
    BY <2>1 DEF len
<1>4. users'[1] = "demo" \/ 1 \in mixed'
  BY <1>3 DEF Filled, Kept, Told
<1>5. QED
  BY <1>1, <1>4 DEF Filled, Kept

\* A step of one actor that keeps what the others have, and has itself what its place needs.
LEMMA FeedStep ==
  ASSUME LInv, LInv', FInv, NEW a \in Actors, NEW r, Sets(a, r), Kept, Told(a), Tables', Single',
         Role(a, r), Has(r, users', conn', rows'), Knows(r, users', mixed'),
         overlapped => overlapped',
         ~overlapped' /\ Finished(a, r)
           => Finished(a, actor[a]) \/ Filled(users', conn', rows', mixed')
  PROVE  FInv'
<1>1. actor'[a] = r /\ \A b \in Actors \ {a} : actor'[b] = actor[b]
  BY DEF Sets, LInv
<1>2. ASSUME NEW b \in Actors
      PROVE  /\ Role(b, actor'[b]) /\ Has(actor'[b], users', conn', rows')
             /\ Knows(actor'[b], users', mixed')
  BY <1>1, OthersStay
<1>3. ASSUME ~overlapped', NEW b \in Loaders, Finished(b, actor'[b])
      PROVE  Filled(users', conn', rows', mixed')
  <2>1. b \in Actors
    BY DEF Actors, Routines
  <2>2. (\E c \in Loaders : Finished(c, actor[c])) \/ Filled(users', conn', rows', mixed')
    BY <1>1, <1>3, <2>1 DEF Finished
  <2>3. QED
    BY <1>3, <2>2, FilledStays DEF FInv
<1>4. QED
  BY <1>2, <1>3 DEF FInv

\* Only who meets an empty table, or fills it, touches what makes one user of it.
LEMMA SingleStays ==
  ASSUME LInv, FInv, NEW a \in Actors, NEW r, Sets(a, r), UNCHANGED overlapped,
         Len(users') = Len(users), r.user \in {actor[a].user, 1}, r.pc # "insertUser"
  PROVE  Single'
<1>1. actor'[a] = r /\ \A b \in Actors \ {a} : actor'[b] = actor[b]
  BY DEF Sets, LInv
<1>2. QED
  BY <1>1 DEF FInv, Single

LEMMA SameUsers == ASSUME LInv, UNCHANGED users PROVE Len(users) <= Len(users')
<1> DEFINE len == Len(users)
<1>1. len \in Nat /\ len = Len(users')
  BY Lengths DEF LInv
<1> HIDE DEF len
<1>2. len <= len
  BY <1>1
<1>3. QED
  BY <1>1, <1>2 DEF len

\* What a step changes that leaves the tables alone.
LEMMA Untouched ==
  ASSUME LInv, FInv, NEW a \in Actors, UNCHANGED <<users, conn, rows, mixed>>
  PROVE  Kept /\ Told(a)
<1>1. Len(users) <= Len(users')
  BY SameUsers
<1>2. QED
  BY <1>1 DEF Kept, Told

\* A step that looks at the tables only.
LEMMA LookingOn ==
  ASSUME LInv, LInv', FInv, NEW a \in Actors, NEW r, Sets(a, r),
         UNCHANGED <<users, conn, rows, mixed, overlapped>>,
         stranded' \subseteq UserIds \X Live, requests' \in 0..MaxRequests,
         r.user \in {actor[a].user, 1}, r.pc # "insertUser",
         Role(a, r), Has(r, users, conn, rows), Knows(r, users, mixed),
         ~overlapped /\ Finished(a, r)
           => Finished(a, actor[a]) \/ Filled(users, conn, rows, mixed)
  PROVE  FInv'
<1>1. Kept /\ Told(a)
  BY Untouched
<1>2. Single'
  BY SingleStays
<1>3. Tables'
  BY DEF FInv, Tables
<1>4. QED
  BY <1>1, <1>2, <1>3, FeedStep

\* A place where nothing is held.
LEMMA Resting ==
  ASSUME NEW b \in Actors, NEW s, Local(s), s.kinds \subseteq Kinds, s.kind \in Kinds,
         s.op = "none", s.pc \in {"idle", "failed"}
  PROVE  /\ Role(b, s) /\ ~Finished(b, s)
         /\ \A us, cn, rw, mx : Has(s, us, cn, rw) /\ Knows(s, us, mx)
BY DEF Role, Has, Knows, Finished, Linking, Filling, Finding

LEMMA IdleRests ==
  ASSUME NEW b \in Actors
  PROVE  /\ Idle.user = 1 /\ Idle.kinds = {} /\ Idle.kind \in Kinds
         /\ Idle.item = 1 /\ Idle.row = NoRow
         /\ Role(b, Idle) /\ ~Finished(b, Idle)
         /\ \A us, cn, rw, mx : Has(Idle, us, cn, rw) /\ Knows(Idle, us, mx)
<1>1. /\ Idle.user = 1 /\ Idle.kinds = {} /\ Idle.kind = KindOf[1] /\ Idle.item = 1
      /\ Idle.row = NoRow
  BY DEF Idle
<1>2. QED
  BY <1>1, Sizes, IdleIsLocal, Resting

LEMMA EndedRests ==
  ASSUME NEW b \in Actors
  PROVE  /\ Ended(b).user = 1 /\ Ended(b).pc # "insertUser"
         /\ Role(b, Ended(b)) /\ ~Finished(b, Ended(b))
         /\ \A us, cn, rw, mx : Has(Ended(b), us, cn, rw) /\ Knows(Ended(b), us, mx)
<1>1. /\ Local(Idle) /\ Idle.user = 1 /\ Idle.kinds = {} /\ Idle.kind \in Kinds
      /\ Idle.pc = "idle" /\ Idle.op = "none"
  BY IdleRests, IdleIsLocal
<1>2. /\ Ended(b).user = 1 /\ Ended(b).kinds = {} /\ Ended(b).kind \in Kinds
  BY <1>1 DEF Ended, Local, Fields
<1>3. QED
  BY <1>2, EndedIsAside, Resting

LEMMA WithUserKnows ==
  ASSUME LInv, FInv, NEW a \in Actors, NEW u \in UserIds, NEW c \in {"", "demo"},
         actor[a].pc \in {"user", "insertUser"}
  PROVE  /\ WithUser(a, u, c).user = u /\ WithUser(a, u, c).op = actor[a].op
         /\ WithUser(a, u, c).item = actor[a].item
         /\ WithUser(a, u, c).pc \in {"criteria", "lookup", "saveUser", "readRow"}
         /\ Role(a, WithUser(a, u, c))
         /\ \A us, cn, rw, mx : u <= Len(us) /\ us[u] = c
              => Has(WithUser(a, u, c), us, cn, rw) /\ Knows(WithUser(a, u, c), us, mx)
<1> DEFINE s == actor[a]
           pc == CASE s.op = "demo" -> IF c = "" THEN "criteria" ELSE "lookup"
                   [] s.op = "theme" -> "saveUser"
                   [] s.op = "signin" -> "lookup"
                   [] s.op = "open" -> "readRow"
           k == IF s.op = "theme" THEN c ELSE ""
           r == [s EXCEPT !.user = u, !.criteria = k, !.pc = pc]
<1>1. Local(s) /\ s.op \in {"demo", "theme", "signin", "open"} /\ Role(a, s)
  BY DEF LInv, Roles, FInv
<1>2. /\ pc \in {"criteria", "lookup", "saveUser", "readRow"} /\ k \in {"", "demo"}
      /\ pc = "criteria" => s.op = "demo"
      /\ pc = "lookup" => (s.op = "demo" /\ c = "demo") \/ s.op = "signin"
      /\ pc = "saveUser" => s.op = "theme" /\ k = c
      /\ pc = "readRow" => s.op = "open"
  BY <1>1
<1>3. WithUser(a, u, c) = r
  BY DEF WithUser
<1> HIDE DEF pc, k
<1>4. /\ r.op = s.op /\ r.pc = pc /\ r.user = u /\ r.criteria = k /\ r.kinds = s.kinds
      /\ r.kind = s.kind /\ r.item = s.item
  BY <1>1, <1>2 DEF Local, Fields
<1> HIDE DEF r
<1>5. Target(r) = Target(s)
  BY <1>4 DEF Target
<1>6. s.op = "demo" => Target(r) \subseteq r.kinds /\ (r.item \notin Live => r.item = 1)
  BY <1>1, <1>4, <1>5 DEF Role, Finding
<1>7. Role(a, r)
  BY <1>1, <1>2, <1>4, <1>6 DEF Role, Finding, Linking, Filling
<1>8. ASSUME NEW us, NEW cn, NEW rw, NEW mx, u <= Len(us), us[u] = c
      PROVE  Has(r, us, cn, rw) /\ Knows(r, us, mx)
  BY <1>2, <1>4, <1>6, <1>8 DEF Has, Knows, Linking, Filling
<1>9. QED
  BY <1>2, <1>3, <1>4, <1>7, <1>8

LEMMA FindsUser == ASSUME LInv, LInv', FInv, NEW a \in Actors, FindUser(a) PROVE FInv'
<1> DEFINE s == actor[a]
<1>1. /\ s.pc = "user" /\ UNCHANGED <<requests, users, conn, rows, mixed, stranded>>
      /\ Local(s) /\ Role(a, s) /\ Tables /\ users \in Seq({"", "demo"})
  BY DEF FindUser, Runs, LInv, FInv
<1>2. CASE users = <<>>
  <2> DEFINE r == [s EXCEPT !.pc = "insertUser"]
  <2>1. Sets(a, r) /\ overlapped' = (overlapped \/ \E b \in Actors : actor[b].pc = "insertUser")
    BY <1>2 DEF FindUser
  <2>2. /\ r.op = s.op /\ r.pc = "insertUser" /\ r.user = s.user /\ r.kinds = s.kinds
        /\ r.kind = s.kind /\ r.item = s.item
    BY <1>1 DEF Local, Fields
  <2> HIDE DEF r
  <2>3. Target(r) = Target(s)
    BY <2>2 DEF Target
  <2>4. Role(a, r)
    BY <1>1, <2>2, <2>3 DEF Role, Finding, Linking, Filling
  <2>5. Has(r, users', conn', rows') /\ Knows(r, users', mixed')
    BY <2>2 DEF Has, Knows, Linking, Filling
  <2>6. Finished(a, r) => Finished(a, s)
    BY <2>2 DEF Finished
  <2>7. overlapped' \in BOOLEAN /\ (overlapped => overlapped')
        /\ (~overlapped' => ~overlapped /\ \A b \in Actors : actor[b].pc # "insertUser")
    <3>1. ((overlapped \/ \E b \in Actors : actor[b].pc = "insertUser")) \in BOOLEAN
      OBVIOUS
    <3>2. QED
      BY <2>1, <3>1
  <2>8. Single'
    <3>1. actor'[a] = r /\ \A b \in Actors \ {a} : actor'[b] = actor[b]
      BY <2>1 DEF Sets, LInv
    <3>2. Len(users) = 0
      BY <1>2
    <3>3. QED
      BY <1>1, <2>2, <2>7, <3>1, <3>2 DEF FInv, Single
  <2>9. Tables'
    BY <1>1, <2>7 DEF Tables
  <2>10. Kept /\ Told(a)
    BY <1>1, Untouched
  <2>11. QED
    BY <2>1, <2>4, <2>5, <2>6, <2>7, <2>8, <2>9, <2>10, FeedStep
<1>3. CASE users # <<>>
  <2> DEFINE c == users[1]
             r == WithUser(a, 1, c)
             len == Len(users)
  <2>1. Sets(a, r) /\ UNCHANGED overlapped
    BY <1>3 DEF FindUser
  <2>2. c \in {"", "demo"} /\ 1 \in UserIds /\ 1 <= Len(users)
    <3>1. c \in {"", "demo"}
      BY <1>1, <1>3, Lists
    <3>2. len \in Nat /\ len # 0
      BY <1>1, <1>3, Lengths, EmptySeq
    <3> HIDE DEF len
    <3>3. 1 <= len
      BY <3>2
    <3>4. QED
      BY <3>1, <3>3, Sizes DEF len
  <2>3. c = users[1]
    OBVIOUS
  <2> HIDE DEF c
  <2>4. /\ r.user = 1 /\ r.op = s.op /\ r.item = s.item /\ r.pc # "insertUser" /\ Role(a, r)
        /\ Has(r, users, conn, rows) /\ Knows(r, users, mixed) /\ r.pc # "done"
    BY <1>1, <2>2, <2>3, WithUserKnows
  <2>5. Finished(a, r) => Finished(a, s)
    BY <2>4 DEF Finished
  <2> HIDE DEF r
  <2>6. stranded' \subseteq UserIds \X Live /\ requests' \in 0..MaxRequests
    BY <1>1 DEF Tables
  <2>7. QED
    BY <1>1, <2>1, <2>4, <2>5, <2>6, LookingOn
<1>4. QED
  BY <1>2, <1>3

LEMMA OneAppended ==
  ASSUME NEW S, NEW q \in Seq(S), NEW x \in S, Len(q) < MaxUsers
  PROVE  /\ Len(Append(q, x)) = Len(q) + 1 /\ Append(q, x)[Len(q) + 1] = x
         /\ \A u \in 1..Len(q) : Append(q, x)[u] = q[u]
         /\ Len(q) <= Len(q) + 1 /\ Len(q) + 1 <= Len(q) + 1 /\ Len(q) + 1 \in UserIds
         /\ \A u \in UserIds : u <= Len(q) => u <= Len(q) + 1
<1>1. Len(q) \in Nat /\ MaxUsers \in Nat
  BY LenProperties, Sizes
<1>2. /\ Len(Append(q, x)) = Len(q) + 1 /\ Append(q, x)[Len(q) + 1] = x
      /\ \A u \in 1..Len(q) : Append(q, x)[u] = q[u]
  BY AppendProperties
<1> DEFINE len == Len(q)
<1>3. len \in Nat /\ len < MaxUsers
  BY <1>1
<1> HIDE DEF len
<1>4. len <= len + 1 /\ len + 1 <= len + 1 /\ len + 1 \in UserIds
  BY <1>1, <1>3 DEF UserIds
<1>5. \A u \in UserIds : u <= len => u <= len + 1
  BY <1>1, <1>3 DEF UserIds
<1> USE DEF len
<1>6. QED
  BY <1>2, <1>4, <1>5

LEMMA MakesUser == ASSUME LInv, LInv', FInv, NEW a \in Actors, InsertUser(a) PROVE FInv'
<1> DEFINE s == actor[a]
           new == Len(users) + 1
           r == WithUser(a, new, "")
<1>1. /\ s.pc = "insertUser" /\ UNCHANGED <<requests, conn, rows, overlapped, mixed, stranded>>
      /\ users' = Append(users, "") /\ Sets(a, r) /\ Len(users) < MaxUsers
      /\ Role(a, s) /\ Tables /\ users \in Seq({"", "demo"})
  BY DEF InsertUser, Runs, LInv, FInv
<1>2. /\ Len(users') = new /\ users'[new] = ""
      /\ \A u \in 1..Len(users) : users'[u] = users[u]
      /\ Len(users) <= new /\ new <= new /\ new \in UserIds
      /\ \A u \in UserIds : u <= Len(users) => u <= new
  <2> DEFINE C == {"", "demo"}
  <2>1. "" \in C
    OBVIOUS
  <2> HIDE DEF C
  <2>2. users \in Seq(C)
    BY <1>1 DEF C
  <2>3. QED
    BY <1>1, <2>1, <2>2, OneAppended
<1>3. Kept /\ Told(a)
  BY <1>1, <1>2 DEF Kept, Told
<1>4. Belongs(users', conn', rows')
  BY <1>1, <1>2 DEF Tables, Belongs
<1>6. /\ r.user = new /\ r.op = s.op /\ r.item = s.item
      /\ r.pc \in {"criteria", "lookup", "saveUser", "readRow"} /\ Role(a, r)
      /\ Has(r, users', conn', rows') /\ Knows(r, users', mixed')
  <2>1. new <= Len(users') /\ users'[new] = "" /\ new \in UserIds
    BY <1>2
  <2> HIDE DEF new
  <2>2. QED
    BY <1>1, <2>1, WithUserKnows
<1>7. Finished(a, r) => Finished(a, s)
  BY <1>6 DEF Finished
<1>8. Single'
  <2>0. r.user = new /\ r.pc # "insertUser"
    BY <1>6
  <2> HIDE DEF r
  <2>1. actor'[a] = r /\ \A b \in Actors \ {a} : actor'[b] = actor[b]
    BY <1>1 DEF Sets, LInv
  <2>2. ASSUME ~overlapped
        PROVE  /\ Len(users') <= 1
               /\ \A b \in Actors : actor'[b].user = 1 /\ actor'[b].pc # "insertUser"
    <3>1. /\ Len(users) = 0
          /\ \A b \in Actors \ {a} : actor[b].user = 1 /\ actor[b].pc # "insertUser"
      BY <1>1, <2>2 DEF FInv, Single
    <3>2. new = 1
      BY <3>1
    <3>3. Len(users') = 1
      BY <1>2, <3>2
    <3>4. Len(users') <= 1
      BY <3>3
    <3> HIDE DEF new
    <3>5. QED
      BY <2>0, <2>1, <3>1, <3>2, <3>4
  <2>3. QED
    BY <1>1, <2>2 DEF Single
<1>9. Tables'
  BY <1>1, <1>4 DEF Tables
<1> HIDE DEF r
<1>10. QED
  BY <1>1, <1>3, <1>6, <1>7, <1>8, <1>9, FeedStep

\* Criteria that are replaced leave the others, and the number of users.
LEMMA OneReplaced ==
  ASSUME NEW S, NEW q \in Seq(S), NEW i \in 1..Len(q), NEW c \in S
  PROVE  /\ Len([q EXCEPT ![i] = c]) = Len(q) /\ [q EXCEPT ![i] = c][i] = c
         /\ \A u \in 1..Len(q) : u # i => [q EXCEPT ![i] = c][u] = q[u]
         /\ Len(q) <= Len(q)
<1>1. Len(q) \in Nat
  BY LenProperties
<1>2. Len(q) <= Len(q)
  BY <1>1
<1>3. QED
  BY <1>2, ExceptSeq, LenProperties

\* Who writes criteria has a user in the table.
LEMMA HasUser ==
  ASSUME LInv, FInv, NEW a \in Actors, actor[a].pc \in {"criteria", "saveUser"}
  PROVE  actor[a].user \in 1..Len(users)
<1> DEFINE len == Len(users)
           u == actor[a].user
<1>1. u <= len
  BY DEF FInv, Has
<1>2. len \in Nat
  BY Lengths DEF LInv
<1>3. u \in Nat \ {0}
  <2>1. u \in UserIds
    BY DEF LInv, Local
  <2>2. QED
    BY <2>1, Sizes DEF UserIds
<1> HIDE DEF len, u
<1>4. u \in 1..len
  BY <1>1, <1>2, <1>3
<1>5. QED
  BY <1>4 DEF len, u

LEMMA WritesCriteria ==
  ASSUME LInv, LInv', FInv, NEW a \in Actors, SaveCriteria(a) \/ SaveUser(a) PROVE FInv'
<1> DEFINE s == actor[a]
           u == s.user
<1>1. /\ UNCHANGED <<requests, conn, rows, overlapped, stranded>> /\ u \in UserIds
      /\ Local(s) /\ Role(a, s) /\ Has(s, users, conn, rows) /\ Knows(s, users, mixed) /\ Tables
      /\ users \in Seq({"", "demo"}) /\ s.criteria \in {"", "demo"}
      /\ s.pc \in {"criteria", "saveUser"} /\ u \in 1..Len(users)
  BY HasUser DEF SaveCriteria, SaveUser, Runs, LInv, FInv, Local
<1>a. ASSUME NEW c \in {"", "demo"}, users' = [users EXCEPT ![u] = c]
      PROVE  /\ Len(users') = Len(users) /\ users'[u] = c
             /\ \A v \in 1..Len(users) : v # u => users'[v] = users[v]
             /\ Len(users) <= Len(users)
  <2> DEFINE C == {"", "demo"}
  <2>1. c \in C
    OBVIOUS
  <2> HIDE DEF C
  <2>2. users \in Seq(C)
    BY <1>1 DEF C
  <2>3. u \in 1..Len(users)
    BY <1>1
  <2> HIDE DEF u
  <2>4. /\ Len([users EXCEPT ![u] = c]) = Len(users) /\ [users EXCEPT ![u] = c][u] = c
        /\ \A v \in 1..Len(users) : v # u => [users EXCEPT ![u] = c][v] = users[v]
        /\ Len(users) <= Len(users)
    BY <2>1, <2>2, <2>3, OneReplaced
  <2>5. QED
    BY <1>a, <2>4
<1>2. ASSUME Len(users') = Len(users), Len(users) <= Len(users),
             mixed \subseteq mixed', mixed' \subseteq UserIds
      PROVE  Kept /\ Tables'
  BY <1>1, <1>2 DEF Kept, Tables, Belongs
<1>3. CASE SaveCriteria(a)
  <2> DEFINE r == [s EXCEPT !.pc = "lookup"]
  <2>1. /\ s.pc = "criteria" /\ users' = [users EXCEPT ![u] = "demo"] /\ Sets(a, r)
        /\ mixed' = mixed \union {v \in {u} :
             \E b \in Handlers : actor[b].pc = "saveUser" /\ actor[b].user = v}
    BY <1>3 DEF SaveCriteria, Runs
  <2>2. /\ r.op = s.op /\ r.pc = "lookup" /\ r.user = u /\ r.kinds = s.kinds
        /\ r.kind = s.kind /\ r.item = s.item
    BY <1>1 DEF Local, Fields
  <2> HIDE DEF r
  <2>3. /\ Len(users') = Len(users) /\ users'[u] = "demo"
        /\ \A v \in 1..Len(users) : v # u => users'[v] = users[v]
        /\ Len(users) <= Len(users)
    BY <1>1, <1>a, <2>1
  <2>4. mixed \subseteq mixed' /\ mixed' \subseteq UserIds
    BY <1>1, <2>1 DEF Tables
  <2>5. Told(a)
    <3>1. \A b \in Actors : actor[b].pc = "saveUser" /\ actor[b].user = u => u \in mixed'
      <4>1. SUFFICES ASSUME NEW b \in Actors, actor[b].pc = "saveUser", actor[b].user = u
                     PROVE  u \in mixed'
        OBVIOUS
      <4>2. b \in Handlers
        BY <4>1 DEF FInv, Role
      <4>3. QED
        BY <2>1, <4>1, <4>2
    <3>2. QED
      BY <2>3, <3>1 DEF Told
  <2>6. s.op = "demo" /\ Target(r) = Target(s) /\ Target(r) \subseteq r.kinds
    BY <1>1, <2>1, <2>2 DEF Role, Target, Finding
  <2>7. Role(a, r)
    BY <1>1, <2>1, <2>2, <2>6 DEF Role, Finding, Linking, Filling
  <2>8. Has(r, users', conn', rows') /\ Knows(r, users', mixed')
    BY <1>1, <2>1, <2>2, <2>3, <2>6 DEF Has, Knows, Linking, Filling
  <2>9. Finished(a, r) => Finished(a, s)
    BY <2>2 DEF Finished
  <2>10. Single'
    BY <1>1, <2>1, <2>2, <2>3, SingleStays
  <2>11. Kept /\ Tables'
    BY <1>2, <2>3, <2>4
  <2>12. QED
    BY <1>1, <2>1, <2>5, <2>7, <2>8, <2>9, <2>10, <2>11, FeedStep
<1>4. CASE SaveUser(a)
  <2>1. /\ s.pc = "saveUser" /\ users' = [users EXCEPT ![u] = s.criteria] /\ Sets(a, Idle)
        /\ UNCHANGED mixed
    BY <1>4 DEF SaveUser, Runs
  <2>2. /\ Len(users') = Len(users) /\ users'[u] = s.criteria
        /\ \A v \in 1..Len(users) : v # u => users'[v] = users[v]
        /\ Len(users) <= Len(users)
    BY <1>1, <1>a, <2>1
  <2>3. users[u] = s.criteria \/ u \in mixed
    BY <1>1, <2>1 DEF Knows
  <2>4. Told(a)
    BY <2>1, <2>2, <2>3 DEF Told
  <2>5. Kept /\ Tables'
    BY <1>1, <1>2, <2>1, <2>2 DEF Tables
  <2>6. Single'
    BY <1>1, <2>1, <2>2, IdleRests, IdleIsLocal, SingleStays
  <2>7. QED
    BY <1>1, <2>1, <2>4, <2>5, <2>6, IdleRests, FeedStep
<1>5. QED
  BY <1>3, <1>4

\* Who is about its sources: the next place is one of the same, or past them all.
LEMMA Linked ==
  ASSUME NEW a \in Actors, NEW s, NEW r, NEW us, NEW mx, Role(a, s), Knows(s, us, mx),
         s.pc \in Linking, r.op = s.op, r.user = s.user, r.item = s.item,
         r.kinds \subseteq Kinds, r.kind \in Kinds,
         r.pc \in Linking \/ (r.pc = "look" /\ s.op = "demo")
  PROVE  Role(a, r) /\ Knows(r, us, mx) /\ Target(r) = Target(s) /\ (Finished(a, r) => Finished(a, s))
<1>1. Target(r) = Target(s)
  BY DEF Target
<1>2. s.op \in {"demo", "signin"}
  BY DEF Role
<1>3. Role(a, r)
  BY <1>2 DEF Role, Finding, Linking, Filling
<1>4. Knows(r, us, mx)
  BY DEF Knows, Linking, Filling
<1>5. QED
  BY <1>1, <1>3, <1>4 DEF Finished, Linking

LEMMA LooksUp ==
  ASSUME LInv, LInv', FInv, NEW a \in Actors, NEW k \in Kinds, Lookup(a, k) PROVE FInv'
<1> DEFINE s == actor[a]
           pc == IF conn[<<s.user, k>>] = "none" THEN "insertConn" ELSE "saveConn"
           r == [s EXCEPT !.kind = k, !.pc = pc]
<1>1. /\ s.pc = "lookup" /\ UNCHANGED <<requests, users, conn, rows, overlapped, mixed, stranded>>
      /\ Sets(a, r) /\ Local(s) /\ Tables
      /\ Role(a, s) /\ Has(s, users, conn, rows) /\ Knows(s, users, mixed)
  BY DEF Lookup, Runs, LInv, FInv
<1>2. pc \in {"insertConn", "saveConn"}
  OBVIOUS
<1> HIDE DEF pc
<1>3. /\ r.op = s.op /\ r.pc = pc /\ r.user = s.user /\ r.kinds = s.kinds /\ r.kind = k
      /\ r.item = s.item
  BY <1>1 DEF Local, Fields
<1> HIDE DEF r
<1>4. s.pc \in Linking /\ r.pc \in Linking /\ r.kinds \subseteq Kinds
  BY <1>1, <1>2, <1>3 DEF Linking, Role
<1>5. Role(a, r) /\ Knows(r, users, mixed) /\ Target(r) = Target(s)
      /\ (Finished(a, r) => Finished(a, s))
  BY <1>1, <1>3, <1>4, Linked
<1>6. Has(r, users, conn, rows)
  BY <1>1, <1>2, <1>3, <1>5 DEF Has, Linking, Filling
<1>7. stranded' \subseteq UserIds \X Live /\ requests' \in 0..MaxRequests
  BY <1>1 DEF Tables
<1>8. QED
  BY <1>1, <1>2, <1>3, <1>5, <1>6, <1>7, LookingOn

\* A connection that is written, and becomes no less than it was.
LEMMA Connected ==
  ASSUME LInv, LInv', FInv, NEW a \in Actors, NEW x \in {"off", "demo", "signed in"},
         actor[a].kind \in Kinds,
         UNCHANGED <<requests, users, rows, overlapped, mixed, stranded>>,
         conn' = [conn EXCEPT ![Source(a)] = x], x \in Full \/ conn[Source(a)] = "none"
  PROVE  Kept /\ Told(a) /\ Tables' /\ conn'[<<actor[a].user, actor[a].kind>>] = x
<1> DEFINE C == {"none", "off", "demo", "signed in"}
<1>1. /\ Source(a) = <<actor[a].user, actor[a].kind>> /\ Source(a) \in UserIds \X Kinds
      /\ conn \in [UserIds \X Kinds -> C] /\ x \in C /\ Tables
  BY DEF Source, LInv, Local, FInv, Tables
<1>2. "none" \notin Full /\ x # "none"
  BY DEF Full
<1> HIDE DEF C
<1>3. /\ conn' \in [UserIds \X Kinds -> C] /\ conn'[Source(a)] = x
      /\ \A c \in UserIds \X Kinds : c # Source(a) => conn'[c] = conn[c]
  BY <1>1
<1>4. Len(users) <= Len(users')
  BY SameUsers
<1>5. ASSUME NEW u \in UserIds, NEW k \in Kinds
      PROVE  /\ conn[<<u, k>>] \in Full => conn'[<<u, k>>] \in Full
             /\ conn[<<u, k>>] # "none" => conn'[<<u, k>>] # "none"
  <2>1. CASE <<u, k>> = Source(a)
    BY <1>2, <1>3, <2>1
  <2>2. CASE <<u, k>> # Source(a)
    BY <1>3, <2>2
  <2>3. QED
    BY <2>1, <2>2
<1>6. Kept /\ Told(a)
  BY <1>4, <1>5 DEF Kept, Told
<1>7. Belongs(users', conn', rows')
  <2>1. SUFFICES ASSUME NEW u \in UserIds, NEW n \in Items, rows[<<u, n>>] # NoRow
                 PROVE  u <= Len(users) /\ conn'[<<u, KindOf[n]>>] # "none"
    BY DEF Belongs
  <2>2. u <= Len(users) /\ conn[<<u, KindOf[n]>>] # "none" /\ KindOf[n] \in Kinds
    BY <1>1, <2>1, Sizes DEF Tables, Belongs
  <2>3. QED
    BY <1>5, <2>2
<1>8. QED
  BY <1>1, <1>3, <1>6, <1>7 DEF Tables, C

LEMMA MakesSource ==
  ASSUME LInv, LInv', FInv, NEW a \in Actors, InsertConn(a) PROVE FInv'
<1> DEFINE s == actor[a]
           r == [s EXCEPT !.pc = "saveConn"]
<1>1. /\ s.pc = "insertConn" /\ UNCHANGED <<requests, users, rows, overlapped, mixed, stranded>>
      /\ Local(s) /\ Tables
      /\ Role(a, s) /\ Has(s, users, conn, rows) /\ Knows(s, users, mixed)
      /\ s.kind \in Kinds /\ s.kinds \subseteq Kinds
  BY DEF InsertConn, Runs, LInv, FInv, Role
<1>2. CASE conn[Source(a)] = "none"
  <2>1. conn' = [conn EXCEPT ![Source(a)] = "off"] /\ Sets(a, r)
    BY <1>2 DEF InsertConn
  <2>2. /\ r.op = s.op /\ r.pc = "saveConn" /\ r.user = s.user /\ r.kinds = s.kinds
        /\ r.kind = s.kind /\ r.item = s.item
    BY <1>1 DEF Local, Fields
  <2> HIDE DEF r
  <2>3. Kept /\ Told(a) /\ Tables'
    BY <1>1, <1>2, <2>1, Connected
  <2>4. s.pc \in Linking /\ r.pc \in Linking
    BY <1>1, <2>2 DEF Linking
  <2>5. Role(a, r) /\ Knows(r, users, mixed) /\ Target(r) = Target(s)
        /\ (Finished(a, r) => Finished(a, s))
    BY <1>1, <2>2, <2>4, Linked
  <2>6. \A k \in Kinds : conn[<<s.user, k>>] \in Full => conn'[<<s.user, k>>] \in Full
    BY <1>1, <2>3 DEF Kept, Local
  <2>7. Target(s) \subseteq Kinds
    BY <1>1, Sizes DEF Target, Local
  <2>8. Has(r, users, conn', rows)
    BY <1>1, <2>2, <2>5, <2>6, <2>7 DEF Has, Linking, Filling
  <2>9. Single'
    BY <1>1, <2>1, <2>2, SingleStays
  <2>10. Knows(r, users', mixed') /\ Has(r, users', conn', rows')
    BY <1>1, <2>5, <2>8
  <2>11. QED
    BY <1>1, <2>1, <2>3, <2>5, <2>9, <2>10, FeedStep
<1>3. CASE conn[Source(a)] # "none"
  <2>1. UNCHANGED conn /\ Sets(a, Ended(a))
    BY <1>3 DEF InsertConn
  <2>2. stranded' \subseteq UserIds \X Live /\ requests' \in 0..MaxRequests
    BY <1>1 DEF Tables
  <2>3. QED
    BY <1>1, <2>1, <2>2, EndedRests, LookingOn
<1>4. QED
  BY <1>2, <1>3

LEMMA FillsSource ==
  ASSUME LInv, LInv', FInv, NEW a \in Actors, SaveConn(a) PROVE FInv'
<1> DEFINE s == actor[a]
           left == s.kinds \ {s.kind}
           pc == IF left = {} THEN "look" ELSE "lookup"
           r == [s EXCEPT !.kinds = left, !.pc = pc]
<1>1. /\ s.pc = "saveConn" /\ UNCHANGED <<requests, users, rows, overlapped, mixed, stranded>>
      /\ Local(s) /\ Tables /\ s.user \in UserIds
      /\ Role(a, s) /\ Has(s, users, conn, rows) /\ Knows(s, users, mixed)
      /\ s.kind \in Kinds /\ s.kinds \subseteq Kinds
  BY DEF SaveConn, Runs, LInv, FInv, Role, Local
<1>2. CASE a \in Handlers
  <2>1. conn' = [conn EXCEPT ![Source(a)] = "signed in"] /\ Sets(a, Idle)
    BY <1>2 DEF SaveConn
  <2>2. Kept /\ Told(a) /\ Tables'
    BY <1>1, <2>1, Connected DEF Full
  <2>3. Single'
    BY <1>1, <2>1, IdleRests, IdleIsLocal, SingleStays
  <2>4. QED
    BY <1>1, <2>1, <2>2, <2>3, IdleRests, FeedStep
<1>3. CASE a \notin Handlers
  <2>1. conn' = [conn EXCEPT ![Source(a)] = "demo"] /\ Sets(a, r)
    BY <1>3 DEF SaveConn
  <2>2. pc \in {"look", "lookup"} /\ (pc = "look" => left = {}) /\ left \subseteq Kinds
        /\ \A k \in Kinds : k \notin left => k = s.kind \/ k \notin s.kinds
    BY <1>1
  <2> HIDE DEF left, pc
  <2>3. /\ r.op = s.op /\ r.pc = pc /\ r.user = s.user /\ r.kinds = left
        /\ r.kind = s.kind /\ r.item = s.item
    BY <1>1 DEF Local, Fields
  <2> HIDE DEF r
  <2>4. Kept /\ Told(a) /\ Tables' /\ conn'[<<s.user, s.kind>>] \in Full
    <3>1. Kept /\ Told(a) /\ Tables' /\ conn'[<<actor[a].user, actor[a].kind>>] = "demo"
      BY <1>1, <2>1, Connected DEF Full
    <3>2. QED
      BY <3>1 DEF Full
  <2>5. s.op = "demo" /\ s.pc \in Linking /\ (s.item \notin Live => s.item = 1)
    BY <1>1, <1>3 DEF Role, Linking
  <2>6. r.pc \in Linking \/ (r.pc = "look" /\ s.op = "demo")
    BY <2>2, <2>3, <2>5 DEF Linking
  <2>7. Role(a, r) /\ Knows(r, users, mixed) /\ Target(r) = Target(s)
        /\ (Finished(a, r) => Finished(a, s))
    BY <1>1, <2>2, <2>3, <2>5, <2>6, Linked
  <2>8. Target(s) \subseteq Kinds
    BY <1>1, Sizes DEF Target, Local
  <2>9. \A k \in Target(r) : k \notin r.kinds => conn'[<<r.user, k>>] \in Full
    <3>1. SUFFICES ASSUME NEW k \in Target(s), k \notin left
                   PROVE  conn'[<<s.user, k>>] \in Full
      BY <2>3, <2>7
    <3>2. CASE k = s.kind
      BY <2>4, <3>2
    <3>3. CASE k \notin s.kinds
      <4>1. conn[<<s.user, k>>] \in Full
        BY <1>1, <2>5, <3>1, <3>3 DEF Has
      <4>2. QED
        BY <1>1, <2>4, <2>8, <3>1, <4>1 DEF Kept
    <3>4. QED
      BY <2>2, <2>8, <3>1, <3>2, <3>3
  <2>10. Has(r, users, conn', rows)
    <3>1. r.pc \in {"look", "lookup"} /\ r.user <= Len(users)
          /\ (r.pc = "look" => \A k \in Target(r) : conn'[<<r.user, k>>] \in Full)
      BY <1>1, <2>2, <2>3, <2>5, <2>9 DEF Has
    <3>2. r.item \notin Live => 1..(r.item - 1) = {}
      BY <2>3, <2>5
    <3>3. QED
      BY <2>9, <3>1, <3>2 DEF Has, Linking, Filling
  <2>11. Single'
    BY <1>1, <2>1, <2>2, <2>3, SingleStays
  <2>12. Knows(r, users', mixed') /\ Has(r, users', conn', rows')
    BY <1>1, <2>7, <2>10
  <2>13. QED
    BY <1>1, <2>1, <2>4, <2>7, <2>11, <2>12, FeedStep
<1>4. QED
  BY <1>2, <1>3

\* The items before the live ones, and what comes after one.
LEMMA Order ==
  /\ \A n \in Items : n \in Nat \ {0} /\ 1..(n - 1) \subseteq Items
  /\ \A n \in Items \ Live : 1..n \subseteq Items \ Live
  /\ \A n \in Items \ Live : n + 1 \notin Items \/ n + 1 \in Live => Items \ Live = 1..n
  /\ \A n \in Items : n + 1 \in Items \ Live => n \notin Live /\ 1..(n + 1 - 1) = 1..n
  /\ 1 \notin Live
BY Sizes DEF Items, Live

\* An actor of the demo is past its item: it has what its next place needs, and when it
\* comes to its end the feed is whole.
LEMMA GoesPast ==
  ASSUME LInv, FInv, NEW a \in Actors, actor[a].pc \in Filling,
         NEW us, NEW cn, NEW rw, NEW mx,
         actor[a].user <= Len(us), us[actor[a].user] = "demo" \/ actor[a].user \in mx,
         \A k \in Target(actor[a]) : cn[<<actor[a].user, k>>] \in Full,
         actor[a].item \notin Live => \A n \in 1..actor[a].item : rw[<<actor[a].user, n>>] # NoRow
  PROVE  /\ NextItem(a).user = actor[a].user /\ NextItem(a).pc # "insertUser"
         /\ Role(a, NextItem(a)) /\ Has(NextItem(a), us, cn, rw) /\ Knows(NextItem(a), us, mx)
         /\ actor[a].user = 1 /\ Finished(a, NextItem(a))
              => Finished(a, actor[a]) \/ Filled(us, cn, rw, mx)
<1> DEFINE s == actor[a]
           n == s.item + 1
<1>1. /\ Local(s) /\ s.op = "demo" /\ s.item \in Items /\ s.user \in UserIds
      /\ Role(a, s) /\ s.kind \in Kinds /\ s.kinds \subseteq Kinds
  BY DEF LInv, Local, FInv, Role
<1>2. ASSUME n \notin Items \/ n \in Live, s.user = 1, a \in Loaders
      PROVE  Finished(a, s) \/ Filled(us, cn, rw, mx)
  <2>1. CASE s.item \in Live
    BY <1>1, <1>2, <2>1 DEF Finished
  <2>2. CASE s.item \notin Live
    <3>1. Items \ Live = 1..s.item
      BY <1>1, <1>2, <2>2, Order
    <3>2. Target(s) = Kinds
      BY <2>2 DEF Target
    <3>3. QED
      BY <1>2, <2>2, <3>1, <3>2 DEF Filled
  <2>3. QED
    BY <2>1, <2>2
<1>3. CASE n \notin Items \/ (n \in Live /\ ~s.live)
  <2> DEFINE r == [Idle EXCEPT !.pc = "done", !.op = s.op, !.user = s.user]
  <2>1. NextItem(a) = r
    BY <1>3, Sizes DEF NextItem, NextLive, Done
  <2>2. /\ r.pc = "done" /\ r.op = "demo" /\ r.user = s.user /\ r.item = 1 /\ r.kinds = {}
        /\ r.kind \in Kinds
    BY <1>1, IdleIsLocal, IdleRests DEF Local, Fields
  <2> HIDE DEF r
  <2>3. Role(a, r) /\ Has(r, us, cn, rw) /\ Knows(r, us, mx)
    BY <2>2 DEF Role, Has, Knows, Finding, Linking, Filling
  <2>4. s.user = 1 /\ Finished(a, r) => Finished(a, s) \/ Filled(us, cn, rw, mx)
    BY <1>2, <1>3 DEF Finished
  <2>5. QED
    BY <2>1, <2>2, <2>3, <2>4
<1>4. CASE n \in Live /\ s.live
  <2> DEFINE K == {KindOf[n]}
             r == [s EXCEPT !.pc = "user", !.item = n, !.kinds = K]
  <2>1. NextItem(a) = r
    BY <1>4, Sizes DEF NextItem, NextLive, Play
  <2>2. n \in Items /\ K \subseteq Kinds /\ K = {KindOf[n]}
    BY <1>4, Sizes
  <2> HIDE DEF K
  <2>3. /\ r.pc = "user" /\ r.op = "demo" /\ r.user = s.user /\ r.item = n /\ r.kinds = K
        /\ r.kind = s.kind
    BY <1>1 DEF Local, Fields
  <2> HIDE DEF r
  <2>4. Target(r) = K
    BY <1>4, <2>2, <2>3 DEF Target
  <2>5. r.item \in Live
    BY <1>4, <2>3
  <2>6. Role(a, r) /\ Has(r, us, cn, rw) /\ Knows(r, us, mx)
    BY <1>1, <2>2, <2>3, <2>4, <2>5 DEF Role, Has, Knows, Finding, Linking, Filling
  <2>7. s.user = 1 /\ Finished(a, r) => Finished(a, s) \/ Filled(us, cn, rw, mx)
    BY <1>2, <1>4 DEF Finished
  <2>8. QED
    BY <2>1, <2>3, <2>6, <2>7
<1>5. CASE n \in Items /\ n \notin Live
  <2> DEFINE r == [s EXCEPT !.pc = "look", !.item = n]
  <2>1. NextItem(a) = r
    BY <1>5 DEF NextItem
  <2>2. s.item \notin Live /\ 1..(n - 1) = 1..s.item
    BY <1>1, <1>5, Order
  <2>a. n \notin Live
    BY <1>5
  <2> HIDE DEF n
  <2>3. /\ r.pc = "look" /\ r.op = "demo" /\ r.user = s.user /\ r.item = n
        /\ r.kinds = s.kinds /\ r.kind = s.kind
    BY <1>1 DEF Local, Fields
  <2> HIDE DEF r
  <2>4. Target(r) = Kinds /\ Target(s) = Kinds
    BY <2>2, <2>3, <2>a DEF Target
  <2>5. Role(a, r)
    BY <1>1, <2>3 DEF Role, Finding, Linking, Filling
  <2>6. Has(r, us, cn, rw)
    BY <2>2, <2>3, <2>4 DEF Has, Linking, Filling
  <2>7. Knows(r, us, mx) /\ ~Finished(a, r)
    BY <2>3, <2>a DEF Knows, Finished, Linking, Filling
  <2>8. QED
    BY <2>1, <2>3, <2>5, <2>6, <2>7
<1>6. QED
  BY <1>3, <1>4, <1>5

\* What an actor of the demo has at its item.
LEMMA AtItem ==
  ASSUME LInv, FInv, NEW a \in Actors, actor[a].pc \in Filling
  PROVE  /\ actor[a].op = "demo" /\ actor[a].user <= Len(users)
         /\ users[actor[a].user] = "demo" \/ actor[a].user \in mixed
         /\ \A k \in Target(actor[a]) : conn[<<actor[a].user, k>>] \in Full
         /\ actor[a].pc # "pause" /\ actor[a].item \notin Live
              => \A n \in 1..(actor[a].item - 1) : rows[<<actor[a].user, n>>] # NoRow
         /\ actor[a].pc = "pause" => actor[a].item \in Live
         /\ ~overlapped => actor[a].user = 1
         /\ actor[a].user \in UserIds /\ actor[a].item \in Items
         /\ KindOf[actor[a].item] \in Target(actor[a])
<1> DEFINE s == actor[a]
<1>1. /\ Role(a, s) /\ Has(s, users, conn, rows) /\ Knows(s, users, mixed) /\ Local(s) /\ Roles(a)
      /\ ~overlapped => s.user = 1
  BY DEF FInv, LInv, Single
<1>2. s.op = "demo" /\ s.user \in UserIds /\ s.item \in Items
  BY <1>1 DEF Role, Local
<1>3. KindOf[s.item] \in Target(s)
  BY <1>2, Sizes DEF Target
<1>4. QED
  BY <1>1, <1>2, <1>3 DEF Has, Knows, Filling, Roles, Playing

LEMMA Looks == ASSUME LInv, LInv', FInv, NEW a \in Actors, Look(a) PROVE FInv'
<1> DEFINE s == actor[a]
           r == [s EXCEPT !.pc = "insert"]
<1>1. /\ s.pc = "look" /\ UNCHANGED <<requests, users, conn, rows, overlapped, mixed, stranded>>
      /\ Local(s) /\ Role(a, s) /\ Has(s, users, conn, rows) /\ Knows(s, users, mixed)
      /\ stranded' \subseteq UserIds \X Live /\ requests' \in 0..MaxRequests
      /\ s.pc \in Filling
  BY DEF Look, Runs, LInv, FInv, Tables, Filling
<1>2. CASE rows[Message(a)] # NoRow
  <2>1. Sets(a, NextItem(a))
    BY <1>2 DEF Look
  <2>2. s.item \notin Live => \A n \in 1..s.item : rows[<<s.user, n>>] # NoRow
    <3>1. SUFFICES ASSUME s.item \notin Live, NEW n \in 1..s.item
                   PROVE  rows[<<s.user, n>>] # NoRow
      OBVIOUS
    <3>2. s.item \in Nat
      BY <1>1, AtItem, Order
    <3>3. n = s.item \/ n \in 1..(s.item - 1)
      BY <3>2
    <3>4. QED
      BY <1>1, <1>2, <3>1, <3>3, AtItem DEF Message
  <2>3. /\ NextItem(a).user = s.user /\ NextItem(a).pc # "insertUser"
        /\ Role(a, NextItem(a)) /\ Has(NextItem(a), users, conn, rows)
        /\ Knows(NextItem(a), users, mixed)
        /\ s.user = 1 /\ Finished(a, NextItem(a))
              => Finished(a, s) \/ Filled(users, conn, rows, mixed)
    BY <1>1, <2>2, AtItem, GoesPast
  <2>4. ~overlapped => s.user = 1
    BY <1>1, AtItem
  <2>5. QED
    BY <1>1, <2>1, <2>3, <2>4, LookingOn
<1>3. CASE rows[Message(a)] = NoRow
  <2>1. Sets(a, r)
    BY <1>3 DEF Look
  <2>2. /\ r.op = s.op /\ r.pc = "insert" /\ r.user = s.user /\ r.kinds = s.kinds
        /\ r.kind = s.kind /\ r.item = s.item
    BY <1>1 DEF Local, Fields
  <2> HIDE DEF r
  <2>3. Target(r) = Target(s)
    BY <2>2 DEF Target
  <2>4. Role(a, r)
    BY <1>1, <2>2 DEF Role, Finding, Linking, Filling
  <2>5. Has(r, users, conn, rows) /\ Knows(r, users, mixed)
    BY <1>1, <2>2, <2>3 DEF Has, Knows, Linking, Filling
  <2>6. Finished(a, r) => Finished(a, s)
    BY <2>2 DEF Finished
  <2>7. QED
    BY <1>1, <2>1, <2>2, <2>4, <2>5, <2>6, LookingOn
<1>4. QED
  BY <1>2, <1>3

\* A message that is written stays there, and its source is there.
LEMMA Wrote ==
  ASSUME LInv, FInv, NEW a \in Actors, NEW x, x # NoRow,
         UNCHANGED <<requests, users, conn, overlapped, mixed>>,
         stranded' \subseteq UserIds \X Live,
         rows' = [rows EXCEPT ![Message(a)] = x],
         actor[a].user <= Len(users), conn[<<actor[a].user, KindOf[actor[a].item]>>] # "none"
  PROVE  /\ Kept /\ Told(a) /\ Tables' /\ rows'[<<actor[a].user, actor[a].item>>] # NoRow
         /\ \A n \in Items : rows[<<actor[a].user, n>>] # NoRow => rows'[<<actor[a].user, n>>] # NoRow
<1>1. /\ Message(a) = <<actor[a].user, actor[a].item>> /\ Message(a) \in UserIds \X Items
      /\ rows \in [UserIds \X Items -> MessageRow] /\ Tables /\ actor[a].user \in UserIds
  BY DEF Message, LInv, Local, FInv
<1>2. /\ rows'[Message(a)] = x
      /\ \A m \in UserIds \X Items : m # Message(a) => rows'[m] = rows[m]
  BY <1>1
<1>3. Len(users) <= Len(users')
  BY SameUsers
<1>4. ASSUME NEW u \in UserIds, NEW n \in Items, rows[<<u, n>>] # NoRow
      PROVE  rows'[<<u, n>>] # NoRow
  <2>1. CASE <<u, n>> = Message(a)
    BY <1>2, <2>1
  <2>2. CASE <<u, n>> # Message(a)
    BY <1>2, <1>4, <2>2
  <2>3. QED
    BY <2>1, <2>2
<1>5. Kept /\ Told(a)
  BY <1>3, <1>4 DEF Kept, Told
<1>6. Belongs(users', conn', rows')
  <2>1. SUFFICES ASSUME NEW u \in UserIds, NEW n \in Items, rows'[<<u, n>>] # NoRow
                 PROVE  u <= Len(users) /\ conn[<<u, KindOf[n]>>] # "none"
    BY DEF Belongs
  <2>2. CASE <<u, n>> = Message(a)
    <3>1. u = actor[a].user /\ n = actor[a].item
      BY <1>1, <2>2
    <3>2. QED
      BY <3>1
  <2>3. CASE <<u, n>> # Message(a)
    BY <1>1, <1>2, <2>1, <2>3 DEF Tables, Belongs
  <2>4. QED
    BY <2>2, <2>3
<1>7. QED
  BY <1>1, <1>2, <1>4, <1>5, <1>6 DEF Tables

LEMMA RealRows ==
  /\ LiveRow # NoRow /\ SeedRow # NoRow /\ Unread("DONE") # NoRow
  /\ \A row \in MessageRow : row.status # "none" => row # NoRow
<1>1. /\ LiveRow.status = "PROCESSING" /\ SeedRow.status = "DONE" /\ Unread("DONE").status = "DONE"
      /\ NoRow.status = "none"
  BY DEF LiveRow, SeedRow, NoRow, Unread
<1>2. QED
  BY <1>1

\* An actor that writes its item, and goes past it.
LEMMA WritesAndGoes ==
  ASSUME LInv, LInv', FInv, NEW a \in Actors, NEW x, x # NoRow, actor[a].pc \in Filling,
         UNCHANGED <<requests, users, conn, overlapped, mixed>>,
         stranded' \subseteq UserIds \X Live,
         rows' = [rows EXCEPT ![Message(a)] = x], Sets(a, NextItem(a))
  PROVE  FInv'
<1> DEFINE s == actor[a]
<1>1. "none" \notin Full
  BY DEF Full
<1>2. /\ Kept /\ Told(a) /\ Tables' /\ rows'[<<s.user, s.item>>] # NoRow
      /\ \A n \in Items : rows[<<s.user, n>>] # NoRow => rows'[<<s.user, n>>] # NoRow
  BY <1>1, AtItem, Wrote
<1>3. s.item \notin Live => \A n \in 1..s.item : rows'[<<s.user, n>>] # NoRow
  <2>1. SUFFICES ASSUME s.item \notin Live, NEW n \in 1..s.item
                 PROVE  rows'[<<s.user, n>>] # NoRow
    OBVIOUS
  <2>2. s.item \in Nat \ {0} /\ s.item \in Items /\ 1..(s.item - 1) \subseteq Items
    BY AtItem, Order
  <2>3. n = s.item \/ n \in 1..(s.item - 1)
    BY <2>2
  <2>4. QED
    BY <1>2, <2>1, <2>2, <2>3, AtItem
<1>4. /\ NextItem(a).user = s.user /\ NextItem(a).pc # "insertUser"
      /\ Role(a, NextItem(a)) /\ Has(NextItem(a), users, conn, rows')
      /\ Knows(NextItem(a), users, mixed)
      /\ s.user = 1 /\ Finished(a, NextItem(a))
            => Finished(a, s) \/ Filled(users, conn, rows', mixed)
  BY <1>3, AtItem, GoesPast
<1> DEFINE r == NextItem(a)
<1> HIDE DEF r
<1>5. /\ r.user = s.user /\ r.pc # "insertUser" /\ Role(a, r) /\ Sets(a, r)
      /\ Has(r, users', conn', rows') /\ Knows(r, users', mixed')
      /\ s.user = 1 /\ Finished(a, r)
            => Finished(a, s) \/ Filled(users', conn', rows', mixed')
  BY <1>4 DEF r
<1>6. Single'
  BY <1>5, SingleStays
<1>7. ~overlapped => s.user = 1
  BY AtItem
<1>8. QED
  BY <1>2, <1>5, <1>6, <1>7, FeedStep

LEMMA InsertsRow == ASSUME LInv, LInv', FInv, NEW a \in Actors, InsertRow(a) PROVE FInv'
<1> DEFINE s == actor[a]
           r == [s EXCEPT !.pc = "pause"]
<1>1. /\ s.pc = "insert" /\ UNCHANGED <<requests, users, conn, overlapped, mixed, stranded>>
      /\ Local(s) /\ Role(a, s) /\ Has(s, users, conn, rows) /\ Knows(s, users, mixed)
      /\ stranded' \subseteq UserIds \X Live /\ requests' \in 0..MaxRequests
      /\ s.pc \in Filling
  BY DEF InsertRow, Runs, LInv, FInv, Tables, Filling
<1>2. CASE rows[Message(a)] # NoRow
  <2>1. UNCHANGED rows /\ Sets(a, Ended(a))
    BY <1>2 DEF InsertRow
  <2>2. QED
    BY <1>1, <2>1, EndedRests, LookingOn
<1>3. CASE rows[Message(a)] = NoRow /\ ~Playing(a)
  <2>1. rows' = [rows EXCEPT ![Message(a)] = SeedRow] /\ Sets(a, NextItem(a))
    BY <1>3 DEF InsertRow
  <2>2. QED
    BY <1>1, <2>1, RealRows, WritesAndGoes
<1>4. CASE rows[Message(a)] = NoRow /\ Playing(a)
  <2>1. rows' = [rows EXCEPT ![Message(a)] = LiveRow] /\ Sets(a, r)
    BY <1>4 DEF InsertRow
  <2>2. /\ r.op = s.op /\ r.pc = "pause" /\ r.user = s.user /\ r.kinds = s.kinds
        /\ r.kind = s.kind /\ r.item = s.item
    BY <1>1 DEF Local, Fields
  <2> HIDE DEF r
  <2>3. "none" \notin Full
    BY DEF Full
  <2>4. Kept /\ Told(a) /\ Tables' /\ rows'[<<s.user, s.item>>] # NoRow
    BY <1>1, <2>1, <2>3, AtItem, RealRows, Wrote
  <2>5. Target(r) = Target(s)
    BY <2>2 DEF Target
  <2>6. Role(a, r)
    BY <1>1, <2>2 DEF Role, Finding, Linking, Filling
  <2>7. Has(r, users, conn, rows') /\ Knows(r, users, mixed)
    BY <1>1, <2>2, <2>4, <2>5 DEF Has, Knows, Linking, Filling
  <2>8. Finished(a, r) => Finished(a, s)
    BY <2>2 DEF Finished
  <2>9. Single'
    BY <1>1, <2>1, <2>2, SingleStays
  <2>10. Has(r, users', conn', rows') /\ Knows(r, users', mixed')
    BY <1>1, <2>7
  <2>11. QED
    BY <1>1, <2>1, <2>4, <2>6, <2>8, <2>9, <2>10, FeedStep
<1>5. QED
  BY <1>2, <1>3, <1>4

LEMMA ClosesRow == ASSUME LInv, LInv', FInv, NEW a \in Actors, SaveVerdict(a) PROVE FInv'
<1>1. /\ actor[a].pc = "pause" /\ UNCHANGED <<requests, users, conn, overlapped, mixed>>
      /\ rows' = [rows EXCEPT ![Message(a)] = Unread("DONE")] /\ Sets(a, NextItem(a))
      /\ stranded' \subseteq stranded \union {Message(a)} /\ actor[a].pc \in Filling
  BY DEF SaveVerdict, Runs, Filling
<1>2. stranded' \subseteq UserIds \X Live
  <2>1. Message(a) \in UserIds \X Live
    BY <1>1, AtItem DEF Message
  <2>2. stranded \subseteq UserIds \X Live
    BY DEF FInv, Tables
  <2>3. QED
    BY <1>1, <2>1, <2>2
<1>3. QED
  BY <1>1, <1>2, RealRows, WritesAndGoes

LEMMA Opens ==
  ASSUME LInv, LInv', FInv, NEW a \in Actors, ReadRow(a) \/ SaveRow(a) PROVE FInv'
<1> DEFINE s == actor[a]
           m == <<s.user, s.item>>
<1>1. /\ Local(s) /\ Role(a, s) /\ Has(s, users, conn, rows) /\ Roles(a) /\ CopyAgrees(a)
      /\ Message(a) = m /\ s.user \in UserIds /\ s.item \in Items /\ Tables
      /\ UNCHANGED <<requests, users, conn, overlapped, mixed, stranded>>
      /\ stranded' \subseteq UserIds \X Live /\ requests' \in 0..MaxRequests
  BY DEF ReadRow, SaveRow, LInv, FInv, Tables, Message, Local
<1>2. CASE ReadRow(a)
  <2> DEFINE copy == [rows[Message(a)] EXCEPT !.read = TRUE]
             r == [s EXCEPT !.pc = "saveRow", !.row = copy]
  <2>1. /\ s.pc = "readRow" /\ UNCHANGED rows
        /\ Sets(a, Idle) \/ (rows[Message(a)] # NoRow /\ Sets(a, r))
    BY <1>2 DEF ReadRow, Runs
  <2>2. CASE Sets(a, Idle)
    BY <1>1, <2>1, <2>2, IdleRests, IdleIsLocal, LookingOn
  <2>3. CASE rows[Message(a)] # NoRow /\ Sets(a, r)
    <3> HIDE DEF copy
    <3>1. /\ r.op = s.op /\ r.pc = "saveRow" /\ r.user = s.user /\ r.kinds = s.kinds
          /\ r.kind = s.kind /\ r.item = s.item
      BY <1>1 DEF Local, Fields
    <3> HIDE DEF r
    <3>2. s.op = "open"
      BY <1>1, <2>1 DEF Roles
    <3>3. Role(a, r)
      BY <1>1, <3>1, <3>2 DEF Role, Finding, Linking, Filling
    <3>4. Has(r, users, conn, rows) /\ Knows(r, users, mixed) /\ ~Finished(a, r)
      BY <1>1, <2>1, <2>3, <3>1, <3>2 DEF Has, Knows, Finished, Linking, Filling
    <3>5. QED
      BY <1>1, <2>1, <2>3, <3>1, <3>3, <3>4, LookingOn
  <2>4. QED
    BY <2>1, <2>2, <2>3
<1>3. CASE SaveRow(a)
  <2>1. /\ s.pc = "saveRow" /\ rows' = [rows EXCEPT ![Message(a)] = s.row] /\ Sets(a, Idle)
    BY <1>3 DEF SaveRow, Runs
  <2>2. s.row # NoRow
    BY <1>1, <2>1, RealRows DEF CopyAgrees, Local
  <2>3. s.user <= Len(users) /\ conn[<<s.user, KindOf[s.item]>>] # "none"
    BY <1>1, <2>1 DEF Has, Tables, Belongs
  <2>4. Kept /\ Told(a) /\ Tables'
    BY <1>1, <2>1, <2>2, <2>3, Wrote
  <2>5. Single'
    BY <1>1, <2>1, IdleRests, IdleIsLocal, SingleStays
  <2>6. QED
    BY <1>1, <2>1, <2>4, <2>5, IdleRests, FeedStep
<1>4. QED
  BY <1>2, <1>3

\* An actor that begins: it has nothing, and for what it will need everything is to come.
LEMMA Fresh ==
  ASSUME NEW a \in Actors, NEW r, r.pc = "user", r.kinds \subseteq Kinds, r.kind \in Kinds,
         r.op = "demo" => Target(r) \subseteq r.kinds /\ (r.item \notin Live => r.item = 1),
         r.op \in {"theme", "signin", "open"} => a \in Handlers,
         a \in Loaders => r.item \notin Live
  PROVE  /\ Role(a, r) /\ ~Finished(a, r)
         /\ \A us, cn, rw, mx : Has(r, us, cn, rw) /\ Knows(r, us, mx)
BY DEF Role, Has, Knows, Finished, Finding, Linking, Filling

LEMMA BeginsDemo ==
  ASSUME LInv, LInv', FInv, NEW a \in Actors, NEW live \in BOOLEAN, Begin(a, live) PROVE FInv'
<1> DEFINE r == [Idle EXCEPT !.op = "demo", !.live = live]
<1>1. /\ UNCHANGED <<requests, users, conn, rows, overlapped, mixed, stranded>>
      /\ stranded' \subseteq UserIds \X Live /\ requests' \in 0..MaxRequests
  BY DEF Begin, FInv, Tables
<1>2. /\ r.op = "demo" /\ r.user = 1 /\ r.item = 1 /\ r.kind \in Kinds /\ Local(r)
  BY IdleRests, IdleIsLocal DEF Local, Fields
<1>3. CASE a \in Loaders
  <2> DEFINE q == [r EXCEPT !.pc = "user", !.kinds = Kinds]
  <2>1. Sets(a, q)
    BY <1>3 DEF Begin
  <2> HIDE DEF r
  <2>2. /\ q.op = "demo" /\ q.pc = "user" /\ q.user = 1 /\ q.item = 1 /\ q.kinds = Kinds
        /\ q.kind \in Kinds
    BY <1>2 DEF Local, Fields
  <2> HIDE DEF q
  <2>3. Target(q) = Kinds /\ q.item \notin Live
    BY <2>2, Order DEF Target
  <2>4. /\ Role(a, q) /\ ~Finished(a, q)
        /\ \A us, cn, rw, mx : Has(q, us, cn, rw) /\ Knows(q, us, mx)
    BY <2>2, <2>3, Fresh
  <2>5. QED
    BY <1>1, <2>1, <2>2, <2>4, LookingOn
<1>4. CASE a \notin Loaders
  <2> DEFINE n == NSeed + 1
             K == {KindOf[n]}
             q == [r EXCEPT !.pc = "user", !.item = n, !.kinds = K]
  <2>1. Sets(a, q)
    BY <1>4 DEF Begin, Play
  <2>2. n \in Live /\ n \in Items /\ K \subseteq Kinds
    BY Sizes DEF Items, Live
  <2>3. K = {KindOf[n]}
    OBVIOUS
  <2> HIDE DEF r, K, n
  <2>4. /\ q.op = "demo" /\ q.pc = "user" /\ q.user = 1 /\ q.item = n /\ q.kinds = K
        /\ q.kind \in Kinds
    BY <1>2 DEF Local, Fields
  <2> HIDE DEF q
  <2>5. Target(q) = K /\ q.item \in Live
    BY <2>2, <2>3, <2>4 DEF Target
  <2>6. /\ Role(a, q) /\ ~Finished(a, q)
        /\ \A us, cn, rw, mx : Has(q, us, cn, rw) /\ Knows(q, us, mx)
    BY <1>4, <2>2, <2>4, <2>5, Fresh
  <2>7. QED
    BY <1>1, <2>1, <2>4, <2>6, LookingOn
<1>5. QED
  BY <1>3, <1>4

LEMMA AsksFor ==
  ASSUME LInv, LInv', FInv, NEW a \in Actors, NEW r, Asks(a, r), Local(r),
         r.op \in {"theme", "signin", "open"}, r.user = 1, r.kinds \subseteq Kinds, r.kind \in Kinds
  PROVE  FInv'
<1> DEFINE q == [r EXCEPT !.pc = "user"]
<1>1. /\ UNCHANGED <<users, conn, rows, overlapped, mixed, stranded>> /\ Sets(a, q)
      /\ stranded' \subseteq UserIds \X Live /\ a \in Handlers
      /\ requests < MaxRequests /\ requests' = requests + 1 /\ requests \in 0..MaxRequests
  BY DEF Asks, FInv, Tables
<1>2. requests' \in 0..MaxRequests
  BY <1>1, SetupOK
<1>3. /\ q.op = r.op /\ q.pc = "user" /\ q.user = 1 /\ q.kinds = r.kinds /\ q.kind = r.kind
  BY DEF Local, Fields
<1> HIDE DEF q
<1>4. a \notin Loaders
  BY <1>1, SetupOK
<1>5. /\ Role(a, q) /\ ~Finished(a, q)
      /\ \A us, cn, rw, mx : Has(q, us, cn, rw) /\ Knows(q, us, mx)
  BY <1>1, <1>3, <1>4, Fresh
<1>6. QED
  BY <1>1, <1>2, <1>3, <1>5, LookingOn

LEMMA BeginsRequest ==
  ASSUME LInv, LInv', FInv, NEW a \in Actors,
         AskTheme(a) \/ (\E k \in Kinds : AskSignIn(a, k)) \/ (\E n \in Live : AskOpen(a, n))
  PROVE  FInv'
<1>1. CASE AskTheme(a)
  <2> DEFINE r == [Idle EXCEPT !.op = "theme"]
  <2>1. Asks(a, r)
    BY <1>1 DEF AskTheme
  <2>2. /\ Local(r) /\ r.op = "theme" /\ r.user = 1 /\ r.kinds \subseteq Kinds /\ r.kind \in Kinds
    BY IdleRests, IdleIsLocal DEF Local, Fields
  <2> HIDE DEF r
  <2>3. QED
    BY <2>1, <2>2, AsksFor
<1>2. ASSUME NEW k \in Kinds, AskSignIn(a, k) PROVE FInv'
  <2> DEFINE K == {k}
             r == [Idle EXCEPT !.op = "signin", !.kinds = K]
  <2>1. Asks(a, r) /\ K \subseteq Kinds
    BY <1>2 DEF AskSignIn
  <2> HIDE DEF K
  <2>2. /\ Local(r) /\ r.op = "signin" /\ r.user = 1 /\ r.kinds \subseteq Kinds /\ r.kind \in Kinds
    BY <2>1, IdleRests, IdleIsLocal DEF Local, Fields
  <2> HIDE DEF r
  <2>3. QED
    BY <2>1, <2>2, AsksFor
<1>3. ASSUME NEW n \in Live, AskOpen(a, n) PROVE FInv'
  <2> DEFINE r == [Idle EXCEPT !.op = "open", !.item = n]
  <2>1. Asks(a, r) /\ n \in Items
    BY <1>3, Sizes DEF AskOpen
  <2>2. /\ Local(r) /\ r.op = "open" /\ r.user = 1 /\ r.kinds \subseteq Kinds /\ r.kind \in Kinds
    BY <2>1, IdleRests, IdleIsLocal DEF Local, Fields
  <2> HIDE DEF r
  <2>3. QED
    BY <2>1, <2>2, AsksFor
<1>4. QED
  BY <1>1, <1>2, <1>3

\* Whoever is stopped in its pause leaves a live message behind, and nothing else.
LEMMA StrandsLive ==
  ASSUME LInv, FInv, NEW A \in SUBSET Actors, Stranding(A)
  PROVE  stranded' \subseteq UserIds \X Live
<1>1. \A b \in A : actor[b].pc = "pause" => Message(b) \in UserIds \X Live
  BY AtItem DEF Message, Filling
<1>2. stranded \subseteq UserIds \X Live
  BY DEF FInv, Tables
<1>3. QED
  BY <1>1, <1>2 DEF Stranding

LEMMA Fails == ASSUME LInv, LInv', FInv, NEW a \in Actors, Fault(a) PROVE FInv'
<1>1. /\ UNCHANGED <<requests, users, conn, rows, overlapped, mixed>> /\ Sets(a, Ended(a))
      /\ Stranding({a}) /\ requests' \in 0..MaxRequests
  BY DEF Fault, FInv, Tables
<1>2. stranded' \subseteq UserIds \X Live
  BY <1>1, StrandsLive
<1>3. QED
  BY <1>1, <1>2, EndedRests, LookingOn

LEMMA Ends == ASSUME LInv, LInv', FInv, NEW p \in Procs, Dies(p) PROVE FInv'
<1> DEFINE A == {b \in Actors : Home[b] = p}
<1>1. /\ actor' = [b \in Actors |-> IF b \in A THEN Idle ELSE actor[b]]
      /\ UNCHANGED <<requests, users, conn, rows, overlapped, mixed>> /\ Stranding(A)
  BY DEF Dies
<1>2. stranded' \subseteq UserIds \X Live
  BY <1>1, StrandsLive
<1>3. ASSUME NEW b \in Actors
      PROVE  /\ actor'[b] = Idle \/ actor'[b] = actor[b]
             /\ Role(b, actor'[b]) /\ Has(actor'[b], users, conn, rows)
             /\ Knows(actor'[b], users, mixed)
             /\ Finished(b, actor'[b]) => Finished(b, actor[b])
  <2>1. actor'[b] = Idle \/ actor'[b] = actor[b]
    BY <1>1
  <2>2. QED
    BY <2>1, IdleRests DEF FInv
<1>4. Tables'
  BY <1>1, <1>2 DEF FInv, Tables
<1>5. Single'
  <2>1. SUFFICES ASSUME ~overlapped PROVE Single'
    BY <1>1 DEF Single
  <2>2. \A b \in Actors : actor'[b].user = 1 /\ (actor'[b].pc = "insertUser" => actor'[b] = actor[b])
    BY <1>3, <2>1, IdleRests, IdleIsLocal DEF FInv, Single
  <2>3. QED
    BY <1>1, <2>1, <2>2 DEF FInv, Single
<1>6. ASSUME ~overlapped, NEW b \in Loaders, Finished(b, actor'[b])
      PROVE  Filled(users, conn, rows, mixed)
  <2>1. b \in Actors
    BY DEF Actors, Routines
  <2>2. QED
    BY <1>3, <1>6, <2>1 DEF FInv
<1>7. QED
  BY <1>1, <1>3, <1>4, <1>5, <1>6 DEF FInv

LEMMA FeedSettled == LInv /\ FInv /\ UNCHANGED dvars => FInv'
<1> SUFFICES ASSUME LInv, FInv, UNCHANGED dvars PROVE FInv'
  OBVIOUS
<1>1. UNCHANGED <<users, conn, rows, requests, actor, overlapped, mixed, stranded>>
  BY DEF dvars
<1>2. Tables' /\ Single'
  BY <1>1 DEF FInv, Tables, Single
<1>3. QED
  BY <1>1, <1>2 DEF FInv

LEMMA FeedSteps == LInv /\ FInv /\ [Next]_vars => FInv'
<1> SUFFICES ASSUME LInv, FInv, [Next]_vars PROVE FInv'
  OBVIOUS
<1>1. LInv'
  BY LiveSteps
<1>2. ASSUME NEW a \in Actors, ActorStep(a) PROVE FInv'
  <2>1. CASE \/ FindUser(a) \/ InsertUser(a) \/ SaveCriteria(a) \/ SaveUser(a)
             \/ (\E k \in Kinds : Lookup(a, k)) \/ InsertConn(a) \/ SaveConn(a)
    BY <1>1, <2>1, FindsUser, MakesUser, WritesCriteria, LooksUp, MakesSource, FillsSource
  <2>2. CASE Look(a) \/ InsertRow(a) \/ SaveVerdict(a) \/ ReadRow(a) \/ SaveRow(a)
    BY <1>1, <2>2, Looks, InsertsRow, ClosesRow, Opens
  <2>3. CASE \/ \E live \in BOOLEAN : Begin(a, live)
             \/ AskTheme(a)
             \/ \E k \in Kinds : AskSignIn(a, k)
             \/ \E n \in Live : AskOpen(a, n)
    BY <1>1, <2>3, BeginsDemo, BeginsRequest
  <2>4. QED
    BY <1>2, <2>1, <2>2, <2>3 DEF ActorStep
<1>3. ASSUME NEW a \in Actors, Fault(a) PROVE FInv'
  BY <1>1, <1>3, Fails
<1>4. ASSUME NEW p \in Procs, Dies(p) PROVE FInv'
  BY <1>1, <1>4, Ends
<1>5. CASE UNCHANGED dvars
  BY <1>5, FeedSettled
<1>6. QED
  BY <1>2, <1>3, <1>4, <1>5 DEF Next, Leaves, vars

LEMMA NoFeed == DInit => FInv
<1> SUFFICES ASSUME DInit PROVE FInv
  OBVIOUS
<1>1. /\ users = <<>> /\ conn = [c \in UserIds \X Kinds |-> "none"]
      /\ rows = [m \in UserIds \X Items |-> NoRow] /\ actor = [b \in Actors |-> Idle]
      /\ requests = 0 /\ overlapped = FALSE /\ mixed = {} /\ stranded = {}
  BY DEF DInit
<1>2. \A b \in Actors : actor[b] = Idle
  BY <1>1
<1>3. Tables
  <2>1. Belongs(users, conn, rows)
    BY <1>1 DEF Belongs
  <2>2. requests \in 0..MaxRequests
    <3>1. 0 \in 0..MaxRequests
      BY SetupOK
    <3>2. QED
      BY <1>1, <3>1
  <2>3. overlapped \in BOOLEAN
    BY <1>1
  <2>4. QED
    BY <1>1, <2>1, <2>2, <2>3 DEF Tables
<1>4. Single
  <2>1. Len(users) <= 1
    BY <1>1
  <2>2. QED
    BY <1>2, <2>1, IdleRests, IdleIsLocal DEF Single
<1>5. \A b \in Actors : /\ Role(b, actor[b]) /\ ~Finished(b, actor[b])
                        /\ Has(actor[b], users, conn, rows) /\ Knows(actor[b], users, mixed)
  BY <1>2, IdleRests
<1>6. \A b \in Loaders : ~Finished(b, actor[b])
  BY <1>5 DEF Actors, Routines
<1>7. QED
  BY <1>3, <1>4, <1>5, <1>6 DEF FInv

\* Unless two actors found no user at the same time there is one, and a Seed that came to
\* its end left it every item, every source with credentials, and the demo criteria if no
\* profile request crossed it: after any crashes, faults and repetitions.
THEOREM FeedIsOne == Spec => []OneFeed
<1>1. Init => LInv /\ FInv
  BY Empty, NoFeed DEF Init
<1>2. LInv /\ FInv /\ [Next]_vars => LInv' /\ FInv'
  BY LiveSteps, FeedSteps
<1>3. LInv /\ FInv => OneFeed
  <2>1. SUFFICES ASSUME LInv, FInv, ~overlapped PROVE OneFeed
    BY DEF OneFeed
  <2>2. Len(users) <= 1
    BY <2>1 DEF FInv, Single
  <2>3. ASSUME NEW a \in Loaders, actor[a].op = "demo", actor[a].item \in Live \/ actor[a].pc = "done"
        PROVE  /\ \A n \in Items \ Live : rows[<<1, n>>] # NoRow
               /\ \A k \in Kinds : conn[<<1, k>>] \in {"demo", "signed in"}
               /\ users[1] = "" => 1 \in mixed
    <3>1. Filled(users, conn, rows, mixed)
      BY <2>1, <2>3 DEF FInv, Finished
    <3>2. QED
      BY <3>1 DEF Filled, Full
  <2>4. QED
    BY <2>2, <2>3 DEF OneFeed
<1>4. QED
  BY <1>1, <1>2, <1>3, PTL DEF Spec

-----------------------------------------------------------------------------
(* Types *)

\* Nothing runs in a process that has not opened the database.
Hosted == \A b \in Actors : actor[b].pc # "idle" => Open(Home[b])

LEMMA StaysOpen ==
  ASSUME IInv, NEW p \in Procs, Opening(p) \/ Crash(p) \/ Exit(p), NEW q \in Procs, Open(q),
         Opening(p) \/ q # p
  PROVE  Open(q)'
<1>1. DOMAIN proc = Procs
  BY Typed DEF IInv
<1>2. CASE q # p
  <2>1. ASSUME NEW r, Becomes(p, r) PROVE proc'[q] = proc[q]
    BY <1>1, <1>2, <2>1 DEF Becomes
  <2>2. proc'[q] = proc[q]
    BY <2>1 DEF Opening, Start, CreateJournal, CheckVersion, RunStatement, Record, Commit,
                Crash, Exit, Goes
  <2>3. QED
    BY <2>2 DEF Open
<1>3. CASE q = p /\ Opening(p)
  BY <1>3 DEF Opening, Start, CreateJournal, CheckVersion, RunStatement, Record, Commit, Open
<1>4. QED
  BY <1>2, <1>3

LEMMA RunsAndSets ==
  ASSUME LInv, NEW a \in Actors, ActorStep(a)
  PROVE  UNCHANGED mvars /\ Open(Home[a]) /\ \A b \in Actors \ {a} : actor'[b] = actor[b]
<1> DEFINE Others == \A b \in Actors \ {a} : actor'[b] = actor[b]
<1>1. ASSUME NEW r, Sets(a, r) PROVE Others
  BY <1>1 DEF Sets, LInv
<1> HIDE DEF Others
<1>2. SUFFICES Open(Home[a]) /\ Others
  BY DEF ActorStep, Others
<1>3. CASE FindUser(a) \/ InsertUser(a)
  BY <1>1, <1>3 DEF FindUser, InsertUser, Runs
<1>4. CASE SaveCriteria(a) \/ SaveUser(a)
  BY <1>1, <1>4 DEF SaveCriteria, SaveUser, Runs
<1>5. CASE (\E k \in Kinds : Lookup(a, k)) \/ InsertConn(a) \/ SaveConn(a)
  BY <1>1, <1>5 DEF Lookup, InsertConn, SaveConn, Runs
<1>6. CASE Look(a) \/ InsertRow(a) \/ SaveVerdict(a)
  BY <1>1, <1>6 DEF Look, InsertRow, SaveVerdict, Runs
<1>7. CASE ReadRow(a) \/ SaveRow(a)
  BY <1>1, <1>7 DEF ReadRow, SaveRow, Runs
<1>8. CASE \E live \in BOOLEAN : Begin(a, live)
  BY <1>1, <1>8 DEF Begin, Runs
<1>9. CASE AskTheme(a) \/ (\E k \in Kinds : AskSignIn(a, k)) \/ (\E n \in Live : AskOpen(a, n))
  BY <1>1, <1>9 DEF AskTheme, AskSignIn, AskOpen, Asks, Runs
<1>10. QED
  BY <1>3, <1>4, <1>5, <1>6, <1>7, <1>8, <1>9 DEF ActorStep

LEMMA HostedSteps == IInv /\ LInv /\ Hosted /\ [Next]_vars => Hosted'
<1> SUFFICES ASSUME IInv, LInv, Hosted, [Next]_vars PROVE Hosted'
  OBVIOUS
<1>0. \A b \in Actors : Home[b] \in Procs
  BY SetupOK
<1>1. ASSUME NEW a \in Actors, ActorStep(a) \/ Fault(a) PROVE Hosted'
  <2>1. UNCHANGED proc /\ Open(Home[a])
    BY <1>1, RunsAndSets DEF mvars, Fault, Hosted
  <2>2. \A b \in Actors \ {a} : actor'[b] = actor[b]
    BY <1>1, RunsAndSets DEF Fault, Sets, LInv
  <2>3. QED
    BY <2>1, <2>2 DEF Hosted, Open
<1>2. ASSUME NEW p \in Procs, Opening(p), UNCHANGED dvars PROVE Hosted'
  BY <1>0, <1>2, StaysOpen DEF Hosted, dvars
<1>3. ASSUME NEW p \in Procs, Crash(p) \/ Exit(p), Dies(p) PROVE Hosted'
  <2>1. SUFFICES ASSUME NEW b \in Actors, actor'[b].pc # "idle" PROVE Open(Home[b])'
    BY DEF Hosted
  <2>2. actor' = [c \in Actors |-> IF c \in {d \in Actors : Home[d] = p} THEN Idle ELSE actor[c]]
    BY <1>3 DEF Dies
  <2>3. Home[b] # p /\ actor'[b] = actor[b]
    BY <2>1, <2>2, IdleIsLocal
  <2>4. QED
    BY <1>0, <1>3, <2>1, <2>3, StaysOpen DEF Hosted
<1>4. CASE UNCHANGED vars
  BY <1>4 DEF vars, mvars, dvars, Hosted, Open
<1>5. QED
  BY <1>1, <1>2, <1>3, <1>4 DEF Next, Leaves

\* Tables and locals have their types, for any processes, actors, items and bounds.
THEOREM TypesHold == Spec => []TypeOK
<1> DEFINE All == IInv /\ LInv /\ FInv /\ Hosted
<1>1. Init => All
  <2>1. DInit => Hosted
    BY IdleIsLocal DEF DInit, Hosted
  <2>2. QED
    BY <2>1, Starting, Empty, NoFeed DEF Init
<1>2. All /\ [Next]_vars => All'
  BY SetupMigrates, Steps, FaultElsewhere, LiveSteps, FeedSteps, HostedSteps
<1>3. All => TypeOK
  <2>1. SUFFICES ASSUME IInv, LInv, FInv, Hosted PROVE TypeOK
    OBVIOUS
  <2>2. MTypeOK /\ Tables
    BY <2>1 DEF IInv, FInv
  <2>3. \A a \in Actors : actor[a].user \in UserIds /\ actor[a].item \in Items
    BY <2>1 DEF LInv, Local
  <2>4. rows \in [UserIds \X Items -> [status : {"none", "PROCESSING", "DONE"}, read : BOOLEAN]]
        /\ users \in Seq({"", "demo"}) /\ Len(users) <= MaxUsers
    BY <2>1 DEF LInv, MessageRow
  <2>5. QED
    BY <2>1, <2>2, <2>3, <2>4 DEF TypeOK, Tables, Belongs, Hosted
<1>4. QED
  BY <1>1, <1>2, <1>3, PTL DEF Spec
=============================================================================
