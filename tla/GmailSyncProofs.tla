--------------------------- MODULE GmailSyncProofs ---------------------------
(***************************************************************************)
(* Proof that the mark of a Gmail synchronisation passes no letter that    *)
(* was not dealt with, for mailboxes, page sizes and limits of any size,   *)
(* and that its rounds are what Synchroniser promises.                     *)
(***************************************************************************)
EXTENDS GmailSync, FiniteSetTheorems, TLAPS

-----------------------------------------------------------------------------
(* The variables keep their shape *)

(***************************************************************************)
(* A round at rest, and one that begins an import, have the shape of a     *)
(* round.                                                                  *)
(***************************************************************************)
LEMMA FreshRounds == ASSUME Shape PROVE Idle \in RoundState /\ Import \in RoundState
<1>1. arrived \in Nat /\ old \in 0..old /\ 0 \in 0..old
  BY DEF Shape
<1>2. Idle \in RoundState
  BY <1>1 DEF Idle, RoundState, HistoryId, NoMark, FirstPage
<1>3. Import \in RoundState
  BY <1>1, <1>2 DEF Import, RoundState
<1> QED
  BY <1>2, <1>3

(***************************************************************************)
(* A page of the list leaves the round in its shape.                       *)
(***************************************************************************)
LEMMA ListShape ==
  ASSUME Shape, ListPage
  PROVE  round' \in RoundState /\ skipped' \subseteq Letters /\ round'.pc # "history"
<1>1. PICK low \in Letters \union {HistoryId} :
        LET page == {n \in Visible(round) : low <= n}
            rest == Visible(round) \ page
            listed == round.listed \union page
            top == IF round.page = FirstPage THEN arrived ELSE round.top
            next == [round EXCEPT !.ids = listed, !.listed = listed, !.top = top]
        IN  IF MorePages(rest, listed)
            THEN round' = [next EXCEPT !.page = low] /\ UNCHANGED skipped
            ELSE /\ round' = [next EXCEPT !.pc = "fetch"]
                 /\ skipped' = skipped \union (1..top \ listed)
  BY DEF ListPage
<1> DEFINE listed == round.listed \union {n \in Visible(round) : low <= n}
           top == IF round.page = FirstPage THEN arrived ELSE round.top
           next == [round EXCEPT !.ids = listed, !.listed = listed, !.top = top]
<1>2. listed \subseteq Letters /\ top \in 0..arrived
  BY DEF Visible, Shape, RoundState
<1>3. next \in RoundState
  BY <1>2 DEF Shape, RoundState
<1>4. low \in 0..HistoryId /\ 1..top \subseteq Letters
  BY <1>2 DEF Shape, Letters, HistoryId
<1>5. [next EXCEPT !.page = low] \in RoundState /\ [next EXCEPT !.pc = "fetch"] \in RoundState
  BY <1>3, <1>4 DEF RoundState
<1>6. \/ round' = [next EXCEPT !.page = low] /\ UNCHANGED skipped
      \/ round' = [next EXCEPT !.pc = "fetch"] /\ skipped' = skipped \union (1..top \ listed)
  BY <1>1
<1>7. round.pc = "list" /\ round \in RoundState
  BY DEF ListPage, Shape
<1>8. [next EXCEPT !.page = low].pc = "list" /\ [next EXCEPT !.pc = "fetch"].pc = "fetch"
  BY <1>3, <1>7 DEF RoundState
<1> QED
  BY <1>4, <1>5, <1>6, <1>8 DEF Shape

(***************************************************************************)
(* A step of a round leaves the variables in their shape.                  *)
(***************************************************************************)
LEMMA RoundShape == ASSUME Shape, RoundStep \/ RoundFails PROVE Shape'
<1> USE FreshRounds
<1>a. UNCHANGED mailbox /\ (UNCHANGED faults \/ Fault)
  BY DEF RoundStep, RoundFails, Begin, ListPage, HistoryPage, HistoryStale, TakeMark,
     SaveMark, FetchLetter, FetchGarbled, FetchGone
<1>b. faults' \in 0..MaxFaults
  BY <1>a, ConstantsOK DEF Fault, Shape
<1>1. /\ UNCHANGED mailbox /\ UNCHANGED <<RoundState, Letters, HistoryId>>
      /\ faults' \in 0..MaxFaults
  BY <1>a, <1>b DEF mailbox, RoundState, Letters, HistoryId
<1>2. SUFFICES /\ round' \in RoundState /\ stored' \subseteq Letters
               /\ skipped' \subseteq Letters /\ missed' \subseteq Letters
               /\ mark' \in 0..HistoryId
               /\ round'.pc = "history" => round'.page # FirstPage
  BY <1>1 DEF Shape, mailbox
<1>3. CASE Begin
  BY <1>3 DEF Begin, Shape, RoundState, Idle, Import, HistoryId, NoMark, FirstPage
<1>4. CASE ListPage
  BY <1>4, ListShape DEF ListPage, Shape
<1>5. CASE HistoryPage
  <2>1. PICK last \in (round.page - 1)..arrived :
          round' = [round EXCEPT !.ids = @ \union round.page..last, !.cursor = HistoryId,
                                 !.page = last + 1,
                                 !.pc = IF last = arrived THEN "fetch" ELSE @]
    BY <1>5 DEF HistoryPage
  <2>2. round.pc = "history" /\ round.page \in 0..HistoryId
    BY <1>5 DEF HistoryPage, Shape, RoundState
  <2>3. round.page # 0
    BY <2>2 DEF Shape, FirstPage
  <2>4. last + 1 \in 1..HistoryId /\ HistoryId \in 0..HistoryId
    BY <2>2, <2>3 DEF Shape, HistoryId
  <2>5. round.page..last \subseteq Letters
    BY <2>2, <2>3 DEF Shape, Letters, HistoryId
  <2>6. round \in RoundState /\ last + 1 \in 0..HistoryId
    BY <2>4 DEF Shape, HistoryId
  <2>7. round.ids \union round.page..last \in SUBSET Letters
    BY <2>5, <2>6 DEF RoundState
  <2>8. (IF last = arrived THEN "fetch" ELSE round.pc) \in {"fetch", "history"}
    BY <2>2
  <2>9. round' \in RoundState /\ round'.page = last + 1
    BY <2>1, <2>4, <2>6, <2>7, <2>8 DEF RoundState
  <2> QED
    BY <1>5, <2>4, <2>9 DEF HistoryPage, Shape, FirstPage
<1>6. CASE HistoryStale
  BY <1>6 DEF HistoryStale, Shape, Import, Idle
<1>7. CASE TakeMark
  <2>1. HistoryId \in 0..HistoryId
    BY DEF Shape, HistoryId
  <2>2. [round EXCEPT !.pc = "save"] \in RoundState
    BY DEF Shape, RoundState
  <2>3. [round EXCEPT !.pc = "save", !.cursor = HistoryId] \in RoundState
    BY <2>1 DEF Shape, RoundState
  <2> QED
    BY <1>7, <2>2, <2>3 DEF TakeMark, Shape, RoundState
<1>8. CASE SaveMark
  <2>1. PassedOver \subseteq Letters
    BY DEF PassedOver, Shape, RoundState, Letters, HistoryId
  <2> QED
    BY <1>8, <2>1 DEF SaveMark, Shape, RoundState, Idle
<1>9. CASE \E n \in Letters : FetchLetter(n) \/ FetchGarbled(n) \/ FetchGone(n)
  <2>1. PICK n \in Letters : FetchLetter(n) \/ FetchGarbled(n) \/ FetchGone(n)
    BY <1>9
  <2>2. [round EXCEPT !.ids = @ \ {n}] \in RoundState /\ round.pc = "fetch"
    BY <2>1 DEF FetchLetter, FetchGarbled, FetchGone, NextLetter, Shape, RoundState
  <2>3. [round EXCEPT !.ids = @ \ {n}].pc = "fetch" /\ Idle.pc = "idle"
    BY <2>2 DEF RoundState, Shape, Idle
  <2> QED
    BY <2>1, <2>2, <2>3 DEF FetchLetter, FetchGarbled, FetchGone, Proceed, Shape
<1>10. CASE RoundFails
  BY <1>10 DEF RoundFails, Shape, Idle
<1> QED
  BY <1>3, <1>4, <1>5, <1>6, <1>7, <1>8, <1>9, <1>10 DEF RoundStep

(***************************************************************************)
(* What happens at Gmail only moves the bounds up.                         *)
(***************************************************************************)
LEMMA GmailShape ==
  ASSUME Shape, Arrive \/ Age \/ HistoryExpires \/ \E n \in Letters : Delete(n)
  PROVE  Shape'
<1>1. /\ arrived' \in Nat /\ arrived <= arrived' /\ old' \in 0..arrived' /\ old <= old'
      /\ oldest' \in 1..HistoryId' /\ deleted' \subseteq Letters'
      /\ UNCHANGED <<stored, mark, round, skipped, missed, faults>>
  <2>1. CASE Arrive
    BY <2>1 DEF Arrive, Shape, Letters, HistoryId
  <2>2. CASE Age
    BY <2>2 DEF Age, Shape, Letters, HistoryId
  <2>3. CASE HistoryExpires
    BY <2>3 DEF HistoryExpires, Shape, Letters, HistoryId
  <2>4. CASE \E n \in Letters : Delete(n)
    BY <2>4 DEF Delete, Shape, Letters, HistoryId
  <2> QED
    BY <2>1, <2>2, <2>3, <2>4
<1>2. Letters \subseteq Letters' /\ 0..HistoryId \subseteq 0..HistoryId'
      /\ 0..arrived \subseteq 0..arrived' /\ 0..old \subseteq 0..old'
  <2>1. /\ arrived \in Nat /\ old \in Nat /\ arrived' \in Nat /\ old' \in Nat
        /\ arrived <= arrived' /\ old <= old'
    BY <1>1 DEF Shape
  <2>2. \A a, b \in Nat : a <= b => 0..a \subseteq 0..b /\ 1..a \subseteq 1..b
    OBVIOUS
  <2>a. HistoryId = arrived + 1 /\ HistoryId' = arrived' + 1
    BY DEF HistoryId
  <2>b. \A a, b \in Nat : a <= b => a + 1 \in Nat /\ b + 1 \in Nat /\ a + 1 <= b + 1
    OBVIOUS
  <2>3. HistoryId \in Nat /\ HistoryId' \in Nat /\ HistoryId <= HistoryId'
    BY <2>1, <2>a, <2>b, Zenon
  <2> QED
    BY <2>1, <2>2, <2>3 DEF Letters
<1>3. round \in RoundState'
  BY <1>2 DEF RoundState, Shape
<1> QED
  BY <1>1, <1>2, <1>3 DEF Shape

(***************************************************************************)
(* The variables begin in their shape.                                     *)
(***************************************************************************)
LEMMA ShapeInit == Init => Shape
  BY ConstantsOK DEF Init, Shape, RoundState, Idle, Letters, HistoryId, NoMark, FirstPage

(***************************************************************************)
(* Every step keeps the shape of the variables.                            *)
(***************************************************************************)
LEMMA ShapeStep == ASSUME Shape, [Next]_vars PROVE Shape'
<1>1. ASSUME UNCHANGED vars PROVE Shape'
  BY <1>1 DEF Shape, vars, mailbox, Letters, HistoryId, RoundState
<1> QED
  BY <1>1, RoundShape, GmailShape DEF Next

(***************************************************************************)
(* No page brings the list of an import above GmailImportLimit, however    *)
(* short the pages before it were.                                         *)
(***************************************************************************)
LEMMA ListIsBounded ==
  ASSUME TypeOK, [Next]_vars
  PROVE  Cardinality(round'.listed) <= Limit
<1> USE DEF TypeOK
<1>1. IsFiniteSet(Letters) /\ Cardinality({}) = 0 /\ Limit \in Nat
  BY FS_Interval, FS_EmptySet, ConstantsOK DEF Letters, Shape
<1>2. CASE ListPage
  <2>1. PICK low : LET page == {n \in Visible(round) : low <= n}
                       next == [round EXCEPT
                                  !.ids = round.listed \union page,
                                  !.listed = round.listed \union page,
                                  !.top = IF round.page = FirstPage THEN arrived
                                          ELSE round.top]
                   IN  /\ Cardinality(page) <= Room(round)
                       /\ \/ round' = [next EXCEPT !.page = low]
                          \/ round' = [next EXCEPT !.pc = "fetch"]
    BY <1>2 DEF ListPage
  <2> DEFINE page == {n \in Visible(round) : low <= n}
  <2>2. round'.listed = round.listed \union page
    BY <2>1 DEF Shape, RoundState
  <2>3. page \in SUBSET Letters /\ round.listed \in SUBSET Letters
    BY DEF Visible, Shape, RoundState
  <2>4. IsFiniteSet(page) /\ IsFiniteSet(round.listed) /\ IsFiniteSet(round.listed \cap page)
    BY <1>1, <2>3, FS_Subset
  <2>5. /\ Cardinality(page) \in Nat /\ Cardinality(round.listed) \in Nat
        /\ Cardinality(round.listed \cap page) \in Nat
    BY <2>4, FS_CardinalityType
  <2>6. Cardinality(round.listed \union page) =
          Cardinality(round.listed) + Cardinality(page) - Cardinality(round.listed \cap page)
    BY <2>4, FS_Union
  <2>7. Cardinality(page) <= Limit - Cardinality(round.listed)
    BY <1>1, <2>1, <2>5, ConstantsOK DEF Room, Smaller
  <2> QED
    BY <1>1, <2>2, <2>5, <2>6, <2>7
<1>3. CASE ~ListPage
  <2>1. \/ round'.listed = round.listed
        \/ round' = Idle
        \/ round' = Import
        \/ round' = [Idle EXCEPT !.pc = "history", !.page = mark, !.cursor = mark]
    <3>1. round \in RoundState
      BY DEF Shape
    <3> QED
      BY <1>3, <3>1 DEF Next, RoundStep, vars, Begin, HistoryPage, HistoryStale, TakeMark,
         SaveMark, RoundFails, FetchLetter, FetchGarbled, FetchGone, Proceed, Arrive, Age,
         HistoryExpires, Delete, RoundState
  <2>2. round'.listed = round.listed \/ round'.listed = {}
    <3>1. /\ Idle.listed = {} /\ Import.listed = {}
          /\ [Idle EXCEPT !.pc = "history", !.page = mark, !.cursor = mark].listed = {}
      BY DEF Idle, Import
    <3> QED
      BY <2>1, <3>1
  <2>3. Cardinality(round.listed) <= Limit
    OBVIOUS
  <2>4. CASE round'.listed = round.listed
    BY <2>3, <2>4
  <2>5. CASE round'.listed = {}
    BY <1>1, <2>5
  <2> QED
    BY <2>2, <2>4, <2>5
<1> QED
  BY <1>2, <1>3

(***************************************************************************)
(* The variables keep their shape and no import lists more than            *)
(* GmailImportLimit letters.                                               *)
(***************************************************************************)
THEOREM TypeCorrect == Spec => []TypeOK
<1>1. Init => TypeOK
  <2>1. ASSUME Init PROVE Cardinality(round.listed) <= Limit
    BY <2>1, FS_EmptySet, ConstantsOK DEF Init, Idle
  <2> QED
    BY <2>1, ShapeInit DEF TypeOK
<1>2. TypeOK /\ [Next]_vars => TypeOK'
  BY ShapeStep, ListIsBounded DEF TypeOK
<1> QED
  BY <1>1, <1>2, PTL DEF Spec

-----------------------------------------------------------------------------
(* The mark covers what it has passed *)

IInv == Shape /\ MarkCovers /\ RoundCovers

(***************************************************************************)
(* Reading the pages keeps the cover: what is listed is in hand, what is   *)
(* not listed is set aside.                                                *)
(***************************************************************************)
LEMMA PagesCover ==
  ASSUME IInv, Begin \/ ListPage \/ HistoryPage \/ HistoryStale
  PROVE  MarkCovers' /\ RoundCovers'
<1> USE DEF IInv
<1>1. /\ UNCHANGED <<mailbox, stored, mark, missed>> /\ skipped \subseteq skipped'
  BY DEF Begin, ListPage, HistoryPage, HistoryStale
<1>2. Letters' = Letters /\ HistoryId' = HistoryId /\ Covered \subseteq Covered'
  BY <1>1 DEF mailbox, Letters, HistoryId, Covered
<1>3. MarkCovers'
  BY <1>1, <1>2 DEF MarkCovers
<1>4. CASE Begin
  <2>1. CASE mark = NoMark
    <3>1. round' = Import
      BY <1>4, <2>1 DEF Begin
    <3> QED
      BY <1>3, <3>1 DEF Import, Idle, RoundCovers
  <2>2. CASE mark # NoMark
    <3>1. round' = [Idle EXCEPT !.pc = "history", !.page = mark, !.cursor = mark]
      BY <1>4, <2>2 DEF Begin
    <3>2. /\ round'.pc = "history" /\ ~round'.import /\ round'.page = mark
          /\ round'.cursor = mark
      BY <3>1 DEF Idle
    <3>3. mark' <= round'.page
      BY <1>1, <3>2 DEF Shape, HistoryId
    <3> QED
      BY <1>1, <1>2, <1>3, <2>2, <3>2, <3>3 DEF RoundCovers, InHand, MarkCovers
  <2> QED
    BY <1>3, <2>1, <2>2
<1>5. CASE ListPage
  <2> DEFINE top == IF round.page = FirstPage THEN arrived ELSE round.top
  <2>1. PICK low : LET listed == round.listed \union {n \in Visible(round) : low <= n}
                       next == [round EXCEPT !.ids = listed, !.listed = listed, !.top = top]
                   IN  \/ round' = [next EXCEPT !.page = low]
                       \/ /\ round' = [next EXCEPT !.pc = "fetch"]
                          /\ skipped' = skipped \union (1..top \ listed)
    BY <1>5 DEF ListPage
  <2> DEFINE listed == round.listed \union {n \in Visible(round) : low <= n}
  <2>2. round.pc = "list" /\ round.import /\ round.cursor = NoMark /\ round \in RoundState
    BY <1>5 DEF ListPage, RoundCovers, Shape
  <2>3. \/ /\ round'.pc = "list" /\ round'.import /\ round'.cursor = NoMark
           /\ round'.ids = round'.listed
        \/ /\ round'.pc = "fetch" /\ round'.import /\ round'.cursor = NoMark
           /\ round'.ids = listed /\ round'.top = top
           /\ skipped' = skipped \union (1..top \ listed)
    BY <2>1, <2>2 DEF RoundState
  <2>4. ASSUME round'.top = top, round'.ids = listed,
               skipped' = skipped \union (1..top \ listed)
        PROVE  InHand(round.top + 1)'
    <3>1. top \in Nat
      BY DEF Shape, RoundState
    <3>2. ASSUME NEW n \in Letters, n < top + 1 PROVE n \in listed \union skipped'
      BY <2>4, <3>1, <3>2 DEF Letters
    <3> QED
      BY <1>2, <2>4, <3>2 DEF InHand, Covered
  <2> QED
    BY <1>3, <2>3, <2>4 DEF RoundCovers
<1>6. CASE HistoryPage
  <2>1. PICK last \in (round.page - 1)..arrived :
          round' = [round EXCEPT !.ids = @ \union round.page..last, !.cursor = HistoryId,
                                 !.page = last + 1,
                                 !.pc = IF last = arrived THEN "fetch" ELSE @]
    BY <1>6 DEF HistoryPage
  <2>2. /\ round.pc = "history" /\ ~round.import /\ mark # NoMark /\ mark <= round.page
        /\ InHand(round.page) /\ round \in RoundState
    BY <1>6 DEF HistoryPage, RoundCovers, Shape
  <2>3. /\ round'.pc = IF last = arrived THEN "fetch" ELSE "history"
        /\ ~round'.import /\ round'.cursor = HistoryId /\ round'.page = last + 1
        /\ round'.ids = round.ids \union round.page..last
    BY <2>1, <2>2 DEF RoundState
  <2>4. arrived \in Nat /\ round.page \in Nat /\ mark \in Nat
    BY DEF Shape, RoundState, HistoryId
  <2>5. InHand(round.page)'
    <3>1. ASSUME NEW n \in Letters, n < last + 1, n \notin round.page..last
          PROVE  n < round.page
      BY <2>4, <3>1 DEF Letters
    <3> QED
      BY <1>2, <2>2, <2>3, <3>1 DEF InHand
  <2>6. last = arrived => round'.cursor = round'.page
    BY <2>3 DEF HistoryId
  <2>7. mark' <= round'.page /\ round'.cursor # NoMark
    BY <1>1, <2>2, <2>3, <2>4 DEF HistoryId, NoMark
  <2> QED
    BY <1>1, <1>3, <2>2, <2>3, <2>5, <2>6, <2>7 DEF RoundCovers, InHand
<1>7. CASE HistoryStale
  BY <1>3, <1>7 DEF HistoryStale, Import, Idle, RoundCovers
<1> QED
  BY <1>4, <1>5, <1>6, <1>7

(***************************************************************************)
(* Fetching keeps it: a letter leaves the hand for the feed, or as one     *)
(* that could not be read, or the round is given up.                       *)
(***************************************************************************)
LEMMA FetchCovers ==
  ASSUME IInv, NEW n \in Letters, FetchLetter(n) \/ FetchGarbled(n) \/ FetchGone(n)
  PROVE  MarkCovers' /\ RoundCovers'
<1> USE DEF IInv
<1>1. /\ UNCHANGED <<mailbox, mark, skipped>> /\ stored \subseteq stored'
      /\ missed \subseteq missed'
  BY DEF FetchLetter, FetchGarbled, FetchGone
<1>2. Letters' = Letters /\ Covered \subseteq Covered'
  BY <1>1 DEF mailbox, Letters, Covered
<1>3. MarkCovers'
  BY <1>1, <1>2 DEF MarkCovers
<1>4. CASE FetchGone(n)
  BY <1>3, <1>4 DEF FetchGone, Idle, RoundCovers
<1>5. CASE FetchLetter(n) \/ FetchGarbled(n)
  <2>1. round.pc = "fetch" /\ round \in RoundState
    BY <1>5 DEF FetchLetter, FetchGarbled, NextLetter, Shape
  <2>2. /\ round'.pc = "fetch" /\ round'.ids = round.ids \ {n} /\ n \in Covered'
        /\ round'.import = round.import /\ round'.cursor = round.cursor
        /\ round'.top = round.top
    BY <1>5, <2>1 DEF FetchLetter, FetchGarbled, Proceed, RoundState, Covered
  <2> QED
    BY <1>2, <1>3, <2>1, <2>2 DEF RoundCovers, InHand
<1> QED
  BY <1>4, <1>5

(***************************************************************************)
(* The mark moves over what is covered, after an import over what arrived  *)
(* meanwhile as well, which is then counted as missed.                     *)
(***************************************************************************)
LEMMA MarkMoves ==
  ASSUME IInv, TakeMark \/ SaveMark
  PROVE  MarkCovers' /\ RoundCovers'
<1> USE DEF IInv
<1>1. /\ UNCHANGED <<mailbox, stored, skipped>> /\ missed \subseteq missed'
  BY DEF TakeMark, SaveMark
<1>2. Letters' = Letters /\ Covered \subseteq Covered'
  BY <1>1 DEF mailbox, Letters, Covered
<1>3. CASE TakeMark
  <2>1. /\ round.pc = "fetch" /\ round.ids = {} /\ mark' = mark /\ round \in RoundState
    BY <1>3 DEF TakeMark, Shape
  <2>2. /\ round'.pc = "save" /\ round'.ids = {} /\ round'.import = round.import
        /\ round'.top = round.top
        /\ round.cursor # NoMark => round'.cursor = round.cursor
    BY <1>3, <2>1 DEF TakeMark, RoundState
  <2> QED
    BY <1>2, <2>1, <2>2 DEF RoundCovers, InHand, MarkCovers
<1>4. CASE SaveMark
  <2>1. /\ round.pc = "save" /\ round' = Idle /\ missed' = missed \union (PassedOver \ stored)
        /\ mark' = IF round.cursor # NoMark THEN round.cursor ELSE mark
    BY <1>4 DEF SaveMark
  <2>2. RoundCovers'
    BY <2>1 DEF RoundCovers, Idle
  <2>3. /\ round.ids = {}
        /\ InHand(IF round.import THEN round.top + 1 ELSE round.cursor)
    BY <2>1 DEF RoundCovers
  <2>4. ASSUME NEW n \in Letters, n < round.cursor PROVE n \in Covered'
    <3>1. n \in Nat /\ round.cursor \in Nat /\ round.top \in Nat
      BY DEF Letters, Shape, RoundState, HistoryId
    <3>2. CASE ~round.import \/ n < round.top + 1
      BY <1>2, <2>3, <2>4, <3>2 DEF InHand
    <3>3. CASE round.import /\ ~(n < round.top + 1)
      <4>1. n \in PassedOver
        BY <2>4, <3>1, <3>3 DEF PassedOver
      <4> QED
        BY <1>1, <2>1, <4>1 DEF Covered
    <3> QED
      BY <3>2, <3>3
  <2> QED
    BY <1>2, <2>1, <2>2, <2>4 DEF MarkCovers
<1> QED
  BY <1>3, <1>4

(***************************************************************************)
(* Nothing that happens at Gmail, no failure of a round touches it: a new  *)
(* letter is beyond the mark and beyond every page read so far.            *)
(***************************************************************************)
LEMMA GmailCovers ==
  ASSUME IInv, Arrive \/ Age \/ HistoryExpires \/ (\E n \in Letters : Delete(n))
  PROVE  MarkCovers' /\ RoundCovers'
<1> USE DEF IInv
<1>1. /\ UNCHANGED <<stored, mark, round, skipped, missed>> /\ deleted \subseteq deleted'
      /\ arrived' = arrived \/ arrived' = arrived + 1
  BY DEF Arrive, Age, HistoryExpires, Delete
<1>2. Covered \subseteq Covered'
  BY <1>1 DEF Covered
<1>3. arrived \in Nat
  BY DEF Shape
<1>4. ASSUME NEW bound \in 0..HistoryId, NEW n \in Letters', n < bound PROVE n \in Letters
  BY <1>1, <1>3, <1>4 DEF Letters, HistoryId
<1>5. /\ mark \in 0..HistoryId /\ round.page \in 0..HistoryId
      /\ round.cursor \in 0..HistoryId /\ round.top + 1 \in 0..HistoryId
  BY DEF Shape, RoundState, HistoryId
<1>6. MarkCovers'
  BY <1>1, <1>2, <1>4, <1>5 DEF MarkCovers
<1>7. ASSUME NEW bound \in 0..HistoryId, InHand(bound)
      PROVE  \A n \in Letters' : n < bound => n \in round'.ids \union Covered'
  BY <1>1, <1>2, <1>4, <1>7 DEF InHand
<1> QED
  BY <1>1, <1>5, <1>6, <1>7 DEF RoundCovers, InHand

(***************************************************************************)
(* Every step keeps the mark covered.                                      *)
(***************************************************************************)
LEMMA CoversStep == ASSUME IInv, [Next]_vars PROVE MarkCovers' /\ RoundCovers'
<1>1. ASSUME UNCHANGED vars PROVE MarkCovers' /\ RoundCovers'
  BY <1>1 DEF IInv, MarkCovers, RoundCovers, InHand, Covered, Letters, vars, mailbox
<1>2. ASSUME RoundFails PROVE MarkCovers' /\ RoundCovers'
  BY <1>2 DEF IInv, RoundFails, Idle, MarkCovers, RoundCovers, Covered, Letters, mailbox
<1> QED
  BY <1>1, <1>2, PagesCover, FetchCovers, MarkMoves, GmailCovers DEF Next, RoundStep

(***************************************************************************)
(* The inductive invariant: a mark is covered because what a round has in  *)
(* hand covers the mark it is about to save.                               *)
(***************************************************************************)
LEMMA CoverKept == Spec => []IInv
<1>1. Init => IInv
  BY ShapeInit DEF IInv, Init, MarkCovers, RoundCovers, Idle, NoMark, Letters
<1>2. IInv /\ [Next]_vars => IInv'
  BY ShapeStep, CoversStep DEF IInv
<1> QED
  BY <1>1, <1>2, PTL DEF Spec

(***************************************************************************)
(* What a round holds and has dealt with covers what its mark is about to  *)
(* pass, at every point of reading the pages and of fetching (sync).       *)
(***************************************************************************)
THEOREM RoundIsSafe == Spec => []RoundCovers
  BY CoverKept, PTL DEF IInv

(***************************************************************************)
(* The mark of a synchronisation never passes a letter that is neither in  *)
(* the feed, nor gone, nor set aside by an import, nor missed in the gap   *)
(* between its listing and its reading of the profile (sync).              *)
(***************************************************************************)
THEOREM MarkIsSafe == Spec => []MarkCovers
  BY CoverKept, PTL DEF IInv

-----------------------------------------------------------------------------
(* What an import leaves aside *)

(***************************************************************************)
(* Between two pages of an import the list is complete down to the page:   *)
(* what is not on it from there to the top is too old or gone, and nothing *)
(* on it is below.                                                         *)
(***************************************************************************)
CompleteToPage ==
  round.pc = "list" =>
    IF round.page = FirstPage THEN round.listed = {}
    ELSE /\ \A m \in round.listed : round.page <= m
         /\ \A n \in round.page..round.top :
              n <= round.since \/ n \in deleted \/ n \in round.listed

(***************************************************************************)
(* A page completes the list down to its last letter, and the last page    *)
(* down to the oldest letter or until the list is full.                    *)
(***************************************************************************)
LEMMA PageCompletes ==
  ASSUME Shape, CompleteToPage, ListPage
  PROVE  /\ CompleteToPage'
         /\ \A n \in skipped' \ skipped :
              \/ n <= round.since \/ n \in deleted
              \/ /\ \A m \in round'.listed : n < m
                 /\ ~(Cardinality(round'.listed) < Limit)
<1> DEFINE top == IF round.page = FirstPage THEN arrived ELSE round.top
           page(low) == {n \in Visible(round) : low <= n}
           listed(low) == round.listed \union page(low)
           next(low) == [round EXCEPT !.ids = listed(low), !.listed = listed(low), !.top = top]
<1>1. PICK low \in Letters \union {HistoryId} :
        /\ IF Visible(round) \ page(low) = {} THEN low = 1 ELSE low \in page(low)
        /\ IF MorePages(Visible(round) \ page(low), listed(low))
           THEN round' = [next(low) EXCEPT !.page = low] /\ UNCHANGED skipped
           ELSE /\ round' = [next(low) EXCEPT !.pc = "fetch"]
                /\ skipped' = skipped \union (1..top \ listed(low))
  BY DEF ListPage
<1>2. /\ round.pc = "list" /\ round \in RoundState /\ UNCHANGED deleted
      /\ arrived \in Nat /\ low \in Nat \ {0} /\ round.page \in Nat /\ round.since \in Nat
      /\ round.top \in 0..arrived
  BY DEF ListPage, mailbox, Shape, RoundState, Letters, HistoryId
<1>3. round'.listed = listed(low) /\ round'.since = round.since
  BY <1>1, <1>2 DEF RoundState
<1>4. \A n \in Letters : round.page # FirstPage /\ n \in Visible(round) => n < round.page
  BY DEF Visible
<1>5. \A m \in round.listed : round.page # FirstPage /\ round.page <= m
  BY <1>2 DEF CompleteToPage
<1>6. \A n \in 1..top : \/ n <= round.since \/ n \in deleted \/ n \in listed(low)
                        \/ n < low /\ n \in Visible(round)
  <2>1. ASSUME NEW n \in 1..top, ~(n <= round.since), n \notin deleted, n \notin listed(low)
        PROVE  n < low /\ n \in Visible(round)
    <3>1. n \in Letters /\ n \in Nat
      BY <1>2 DEF Letters
    <3>2. ~(round.page # FirstPage /\ round.page <= n)
      BY <1>2, <2>1, <3>1 DEF CompleteToPage
    <3>3. n \in Visible(round)
      BY <1>2, <2>1, <3>1, <3>2 DEF Visible
    <3> QED
      BY <1>2, <2>1, <3>1, <3>3
  <2> QED
    BY <2>1
<1>7. CASE MorePages(Visible(round) \ page(low), listed(low))
  <2>1. /\ round'.page = low /\ round'.top = top /\ low \in page(low)
    BY <1>1, <1>2, <1>7 DEF RoundState, MorePages
  <2>2. \A m \in listed(low) : low <= m
    <3>1. \A m \in round.listed : low <= m
      <4>1. low \in Letters /\ low \in Visible(round)
        BY <2>1 DEF Visible
      <4>2. \A m \in round.listed : m \in Nat
        BY <1>2 DEF RoundState, Letters
      <4> QED
        BY <1>2, <1>4, <1>5, <4>1, <4>2
    <3> QED
      BY <3>1
  <2>3. \A n \in low..top : n \in 1..top /\ ~(n < low)
    BY <1>2
  <2> QED
    BY <1>1, <1>2, <1>3, <1>6, <1>7, <2>1, <2>2, <2>3 DEF CompleteToPage, FirstPage
<1>8. CASE ~MorePages(Visible(round) \ page(low), listed(low))
  <2>1. round'.pc = "fetch" /\ skipped' = skipped \union (1..top \ listed(low))
    BY <1>1, <1>2, <1>8 DEF RoundState
  <2>2. SUFFICES ASSUME NEW n \in 1..top, n < low, n \in Visible(round)
                 PROVE  /\ \A m \in listed(low) : n < m
                        /\ ~(Cardinality(listed(low)) < Limit)
    BY <1>3, <1>6, <2>1 DEF CompleteToPage
  <2>3. n \in Visible(round) \ page(low) /\ low \in page(low)
    BY <1>1, <1>2, <2>2
  <2>4. \A m \in round.listed : n < m
    <3>1. n \in Letters /\ \A m \in round.listed : m \in Nat
      BY <1>2, <2>2 DEF RoundState, Letters, Visible
    <3> QED
      BY <1>2, <1>4, <1>5, <2>2, <3>1
  <2>5. \A m \in page(low) : n < m
    <3>1. \A m \in page(low) : m \in Nat
      BY <1>2 DEF Visible, Letters
    <3> QED
      BY <1>2, <2>2, <3>1
  <2> QED
    BY <1>8, <2>3, <2>4, <2>5 DEF MorePages
<1> QED
  BY <1>7, <1>8, <1>1

(***************************************************************************)
(* Steps other than a page begin an import, change nothing of its list, or *)
(* leave it, and set nothing aside.                                        *)
(***************************************************************************)
LEMMA OthersComplete ==
  ASSUME Shape, CompleteToPage, [Next]_vars, ~ListPage
  PROVE  CompleteToPage' /\ UNCHANGED skipped
<1>1. UNCHANGED skipped /\ deleted \subseteq deleted'
  BY DEF Next, RoundStep, vars, mailbox, Begin, HistoryPage, HistoryStale, TakeMark, SaveMark,
     RoundFails, FetchLetter, FetchGarbled, FetchGone, Arrive, Age, HistoryExpires, Delete
<1>2. \/ UNCHANGED round
      \/ round' = Import
      \/ round'.pc # "list"
  <2>1. round \in RoundState
    BY DEF Shape
  <2>2. ASSUME Begin PROVE round' = Import \/ round'.pc # "list"
    BY <2>2 DEF Begin, Idle
  <2>3. ASSUME HistoryPage PROVE round'.pc # "list"
    BY <2>1, <2>3 DEF HistoryPage, RoundState
  <2>4. ASSUME TakeMark \/ SaveMark \/ RoundFails PROVE round'.pc # "list"
    <3>1. Idle.pc # "list"
      BY DEF Idle
    <3>2. CASE TakeMark
      BY <2>1, <3>2 DEF TakeMark, RoundState
    <3> QED
      BY <2>4, <3>1, <3>2 DEF SaveMark, RoundFails
  <2>5. ASSUME NEW n \in Letters, FetchLetter(n) \/ FetchGarbled(n) \/ FetchGone(n)
        PROVE  round'.pc # "list"
    BY <2>1, <2>5 DEF FetchLetter, FetchGarbled, FetchGone, NextLetter, Proceed, Idle, RoundState
  <2>6. ASSUME HistoryStale PROVE round' = Import
    BY <2>6 DEF HistoryStale
  <2>7. ASSUME Arrive \/ Age \/ HistoryExpires \/ (\E n \in Letters : Delete(n)) \/ UNCHANGED vars
        PROVE  UNCHANGED round
    BY <2>7 DEF Arrive, Age, HistoryExpires, Delete, vars
  <2> QED
    BY <2>2, <2>3, <2>4, <2>5, <2>6, <2>7 DEF Next, RoundStep
<1>3. Import.page = FirstPage /\ Import.listed = {}
  BY DEF Import, Idle
<1> QED
  BY <1>1, <1>2, <1>3 DEF CompleteToPage

(***************************************************************************)
(* An import sets a letter aside only because it is too old, gone, or      *)
(* below GmailImportLimit newer ones, whatever the sizes of the pages and  *)
(* whatever arrives or is deleted between them (initialIDs).               *)
(***************************************************************************)
THEOREM SkippedIsForReason == Spec => SkippedForReason
<1>1. Init => CompleteToPage
  BY DEF Init, Idle, CompleteToPage
<1>2. TypeOK /\ CompleteToPage /\ [Next]_vars => CompleteToPage'
  BY PageCompletes, OthersComplete DEF TypeOK
<1>3. TypeOK /\ TypeOK' /\ CompleteToPage /\ [Next]_vars
      => [\A n \in skipped' \ skipped :
            \/ n <= round.since
            \/ n \in deleted
            \/ Cardinality({m \in round'.listed : n < m}) = Limit]_vars
  <2> SUFFICES ASSUME TypeOK, TypeOK', CompleteToPage, [Next]_vars,
                      NEW n \in skipped' \ skipped, ~(n <= round.since), n \notin deleted
               PROVE  Cardinality({m \in round'.listed : n < m}) = Limit
    OBVIOUS
  <2>1. ListPage
    BY OthersComplete DEF TypeOK
  <2>2. (\A m \in round'.listed : n < m) /\ ~(Cardinality(round'.listed) < Limit)
    BY <2>1, PageCompletes DEF TypeOK
  <2>3. {m \in round'.listed : n < m} = round'.listed
    BY <2>2
  <2>4. Cardinality(round'.listed) \in Nat /\ Limit \in Nat
    <3>1. arrived' \in Nat /\ round'.listed \subseteq 1..arrived'
      BY DEF TypeOK, Shape, RoundState, Letters
    <3>2. IsFiniteSet(1..arrived')
      BY <3>1, FS_Interval
    <3> QED
      BY <3>1, <3>2, FS_Subset, FS_CardinalityType, ConstantsOK
  <2> QED
    BY <2>2, <2>3, <2>4 DEF TypeOK
<1> QED
  BY <1>1, <1>2, <1>3, TypeCorrect, PTL DEF Spec, SkippedForReason

-----------------------------------------------------------------------------
(* A round is what a source's synchronisation promises *)

Below == {n \in Letters : n < mark}
Lost == skipped \union missed

(***************************************************************************)
(* The mark that a round is about to save is not below the one it found:   *)
(* it is that one, or what the mailbox had reached on the way.             *)
(***************************************************************************)
MarkRises == round.cursor # NoMark => mark <= round.cursor

LEMMA MarkRisesStep == ASSUME Shape, MarkRises, [Next]_vars PROVE MarkRises'
<1>1. round \in RoundState /\ mark <= HistoryId /\ mark \in Nat
  BY DEF Shape, HistoryId
<1>2. Idle.cursor = NoMark /\ Import.cursor = NoMark
  BY DEF Idle, Import
<1>3. CASE Begin
  <2>1. [Idle EXCEPT !.pc = "history", !.page = mark, !.cursor = mark].cursor = mark
    BY DEF Idle
  <2>2. mark' = mark /\ round'.cursor \in {NoMark, mark}
    BY <1>2, <1>3, <2>1 DEF Begin
  <2> QED
    BY <1>1, <2>2 DEF MarkRises
<1>4. CASE HistoryPage \/ TakeMark
  <2>1. /\ mark' = mark /\ arrived' = arrived
        /\ round'.cursor = round.cursor \/ round'.cursor = HistoryId
    BY <1>1, <1>4 DEF HistoryPage, TakeMark, mailbox, RoundState
  <2> QED
    BY <1>1, <2>1 DEF MarkRises
<1>5. CASE HistoryStale \/ SaveMark \/ RoundFails \/ \E n \in Letters : FetchGone(n)
  BY <1>2, <1>5 DEF HistoryStale, SaveMark, RoundFails, FetchGone, MarkRises
<1>6. CASE \/ ListPage \/ (\E n \in Letters : FetchLetter(n) \/ FetchGarbled(n) \/ Delete(n))
           \/ Arrive \/ Age \/ HistoryExpires \/ UNCHANGED vars
  <2>1. mark' = mark /\ round'.cursor = round.cursor
    BY <1>1, <1>6 DEF ListPage, FetchLetter, FetchGarbled, Proceed, Delete, Arrive, Age,
       HistoryExpires, vars, RoundState
  <2> QED
    BY <2>1 DEF MarkRises
<1> QED
  BY <1>3, <1>4, <1>5, <1>6 DEF Next, RoundStep

(***************************************************************************)
(* What happens at Gmail adds one letter, above the mark, or takes one     *)
(* away, or is no matter of the feed.                                      *)
(***************************************************************************)
LEMMA MailboxMatches ==
  ASSUME Shape, Arrive \/ Age \/ HistoryExpires \/ (\E n \in Letters : Delete(n))
  PROVE  [Source!Next]_Source!vars
<1>1. arrived \in Nat /\ mark \in Nat /\ mark <= arrived + 1
  BY DEF Shape, HistoryId
<1>2. CASE Arrive
  <2>1. /\ arrived' = arrived + 1 /\ UNCHANGED <<deleted, stored, Lost, mark>>
    BY <1>2 DEF Arrive, Lost
  <2>2. /\ HistoryId \in Letters' /\ HistoryId \notin Letters
        /\ Letters' = Letters \union {HistoryId}
    BY <1>1, <2>1 DEF Letters, HistoryId
  <2>3. Below' = Below
    BY <1>1, <2>1, <2>2 DEF Below, HistoryId
  <2>4. Source!Appear
    BY <2>1, <2>2, <2>3 DEF Source!Appear, Below, Lost
  <2> QED
    BY <2>4 DEF Source!Next
<1>3. CASE Age \/ HistoryExpires
  BY <1>3 DEF Age, HistoryExpires, Source!vars, Letters
<1>4. ASSUME NEW n \in Letters, Delete(n) PROVE Source!Vanish
  BY <1>4 DEF Delete, Source!Vanish, Letters
<1> QED
  BY <1>2, <1>3, <1>4 DEF Source!Next

(***************************************************************************)
(* A round gives letters up, stores one, passes what is below the mark it  *)
(* saves, or does nothing that can be seen from outside.                   *)
(***************************************************************************)
LEMMA RoundMatches ==
  ASSUME IInv, IInv', MarkRises, RoundStep \/ RoundFails
  PROVE  [Source!Next]_Source!vars
<1>1. Shape /\ Shape' /\ UNCHANGED <<arrived, deleted, Letters>>
  BY DEF IInv, RoundStep, RoundFails, Begin, ListPage, HistoryPage, HistoryStale, TakeMark,
     SaveMark, FetchLetter, FetchGarbled, FetchGone, mailbox, Letters
<1>2. Lost' \subseteq Letters
  BY <1>1 DEF Shape, Lost
<1>3. CASE \/ Begin \/ HistoryPage \/ HistoryStale \/ TakeMark \/ RoundFails
           \/ \E n \in Letters : FetchGone(n)
  BY <1>1, <1>3 DEF Begin, HistoryPage, HistoryStale, TakeMark, RoundFails, FetchGone,
     Source!vars
<1>4. CASE ListPage \/ \E n \in Letters : FetchGarbled(n)
  <2>1. Lost \subseteq Lost' /\ UNCHANGED <<stored, mark>>
    BY <1>4 DEF ListPage, FetchGarbled, Lost
  <2>2. Source!GiveUp
    BY <1>1, <1>2, <2>1 DEF Source!GiveUp, Lost
  <2> QED
    BY <2>2 DEF Source!Next
<1>5. ASSUME NEW n \in Letters, FetchLetter(n) PROVE Source!Store
  BY <1>1, <1>5 DEF FetchLetter, Source!Store
<1>6. CASE SaveMark
  <2>1. /\ UNCHANGED <<stored, skipped>> /\ missed' = missed \union (PassedOver \ stored)
        /\ mark' = IF round.cursor # NoMark THEN round.cursor ELSE mark
    BY <1>6 DEF SaveMark
  <2>2. mark \in Nat /\ mark' \in Nat /\ mark <= mark'
    BY <1>1, <2>1 DEF Shape, MarkRises, HistoryId
  <2>3. Below \subseteq Below'
    <3>1. \A n \in Letters : n \in Int
      BY DEF Letters
    <3> QED
      BY <1>1, <2>2, <3>1 DEF Below
  <2>4. Below' \subseteq stored \union deleted \union Lost'
    BY <1>1, <2>1 DEF IInv, MarkCovers, Covered, Below, Lost
  <2>5. Lost \subseteq Lost' /\ (Lost' \ Lost) \intersect stored = {} /\ Below' \subseteq Letters
    BY <1>1, <2>1 DEF Lost, Below
  <2>6. Source!Pass
    BY <1>1, <1>2, <2>1, <2>3, <2>4, <2>5 DEF Source!Pass, Below, Lost
  <2> QED
    BY <2>6 DEF Source!Next
<1> QED
  BY <1>3, <1>4, <1>5, <1>6 DEF RoundStep, Source!Next

(***************************************************************************)
(* The synchronisation of Gmail implements that of a source: letters below *)
(* the mark were dealt with when it was saved, none arrives there, it      *)
(* never falls back (sync).                                                *)
(***************************************************************************)
THEOREM SourceRefined == Spec => ImplementsSource
<1>1. Init => MarkRises
  BY DEF Init, Idle, MarkRises
<1>2. IInv /\ MarkRises /\ [Next]_vars => MarkRises'
  BY MarkRisesStep DEF IInv
<1>3. Init => Source!Init
  BY DEF Init, Source!Init, NoMark, Letters
<1>4. IInv /\ IInv' /\ MarkRises /\ [Next]_vars => [Source!Next]_Source!vars
  <2>1. UNCHANGED vars => UNCHANGED Source!vars
    BY DEF vars, mailbox, Source!vars, Letters
  <2> QED
    BY <2>1, MailboxMatches, RoundMatches DEF Next, IInv
<1> QED
  BY <1>1, <1>2, <1>3, <1>4, CoverKept, PTL DEF Spec, ImplementsSource, Source!Spec
=============================================================================
