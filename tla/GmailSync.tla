------------------------------ MODULE GmailSync ------------------------------
(***************************************************************************)
(* What a synchronisation of Gmail brings into the feed                    *)
(* (internal/gmail/gmail.go: sync, collectIDs, initialIDs, incrementalIDs, *)
(* profileHistoryID): an import of the newest letters, then the history    *)
(* since the saved historyId, page by page, while letters go on arriving   *)
(* and disappearing at Gmail.  The scheduler runs one round at a time.     *)
(*                                                                         *)
(* Letters are numbered as they arrive and each is one history record, so  *)
(* the mailbox's historyId is the number of the next letter.  Gmail itself *)
(* is modelled from how the code pages through it.  What a round saves of  *)
(* the connection's state is in Connections, what becomes of a stored      *)
(* letter in MessageLifecycle.                                             *)
(***************************************************************************)
EXTENDS Integers, FiniteSets

CONSTANTS Limit,        \* GmailImportLimit
          PageSize,     \* pageSize
          MaxLetters, MaxFaults      \* bounds for TLC

ASSUME ConstantsOK == {Limit, PageSize} \subseteq Nat \ {0}
                      /\ {MaxLetters, MaxFaults} \subseteq Nat

VARIABLES arrived,      \* letters that have arrived at Gmail: 1..arrived
          old,          \* letters 1..old are older than GmailImportDays
          oldest,       \* the oldest historyId Gmail still has the history of
          deleted,      \* letters deleted for good at Gmail
          stored,       \* letters stored in the table "message"
          mark,         \* connection.sync_cursor
          round,        \* local state of sync
          skipped,      \* history: letters an import left aside
          missed,       \* history: letters the mark passed unseen, or unreadable
          faults

mailbox == <<arrived, old, oldest, deleted>>
vars == <<mailbox, stored, mark, round, skipped, missed, faults>>

NoMark == 0
FirstPage == 0
Letters == 1..arrived
HistoryId == arrived + 1

Idle == [pc |-> "idle", import |-> FALSE, since |-> 0, ids |-> {}, listed |-> {},
         page |-> FirstPage, top |-> 0, cursor |-> NoMark]

Init == /\ arrived \in 0..MaxLetters /\ old = 0 /\ oldest = 1
        /\ deleted = {} /\ stored = {} /\ mark = NoMark /\ round = Idle
        /\ skipped = {} /\ missed = {} /\ faults = 0

Fault == faults < MaxFaults /\ faults' = faults + 1
Smaller(a, b) == IF a < b THEN a ELSE b

-----------------------------------------------------------------------------
(* collectIDs *)

Import == [Idle EXCEPT !.pc = "list", !.import = TRUE, !.since = old]

Begin == /\ round.pc = "idle"
         /\ round' = IF mark = NoMark THEN Import
                     ELSE [Idle EXCEPT !.pc = "history", !.page = mark, !.cursor = mark]
         /\ UNCHANGED <<mailbox, stored, mark, skipped, missed, faults>>

\* The newest letters of the last days, below what the page before has shown.
Visible(r) == {n \in Letters : /\ n > r.since /\ n \notin deleted
                               /\ r.page # FirstPage => n < r.page}

\* Mutants: each page asks for as many as the first; only one page is read.
RoomOfFirstPage(r) == Smaller(PageSize, Limit)
OnlyFirstPage(rest, listed) == FALSE

Room(r) == Smaller(PageSize, Limit - Cardinality(r.listed))

MorePages(rest, listed) == rest # {} /\ Cardinality(listed) < Limit

\* A page ends at some letter, low, and may be shorter than asked for; the last
\* one, which ends the list, has no token. The cut to Limit after the loop never
\* applies: no page exceeds the room that is left.
ListPage ==
  /\ round.pc = "list"
  /\ \E low \in Letters \union {HistoryId} :
       LET page == {n \in Visible(round) : low <= n}
           rest == Visible(round) \ page
           listed == round.listed \union page
           top == IF round.page = FirstPage THEN arrived ELSE round.top
           next == [round EXCEPT !.ids = listed, !.listed = listed, !.top = top]
       IN  /\ Cardinality(page) <= Room(round)
           /\ IF rest = {} THEN low = 1 ELSE low \in page
           /\ IF MorePages(rest, listed)
              THEN /\ round' = [next EXCEPT !.page = low]
                   /\ UNCHANGED skipped
              ELSE /\ round' = [next EXCEPT !.pc = "fetch"]
                   /\ skipped' = skipped \union (1..top \ listed)
  /\ UNCHANGED <<mailbox, stored, mark, missed, faults>>

\* Mutant: the token of the next page is not followed.
FirstHistoryPage ==
  /\ round.pc = "history"
  /\ oldest <= mark
  /\ \E last \in (round.page - 1)..arrived :
       /\ last < round.page => last = arrived
       /\ round' = [round EXCEPT !.ids = @ \union round.page..last, !.cursor = HistoryId,
                                 !.pc = "fetch"]
  /\ UNCHANGED <<mailbox, stored, mark, skipped, missed, faults>>

\* The records from the start id on, oldest first; each page carries the
\* mailbox's historyId of its own moment, and the last one has no token.
HistoryPage ==
  /\ round.pc = "history"
  /\ oldest <= mark
  /\ \E last \in (round.page - 1)..arrived :
       /\ last < round.page => last = arrived
       /\ round' = [round EXCEPT !.ids = @ \union round.page..last, !.cursor = HistoryId,
                                 !.page = last + 1,
                                 !.pc = IF last = arrived THEN "fetch" ELSE @]
  /\ UNCHANGED <<mailbox, stored, mark, skipped, missed, faults>>

\* Mutant: an expired historyId is an error like any other.
ExpiredAborts == /\ round.pc = "history"
                 /\ mark < oldest
                 /\ round' = Idle
                 /\ UNCHANGED <<mailbox, stored, mark, skipped, missed, faults>>

\* isStaleHistory: Gmail answers 404 for an expired historyId, import again. A call
\* that gets no answer does the same: its error quotes the URL, startHistoryId in it.
HistoryStale == /\ round.pc = "history"
                /\ \/ mark < oldest /\ UNCHANGED faults
                   \/ Fault
                /\ round' = Import
                /\ UNCHANGED <<mailbox, stored, mark, skipped, missed>>

-----------------------------------------------------------------------------
(* sync *)

\* An import goes from the newest to the oldest, the history the other way.
NextLetter(n) == /\ round.pc = "fetch"
                 /\ n \in round.ids
                 /\ \A m \in round.ids : IF round.import THEN m <= n ELSE n <= m

Proceed(n) == round' = [round EXCEPT !.ids = @ \ {n}]

\* Stored already is no error: Ingestor.store answers nil.
FetchLetter(n) == /\ NextLetter(n)
                  /\ n \notin deleted
                  /\ stored' = stored \union {n}
                  /\ Proceed(n)
                  /\ UNCHANGED <<mailbox, mark, skipped, missed, faults>>

\* The answer is no JSON: the letter is passed over.
FetchGarbled(n) == /\ NextLetter(n)
                   /\ n \notin deleted
                   /\ Fault
                   /\ missed' = missed \union {n}
                   /\ Proceed(n)
                   /\ UNCHANGED <<mailbox, stored, mark, skipped>>

\* The letter is gone, Gmail answers 404: the round ends and the mark stays.
FetchGone(n) == /\ NextLetter(n)
                /\ n \in deleted
                /\ round' = Idle
                /\ UNCHANGED <<mailbox, stored, mark, skipped, missed, faults>>

\* Mutant: the mark is always the mailbox's present one.
AlwaysAsksProfile == /\ round.pc = "fetch" /\ round.ids = {}
                     /\ round' = [round EXCEPT !.pc = "save", !.cursor = HistoryId]
                     /\ UNCHANGED <<mailbox, stored, mark, skipped, missed, faults>>

\* profileHistoryID: after an import the mark is what the mailbox has reached by
\* now; "" when the profile cannot be read.
TakeMark == /\ round.pc = "fetch" /\ round.ids = {}
            /\ IF round.cursor # NoMark
               THEN round' = [round EXCEPT !.pc = "save"] /\ UNCHANGED faults
               ELSE \/ /\ round' = [round EXCEPT !.pc = "save", !.cursor = HistoryId]
                       /\ UNCHANGED faults
                    \/ /\ Fault
                       /\ round' = [round EXCEPT !.pc = "save"]
            /\ UNCHANGED <<mailbox, stored, mark, skipped, missed>>

PassedOver == IF round.import THEN (round.top + 1)..(round.cursor - 1) ELSE {}

SaveMark == /\ round.pc = "save"
            /\ mark' = IF round.cursor # NoMark THEN round.cursor ELSE mark
            /\ missed' = missed \union (PassedOver \ stored)
            /\ round' = Idle
            /\ UNCHANGED <<mailbox, stored, skipped, faults>>

\* A call of Gmail or a statement fails, or the process restarts.
RoundFails == /\ round.pc # "idle"
              /\ Fault
              /\ round' = Idle
              /\ UNCHANGED <<mailbox, stored, mark, skipped, missed>>

-----------------------------------------------------------------------------
(* Gmail *)

Arrive == /\ arrived < MaxLetters
          /\ arrived' = arrived + 1
          /\ UNCHANGED <<old, oldest, deleted, stored, mark, round, skipped, missed, faults>>

Delete(n) == /\ n \notin deleted
             /\ deleted' = deleted \union {n}
             /\ UNCHANGED <<arrived, old, oldest, stored, mark, round, skipped, missed, faults>>

Age == /\ old < arrived
       /\ old' = old + 1
       /\ UNCHANGED <<arrived, oldest, deleted, stored, mark, round, skipped, missed, faults>>

HistoryExpires == /\ oldest < HistoryId
                  /\ oldest' = oldest + 1
                  /\ UNCHANGED <<arrived, old, deleted, stored, mark, round, skipped, missed,
                                 faults>>

RoundStep == \/ Begin \/ ListPage \/ HistoryPage \/ HistoryStale \/ TakeMark \/ SaveMark
             \/ \E n \in Letters : FetchLetter(n) \/ FetchGarbled(n) \/ FetchGone(n)

Next == \/ RoundStep \/ RoundFails
        \/ Arrive \/ Age \/ HistoryExpires
        \/ \E n \in Letters : Delete(n)

\* The scheduler ticks on and every call ends by its timeout.
Spec == Init /\ [][Next]_vars /\ WF_vars(RoundStep)

-----------------------------------------------------------------------------
(* Properties *)

(***************************************************************************)
(* The variables keep their shape; in particular no mark is ahead of the   *)
(* mailbox, what is still to be fetched was listed, and an import lists no *)
(* more than GmailImportLimit letters (initialIDs; docs/00, 5.1).          *)
(***************************************************************************)
RoundState ==
  [pc : {"idle", "list", "history", "fetch", "save"}, import : BOOLEAN, since : 0..old,
   ids : SUBSET Letters, listed : SUBSET Letters, page : 0..HistoryId, top : 0..arrived,
   cursor : 0..HistoryId]

Shape ==
  /\ arrived \in Nat /\ old \in 0..arrived /\ oldest \in 1..HistoryId
  /\ deleted \subseteq Letters /\ stored \subseteq Letters
  /\ skipped \subseteq Letters /\ missed \subseteq Letters
  /\ mark \in 0..HistoryId /\ faults \in 0..MaxFaults
  /\ round \in RoundState
  /\ round.pc = "history" => round.page # FirstPage

TypeOK == Shape /\ Cardinality(round.listed) <= Limit

Covered == stored \union deleted \union skipped \union missed

(***************************************************************************)
(* The mark never passes a letter that was not dealt with: below it every  *)
(* letter is in the feed, or is gone, or was left aside by an import, or   *)
(* slipped between an import's listing and its reading of the profile.  A  *)
(* round that fails half-way, an expired history and letters that arrive   *)
(* between two pages lose nothing (sync's order of store and save).        *)
(***************************************************************************)
MarkCovers == \A n \in Letters : n < mark => n \in Covered

(***************************************************************************)
(* Why it does not: what a round is about to pass with its mark is what it *)
(* was given to fetch or was dealt with before, at every point of reading  *)
(* the pages and of fetching (collectIDs, sync).                           *)
(***************************************************************************)
InHand(bound) == \A n \in Letters : n < bound => n \in round.ids \union Covered

RoundCovers ==
  /\ round.pc = "history" => /\ ~round.import /\ mark # NoMark /\ round.cursor # NoMark
                            /\ mark <= round.page /\ InHand(round.page)
  /\ round.pc = "list" => /\ round.import /\ round.cursor = NoMark
                         /\ round.ids = round.listed
  /\ round.pc = "fetch" => IF round.import
                           THEN round.cursor = NoMark /\ InHand(round.top + 1)
                           ELSE round.cursor # NoMark /\ InHand(round.cursor)
  /\ round.pc = "save" => /\ round.ids = {}
                         /\ InHand(IF round.import THEN round.top + 1 ELSE round.cursor)

(***************************************************************************)
(* An import leaves a letter aside only because it is too old, is gone, or *)
(* because GmailImportLimit newer ones were taken: it never stops after a  *)
(* short page (initialIDs; docs/00-product-spec.md:93).                    *)
(***************************************************************************)
SkippedForReason ==
  [][\A n \in skipped' \ skipped :
       \/ n <= round.since
       \/ n \in deleted
       \/ Cardinality({m \in round'.listed : n < m}) = Limit]_vars

(***************************************************************************)
(* Every letter is dealt with in the end, however rounds fail, unless one  *)
(* that was deleted stands in the history: it fails every round until the  *)
(* history expires (sync's return on the error of get).                    *)
(***************************************************************************)
Blocked == mark # NoMark /\ \E d \in deleted : mark <= d
LettersArrive ==
  \A n \in 1..MaxLetters : n <= arrived ~> (n \in Covered \/ Blocked)

(***************************************************************************)
(* A round is what a source's synchronisation promises: the letters below  *)
(* the mark, which no history will show again, were dealt with when the    *)
(* mark was saved, none arrives below it, it never falls back, and letters *)
(* are stored one by one and only while Gmail has them (sync).             *)
(***************************************************************************)
Source == INSTANCE Synchroniser WITH there <- Letters, gone <- deleted,
            lost <- skipped \union missed, passed <- {n \in Letters : n < mark}
ImplementsSource == Source!Spec
=============================================================================
