-------------------------- MODULE TelegramSyncProofs --------------------------
(***************************************************************************)
(* Proof that what the date of the last synchronisation hides from the     *)
(* next round was dealt with, for dialogs, limits and clocks of any kind,  *)
(* and that rounds are what Synchroniser promises.                         *)
(***************************************************************************)
EXTENDS TelegramSync, FiniteSetTheorems, TLAPS

-----------------------------------------------------------------------------
(* The variables keep their shape *)

(***************************************************************************)
(* The parts of the shape that steps are about.                            *)
(***************************************************************************)
LEMMA Parts ==
  ASSUME Shape
  PROVE  /\ Len(posts) \in Nat /\ now \in Nat /\ lag \in Int /\ round \in RoundState
         /\ Wanted \subseteq Ids /\ Overlap \in Nat /\ ImportDays \in Nat
         /\ \A t \in Int : Cutoff(t) \in Int
         /\ \A n \in Ids : posts[n] \in PostType /\ posts[n].date \in Int
         /\ \A cs : Of(cs) \subseteq Wanted
         /\ \A c : History(c) \subseteq Ids /\ {n \in History(c) : Fresh(n)} \subseteq Wanted
         /\ \A b : InHand(b) \in {"chats", "store"}
<1>1. posts \in Seq(PostType) /\ lag \in Int /\ Overlap \in Nat /\ ImportDays \in Nat
  BY ConstantsOK DEF Shape
<1>2. \A n \in Ids : posts[n] \in PostType
  BY <1>1 DEF Ids
<1>3. \A n \in Ids : posts[n].date \in Int
  BY <1>2 DEF PostType
<1>4. \A t \in Int : Cutoff(t) \in Int
  BY <1>1 DEF Cutoff
<1> QED
  BY <1>1, <1>2, <1>3, <1>4 DEF Shape, Wanted, Of, History, Fresh, InHand

(***************************************************************************)
(* A step of fetch leaves the local state of the round in its shape.       *)
(***************************************************************************)
LEMMA RoundShape ==
  ASSUME Shape, \/ Begin \/ ReadDialogs \/ \E n \in Ids : StorePost(n)
                \/ \E c \in Chats : ReadHistory(c) \/ HistoryFails(c)
  PROVE  round' \in RoundState
<1> USE Parts
<1>0. round \in RoundState
  OBVIOUS
<1>1. CASE Begin
  <2>1. now \in 0..now /\ 0 \in 0..Len(posts) /\ now - ImportDays \in Int
    BY DEF Shape
  <2>2. (IF last = Never THEN now - ImportDays ELSE Cutoff(last)) \in Int
    <3>1. last # Never => last \in Int
      BY DEF Shape
    <3> QED
      BY <2>1, <3>1
  <2>3. Idle \in RoundState
    BY <2>1 DEF Idle, RoundState, Shape
  <2> QED
    BY <1>1, <2>1, <2>2, <2>3 DEF Begin, RoundState
<1>2. CASE ReadDialogs
  <2>1. Freshest(Chats) \subseteq Chats /\ Len(posts) \in 0..Len(posts)
    BY DEF Freshest
  <2>2. Of(Chats \ Freshest(Chats)) \subseteq Wanted
    OBVIOUS
  <2> QED
    BY <1>0, <1>2, <2>1, <2>2 DEF ReadDialogs, RoundState
<1>3. ASSUME NEW n \in Ids, StorePost(n) PROVE round' \in RoundState
  <2>1. round.saved \in Nat /\ round.batch \subseteq Wanted
    BY <1>0 DEF RoundState
  <2>a. \A k \in Nat : k + 1 \in Nat
    OBVIOUS
  <2>2. (IF n \in stored THEN round.saved ELSE round.saved + 1) \in Nat
    BY <2>1, <2>a, Zenon
  <2>3. InHand(round.batch \ {n}) \in {"chats", "store"}
    OBVIOUS
  <2> QED
    BY <1>0, <1>3, <2>1, <2>2, <2>3 DEF StorePost, RoundState
<1>4. ASSUME NEW c \in Chats, ReadHistory(c) PROVE round' \in RoundState
  <2> DEFINE batch == {n \in History(c) : Fresh(n)}
             aside == {n \in Of({c}) : n \notin History(c) \/ TooOld(n)}
  <2>1. batch \subseteq Wanted /\ aside \subseteq Wanted /\ InHand(batch) \in {"chats", "store"}
    OBVIOUS
  <2>2. round' = [round EXCEPT !.pc = InHand(batch), !.chats = @ \ {c}, !.batch = batch,
                               !.aside = @ \union aside]
    BY <1>4 DEF ReadHistory
  <2> HIDE DEF batch, aside
  <2> QED
    BY <1>0, <2>1, <2>2 DEF RoundState
<1>5. ASSUME NEW c \in Chats, HistoryFails(c) PROVE round' \in RoundState
  <2>1. Of({c}) \subseteq Wanted
    OBVIOUS
  <2> QED
    BY <1>0, <1>5, <2>1 DEF HistoryFails, RoundState
<1> QED
  BY <1>1, <1>2, <1>3, <1>4, <1>5

(***************************************************************************)
(* A message that is posted leaves the earlier ones as they are.           *)
(***************************************************************************)
LEMMA PostsGrow ==
  ASSUME Shape, NEW c \in Chats, NEW wanted \in BOOLEAN, Post(c, wanted)
  PROVE  /\ posts' \in Seq(PostType) /\ Len(posts') = Len(posts) + 1
         /\ \A n \in Ids : n \in Ids' /\ posts'[n] = posts[n]
         /\ posts'[Len(posts')].date = now - lag
         /\ \A n \in Ids' : n \in Ids \/ n = Len(posts')
         /\ Wanted \subseteq Wanted'
         /\ \A n \in Wanted' : n \in Wanted \/ n = Len(posts')
<1>1. posts \in Seq(PostType) /\ now - lag \in Int
  BY Parts DEF Shape
<1>2. [chat |-> c, date |-> now - lag, wanted |-> wanted] \in PostType
  BY <1>1 DEF PostType
<1> DEFINE post == [chat |-> c, date |-> now - lag, wanted |-> wanted]
<1>3. posts' = Append(posts, post) /\ post \in PostType /\ post.date = now - lag
  BY <1>2 DEF Post
<1> HIDE DEF post
<1>4. /\ posts' \in Seq(PostType) /\ Len(posts') = Len(posts) + 1
      /\ posts'[Len(posts')] = post
      /\ \A n \in 1..Len(posts) : posts'[n] = posts[n]
  BY <1>1, <1>3
<1>5. /\ \A n \in Ids : n \in Ids' /\ posts'[n] = posts[n]
      /\ \A n \in Ids' : n \in Ids \/ n = Len(posts')
  BY <1>1, <1>4 DEF Ids
<1> QED
  BY <1>3, <1>4, <1>5 DEF Wanted

(***************************************************************************)
(* The variables begin in their shape, and every step keeps it.            *)
(***************************************************************************)
LEMMA ShapeInit == Init => Shape
<1> SUFFICES ASSUME Init PROVE Shape
  OBVIOUS
<1>1. posts = <<>> /\ Len(posts) = 0 /\ now = 0 /\ posts \in Seq(PostType)
  BY DEF Init
<1>2. round \in RoundState
  BY <1>1 DEF Init, Idle, RoundState, Ids
<1> QED
  BY <1>1, <1>2, ConstantsOK DEF Init, Shape, Never, Wanted, Ids

LEMMA ShapeStep == ASSUME Shape, [Next]_vars PROVE Shape'
<1> USE Parts
<1>1. CASE UNCHANGED vars
  BY <1>1 DEF vars, Shape, RoundState, Wanted, Ids
<1>2. CASE Tick
  <2>1. now' \in Nat /\ 0..now \subseteq 0..now'
    BY <1>2 DEF Tick, Shape
  <2>2. UNCHANGED <<posts, lag, stored, last, round, skipped, late, faults>>
    BY <1>2 DEF Tick
  <2>3. round' \in RoundState'
    BY <2>1, <2>2 DEF RoundState, Ids, Wanted
  <2> QED
    BY <2>1, <2>2, <2>3 DEF Shape, Wanted, Ids
<1>3. ASSUME NEW c \in Chats, NEW wanted \in BOOLEAN, Post(c, wanted) PROVE Shape'
  <2>1. UNCHANGED <<now, lag, stored, last, round, skipped, late, faults>>
    BY <1>3 DEF Post
  <2>a. Ids \subseteq Ids' /\ Wanted \subseteq Wanted' /\ posts' \in Seq(PostType)
        /\ Len(posts') = Len(posts) + 1
    BY <1>3, PostsGrow
  <2>b. \A k \in Nat : 0..k \subseteq 0..(k + 1)
    OBVIOUS
  <2>2. /\ Ids \subseteq Ids' /\ Wanted \subseteq Wanted' /\ posts' \in Seq(PostType)
        /\ 0..Len(posts) \subseteq 0..Len(posts')
    BY <2>a, <2>b
  <2>3. round' \in RoundState'
    BY <2>1, <2>2 DEF RoundState
  <2> QED
    BY <2>1, <2>2, <2>3 DEF Shape
<1>4. ASSUME RoundStep PROVE Shape'
  <2>1. UNCHANGED <<posts, now, lag>> /\ (UNCHANGED faults \/ Fault)
    BY <1>4 DEF RoundStep, Begin, ReadDialogs, SaveSync, ReadHistory, HistoryFails,
       StorePost, RoundFails
  <2>2. faults' \in 0..MaxFaults
    <3>1. MaxFaults \in Nat /\ faults \in 0..MaxFaults
      BY ConstantsOK DEF Shape
    <3>2. \A m \in Nat : \A f \in 0..m : f < m => f + 1 \in 0..m
      OBVIOUS
    <3>3. faults' = faults \/ (faults < MaxFaults /\ faults' = faults + 1)
      BY <2>1 DEF Fault
    <3> QED
      BY <3>1, <3>2, <3>3
  <2>3. UNCHANGED <<Ids, Wanted, RoundState>>
    BY <2>1 DEF Ids, Wanted, RoundState
  <2>4. Idle \in RoundState
    BY DEF Idle, RoundState, Shape
  <2>5. SUFFICES /\ round' \in RoundState /\ stored' \subseteq Wanted
                 /\ skipped' \subseteq Wanted /\ late' \subseteq Wanted
                 /\ last' \in {Never} \union 0..now
    BY <2>1, <2>2, <2>3 DEF Shape
  <2>6. CASE Begin \/ ReadDialogs \/ \E c \in Chats : ReadHistory(c) \/ HistoryFails(c)
    BY <2>6, RoundShape DEF Begin, ReadDialogs, ReadHistory, HistoryFails, Shape
  <2>7. ASSUME NEW n \in Ids, StorePost(n) PROVE /\ stored' \subseteq Wanted
                                                 /\ UNCHANGED <<last, skipped, late>>
    BY <2>7 DEF StorePost, NextPost, RoundState, Shape
  <2>8. CASE SaveSync
    <3>1. round.aside \subseteq Wanted /\ Of(round.chats) \subseteq Wanted /\ now \in 0..now
      BY DEF RoundState, Shape
    <3>2. UNCHANGED stored /\ round' = Idle /\ last' = now
      BY <2>8 DEF SaveSync
    <3>3. skipped' \subseteq Wanted /\ late' \subseteq Wanted
      BY <2>8, <3>1 DEF SaveSync, Shape
    <3> QED
      BY <2>4, <3>1, <3>2, <3>3 DEF Shape
  <2>9. CASE RoundFails
    BY <2>4, <2>9 DEF RoundFails, Shape
  <2> QED
    BY <1>4, <2>6, <2>7, <2>8, <2>9, RoundShape DEF RoundStep, Shape
<1> QED
  BY <1>1, <1>2, <1>3, <1>4 DEF Next

(***************************************************************************)
(* No history is longer than HistoryLimit: the number of newer messages    *)
(* tells the messages of a dialog apart and is below the limit for each.   *)
(***************************************************************************)
LEMMA HistoryIsBounded ==
  ASSUME Shape, NEW c
  PROVE  IsFiniteSet(History(c)) /\ Cardinality(History(c)) <= HistoryLimit
<1> DEFINE newer(n) == {m \in Ids : Newer(n, m)}
           f == [n \in History(c) |-> Cardinality(newer(n))]
<1>1. Len(posts) \in Nat /\ IsFiniteSet(Ids) /\ History(c) \in SUBSET Ids
  BY Parts, FS_Interval DEF Ids
<1>2. IsFiniteSet(History(c)) /\ Cardinality(History(c)) \in Nat
  BY <1>1, FS_Subset, FS_CardinalityType
<1>3. HistoryLimit \in Nat /\ HistoryLimit > 0
  BY ConstantsOK
<1>4. ASSUME NEW n PROVE IsFiniteSet(newer(n)) /\ Cardinality(newer(n)) \in Nat
  <2>1. newer(n) \in SUBSET Ids
    OBVIOUS
  <2> QED
    BY <1>1, <2>1, FS_Subset, FS_CardinalityType
<1>5. \A n \in History(c) : Cardinality(newer(n)) < HistoryLimit /\ n \in Ids /\ posts[n].chat = c
  BY DEF History
<1>6. ASSUME NEW n \in History(c), NEW m \in History(c), n < m PROVE f[n] # f[m]
  <2>a. n \in Ids /\ m \in Ids /\ posts[n].chat = posts[m].chat
    BY <1>5
  <2>1. n \in Int /\ m \in Int /\ ~(m > m) /\ \A k \in Ids : k \in Int
    BY <1>1, <2>a DEF Ids
  <2>b. \A k, i \in Int : k > i /\ i > n => k > n
    BY <2>1
  <2>2. m \in newer(n) /\ m \notin newer(m)
    BY <1>6, <2>a, <2>1 DEF Newer
  <2>3. newer(m) \in SUBSET newer(n)
    <3>1. ASSUME NEW k \in newer(m) PROVE k \in newer(n)
      <4>1. k \in Ids /\ k > m /\ posts[k].chat = posts[m].chat /\ m > n
        BY <1>6, <2>1, <3>1 DEF Newer
      <4>2. k > n
        BY <2>1, <2>b, <4>1
      <4> QED
        BY <2>a, <4>1, <4>2 DEF Newer
    <3> QED
      BY <3>1
  <2>4. newer(m) # newer(n)
    BY <2>2
  <2> HIDE DEF newer
  <2>5. Cardinality(newer(m)) # Cardinality(newer(n))
    BY <1>4, <2>3, <2>4, FS_Subset
  <2> QED
    BY <2>5
<1> HIDE DEF newer
<1>7. f \in [History(c) -> 0..(HistoryLimit - 1)]
  <2>1. \A n \in History(c) : Cardinality(newer(n)) \in 0..(HistoryLimit - 1)
    BY <1>3, <1>4, <1>5
  <2> QED
    BY <2>1
<1>8. IsFiniteSet(0..(HistoryLimit - 1)) /\ Cardinality(0..(HistoryLimit - 1)) = HistoryLimit
  BY <1>3, FS_Interval
<1> HIDE DEF f
<1>9. ASSUME Cardinality(0..(HistoryLimit - 1)) < Cardinality(History(c)) PROVE FALSE
  <2>1. PICK n, m \in History(c) : n # m /\ f[n] = f[m]
    BY <1>2, <1>7, <1>8, <1>9, FS_PigeonHole
  <2>2. n \in Int /\ m \in Int
    BY <1>1 DEF Ids
  <2> QED
    BY <1>6, <2>1, <2>2
<1> QED
  BY <1>2, <1>3, <1>8, <1>9

(***************************************************************************)
(* A round stores at most one history less one over its limit: a history   *)
(* is asked for only below it.                                             *)
(***************************************************************************)
SavedIsBounded ==
  round.saved + Cardinality(round.batch \ stored) < LimitOf(round.import) + HistoryLimit

LEMMA LimitIsNatural == \A import \in BOOLEAN : LimitOf(import) \in Nat
<1>1. HistoryLimit \in Nat /\ DialogsLimit \in Nat /\ ImportLimit \in Nat
  BY ConstantsOK
<1>2. HistoryLimit * DialogsLimit \in Nat
  BY <1>1
<1> QED
  BY <1>1, <1>2 DEF LimitOf

(***************************************************************************)
(* What is still in hand can be counted.                                   *)
(***************************************************************************)
LEMMA BatchIsFinite ==
  ASSUME Shape
  PROVE  /\ IsFiniteSet(round.batch \ stored) /\ Cardinality(round.batch \ stored) \in Nat
         /\ round.saved \in Nat /\ round.import \in BOOLEAN
<1>1. Len(posts) \in Nat /\ Wanted \subseteq Ids /\ round \in RoundState
  BY Parts
<1>a. round.batch \subseteq Wanted
  BY <1>1 DEF RoundState
<1>b. IsFiniteSet(Ids)
  BY <1>1, FS_Interval DEF Ids
<1>2. IsFiniteSet(Ids) /\ round.batch \ stored \in SUBSET Ids
  BY <1>1, <1>a, <1>b
<1>3. IsFiniteSet(round.batch \ stored)
  BY <1>2, FS_Subset
<1> QED
  BY <1>1, <1>3, FS_CardinalityType DEF RoundState

(***************************************************************************)
(* A round at rest, or one that has only begun, has stored nothing.        *)
(***************************************************************************)
LEMMA FreshIsBounded ==
  ASSUME round.saved = 0, round.batch = {}, round.import \in BOOLEAN
  PROVE  SavedIsBounded
<1>1. LimitOf(round.import) \in Nat /\ HistoryLimit \in Nat /\ HistoryLimit > 0
  BY LimitIsNatural, ConstantsOK
<1>2. round.batch \ stored = {} /\ Cardinality({}) = 0
  BY FS_EmptySet
<1>3. Cardinality(round.batch \ stored) = 0
  BY <1>2
<1> QED
  BY <1>1, <1>3 DEF SavedIsBounded

(***************************************************************************)
(* A message that is stored moves from what is in hand to what was saved,  *)
(* or was in neither.                                                      *)
(***************************************************************************)
LEMMA StoreCounts ==
  ASSUME Shape, NEW n \in Ids, StorePost(n)
  PROVE  round'.saved + Cardinality(round'.batch \ stored')
           = round.saved + Cardinality(round.batch \ stored)
<1>1. /\ round \in RoundState /\ round.saved \in Nat
      /\ IsFiniteSet(round.batch \ stored) /\ Cardinality(round.batch \ stored) \in Nat
  BY Parts, BatchIsFinite
<1>2. /\ round'.batch = round.batch \ {n} /\ n \in round.batch
      /\ round'.saved = IF n \in stored THEN round.saved ELSE round.saved + 1
      /\ stored' = stored \union {n}
  BY <1>1 DEF StorePost, NextPost, RoundState
<1>3. round'.batch \ stored' = (round.batch \ stored) \ {n}
  BY <1>2
<1>4. Cardinality((round.batch \ stored) \ {n}) =
        IF n \in round.batch \ stored THEN Cardinality(round.batch \ stored) - 1
        ELSE Cardinality(round.batch \ stored)
  BY <1>1, FS_RemoveElement
<1>5. CASE n \in stored
  BY <1>2, <1>3, <1>4, <1>5
<1>6. CASE n \notin stored
  <2>1. /\ round'.saved = round.saved + 1
        /\ Cardinality(round'.batch \ stored') = Cardinality(round.batch \ stored) - 1
    BY <1>2, <1>3, <1>4, <1>6
  <2>2. \A a, b \in Nat : (a + 1) + (b - 1) = a + b
    OBVIOUS
  <2> QED
    BY <1>1, <2>1, <2>2
<1> QED
  BY <1>5, <1>6

(***************************************************************************)
(* Every step keeps the bound.                                             *)
(***************************************************************************)
LEMMA SavedStep == ASSUME Shape, SavedIsBounded, [Next]_vars PROVE SavedIsBounded'
<1>1. /\ round \in RoundState /\ HistoryLimit \in Nat
      /\ LimitOf(round.import) \in Nat /\ LimitOf(round'.import) = LimitOf(round.import)'
      /\ IsFiniteSet(round.batch \ stored) /\ Cardinality(round.batch \ stored) \in Nat
      /\ round.saved \in Nat
  BY Parts, LimitIsNatural, BatchIsFinite, ConstantsOK DEF LimitOf
<1>2. CASE UNCHANGED <<stored, round>>
  BY <1>2 DEF SavedIsBounded, LimitOf
<1>3. CASE Begin \/ SaveSync \/ RoundFails
  <2>1. round'.saved = 0 /\ round'.batch = {} /\ round'.import \in BOOLEAN
    <3>1. ASSUME Begin PROVE round'.saved = 0 /\ round'.batch = {} /\ round'.import \in BOOLEAN
      BY <3>1 DEF Begin, Idle
    <3>2. ASSUME SaveSync \/ RoundFails
          PROVE  round'.saved = 0 /\ round'.batch = {} /\ round'.import \in BOOLEAN
      <4>1. round' = Idle
        BY <3>2 DEF SaveSync, RoundFails
      <4> QED
        BY <4>1 DEF Idle
    <3> QED
      BY <1>3, <3>1, <3>2
  <2>2. (round.saved = 0 /\ round.batch = {} /\ round.import \in BOOLEAN => SavedIsBounded)'
    BY FreshIsBounded, PTL
  <2> QED
    BY <2>1, <2>2
<1>4. CASE ReadDialogs \/ \E c \in Chats : HistoryFails(c)
  <2>1. /\ round'.saved = round.saved /\ round'.batch = round.batch
        /\ round'.import = round.import /\ stored' = stored
    BY <1>1, <1>4 DEF ReadDialogs, HistoryFails, RoundState
  <2> QED
    BY <2>1 DEF SavedIsBounded, LimitOf
<1>5. ASSUME NEW c \in Chats, ReadHistory(c) PROVE SavedIsBounded'
  <2>1. /\ round'.saved = round.saved /\ round'.batch \subseteq History(c)
        /\ round'.import = round.import /\ stored' = stored
        /\ round.saved < LimitOf(round.import)
    BY <1>1, <1>5 DEF ReadHistory, NextChat, RoundState
  <2>2. round'.batch \ stored \in SUBSET History(c)
    BY <2>1
  <2>3. /\ IsFiniteSet(round'.batch \ stored) /\ Cardinality(History(c)) \in Nat
        /\ Cardinality(round'.batch \ stored) <= Cardinality(History(c))
        /\ Cardinality(History(c)) <= HistoryLimit
    BY <2>2, HistoryIsBounded, FS_Subset, FS_CardinalityType
  <2>4. Cardinality(round'.batch \ stored) \in Nat
    BY <2>3, FS_CardinalityType
  <2>5. round.saved + Cardinality(round'.batch \ stored) < LimitOf(round.import) + HistoryLimit
    BY <1>1, <2>1, <2>3, <2>4
  <2> QED
    BY <2>1, <2>5 DEF SavedIsBounded, LimitOf
<1>6. ASSUME NEW n \in Ids, StorePost(n) PROVE SavedIsBounded'
  <2>1. round'.import = round.import
    BY <1>1, <1>6 DEF StorePost, RoundState
  <2> QED
    BY <1>6, <2>1, StoreCounts DEF SavedIsBounded, LimitOf
<1> QED
  BY <1>2, <1>3, <1>4, <1>5, <1>6 DEF Next, RoundStep, Post, Tick, vars

(***************************************************************************)
(* The variables keep their shape, and a round stores at most one history  *)
(* less one over its limit (Sync, fetch).                                  *)
(***************************************************************************)
THEOREM TypeCorrect == Spec => []TypeOK
<1>1. Init => Shape /\ SavedIsBounded
  <2>1. Init => round.saved = 0 /\ round.batch = {} /\ round.import \in BOOLEAN
    BY DEF Init, Idle
  <2> QED
    BY <2>1, ShapeInit, FreshIsBounded
<1>2. Shape /\ SavedIsBounded /\ [Next]_vars => (Shape /\ SavedIsBounded)'
  BY ShapeStep, SavedStep
<1>3. Shape /\ SavedIsBounded => TypeOK
  BY DEF TypeOK, SavedIsBounded
<1> QED
  BY <1>1, <1>2, <1>3, PTL DEF Spec

-----------------------------------------------------------------------------
(* What a round covers *)

(***************************************************************************)
(* The inductive invariant: besides what the two properties say, a message *)
(* that was posted behind the round's back is not older than the round.    *)
(***************************************************************************)
RoundDates ==
  round.pc \in {"chats", "store"} =>
    \A n \in Wanted : n > round.seen => posts[n].date >= round.began - lag

IInv == Shape /\ DateCovers /\ RoundCovers /\ RoundDates

(***************************************************************************)
(* The invariant holds before the first round.                             *)
(***************************************************************************)
LEMMA InvInit == Init => IInv
<1> SUFFICES ASSUME Init PROVE IInv
  OBVIOUS
<1>1. last = Never /\ round.pc = "idle" /\ round.batch = {}
  BY DEF Init, Idle
<1> QED
  BY <1>1, ShapeInit DEF IInv, DateCovers, RoundCovers, RoundDates

(***************************************************************************)
(* A step of a round adds to what was dealt with and to nothing else that  *)
(* the invariant is about.                                                 *)
(***************************************************************************)
LEMMA RoundFrame ==
  ASSUME Shape, RoundStep
  PROVE  /\ UNCHANGED <<posts, now, lag>> /\ Dealt \subseteq Dealt'
         /\ UNCHANGED <<Ids, Wanted>> /\ \A cs : Of(cs)' = Of(cs)
         /\ SaveSync \/ (last' = last /\ late' = late)
<1>1. /\ UNCHANGED <<posts, now, lag>> /\ stored \subseteq stored'
      /\ skipped \subseteq skipped' /\ late \subseteq late'
      /\ SaveSync \/ (last' = last /\ late' = late)
  BY DEF RoundStep, Begin, ReadDialogs, SaveSync, ReadHistory, HistoryFails, StorePost,
     RoundFails
<1> QED
  BY <1>1 DEF Dealt, Ids, Wanted, Of

(***************************************************************************)
(* Reading a history, or failing to, accounts for all of its dialog: what  *)
(* is neither in hand nor set aside is hidden by the date and was dealt    *)
(* with before.                                                            *)
(***************************************************************************)
LEMMA DialogIsCovered ==
  ASSUME IInv, NEW c \in Chats, ReadHistory(c) \/ HistoryFails(c)
  PROVE  \A n \in Wanted : posts[n].chat = c => n \in Dealt \union round'.batch \union round'.aside
<1> SUFFICES ASSUME NEW n \in Wanted, posts[n].chat = c
             PROVE  n \in Dealt \union round'.batch \union round'.aside
  OBVIOUS
<1>1. n \in Of({c}) /\ n \in Ids /\ round \in RoundState /\ posts[n].date \in Int
  BY Parts DEF Of, IInv
<1>2. CASE HistoryFails(c)
  BY <1>1, <1>2 DEF HistoryFails, RoundState
<1>3. CASE ReadHistory(c)
  <2> DEFINE batch == {m \in History(c) : Fresh(m)}
             aside == {m \in Of({c}) : m \notin History(c) \/ TooOld(m)}
  <2>1. round'.batch = batch /\ aside \subseteq round'.aside
    BY <1>1, <1>3 DEF ReadHistory, RoundState
  <2>2. SUFFICES ASSUME n \notin batch, n \notin aside PROVE n \in Dealt
    BY <2>1
  <2>3. n \in History(c) /\ ~TooOld(n) /\ ~Fresh(n)
    BY <1>1, <2>2
  <2>4. round.since \in Int /\ posts[n].wanted
    BY <1>1 DEF RoundState, Wanted
  <2>5. posts[n].date < round.since
    BY <1>1, <2>3, <2>4 DEF Fresh
  <2>6. round.pc # "idle" /\ ~round.import
    BY <1>3, <2>3, <2>5 DEF TooOld, ReadHistory, NextChat
  <2>7. last # Never /\ round.since = Cutoff(last)
    BY <2>6 DEF IInv, RoundCovers
  <2> QED
    BY <2>5, <2>7 DEF IInv, DateCovers
<1> QED
  BY <1>2, <1>3

(***************************************************************************)
(* Every step of a round keeps what the round covers.                      *)
(***************************************************************************)
LEMMA RoundCoversStep == ASSUME IInv, RoundStep PROVE RoundCovers'
<1>1. /\ Shape /\ round \in RoundState /\ UNCHANGED <<posts, now, lag, Ids, Wanted>>
      /\ Dealt \subseteq Dealt'
  BY RoundFrame, Parts DEF IInv
<1>a. Of(round.chats)' = Of(round'.chats)
  BY <1>1 DEF Of
<1>2. CASE SaveSync \/ RoundFails
  <2>1. round' = Idle
    BY <1>2 DEF SaveSync, RoundFails
  <2> QED
    BY <2>1 DEF Idle, RoundCovers
<1>3. CASE Begin
  <2>1. /\ round'.pc = "dialogs" /\ round'.batch = {} /\ last' = last
        /\ round'.import = (last = Never)
        /\ round'.since = IF last = Never THEN now - ImportDays ELSE Cutoff(last)
    BY <1>3 DEF Begin, Idle
  <2> QED
    BY <2>1 DEF RoundCovers, Cutoff
<1>4. CASE ReadDialogs
  <2>1. /\ round'.pc = "chats" /\ round'.batch = round.batch /\ last' = last
        /\ round'.import = round.import /\ round'.since = round.since
        /\ round'.chats = Freshest(Chats) /\ round'.aside = Of(Chats \ Freshest(Chats))
        /\ round.pc = "dialogs"
    BY <1>1, <1>4 DEF ReadDialogs, RoundState
  <2>2. \A n \in Wanted : posts[n].chat \in Chats
    BY <1>1, Parts DEF PostType
  <2>3. \A n \in Wanted : n \in round'.aside \union Of(round'.chats)
    BY <2>1, <2>2 DEF Of
  <2>4. \A n \in Wanted' : n \in round'.aside \union Of(round.chats)'
    BY <1>1, <1>a, <2>3
  <2>5. round.batch = {} /\ (round.import <=> last = Never)
        /\ (~round.import => round.since = Cutoff(last))
    BY <2>1 DEF IInv, RoundCovers
  <2> QED
    BY <2>1, <2>4, <2>5 DEF RoundCovers, Cutoff
<1>5. ASSUME NEW c \in Chats, ReadHistory(c) \/ HistoryFails(c) PROVE RoundCovers'
  <2>1. /\ round.pc = "chats" /\ round'.pc \in {"chats", "store"} /\ last' = last
        /\ round'.import = round.import /\ round'.since = round.since
        /\ round'.seen = round.seen /\ round'.chats = round.chats \ {c}
        /\ round.aside \subseteq round'.aside
    <3>1. CASE ReadHistory(c)
      <4> DEFINE batch == {n \in History(c) : Fresh(n)}
                 aside == {n \in Of({c}) : n \notin History(c) \/ TooOld(n)}
      <4>1. /\ round' = [round EXCEPT !.pc = InHand(batch), !.chats = @ \ {c},
                                      !.batch = batch, !.aside = @ \union aside]
            /\ last' = last /\ round.pc = "chats" /\ InHand(batch) \in {"chats", "store"}
        BY <3>1 DEF ReadHistory, NextChat, InHand
      <4> HIDE DEF batch, aside
      <4> QED
        BY <1>1, <4>1 DEF RoundState
    <3>2. CASE HistoryFails(c)
      BY <1>1, <3>2 DEF HistoryFails, NextChat, RoundState
    <3> QED
      BY <1>5, <3>1, <3>2
  <2>a. round'.pc # "store" => round'.batch = {} \/ round'.batch = round.batch
    <3>1. CASE ReadHistory(c)
      <4>1. round'.pc = InHand(round'.batch)
        BY <1>1, <3>1 DEF ReadHistory, RoundState
      <4> QED
        BY <4>1 DEF InHand
    <3>2. CASE HistoryFails(c)
      BY <1>1, <3>2 DEF HistoryFails, RoundState
    <3> QED
      BY <1>5, <3>1, <3>2
  <2>2. /\ round.batch = {} /\ (round.import <=> last = Never)
        /\ (~round.import => round.since = Cutoff(last))
        /\ \A n \in Wanted : n <= round.seen =>
             n \in Dealt \union round.aside \union Of(round.chats)
    BY <2>1 DEF IInv, RoundCovers
  <2>3. ASSUME NEW n \in Wanted, n <= round.seen
        PROVE  n \in Dealt \union round'.batch \union round'.aside \union Of(round'.chats)
    <3>1. CASE posts[n].chat = c
      BY <1>5, <3>1, DialogIsCovered
    <3>2. CASE posts[n].chat # c
      BY <2>1, <2>2, <2>3, <3>2 DEF Of
    <3> QED
      BY <3>1, <3>2
  <2>4. \A n \in Wanted' : n <= round'.seen =>
          n \in Dealt' \union round'.batch \union round'.aside \union Of(round.chats)'
    BY <1>1, <1>a, <2>1, <2>3
  <2> QED
    BY <2>1, <2>2, <2>4, <2>a DEF RoundCovers, Cutoff
<1>6. ASSUME NEW n \in Ids, StorePost(n) PROVE RoundCovers'
  <2>1. /\ round.pc = "store" /\ round'.pc \in {"chats", "store"} /\ last' = last
        /\ round'.import = round.import /\ round'.since = round.since
        /\ round'.seen = round.seen /\ round'.chats = round.chats
        /\ round.aside = round'.aside /\ round'.batch = round.batch \ {n}
        /\ (round'.pc # "store" => round'.batch = {})
    BY <1>1, <1>6 DEF StorePost, NextPost, RoundState, InHand
  <2>2. n \in Dealt'
    BY <1>6 DEF StorePost, Dealt
  <2>3. /\ (round.import <=> last = Never)
        /\ (~round.import => round.since = Cutoff(last))
        /\ \A m \in Wanted : m <= round.seen =>
             m \in Dealt \union round.batch \union round.aside \union Of(round.chats)
    BY <2>1 DEF IInv, RoundCovers
  <2>4. \A m \in Wanted' : m <= round'.seen =>
          m \in Dealt' \union round'.batch \union round'.aside \union Of(round.chats)'
    BY <1>1, <1>a, <2>1, <2>2, <2>3
  <2> QED
    BY <2>1, <2>3, <2>4 DEF RoundCovers, Cutoff
<1> QED
  BY <1>2, <1>3, <1>4, <1>5, <1>6 DEF RoundStep

(***************************************************************************)
(* The date moves to where everything older is dealt with.                 *)
(***************************************************************************)
LEMMA DateCoversStep == ASSUME IInv, RoundStep PROVE DateCovers'
<1>1. /\ Shape /\ UNCHANGED <<posts, now, lag, Ids, Wanted>> /\ Dealt \subseteq Dealt'
      /\ SaveSync \/ (last' = last /\ late' = late)
  BY RoundFrame DEF IInv
<1>2. CASE last' = last
  BY <1>1, <1>2 DEF IInv, DateCovers, Cutoff
<1>3. CASE SaveSync
  <2> SUFFICES ASSUME NEW n \in Wanted, posts[n].date < Cutoff(now) PROVE n \in Dealt'
    BY <1>1, <1>3 DEF SaveSync, DateCovers, Cutoff
  <2>a. Len(posts) \in Nat /\ n \in Ids /\ round \in RoundState
    BY <1>1, Parts
  <2>1. n \in Int /\ round.seen \in Int
    BY <2>a DEF RoundState, Ids
  <2>2. CASE n <= round.seen
    <3>1. n \in Dealt \union round.batch \union round.aside \union Of(round.chats)
          /\ round.batch = {}
      BY <1>3, <2>2 DEF SaveSync, FetchDone, IInv, RoundCovers
    <3>2. round.aside \union Of(round.chats) \subseteq stored' \union skipped'
      BY <1>3 DEF SaveSync
    <3> QED
      BY <1>1, <3>1, <3>2 DEF Dealt
  <2>3. CASE n > round.seen
    <3>1. n \in stored' \union late'
      BY <1>3, <2>3 DEF SaveSync
    <3> QED
      BY <3>1 DEF Dealt
  <2> QED
    BY <2>1, <2>2, <2>3
<1> QED
  BY <1>1, <1>2, <1>3

(***************************************************************************)
(* A round that lists the dialogs knows everything that was posted.        *)
(***************************************************************************)
LEMMA RoundDatesStep == ASSUME IInv, RoundStep PROVE RoundDates'
<1>1. /\ Shape /\ round \in RoundState /\ UNCHANGED <<posts, now, lag, Ids, Wanted>>
  BY RoundFrame, Parts DEF IInv
<1>2. CASE ReadDialogs
  <2>1. round'.seen = Len(posts)
    BY <1>1, <1>2 DEF ReadDialogs, RoundState
  <2>2. \A n \in Wanted : ~(n > Len(posts))
    BY <1>1, Parts DEF Wanted, Ids
  <2> QED
    BY <1>1, <2>1, <2>2 DEF RoundDates
<1>3. CASE \/ \E c \in Chats : ReadHistory(c) \/ HistoryFails(c)
           \/ \E n \in Ids : StorePost(n)
  <2>1. round.pc \in {"chats", "store"} /\ round'.seen = round.seen
        /\ round'.began = round.began
    BY <1>1, <1>3 DEF ReadHistory, HistoryFails, NextChat, StorePost, NextPost, RoundState
  <2> QED
    BY <1>1, <2>1 DEF IInv, RoundDates
<1>4. CASE Begin \/ SaveSync \/ RoundFails
  <2>a. ASSUME Begin PROVE round'.pc = "dialogs"
    BY <2>a DEF Begin, Idle
  <2>b. ASSUME SaveSync \/ RoundFails PROVE round'.pc = "idle"
    BY <2>b DEF SaveSync, RoundFails, Idle
  <2>1. round'.pc \in {"idle", "dialogs"}
    BY <1>4, <2>a, <2>b
  <2> QED
    BY <2>1 DEF RoundDates
<1> QED
  BY <1>2, <1>3, <1>4 DEF RoundStep

(***************************************************************************)
(* A message that is posted is not hidden by the date, is none of those    *)
(* that the round under way has seen, and is not older than that round.    *)
(***************************************************************************)
LEMMA PostInv ==
  ASSUME IInv, NEW c \in Chats, NEW wanted \in BOOLEAN, Post(c, wanted)
  PROVE  DateCovers' /\ RoundCovers' /\ RoundDates'
<1>0. /\ UNCHANGED <<now, lag, stored, last, round, skipped, late, faults>> /\ Shape
      /\ Dealt' = Dealt
  BY DEF Post, IInv, Dealt
<1> DEFINE new == Len(posts')
<1>1. /\ new = Len(posts) + 1 /\ posts'[new].date = now - lag
      /\ \A n \in Wanted : n \in Wanted' /\ n \in Ids /\ posts'[n] = posts[n]
      /\ \A n \in Wanted' : n \in Wanted \/ n = new
  BY <1>0, PostsGrow, Parts
<1> HIDE DEF new
<1>2. /\ now \in Nat /\ lag \in Int /\ Len(posts) \in Nat /\ Overlap \in Nat
      /\ lag <= Overlap /\ last \in Int /\ last <= now
      /\ round.began \in Nat /\ round.began <= now
      /\ round.seen \in Nat /\ round.seen <= Len(posts)
  BY <1>0, Parts, ConstantsOK DEF Shape, RoundState, Never
<1>3. DateCovers'
  <2>1. ~(posts'[new].date < Cutoff(last))
    BY <1>1, <1>2 DEF Cutoff
  <2> QED
    BY <1>0, <1>1, <2>1 DEF IInv, DateCovers, Cutoff
<1>4. RoundCovers'
  <2>1. \A cs : \A n \in Of(cs) : n \in Of(cs)'
    BY <1>1 DEF Of
  <2>2. ~(new <= round.seen)
    BY <1>1, <1>2
  <2>3. round.pc \in {"chats", "store"} =>
          \A n \in Wanted' : n <= round.seen =>
            n \in Dealt' \union round.batch \union round.aside \union Of(round.chats)'
    BY <1>0, <1>1, <2>1, <2>2 DEF IInv, RoundCovers
  <2> QED
    BY <1>0, <2>3 DEF IInv, RoundCovers, Cutoff, Of
<1>5. RoundDates'
  <2>1. posts'[new].date >= round.began - lag
    BY <1>1, <1>2
  <2> QED
    BY <1>0, <1>1, <2>1 DEF IInv, RoundDates
<1> QED
  BY <1>3, <1>4, <1>5

(***************************************************************************)
(* Every step keeps the invariant.                                         *)
(***************************************************************************)
LEMMA InvStep == ASSUME IInv, [Next]_vars PROVE IInv'
<1>1. Shape'
  BY ShapeStep DEF IInv
<1>2. CASE RoundStep
  BY <1>1, <1>2, RoundCoversStep, DateCoversStep, RoundDatesStep DEF IInv
<1>3. CASE \E c \in Chats, wanted \in BOOLEAN : Post(c, wanted)
  BY <1>1, <1>3, PostInv DEF IInv
<1>4. CASE Tick \/ UNCHANGED vars
  <2>1. UNCHANGED <<posts, lag, stored, last, round, skipped, late>>
    BY <1>4 DEF Tick, vars
  <2> QED
    BY <1>1, <2>1 DEF IInv, DateCovers, RoundCovers, RoundDates, Cutoff, Dealt, Wanted,
       Ids, Of
<1> QED
  BY <1>2, <1>3, <1>4 DEF Next

(***************************************************************************)
(* The invariant always holds.                                             *)
(***************************************************************************)
LEMMA InvHolds == Spec => []IInv
  BY InvInit, InvStep, PTL DEF Spec

(***************************************************************************)
(* What a round was given to see is dealt with, in hand, set aside or to   *)
(* come (fetch).                                                           *)
(***************************************************************************)
THEOREM RoundIsSafe == Spec => []RoundCovers
<1>1. IInv => RoundCovers
  BY DEF IInv
<1> QED
  BY <1>1, InvHolds, PTL

(***************************************************************************)
(* The date of the last synchronisation, less the overlap, hides no        *)
(* message that was not dealt with (Sync).                                 *)
(***************************************************************************)
THEOREM DateIsSafe == Spec => []DateCovers
<1>1. IInv => DateCovers
  BY DEF IInv
<1> QED
  BY <1>1, InvHolds, PTL

(***************************************************************************)
(* Nothing is lost behind the back of a round that takes no longer than    *)
(* the overlap allows (Sync's deadline).                                   *)
(***************************************************************************)
THEOREM LateIsSlow == Spec => LateOnlyIfSlow
<1>1. ASSUME IInv, [Next]_vars, late' # late
      PROVE  now - round.began + lag > Overlap
  <2>1. SaveSync
    <3>1. CASE RoundStep
      BY <1>1, <3>1, RoundFrame DEF IInv
    <3>2. CASE ~RoundStep
      BY <1>1, <3>2 DEF Next, Post, Tick, vars
    <3> QED
      BY <3>1, <3>2
  <2>2. PICK n \in Wanted : n > round.seen /\ posts[n].date < Cutoff(now)
    BY <1>1, <2>1 DEF SaveSync
  <2>3. posts[n].date >= round.began - lag
    BY <1>1, <2>1, <2>2 DEF SaveSync, FetchDone, IInv, RoundDates
  <2>a. /\ now \in Nat /\ lag \in Int /\ round \in RoundState /\ Overlap \in Nat
        /\ posts[n].date \in Int
    BY <1>1, Parts DEF IInv
  <2>4. /\ now \in Int /\ lag \in Int /\ round.began \in Int /\ Overlap \in Int
        /\ posts[n].date \in Int
    BY <2>a DEF RoundState
  <2> QED
    BY <2>2, <2>3, <2>4 DEF Cutoff
<1>2. IInv /\ [Next]_vars => [late' # late => now - round.began + lag > Overlap]_vars
  BY <1>1
<1> QED
  BY <1>2, InvHolds, PTL DEF Spec, LateOnlyIfSlow

-----------------------------------------------------------------------------
(* What a round leaves behind, and why *)

(***************************************************************************)
(* The newest messages of a dialog, and the dialogs that are fresher.      *)
(***************************************************************************)
NewerThan(n) == {m \in Ids : Newer(n, m)}
Newest(c) == {n \in Ids : posts[n].chat = c /\ ~\E m \in Ids : Newer(n, m)}
Fresher(c) == {d \in Chats : \E n \in Newest(c), m \in Newest(d) : m > n}

LEMMA FreshestIs ==
  Freshest(Chats) = {c \in Chats : Newest(c) # {} /\ Cardinality(Fresher(c)) < DialogsLimit}
BY DEF Freshest, Newest, Fresher

(***************************************************************************)
(* What is newer than a message can be counted, and a newer message has    *)
(* fewer newer ones.                                                       *)
(***************************************************************************)
LEMMA NewerIsFinite ==
  ASSUME Shape
  PROVE  /\ IsFiniteSet(Ids) /\ \A n \in Ids : n \in Nat
         /\ \A n : /\ NewerThan(n) \in SUBSET Ids /\ IsFiniteSet(NewerThan(n))
                   /\ Cardinality(NewerThan(n)) \in Nat
         /\ \A n, m \in Ids : Newer(n, m) => /\ NewerThan(m) \subseteq NewerThan(n)
                                             /\ NewerThan(m) # NewerThan(n)
<1>1. Len(posts) \in Nat
  BY Parts
<1>2. IsFiniteSet(Ids) /\ \A n \in Ids : n \in Nat
  BY <1>1, FS_Interval DEF Ids
<1>3. \A n : NewerThan(n) \in SUBSET Ids
  BY DEF NewerThan
<1>4. \A n : IsFiniteSet(NewerThan(n)) /\ Cardinality(NewerThan(n)) \in Nat
  BY <1>2, <1>3, FS_Subset, FS_CardinalityType
<1>5. ASSUME NEW n \in Ids, NEW m \in Ids, Newer(n, m)
      PROVE  NewerThan(m) \subseteq NewerThan(n) /\ NewerThan(m) # NewerThan(n)
  <2>1. n \in Nat /\ m \in Nat /\ m > n /\ posts[m].chat = posts[n].chat /\ ~(m > m)
    BY <1>2, <1>5 DEF Newer
  <2>2. m \in NewerThan(n) /\ m \notin NewerThan(m)
    BY <1>5, <2>1 DEF NewerThan, Newer
  <2>3. ASSUME NEW k \in NewerThan(m) PROVE k \in NewerThan(n)
    <3>1. k \in Ids /\ k > m /\ posts[k].chat = posts[m].chat
      BY <2>3 DEF NewerThan, Newer
    <3>2. k > n
      BY <1>2, <2>1, <3>1
    <3> QED
      BY <2>1, <3>1, <3>2 DEF NewerThan, Newer
  <2> QED
    BY <2>2, <2>3
<1> QED
  BY <1>2, <1>3, <1>4, <1>5

(***************************************************************************)
(* A dialog with a message has a newest one.                               *)
(***************************************************************************)
LEMMA NewestExists ==
  ASSUME Shape, NEW k \in Ids
  PROVE  \E n \in Newest(posts[k].chat) : k <= n
<1> DEFINE same == {n \in Ids : posts[n].chat = posts[k].chat /\ k <= n}
           T == {NewerThan(n) : n \in same}
           S == FiniteSubsetsOf(Ids)
           R == StrictSubsetOrdering(Ids)
<1>1. k \in Nat /\ k \in same /\ NewerThan(k) \in T
  BY NewerIsFinite
<1>2. T \subseteq S /\ T # {}
  BY <1>1, NewerIsFinite DEF FiniteSubsetsOf
<1>3. IsWellFoundedOn(R, S)
  BY FS_StrictSubsetOrderingWellFounded
<1> HIDE DEF T, S, R
<1>4. PICK x \in T : \A y \in T : ~(<<y, x>> \in R)
  BY <1>2, <1>3, WFMin
<1> USE DEF T
<1>5. PICK n \in same : x = NewerThan(n)
  BY <1>4
<1>6. ASSUME NEW m \in Ids, Newer(n, m) PROVE FALSE
  <2>1. n \in Ids /\ n \in Nat /\ m \in Nat /\ k <= n /\ m > n /\ posts[n].chat = posts[k].chat
        /\ posts[m].chat = posts[n].chat
    BY <1>6, NewerIsFinite DEF Newer
  <2>2. m \in same
    BY <1>1, <2>1
  <2>3. NewerThan(m) \in T /\ NewerThan(m) \subseteq NewerThan(n) /\ NewerThan(m) # NewerThan(n)
    BY <1>6, <2>1, <2>2, NewerIsFinite
  <2>4. <<NewerThan(m), x>> \in R
    BY <1>5, <2>3, NewerIsFinite DEF R, StrictSubsetOrdering
  <2> QED
    BY <1>4, <2>3, <2>4
<1> QED
  BY <1>5, <1>6 DEF Newest

(***************************************************************************)
(* A dialog has no two newest messages, and they can be compared.          *)
(***************************************************************************)
LEMMA NewestIsOne ==
  ASSUME Shape, NEW c, NEW d, NEW n \in Newest(c), NEW m \in Newest(d)
  PROVE  /\ n \in Nat /\ m \in Nat /\ n \in Ids /\ m \in Ids
         /\ (c = d => n = m) /\ (c # d => n # m)
<1>1. n \in Ids /\ m \in Ids /\ n \in Nat /\ m \in Nat /\ posts[n].chat = c /\ posts[m].chat = d
  BY NewerIsFinite DEF Newest
<1>2. ~Newer(n, m) /\ ~Newer(m, n)
  BY <1>1 DEF Newest
<1> QED
  BY <1>1, <1>2 DEF Newer

(***************************************************************************)
(* The dialogs with a message can be counted.                              *)
(***************************************************************************)
LEMMA DialogsAreFinite ==
  ASSUME Shape, NEW S, \A c \in S : \E n \in Ids : posts[n].chat = c
  PROVE  IsFiniteSet(S) /\ Cardinality(S) \in Nat
<1> DEFINE of == {n \in Ids : posts[n].chat \in S}
           f == [n \in of |-> posts[n].chat]
<1>1. IsFiniteSet(of)
  BY NewerIsFinite, FS_Subset
<1>2. f \in Surjection(of, S)
  BY DEF Surjection
<1> HIDE DEF f, of
<1>3. IsFiniteSet(S)
  BY <1>1, <1>2, FS_Surjection
<1> QED
  BY <1>3, FS_CardinalityType

(***************************************************************************)
(* No more than DialogsLimit dialogs are listed: the number of fresher     *)
(* dialogs tells them apart and is below the limit for each.               *)
(***************************************************************************)
LEMMA FreshestIsBounded ==
  ASSUME Shape
  PROVE  /\ IsFiniteSet(Freshest(Chats)) /\ Cardinality(Freshest(Chats)) \in Nat
         /\ Cardinality(Freshest(Chats)) <= DialogsLimit
         /\ \A c : IsFiniteSet(Fresher(c)) /\ Cardinality(Fresher(c)) \in Nat
<1> DEFINE L == Freshest(Chats)
           f == [c \in L |-> Cardinality(Fresher(c))]
<1>1. DialogsLimit \in Nat /\ DialogsLimit > 0
  BY ConstantsOK
<1>2. \A c \in L : Newest(c) # {} /\ Cardinality(Fresher(c)) < DialogsLimit /\ c \in Chats
  BY FreshestIs
<1>3. IsFiniteSet(L) /\ Cardinality(L) \in Nat
  <2>1. \A c \in L : \E n \in Ids : posts[n].chat = c
    BY <1>2 DEF Newest
  <2> HIDE DEF L
  <2> QED
    BY <2>1, DialogsAreFinite
<1>4. ASSUME NEW c PROVE IsFiniteSet(Fresher(c)) /\ Cardinality(Fresher(c)) \in Nat
  <2>1. \A d \in Fresher(c) : \E n \in Ids : posts[n].chat = d
    BY DEF Fresher, Newest
  <2> QED
    BY <2>1, DialogsAreFinite
<1>5. ASSUME NEW c \in L, NEW d \in L, NEW n \in Newest(c), NEW m \in Newest(d), n < m
      PROVE  f[c] # f[d]
  <2>1. n \in Nat /\ m \in Nat
    BY NewestIsOne
  <2>2. d \in Fresher(c)
    BY <1>2, <1>5, <2>1 DEF Fresher
  <2>3. d \notin Fresher(d)
    <3>1. \A i, j \in Newest(d) : i \in Nat /\ j \in Nat /\ i = j
      BY NewestIsOne
    <3> QED
      BY <3>1 DEF Fresher
  <2>4. ASSUME NEW e \in Fresher(d) PROVE e \in Fresher(c)
    <3>1. PICK i \in Newest(d), j \in Newest(e) : j > i
      BY <2>4 DEF Fresher
    <3>2. i = m /\ j \in Nat
      BY <3>1, NewestIsOne
    <3>3. j > n
      BY <1>5, <2>1, <3>1, <3>2
    <3> QED
      BY <2>4, <3>3 DEF Fresher
  <2>5. Fresher(d) \in SUBSET Fresher(c) /\ Fresher(d) # Fresher(c)
    BY <2>2, <2>3, <2>4
  <2>6. Cardinality(Fresher(d)) # Cardinality(Fresher(c))
    BY <1>4, <2>5, FS_Subset
  <2> QED
    BY <2>6
<1>6. ASSUME NEW c \in L, NEW d \in L, c # d PROVE f[c] # f[d]
  <2>1. PICK n \in Newest(c), m \in Newest(d) : TRUE
    BY <1>2
  <2>2. n \in Nat /\ m \in Nat /\ n # m
    BY <1>6, <2>1, NewestIsOne
  <2>3. CASE n < m
    BY <1>5, <2>3
  <2>4. CASE m < n
    BY <1>5, <2>4
  <2> QED
    BY <2>2, <2>3, <2>4
<1>7. f \in [L -> 0..(DialogsLimit - 1)]
  <2>1. \A c \in L : Cardinality(Fresher(c)) \in 0..(DialogsLimit - 1)
    BY <1>1, <1>2, <1>4
  <2> QED
    BY <2>1
<1>8. IsFiniteSet(0..(DialogsLimit - 1)) /\ Cardinality(0..(DialogsLimit - 1)) = DialogsLimit
  BY <1>1, FS_Interval
<1> HIDE DEF f, L
<1>9. ASSUME Cardinality(0..(DialogsLimit - 1)) < Cardinality(L) PROVE FALSE
  <2>1. PICK c, d \in L : c # d /\ f[c] = f[d]
    BY <1>3, <1>7, <1>8, <1>9, FS_PigeonHole
  <2> QED
    BY <1>6, <2>1
<1>10. Cardinality(L) <= DialogsLimit
  BY <1>1, <1>3, <1>8, <1>9
<1> QED
  BY <1>3, <1>4, <1>10 DEF L

(***************************************************************************)
(* Why a message is set aside: the reasons other than the limit of the     *)
(* first import.                                                           *)
(***************************************************************************)
Above(n) == {posts[m].chat : m \in (n + 1)..Len(posts)} \ {posts[n].chat}
Why(n) ==
  \/ Cardinality(NewerThan(n)) >= HistoryLimit
  \/ Cardinality(Above(n)) >= DialogsLimit
  \/ posts[n].chat \in round.failed
  \/ round.import /\ posts[n].date < round.since

AsideForReason == \A n \in round.aside : Why(n)

(***************************************************************************)
(* The dialogs above a message can be counted.                             *)
(***************************************************************************)
LEMMA AboveIsFinite ==
  ASSUME Shape, NEW n \in Ids
  PROVE  IsFiniteSet(Above(n)) /\ Cardinality(Above(n)) \in Nat
<1>1. \A m \in (n + 1)..Len(posts) : m \in Ids
  BY Parts, NewerIsFinite DEF Ids
<1>2. \A c \in Above(n) : \E m \in Ids : posts[m].chat = c
  BY <1>1 DEF Above
<1> QED
  BY <1>2, DialogsAreFinite

(***************************************************************************)
(* A message whose dialog is not listed has DialogsLimit dialogs above it. *)
(***************************************************************************)
LEMMA UnlistedIsDeep ==
  ASSUME Shape, NEW n \in Ids, posts[n].chat \in Chats \ Freshest(Chats)
  PROVE  Cardinality(Above(n)) >= DialogsLimit
<1> DEFINE c == posts[n].chat
<1>1. PICK k \in Newest(c) : n <= k
  BY NewestExists
<1>2. ~(Cardinality(Fresher(c)) < DialogsLimit)
  BY <1>1, FreshestIs
<1>3. Fresher(c) \in SUBSET Above(n)
  <2>1. ASSUME NEW d \in Fresher(c) PROVE d \in Above(n)
    <3>1. PICK i \in Newest(c), j \in Newest(d) : j > i
      BY <2>1 DEF Fresher
    <3>2. i = k /\ k \in Nat /\ n \in Nat /\ j \in Nat /\ j \in Ids
      BY <3>1, NewestIsOne, NewerIsFinite
    <3>3. c # d
      BY <3>1, <3>2, NewestIsOne
    <3>4. j \in (n + 1)..Len(posts)
      BY <1>1, <3>1, <3>2, Parts DEF Ids
    <3>5. posts[j].chat = d
      BY DEF Newest
    <3> QED
      BY <3>3, <3>4, <3>5 DEF Above
  <2> QED
    BY <2>1
<1>4. Cardinality(Fresher(c)) <= Cardinality(Above(n))
  BY <1>3, AboveIsFinite, FS_Subset
<1>5. Cardinality(Fresher(c)) \in Nat /\ Cardinality(Above(n)) \in Nat /\ DialogsLimit \in Nat
  BY AboveIsFinite, FreshestIsBounded, ConstantsOK
<1> QED
  BY <1>2, <1>4, <1>5

(***************************************************************************)
(* What the reasons count, they can count, after a step as before it.      *)
(***************************************************************************)
LEMMA Counts ==
  Shape => \A n \in Ids : /\ IsFiniteSet(NewerThan(n)) /\ Cardinality(NewerThan(n)) \in Nat
                          /\ IsFiniteSet(Above(n)) /\ Cardinality(Above(n)) \in Nat
BY NewerIsFinite, AboveIsFinite

LEMMA CountsNext ==
  Shape' => \A n \in Ids' : /\ IsFiniteSet(NewerThan(n)') /\ Cardinality(NewerThan(n)') \in Nat
                            /\ IsFiniteSet(Above(n)') /\ Cardinality(Above(n)') \in Nat
<1>1. (Shape => \A n \in Ids : /\ IsFiniteSet(NewerThan(n)) /\ Cardinality(NewerThan(n)) \in Nat
                               /\ IsFiniteSet(Above(n)) /\ Cardinality(Above(n)) \in Nat)'
  BY Counts, PTL
<1> QED
  BY <1>1

(***************************************************************************)
(* A reason stays one when more is posted.                                 *)
(***************************************************************************)
LEMMA WhyStays ==
  ASSUME Shape, Shape', NEW c \in Chats, NEW wanted \in BOOLEAN, Post(c, wanted),
         NEW n \in Ids, Why(n)
  PROVE  Why(n)'
<1>1. /\ round' = round /\ n \in Ids' /\ posts'[n] = posts[n] /\ HistoryLimit \in Nat
      /\ DialogsLimit \in Nat /\ \A m \in Ids : m \in Ids' /\ posts'[m] = posts[m]
      /\ Len(posts') = Len(posts) + 1 /\ Len(posts) \in Nat /\ n \in Nat
  BY PostsGrow, Parts, NewerIsFinite, ConstantsOK DEF Post
<1>2. NewerThan(n) \in SUBSET NewerThan(n)'
  BY <1>1 DEF NewerThan, Newer
<1>3. Above(n) \in SUBSET Above(n)'
  <2>1. \A m \in (n + 1)..Len(posts) : m \in Ids /\ m \in (n + 1)..Len(posts')
    BY <1>1 DEF Ids
  <2> QED
    BY <1>1, <2>1 DEF Above
<1>4. /\ IsFiniteSet(NewerThan(n)') /\ Cardinality(NewerThan(n)') \in Nat
      /\ IsFiniteSet(Above(n)') /\ Cardinality(Above(n)') \in Nat
      /\ Cardinality(NewerThan(n)) \in Nat /\ Cardinality(Above(n)) \in Nat
  BY CountsNext, Counts, <1>1
<1>5. /\ Cardinality(NewerThan(n)) <= Cardinality(NewerThan(n)')
      /\ Cardinality(Above(n)) <= Cardinality(Above(n)')
  BY <1>2, <1>3, <1>4, FS_Subset
<1>6. CASE Cardinality(NewerThan(n)) >= HistoryLimit
  <2>1. Cardinality(NewerThan(n)') >= HistoryLimit
    BY <1>1, <1>4, <1>5, <1>6
  <2> QED
    BY <2>1 DEF Why
<1>7. CASE Cardinality(Above(n)) >= DialogsLimit
  <2>1. Cardinality(Above(n)') >= DialogsLimit
    BY <1>1, <1>4, <1>5, <1>7
  <2> QED
    BY <2>1 DEF Why
<1>8. CASE posts[n].chat \in round.failed \/ (round.import /\ posts[n].date < round.since)
  BY <1>1, <1>8 DEF Why
<1> QED
  BY <1>6, <1>7, <1>8 DEF Why

(***************************************************************************)
(* Every step sets aside only with a reason.                               *)
(***************************************************************************)
LEMMA AsideStep ==
  ASSUME Shape, Shape', AsideForReason, [Next]_vars
  PROVE  AsideForReason'
<1>1. round \in RoundState /\ round.aside \subseteq Ids
  BY Parts DEF RoundState
<1>2. CASE \E c \in Chats, wanted \in BOOLEAN : Post(c, wanted)
  <2>1. round' = round
    BY <1>2 DEF Post
  <2>2. \A n \in round.aside : Why(n)'
    BY <1>1, <1>2, WhyStays DEF AsideForReason
  <2> QED
    BY <2>1, <2>2 DEF AsideForReason
<1>3. CASE Begin \/ SaveSync \/ RoundFails
  <2>1. ASSUME Begin PROVE round'.aside = {}
    BY <2>1 DEF Begin, Idle
  <2>2. ASSUME SaveSync \/ RoundFails PROVE round'.aside = {}
    BY <2>2 DEF SaveSync, RoundFails, Idle
  <2> QED
    BY <1>3, <2>1, <2>2 DEF AsideForReason
<1>4. CASE UNCHANGED <<posts, round>>
  BY <1>4 DEF AsideForReason, Why, NewerThan, Newer, Above, Ids
<1>5. ASSUME UNCHANGED posts, round'.since = round.since, round'.import = round.import,
             round.failed \subseteq round'.failed, NEW n \in Ids, Why(n)
      PROVE  Why(n)'
  BY <1>5 DEF Why, NewerThan, Newer, Above, Ids
<1>6. ASSUME ReadDialogs PROVE AsideForReason'
  <2>1. /\ round'.aside = Of(Chats \ Freshest(Chats)) /\ UNCHANGED posts
        /\ round'.since = round.since /\ round'.import = round.import
        /\ round'.failed = round.failed
    BY <1>1, <1>6 DEF ReadDialogs, RoundState
  <2>2. ASSUME NEW n \in round'.aside PROVE n \in Ids /\ Why(n)
    <3>1. n \in Ids /\ posts[n].chat \in Chats \ Freshest(Chats)
      BY <2>1, <2>2, Parts DEF Of, Wanted
    <3> QED
      BY <3>1, UnlistedIsDeep DEF Why
  <2> QED
    BY <1>5, <2>1, <2>2 DEF AsideForReason
<1>7. ASSUME NEW c \in Chats, ReadHistory(c) PROVE AsideForReason'
  <2> DEFINE batch == {n \in History(c) : Fresh(n)}
             aside == {n \in Of({c}) : n \notin History(c) \/ TooOld(n)}
  <2>1. /\ round'.aside = round.aside \union aside /\ UNCHANGED posts
        /\ round'.since = round.since /\ round'.import = round.import
        /\ round'.failed = round.failed
    <3>1. /\ round' = [round EXCEPT !.pc = InHand(batch), !.chats = @ \ {c}, !.batch = batch,
                                    !.aside = @ \union aside]
          /\ UNCHANGED posts
      BY <1>7 DEF ReadHistory
    <3> HIDE DEF batch, aside
    <3> QED
      BY <1>1, <3>1 DEF RoundState
  <2>2. ASSUME NEW n \in aside PROVE n \in Ids /\ Why(n)
    <3>1. n \in Ids /\ posts[n].chat = c
      BY Parts DEF Of
    <3>2. CASE n \notin History(c)
      <4>1. ~(Cardinality(NewerThan(n)) < HistoryLimit)
        BY <3>1, <3>2 DEF History, NewerThan
      <4>2. Cardinality(NewerThan(n)) \in Nat /\ HistoryLimit \in Nat
        BY <3>1, Counts, ConstantsOK
      <4> QED
        BY <3>1, <4>1, <4>2 DEF Why
    <3>3. CASE TooOld(n)
      BY <3>1, <3>3 DEF TooOld, Why
    <3> QED
      BY <3>2, <3>3
  <2> HIDE DEF batch, aside
  <2>3. \A n \in round'.aside : n \in Ids /\ Why(n)
    BY <1>1, <2>1, <2>2 DEF AsideForReason
  <2> QED
    BY <1>5, <2>1, <2>3 DEF AsideForReason
<1>8. ASSUME NEW c \in Chats, HistoryFails(c) PROVE AsideForReason'
  <2>1. /\ round'.aside = round.aside \union Of({c}) /\ UNCHANGED posts
        /\ round'.since = round.since /\ round'.import = round.import
        /\ round'.failed = round.failed \union {c}
    BY <1>1, <1>8 DEF HistoryFails, RoundState
  <2>2. ASSUME NEW n \in Of({c}) PROVE Why(n)'
    BY <2>1 DEF Of, Why
  <2>3. \A n \in round.aside : Why(n)'
    BY <1>1, <1>5, <2>1 DEF AsideForReason
  <2> QED
    BY <2>1, <2>2, <2>3 DEF AsideForReason
<1>9. ASSUME NEW n \in Ids, StorePost(n) PROVE AsideForReason'
  <2>1. /\ round'.aside = round.aside /\ UNCHANGED posts
        /\ round'.since = round.since /\ round'.import = round.import
        /\ round'.failed = round.failed
    BY <1>1, <1>9 DEF StorePost, RoundState
  <2>2. \A k \in round.aside : Why(k)'
    BY <1>1, <1>5, <2>1 DEF AsideForReason
  <2> QED
    BY <2>1, <2>2 DEF AsideForReason
<1> QED
  BY <1>2, <1>3, <1>4, <1>6, <1>7, <1>8, <1>9 DEF Next, RoundStep, Tick, vars

(***************************************************************************)
(* What a round has stored and what its dialogs to come may add are within *)
(* the limit of a round that is not the first: such a round that stops at  *)
(* its limit has no dialog left.                                           *)
(***************************************************************************)
RoundFits ==
  round.pc \in {"chats", "store"} =>
    /\ IsFiniteSet(round.chats)
    /\ round.saved + Cardinality(round.batch \ stored) + HistoryLimit * Cardinality(round.chats)
         <= HistoryLimit * DialogsLimit

LEMMA ProductShrinks ==
  ASSUME NEW h \in Nat, NEW k \in Nat
  PROVE  /\ h * k \in Nat
         /\ \A d \in Nat : k <= d => h * k <= h * d
         /\ k > 0 => h * (k - 1) = h * k - h
         /\ h > 0 /\ k > 0 => h * k > 0
OBVIOUS

RoundBegins == round.pc \in {"idle", "dialogs"} => round.saved = 0

(***************************************************************************)
(* Every step keeps within it: a history that is read makes room for       *)
(* itself by the dialog it takes away.                                     *)
(***************************************************************************)
LEMMA FitsStep ==
  ASSUME Shape, RoundCovers, RoundBegins, RoundFits, [Next]_vars
  PROVE  RoundBegins' /\ RoundFits'
<1>1. /\ round \in RoundState /\ round.saved \in Nat /\ HistoryLimit \in Nat
      /\ DialogsLimit \in Nat /\ HistoryLimit > 0
      /\ IsFiniteSet(round.batch \ stored) /\ Cardinality(round.batch \ stored) \in Nat
  BY Parts, BatchIsFinite, ConstantsOK
<1>2. HistoryLimit * DialogsLimit \in Nat
  BY <1>1, ProductShrinks
<1>3. CASE UNCHANGED <<stored, round>>
  BY <1>3 DEF RoundBegins, RoundFits
<1>4. CASE Begin \/ SaveSync \/ RoundFails
  <2>1. ASSUME Begin PROVE round'.pc = "dialogs" /\ round'.saved = 0
    BY <2>1 DEF Begin, Idle
  <2>2. ASSUME SaveSync \/ RoundFails PROVE round'.pc = "idle" /\ round'.saved = 0
    BY <2>2 DEF SaveSync, RoundFails, Idle
  <2> QED
    BY <1>4, <2>1, <2>2 DEF RoundBegins, RoundFits
<1>5. CASE ReadDialogs
  <2>1. /\ round'.pc = "chats" /\ round'.saved = round.saved /\ round'.batch = round.batch
        /\ round'.chats = Freshest(Chats) /\ stored' = stored /\ round.pc = "dialogs"
    BY <1>1, <1>5 DEF ReadDialogs, RoundState
  <2>2. round.saved = 0 /\ round.batch = {}
    BY <2>1 DEF RoundBegins, RoundCovers
  <2>3. Cardinality(round.batch \ stored) = 0
    BY <2>2, FS_EmptySet
  <2>4. HistoryLimit * Cardinality(Freshest(Chats)) <= HistoryLimit * DialogsLimit
        /\ HistoryLimit * Cardinality(Freshest(Chats)) \in Nat
    BY <1>1, FreshestIsBounded, ProductShrinks
  <2>5. 0 + 0 + HistoryLimit * Cardinality(Freshest(Chats)) <= HistoryLimit * DialogsLimit
    BY <2>4
  <2>6. RoundFits'
    BY <2>1, <2>2, <2>3, <2>5, FreshestIsBounded DEF RoundFits
  <2> QED
    BY <2>1, <2>6 DEF RoundBegins
<1>6. ASSUME NEW c \in Chats, ReadHistory(c) \/ HistoryFails(c) PROVE RoundBegins' /\ RoundFits'
  <2>1. /\ round.pc = "chats" /\ c \in round.chats /\ stored' = stored
        /\ round'.pc \in {"chats", "store"} /\ round'.saved = round.saved
        /\ round'.chats = round.chats \ {c}
        /\ round'.batch = round.batch \/ round'.batch \subseteq History(c)
    <3>1. CASE ReadHistory(c)
      <4> DEFINE batch == {n \in History(c) : Fresh(n)}
                 aside == {n \in Of({c}) : n \notin History(c) \/ TooOld(n)}
      <4>1. /\ round' = [round EXCEPT !.pc = InHand(batch), !.chats = @ \ {c},
                                      !.batch = batch, !.aside = @ \union aside]
            /\ stored' = stored /\ round.pc = "chats" /\ c \in round.chats
            /\ InHand(batch) \in {"chats", "store"} /\ batch \subseteq History(c)
        BY <3>1 DEF ReadHistory, NextChat, InHand
      <4> HIDE DEF batch, aside
      <4> QED
        BY <1>1, <4>1 DEF RoundState
    <3>2. CASE HistoryFails(c)
      BY <1>1, <3>2 DEF HistoryFails, NextChat, RoundState
    <3> QED
      BY <1>6, <3>1, <3>2
  <2>2. round.batch = {} /\ Cardinality({}) = 0 /\ IsFiniteSet(round.chats)
        /\ round.batch \ stored = {}
    BY <2>1, FS_EmptySet DEF RoundCovers, RoundFits
  <2>3. IsFiniteSet(round'.chats) /\ Cardinality(round.chats) \in Nat
        /\ Cardinality(round'.chats) = Cardinality(round.chats) - 1
        /\ Cardinality(round.chats) > 0
    <3>1. Cardinality(round.chats) \in Nat /\ Cardinality(round.chats) # 0
      BY <2>1, <2>2, FS_CardinalityType, FS_EmptySet
    <3>2. IsFiniteSet(round.chats \ {c})
          /\ Cardinality(round.chats \ {c}) = Cardinality(round.chats) - 1
      BY <2>1, <2>2, FS_RemoveElement
    <3> QED
      BY <2>1, <3>1, <3>2
  <2>4. Cardinality(round'.batch \ stored) \in Nat
        /\ Cardinality(round'.batch \ stored) <= HistoryLimit
    <3>1. CASE round'.batch = round.batch
      <4>1. Cardinality(round'.batch \ stored) = 0
        BY <2>2, <3>1
      <4> QED
        BY <1>1, <4>1
    <3>2. CASE round'.batch \subseteq History(c)
      <4>1. round'.batch \ stored \in SUBSET History(c)
        BY <3>2
      <4>2. /\ IsFiniteSet(round'.batch \ stored) /\ Cardinality(History(c)) \in Nat
            /\ Cardinality(round'.batch \ stored) <= Cardinality(History(c))
            /\ Cardinality(History(c)) <= HistoryLimit
        BY <4>1, HistoryIsBounded, FS_Subset, FS_CardinalityType
      <4>3. Cardinality(round'.batch \ stored) \in Nat
        BY <4>2, FS_CardinalityType
      <4> QED
        BY <1>1, <4>2, <4>3
    <3> QED
      BY <2>1, <3>1, <3>2
  <2>5. /\ HistoryLimit * Cardinality(round.chats) \in Nat
        /\ HistoryLimit * (Cardinality(round.chats) - 1)
             = HistoryLimit * Cardinality(round.chats) - HistoryLimit
    BY <1>1, <2>3, ProductShrinks
  <2>6. round.saved + 0 + HistoryLimit * Cardinality(round.chats) <= HistoryLimit * DialogsLimit
    BY <2>1, <2>2 DEF RoundFits
  <2>7. \A s, b, h, p, q \in Nat : s + 0 + p <= q /\ b <= h => s + b + (p - h) <= q
    OBVIOUS
  <2>8. round.saved + Cardinality(round'.batch \ stored)
          + (HistoryLimit * Cardinality(round.chats) - HistoryLimit)
          <= HistoryLimit * DialogsLimit
    BY <1>1, <1>2, <2>4, <2>5, <2>6, <2>7
  <2>9. RoundFits'
    BY <2>1, <2>3, <2>5, <2>8 DEF RoundFits
  <2> QED
    BY <2>1, <2>9 DEF RoundBegins
<1>7. ASSUME NEW n \in Ids, StorePost(n) PROVE RoundBegins' /\ RoundFits'
  <2>1. round'.chats = round.chats /\ round.pc = "store" /\ round'.pc \in {"chats", "store"}
    BY <1>1, <1>7 DEF StorePost, NextPost, RoundState, InHand
  <2> QED
    BY <1>7, <2>1, StoreCounts DEF RoundFits, RoundBegins
<1> QED
  BY <1>3, <1>4, <1>5, <1>6, <1>7 DEF Next, RoundStep, Post, Tick, vars

(***************************************************************************)
(* A completed round leaves a message behind, and hides it from the next,  *)
(* only if it is deep in its dialog or its dialog deep in the list, if the *)
(* dialog could not be read, or, in the first import alone, if it is too   *)
(* old or the limit was reached; behind its back, only if it took longer   *)
(* than the overlap (fetch, Sync).                                         *)
(***************************************************************************)
THEOREM LostIsForReason == Spec => LostForReason
<1> DEFINE Inv == IInv /\ AsideForReason /\ RoundBegins /\ RoundFits
<1>1. Init => Inv
  BY InvInit DEF Init, Idle, AsideForReason, RoundBegins, RoundFits
<1>2. Inv /\ [Next]_vars => Inv'
  BY InvStep, AsideStep, FitsStep DEF IInv
<1>3. ASSUME Inv, [Next]_vars, NEW n \in skipped' \ skipped PROVE Reason(n)
  <2>1. SaveSync
    BY <1>3 DEF Next, RoundStep, Begin, ReadDialogs, ReadHistory, HistoryFails, StorePost,
       RoundFails, Post, Tick, vars
  <2>2. n \in round.aside \/ n \in Of(round.chats)
    BY <1>3, <2>1 DEF SaveSync
  <2>3. CASE n \in round.aside
    BY <1>3, <2>3 DEF AsideForReason, Why, NewerThan, Above, Reason
  <2>4. CASE n \in Of(round.chats)
    <3>1. /\ round.chats # {} /\ round.saved >= LimitOf(round.import)
          /\ round.pc = "chats"
      BY <2>1, <2>4 DEF SaveSync, FetchDone, Of
    <3>2. CASE round.import
      BY <3>1, <3>2 DEF LimitOf, Reason
    <3>3. CASE ~round.import
      <4>1. round.saved >= HistoryLimit * DialogsLimit
        BY <3>1, <3>3 DEF LimitOf
      <4>2. /\ round.saved \in Nat /\ Cardinality(round.batch \ stored) \in Nat
            /\ HistoryLimit \in Nat /\ HistoryLimit > 0 /\ DialogsLimit \in Nat
        BY <1>3, BatchIsFinite, ConstantsOK DEF IInv
      <4>3. /\ IsFiniteSet(round.chats)
            /\ round.saved + Cardinality(round.batch \ stored)
                 + HistoryLimit * Cardinality(round.chats) <= HistoryLimit * DialogsLimit
        BY <1>3, <3>1 DEF RoundFits
      <4>4. Cardinality(round.chats) \in Nat /\ Cardinality(round.chats) > 0
        <5>1. Cardinality(round.chats) \in Nat /\ Cardinality(round.chats) # 0
          BY <3>1, <4>3, FS_CardinalityType, FS_EmptySet
        <5> QED
          BY <5>1
      <4>5. HistoryLimit * Cardinality(round.chats) \in Nat
            /\ HistoryLimit * Cardinality(round.chats) > 0
            /\ HistoryLimit * DialogsLimit \in Nat
        BY <4>2, <4>4, ProductShrinks
      <4> QED
        BY <4>1, <4>2, <4>3, <4>5
    <3> QED
      BY <3>2, <3>3
  <2> QED
    BY <2>2, <2>3, <2>4
<1>4. Inv /\ [Next]_vars => [\A n \in skipped' \ skipped : Reason(n)]_vars
  BY <1>3
<1> HIDE DEF Inv
<1>5. Spec => SkippedForReason
  BY <1>1, <1>2, <1>4, PTL DEF Spec, SkippedForReason
<1> QED
  BY <1>5, LateIsSlow DEF LostForReason

-----------------------------------------------------------------------------
(* A round is what a source's synchronisation promises *)

Hidden == {n \in Wanted : last # Never /\ posts[n].date < Cutoff(last)}
Lost == skipped \union late

(***************************************************************************)
(* A message that is posted appears at the source if it is one for the     *)
(* feed, and is not one that the date of the last synchronisation hides.   *)
(***************************************************************************)
LEMMA PostMatches ==
  ASSUME Shape, NEW c \in Chats, NEW wanted \in BOOLEAN, Post(c, wanted)
  PROVE  [Source!Next]_Source!vars
<1> DEFINE new == Len(posts')
<1>1. UNCHANGED <<stored, last, Lost>>
  BY DEF Post, Lost
<1>2. /\ new = Len(posts) + 1 /\ posts'[new].date = now - lag
      /\ \A n \in Wanted : n \in Wanted' /\ posts'[n] = posts[n]
      /\ \A n \in Wanted' : n \in Wanted \/ n = new
      /\ new \notin Wanted
  <2>1. Len(posts) \in Nat /\ Wanted \subseteq Ids
    BY Parts
  <2>2. \A k \in Nat : k + 1 \notin 1..k
    OBVIOUS
  <2>3. /\ new = Len(posts) + 1 /\ posts'[new].date = now - lag
        /\ \A n \in Wanted : n \in Wanted' /\ posts'[n] = posts[n]
        /\ \A n \in Wanted' : n \in Wanted \/ n = new
    BY <2>1, PostsGrow
  <2> QED
    BY <2>1, <2>2, <2>3 DEF Ids
<1> HIDE DEF new
<1>3. last # Never => ~(posts'[new].date < Cutoff(last))
  <2>1. /\ now \in Nat /\ lag \in Int /\ lag <= Overlap /\ Overlap \in Nat
        /\ last # Never => last \in Int /\ last <= now
    BY Parts, ConstantsOK DEF Shape
  <2> QED
    BY <1>2, <2>1 DEF Cutoff
<1>4. Cutoff(last)' = Cutoff(last)
  BY <1>1 DEF Cutoff
<1>5. Hidden' = Hidden
  BY <1>1, <1>2, <1>3, <1>4 DEF Hidden
<1>6. Wanted' = Wanted \/ Wanted' = Wanted \union {new}
  BY <1>2
<1>7. CASE Wanted' = Wanted
  BY <1>1, <1>5, <1>7 DEF Source!vars, Hidden, Lost
<1>8. CASE Wanted' = Wanted \union {new}
  <2>1. Source!Appear
    BY <1>1, <1>2, <1>5, <1>8 DEF Source!Appear, Hidden, Lost
  <2> QED
    BY <2>1 DEF Source!Next
<1> QED
  BY <1>6, <1>7, <1>8

(***************************************************************************)
(* A round stores a message, passes what is older than the date it saves   *)
(* less the overlap, or does nothing that can be seen from outside.        *)
(***************************************************************************)
LEMMA RoundMatches ==
  ASSUME IInv, IInv', RoundStep
  PROVE  [Source!Next]_Source!vars
<1>1. Shape /\ Shape' /\ UNCHANGED <<posts, now, lag, Wanted>>
  BY RoundFrame DEF IInv
<1>2. CASE Begin \/ ReadDialogs \/ RoundFails \/ \E c \in Chats : ReadHistory(c) \/ HistoryFails(c)
  <2>1. UNCHANGED <<stored, last, Lost, Hidden>>
    BY <1>1, <1>2 DEF Begin, ReadDialogs, RoundFails, ReadHistory, HistoryFails, Lost, Hidden,
       Cutoff
  <2> QED
    BY <1>1, <2>1 DEF Source!vars, Lost, Hidden
<1>3. ASSUME NEW n \in Ids, StorePost(n) PROVE Source!Store
  <2>1. n \in Wanted /\ stored' = stored \union {n}
    BY <1>1, <1>3 DEF StorePost, NextPost, Shape, RoundState
  <2>2. UNCHANGED <<last, Lost, Hidden>>
    BY <1>1, <1>3 DEF StorePost, Lost, Hidden, Cutoff
  <2> QED
    BY <1>1, <2>1, <2>2 DEF Source!Store, Lost, Hidden
<1>4. CASE SaveSync
  <2>1. /\ UNCHANGED stored /\ last' = now
        /\ skipped' = skipped \union ((round.aside \union Of(round.chats)) \ stored)
        /\ late' = late \union {n \in Wanted : /\ n > round.seen /\ n \notin stored
                                              /\ posts[n].date < Cutoff(now)}
    BY <1>4 DEF SaveSync
  <2>2. Lost \subseteq Lost' /\ (Lost' \ Lost) \intersect stored = {}
    BY <2>1 DEF Lost
  <2>3. Lost' \subseteq Wanted
    BY <1>1 DEF Shape, Lost
  <2>4. Hidden \subseteq Hidden'
    <3>1. /\ now \in Nat /\ Overlap \in Nat /\ now # Never
          /\ last # Never => last \in Int /\ last <= now
      <4>1. now \in Nat /\ Overlap \in Nat /\ last \in {Never} \union 0..now
        BY <1>1, Parts DEF Shape
      <4> QED
        BY <4>1 DEF Never
    <3>2. \A n \in Wanted : posts[n].date \in Int
      BY <1>1, Parts
    <3>3. \A d, s, t \in Int : d < s - Overlap /\ s <= t => d < t - Overlap
      BY <3>1
    <3>4. ASSUME NEW n \in Wanted, last # Never, posts[n].date < Cutoff(last)
          PROVE  posts[n].date < Cutoff(now)
      <4>1. posts[n].date \in Int /\ last \in Int /\ now \in Int /\ last <= now
        BY <3>1, <3>2, <3>4
      <4> QED
        BY <3>3, <3>4, <4>1 DEF Cutoff
    <3>5. Hidden' = {n \in Wanted : posts[n].date < Cutoff(now)}
      BY <1>1, <2>1, <3>1 DEF Hidden, Cutoff, Never
    <3> QED
      BY <3>4, <3>5 DEF Hidden
  <2>5. Hidden' \subseteq stored \union Lost' /\ Hidden' \subseteq Wanted
    BY <1>1, <2>1 DEF IInv, DateCovers, Dealt, Hidden, Lost
  <2>6. Source!Pass
    BY <1>1, <2>1, <2>2, <2>3, <2>4, <2>5 DEF Source!Pass, Hidden, Lost
  <2> QED
    BY <2>6 DEF Source!Next
<1> QED
  BY <1>2, <1>3, <1>4 DEF RoundStep, Source!Next

(***************************************************************************)
(* The synchronisation of Telegram implements that of a source: messages   *)
(* older than the overlap allows were dealt with when the date was saved,  *)
(* none is posted among them, the date never falls back (Sync).            *)
(***************************************************************************)
THEOREM SourceRefined == Spec => ImplementsSource
<1>1. Init => Source!Init
  BY DEF Init, Source!Init, Never, Wanted
<1>2. IInv /\ IInv' /\ [Next]_vars => [Source!Next]_Source!vars
  <2>1. ASSUME UNCHANGED vars \/ Tick PROVE UNCHANGED Source!vars
    BY <2>1 DEF vars, Tick, Source!vars, Wanted, Ids, Cutoff
  <2> QED
    BY <2>1, PostMatches, RoundMatches DEF Next, IInv
<1> QED
  BY <1>1, <1>2, InvHolds, PTL DEF Spec, ImplementsSource, Source!Spec
=============================================================================
