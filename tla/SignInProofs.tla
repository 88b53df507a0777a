----------------------------- MODULE SignInProofs -----------------------------
(***************************************************************************)
(* Proofs about SignIn for any tabs, handlers and bounds: a state of       *)
(* Google and a pending login of Telegram are used once at most, because   *)
(* each is in one place only; only the last link is accepted; and so the   *)
(* two keys implement OneTimeKeys.                                         *)
(***************************************************************************)
EXTENDS SignIn, TLAPS

\* A token is under the user's key, or in the hands of one handler, or used,
\* and used once; one that was not made yet is none of these.
OnePlace ==
  \A k \in Services, n \in Tokens :
    /\ uses[k][n] <= 1
    /\ slot[k] = n \/ issued[k] < n => uses[k][n] = 0
    /\ \A h \in Handlers : Holds(h, k, n) =>
         /\ uses[k][n] = 0 /\ slot[k] # n /\ n <= issued[k]
         /\ \A g \in Handlers : Holds(g, k, n) => g = h

\* The state that waits is the one made last, and no link is of one not made.
LinkOrder ==
  /\ slot["gmail"] \in {None, issued["gmail"]}
  /\ \A h \in Handlers : req[h].pc = "link" => req[h].held \in 1..issued["gmail"]

Working == {"exchange", "save", "signin", "return"}

\* A tab waits for one request of its own, and nobody for the others; a handler
\* that is about to answer has an answer, and one that works on a token has one.
OneWaits ==
  /\ \A h, g \in Handlers : req[g].tab = req[h].tab /\ req[h].tab # NoTab => g = h
  /\ \A h \in Handlers : /\ req[h].pc \in {"idle", "link", "exchange"} => req[h].tab = NoTab
                         /\ req[h].pc = "reply" => req[h].answer # ""
                         /\ req[h].pc \in Working => req[h].held # None

IInv == TypeOK /\ OneWaits /\ OnePlace /\ LinkOrder

\* TypeOK without the waiting, and the waiting.
Shapes ==
  /\ issued \in [Services -> 0..MaxTokens]
  /\ slot \in [Services -> Tokens \union {None}]
  /\ \A k \in Services : slot[k] <= issued[k]
  /\ links \subseteq 1..issued["gmail"]
  /\ req \in [Handlers -> Request] /\ tab \in [Tabs -> Dialog]
  /\ uses \in [Services -> [Tokens -> Nat]] /\ requests \in 0..MaxRequests

Waiting == \A t \in Tabs : tab[t].busy <=> \E h \in Handlers : req[h].tab = t

LEMMA TypeOKSplit == (TypeOK <=> Shapes /\ Waiting) /\ (TypeOK' <=> Shapes' /\ Waiting')
BY DEF TypeOK, Shapes, Waiting, WaitsFor

LEMMA Constants == /\ MaxTokens \in Nat /\ MaxRequests \in Nat /\ NoTab \notin Tabs
                   /\ Tokens \subseteq Nat \ {0} /\ None \notin Tokens /\ None = 0
BY ConstantsOK DEF ConstantsOK, Tokens, None

LEMMA RestShapes ==
  /\ IdleReq \in Request /\ IdleReq.pc = "idle" /\ IdleReq.tab = NoTab
  /\ FreshTab \in Dialog /\ ~FreshTab.busy
BY Constants DEF IdleReq, FreshTab, Request, Dialog, Passwords

LEMMA DialogFields ==
  ASSUME NEW d \in Dialog
  PROVE  /\ [d EXCEPT !.disturbed = TRUE] \in Dialog
         /\ [d EXCEPT !.disturbed = TRUE].busy = d.busy
         /\ [d EXCEPT !.busy = FALSE, !.disturbed = TRUE] \in Dialog
         /\ ~[d EXCEPT !.busy = FALSE, !.disturbed = TRUE].busy
         /\ \A l \in Tokens \union {None},
               a \in {"code", "password", "done", "restart", "error"} :
              /\ [Answered(d, l, a) EXCEPT !.busy = FALSE] \in Dialog
              /\ ~[Answered(d, l, a) EXCEPT !.busy = FALSE].busy
<1> USE DEF Dialog, Passwords
<1>1. \A l \in Tokens \union {None}, a \in {"code", "password", "done", "restart", "error"} :
        Answered(d, l, a) \in Dialog
  BY DEF Answered, Closed
<1>2. /\ [d EXCEPT !.disturbed = TRUE] \in Dialog
      /\ [d EXCEPT !.disturbed = TRUE].busy = d.busy
  OBVIOUS
<1>3. /\ [d EXCEPT !.busy = FALSE, !.disturbed = TRUE] \in Dialog
      /\ ~[d EXCEPT !.busy = FALSE, !.disturbed = TRUE].busy
  OBVIOUS
<1>4. \A e \in Dialog : [e EXCEPT !.busy = FALSE] \in Dialog /\ ~[e EXCEPT !.busy = FALSE].busy
  OBVIOUS
<1> HIDE DEF Dialog, Passwords
<1> QED
  BY <1>1, <1>2, <1>3, <1>4

-----------------------------------------------------------------------------
(* Who waits for whom *)

\* A handler goes on, still for the tab it was for.
LEMMA KeepsTab ==
  ASSUME Shapes, Waiting, OneWaits, NEW h \in Handlers, NEW q \in Request,
         q.tab = req[h].tab, q.pc \in {"idle", "link", "exchange"} => q.tab = NoTab,
         q.pc = "reply" => q.answer # "", q.pc \in Working => q.held # None,
         req' = [req EXCEPT ![h] = q],
         \A t \in Tabs : tab'[t].busy = tab[t].busy
  PROVE  /\ Waiting' /\ OneWaits' /\ req' \in [Handlers -> Request]
         /\ req'[h] = q /\ \A g \in Handlers \ {h} : req'[g] = req[g]
<1>1. req \in [Handlers -> Request]
  BY DEF Shapes
<1>2. /\ req'[h] = q /\ \A g \in Handlers \ {h} : req'[g] = req[g]
      /\ req' \in [Handlers -> Request]
  BY <1>1
<1>3. \A g \in Handlers : req'[g].tab = req[g].tab
  BY <1>2
<1>4. OneWaits'
  <2>1. \A f, g \in Handlers : req'[g].tab = req'[f].tab /\ req'[f].tab # NoTab => g = f
    BY <1>3 DEF OneWaits
  <2>2. \A g \in Handlers : /\ req'[g].pc \in {"idle", "link", "exchange"} => req'[g].tab = NoTab
                            /\ req'[g].pc = "reply" => req'[g].answer # ""
                            /\ req'[g].pc \in Working => req'[g].held # None
    BY <1>2 DEF OneWaits
  <2> QED
    BY <2>1, <2>2 DEF OneWaits
<1>5. ASSUME NEW t \in Tabs
      PROVE  tab'[t].busy <=> \E g \in Handlers : req'[g].tab = t
  <2>1. tab[t].busy <=> \E g \in Handlers : req[g].tab = t
    BY DEF Waiting
  <2> QED
    BY <2>1, <1>3
<1> QED
  BY <1>2, <1>4, <1>5 DEF Waiting

\* A tab that does not wait begins to.
LEMMA ClaimsTab ==
  ASSUME Shapes, Waiting, OneWaits, NEW h \in Handlers, NEW t \in Tabs, NEW q \in Request,
         req[h].pc = "idle", ~tab[t].busy, q.tab = t, q.pc \in {"send", "take", "reply"},
         q.pc = "reply" => q.answer # "",
         req' = [req EXCEPT ![h] = q],
         \A u \in Tabs : IF u = t THEN tab'[u].busy ELSE tab'[u].busy = tab[u].busy
  PROVE  /\ Waiting' /\ OneWaits' /\ req' \in [Handlers -> Request]
         /\ req'[h] = q /\ \A g \in Handlers \ {h} : req'[g] = req[g]
<1>1. req \in [Handlers -> Request]
  BY DEF Shapes
<1>2. /\ req'[h] = q /\ \A g \in Handlers \ {h} : req'[g] = req[g]
      /\ req' \in [Handlers -> Request]
  BY <1>1
<1>3. NoTab \notin Tabs
  BY Constants
<1>4. req[h].tab = NoTab /\ \A g \in Handlers : req[g].tab # t
  BY DEF OneWaits, Waiting
<1>5. OneWaits'
  BY <1>2, <1>3, <1>4 DEF OneWaits, Working
<1>6. ASSUME NEW u \in Tabs
      PROVE  tab'[u].busy <=> \E g \in Handlers : req'[g].tab = u
  <2>1. CASE u = t
    BY <2>1, <1>2
  <2>2. CASE u # t
    <3>1. tab[u].busy <=> \E g \in Handlers : req[g].tab = u
      BY DEF Waiting
    <3>2. \A g \in Handlers : req[g].tab = u <=> req'[g].tab = u
      BY <2>2, <1>2, <1>3, <1>4
    <3> QED
      BY <2>2, <3>1, <3>2
  <2> QED
    BY <2>1, <2>2
<1> QED
  BY <1>2, <1>5, <1>6 DEF Waiting

\* Nobody waits for a handler any longer.
LEMMA LeavesTab ==
  ASSUME Shapes, Waiting, OneWaits, NEW h \in Handlers, NEW q \in Request,
         q.tab = NoTab, q.pc = "reply" => q.answer # "", q.pc \in Working => q.held # None,
         req' = [req EXCEPT ![h] = q],
         \A t \in Tabs : IF t = req[h].tab THEN ~tab'[t].busy ELSE tab'[t].busy = tab[t].busy
  PROVE  /\ Waiting' /\ OneWaits' /\ req' \in [Handlers -> Request]
         /\ req'[h] = q /\ \A g \in Handlers \ {h} : req'[g] = req[g]
<1>1. req \in [Handlers -> Request]
  BY DEF Shapes
<1>2. /\ req'[h] = q /\ \A g \in Handlers \ {h} : req'[g] = req[g]
      /\ req' \in [Handlers -> Request]
  BY <1>1
<1>3. NoTab \notin Tabs
  BY Constants
<1>5. OneWaits'
  BY <1>2 DEF OneWaits
<1>6. ASSUME NEW t \in Tabs
      PROVE  tab'[t].busy <=> \E g \in Handlers : req'[g].tab = t
  <2>1. CASE t = req[h].tab
    BY <2>1, <1>2, <1>3 DEF OneWaits
  <2>2. CASE t # req[h].tab
    BY <2>2, <1>2, <1>3 DEF Waiting
  <2> QED
    BY <2>1, <2>2
<1> QED
  BY <1>2, <1>5, <1>6 DEF Waiting

-----------------------------------------------------------------------------
(* Where a token is *)

LEMMA Numbers ==
  ASSUME Shapes
  PROVE  /\ \A l \in Services : issued[l] \in Nat /\ slot[l] \in Nat /\ slot[l] <= issued[l]
         /\ issued' \in [Services -> 0..MaxTokens] => \A l \in Services : issued'[l] \in Nat
<1>1. Tokens \union {None} \subseteq Nat /\ 0..MaxTokens \subseteq Nat
  BY Constants
<1> QED
  BY <1>1 DEF Shapes

LEMMA Places ==
  \A h \in Handlers, n \in Tokens :
    /\ Holds(h, "gmail", n) <=> req[h].held = n /\ req[h].pc = "exchange"
    /\ Holds(h, "telegram", n) <=> req[h].held = n /\ req[h].pc \in {"save", "signin", "return"}
BY DEF Holds

LEMMA IssuedStays ==
  ASSUME Shapes, issued' = issued
  PROVE  /\ issued' \in [Services -> 0..MaxTokens]
         /\ \A l \in Services : issued[l] <= issued'[l]
<1>1. \A l \in Services : issued[l] \in Nat
  BY Numbers
<1> QED
  BY <1>1 DEF Shapes

\* A token may leave its place, and not arrive at one.
LEMMA NoTokenMoves ==
  ASSUME OnePlace, UNCHANGED <<uses, issued>>,
         \A k \in Services : slot'[k] \in {slot[k], None},
         \A h \in Handlers, k \in Services, n \in Tokens : Holds(h, k, n)' => Holds(h, k, n)
  PROVE  OnePlace'
<1>1. SUFFICES ASSUME NEW k \in Services, NEW n \in Tokens
               PROVE  /\ uses[k][n] <= 1
                      /\ slot'[k] = n \/ issued[k] < n => uses[k][n] = 0
                      /\ \A h \in Handlers : Holds(h, k, n)' =>
                           /\ uses[k][n] = 0 /\ slot'[k] # n /\ n <= issued[k]
                           /\ \A g \in Handlers : Holds(g, k, n)' => g = h
  BY DEF OnePlace
<1>2. slot'[k] = n => slot[k] = n
  BY Constants
<1> QED
  BY <1>2 DEF OnePlace

\* The same for a step of one handler that then holds no token, or still the same.
LEMMA HandlerMovesNone ==
  ASSUME OnePlace, UNCHANGED <<uses, issued>>, NEW h \in Handlers,
         \A k \in Services : slot'[k] \in {slot[k], None},
         \A g \in Handlers \ {h} : req'[g] = req[g],
         \/ req'[h].pc \notin {"exchange", "save", "signin", "return"}
         \/ req'[h].pc = "return" /\ req[h].pc = "signin" /\ req'[h].held = req[h].held
         \/ req'[h].pc = req[h].pc /\ req'[h].held = req[h].held
  PROVE  OnePlace'
<1>1. \A g \in Handlers, k \in Services, n \in Tokens : Holds(g, k, n)' => Holds(g, k, n)
  BY DEF Holds, Services
<1> QED
  BY <1>1, NoTokenMoves

\* A token is used by the handler that held it.
LEMMA TokenIsUsed ==
  ASSUME OnePlace, Shapes, NEW k \in Services, NEW n \in Tokens, NEW h \in Handlers,
         Holds(h, k, n), Use(k, n), UNCHANGED <<slot, issued>>,
         \A g \in Handlers \ {h} : req'[g] = req[g],
         req'[h].pc \in {"idle", "reply"}
  PROVE  OnePlace' /\ uses' \in [Services -> [Tokens -> Nat]]
<1>1. /\ uses' \in [Services -> [Tokens -> Nat]]
      /\ uses'[k][n] = uses[k][n] + 1
      /\ \A l \in Services, m \in Tokens : l # k \/ m # n => uses'[l][m] = uses[l][m]
  BY DEF Use, Shapes
<1>2. \A g \in Handlers, l \in Services, m \in Tokens :
        Holds(g, l, m)' => Holds(g, l, m) /\ g # h
  BY DEF Holds, Services
<1>3. uses[k][n] = 0 /\ slot[k] # n /\ n <= issued[k]
      /\ \A g \in Handlers : Holds(g, k, n) => g = h
  BY DEF OnePlace
<1>4. issued[k] \in Nat /\ n \in Nat
  BY Constants DEF Shapes
<1>5. ASSUME NEW l \in Services, NEW m \in Tokens
      PROVE  /\ uses'[l][m] <= 1
             /\ slot[l] = m \/ issued[l] < m => uses'[l][m] = 0
             /\ \A f \in Handlers : Holds(f, l, m)' =>
                  /\ uses'[l][m] = 0 /\ slot[l] # m /\ m <= issued[l]
                  /\ \A g \in Handlers : Holds(g, l, m)' => g = f
  <2>1. CASE l = k /\ m = n
    BY <2>1, <1>1, <1>2, <1>3, <1>4
  <2>2. CASE l # k \/ m # n
    BY <2>2, <1>1, <1>2 DEF OnePlace
  <2> QED
    BY <2>1, <2>2
<1> QED
  BY <1>1, <1>5 DEF OnePlace

\* The user's key receives a token, from the handler that held it or new.
LEMMA TokenIsPut ==
  ASSUME OnePlace, Shapes, NEW k \in Services, NEW n \in Tokens, NEW h \in Handlers,
         Put(k, n), uses' = uses, issued' \in [Services -> 0..MaxTokens],
         \A l \in Services : issued[l] <= issued'[l], n <= issued'[k],
         \A g \in Handlers \ {h} : req'[g] = req[g],
         req'[h].pc \in {"link", "reply"},
         Holds(h, k, n) \/ issued[k] < n
  PROVE  OnePlace' /\ slot' \in [Services -> Tokens \union {None}]
         /\ \A l \in Services : slot'[l] <= issued'[l]
<1>1. /\ slot' \in [Services -> Tokens \union {None}]
      /\ slot'[k] = n
      /\ \A l \in Services : l # k => slot'[l] = slot[l]
  BY DEF Put, Shapes
<1>2. \A g \in Handlers, l \in Services, m \in Tokens :
        Holds(g, l, m)' => Holds(g, l, m) /\ g # h
  BY DEF Holds, Services
<1>3. \A l \in Services : /\ issued[l] \in Nat /\ issued'[l] \in Nat /\ issued[l] <= issued'[l]
                          /\ slot[l] \in Nat /\ slot[l] <= issued[l]
  BY Numbers DEF Shapes
<1>4. uses[k][n] = 0 /\ \A g \in Handlers : ~Holds(g, k, n)'
  <2>1. CASE Holds(h, k, n)
    BY <2>1, <1>2 DEF OnePlace
  <2>2. CASE issued[k] < n
    <3>1. \A g \in Handlers : ~Holds(g, k, n)
      BY <2>2, <1>3, Constants DEF OnePlace
    <3> QED
      BY <2>2, <3>1, <1>2 DEF OnePlace
  <2> QED
    BY <2>1, <2>2
<1>5. ASSUME NEW l \in Services, NEW m \in Tokens
      PROVE  /\ uses[l][m] <= 1
             /\ slot'[l] = m \/ issued'[l] < m => uses[l][m] = 0
             /\ \A f \in Handlers : Holds(f, l, m)' =>
                  /\ uses[l][m] = 0 /\ slot'[l] # m /\ m <= issued'[l]
                  /\ \A g \in Handlers : Holds(g, l, m)' => g = f
  <2>0. m \in Nat
    BY Constants
  <2>1. CASE l = k /\ m = n
    BY <2>0, <2>1, <1>4, <1>1 DEF OnePlace
  <2>2. CASE l # k
    BY <2>0, <2>2, <1>1, <1>2, <1>3 DEF OnePlace
  <2>3. CASE l = k /\ m # n
    BY <2>0, <2>3, <1>1, <1>2, <1>3 DEF OnePlace
  <2> QED
    BY <2>1, <2>2, <2>3
<1>6. \A l \in Services : slot'[l] <= issued'[l]
  BY <1>1, <1>3
<1> QED
  BY <1>1, <1>5, <1>6 DEF OnePlace

\* A handler receives a token, from the user's key or new.
LEMMA TokenIsHeld ==
  ASSUME OnePlace, Shapes, NEW k \in Services, NEW n \in Tokens, NEW h \in Handlers,
         uses' = uses, issued' \in [Services -> 0..MaxTokens],
         \A l \in Services : issued[l] <= issued'[l], n <= issued'[k],
         \A l \in Services : slot'[l] \in {slot[l], None},
         slot'[k] # n, slot[k] = n \/ issued[k] < n,
         \A g \in Handlers \ {h} : req'[g] = req[g],
         req'[h].held = n,
         \A l \in Services, m \in Tokens : Holds(h, l, m)' => l = k
  PROVE  OnePlace'
<1>1. \A g \in Handlers, l \in Services, m \in Tokens :
        Holds(g, l, m)' => Holds(g, l, m) \/ (g = h /\ l = k /\ m = n)
  <2> SUFFICES ASSUME NEW g \in Handlers, NEW l \in Services, NEW m \in Tokens, Holds(g, l, m)'
               PROVE  Holds(g, l, m) \/ (g = h /\ l = k /\ m = n)
    OBVIOUS
  <2>1. CASE g = h
    BY <2>1 DEF Holds
  <2>2. CASE g # h
    BY <2>2 DEF Holds
  <2> QED
    BY <2>1, <2>2
<1>2. \A l \in Services : /\ issued[l] \in Nat /\ issued'[l] \in Nat /\ issued[l] <= issued'[l]
                          /\ slot[l] \in Nat /\ slot[l] <= issued[l]
  BY Numbers DEF Shapes
<1>3. uses[k][n] = 0 /\ \A g \in Handlers : ~Holds(g, k, n)
  BY <1>2, Constants DEF OnePlace
<1>4. ASSUME NEW l \in Services, NEW m \in Tokens
      PROVE  /\ uses[l][m] <= 1
             /\ slot'[l] = m \/ issued'[l] < m => uses[l][m] = 0
             /\ \A f \in Handlers : Holds(f, l, m)' =>
                  /\ uses[l][m] = 0 /\ slot'[l] # m /\ m <= issued'[l]
                  /\ \A g \in Handlers : Holds(g, l, m)' => g = f
  <2>1. m \in Nat /\ (slot'[l] = m => slot[l] = m)
    BY Constants
  <2>2. CASE l = k /\ m = n
    BY <2>1, <2>2, <1>1, <1>2, <1>3 DEF OnePlace
  <2>3. CASE l # k \/ m # n
    BY <2>1, <2>3, <1>1, <1>2 DEF OnePlace
  <2> QED
    BY <2>2, <2>3
<1> QED
  BY <1>4 DEF OnePlace

-----------------------------------------------------------------------------
(* The steps *)

LEMMA Parts ==
  ASSUME IInv
  PROVE  /\ Shapes /\ Waiting /\ OneWaits /\ OnePlace /\ LinkOrder
         /\ \A h \in Handlers : req[h] \in Request
         /\ \A t \in Tabs : tab[t] \in Dialog
BY TypeOKSplit DEF IInv, Shapes

LEMMA Whole ==
  ASSUME Shapes', Waiting', OneWaits', OnePlace', LinkOrder'
  PROVE  IInv'
BY TypeOKSplit DEF IInv

LEMMA NewRequest ==
  /\ \A n \in Tokens, pc \in {"link", "exchange"} :
       LET q == [IdleReq EXCEPT !.pc = pc, !.held = n]
       IN q \in Request /\ q.pc = pc /\ q.held = n /\ q.tab = NoTab
  /\ \A t \in Tabs :
       LET q == [IdleReq EXCEPT !.pc = "send", !.tab = t]
       IN q \in Request /\ q.pc = "send" /\ q.tab = t
BY Constants DEF IdleReq, Request, Passwords

LEMMA NextToken ==
  ASSUME Shapes, NEW k \in Services, issued[k] < MaxTokens,
         issued' = [issued EXCEPT ![k] = @ + 1]
  PROVE  /\ issued[k] + 1 \in Tokens /\ issued' \in [Services -> 0..MaxTokens]
         /\ issued'[k] = issued[k] + 1 /\ issued[k] < issued[k] + 1
         /\ \A l \in Services : issued[l] <= issued'[l] /\ (l # k => issued'[l] = issued[l])
<1>1. issued[k] \in 0..MaxTokens /\ MaxTokens \in Nat
  BY Constants DEF Shapes
<1>2. issued[k] + 1 \in 0..MaxTokens /\ issued[k] + 1 \in Tokens
  BY <1>1 DEF Tokens
<1>3. /\ issued' \in [Services -> 0..MaxTokens] /\ issued'[k] = issued[k] + 1
      /\ \A l \in Services : l # k => issued'[l] = issued[l]
  BY <1>2 DEF Shapes
<1>4. \A l \in Services : issued[l] <= issued'[l]
  BY <1>1, <1>3, Numbers
<1> QED
  BY <1>1, <1>2, <1>3, <1>4

\* A step that makes, takes, puts and uses no token; an expired one may go.
LEMMA QuietStep ==
  ASSUME IInv, UNCHANGED <<issued, uses>>,
         slot' \in [Services -> Tokens \union {None}],
         \A k \in Services : slot'[k] \in {slot[k], None},
         links' \subseteq 1..issued["gmail"], requests' \in 0..MaxRequests,
         tab' \in [Tabs -> Dialog], req' \in [Handlers -> Request], Waiting', OneWaits',
         \A h \in Handlers :
           \/ req'[h].pc \notin {"link", "exchange", "save", "signin", "return"}
           \/ req'[h].pc = "return" /\ req[h].pc = "signin" /\ req'[h].held = req[h].held
           \/ req'[h].pc = req[h].pc /\ req'[h].held = req[h].held
  PROVE  IInv'
<1>1. Shapes /\ OnePlace /\ LinkOrder
  BY Parts
<1>2. \A h \in Handlers, k \in Services, n \in Tokens : Holds(h, k, n)' => Holds(h, k, n)
  BY DEF Holds, Services
<1>3. OnePlace'
  BY <1>1, <1>2, NoTokenMoves
<1>4. LinkOrder'
  BY <1>1 DEF LinkOrder, Services
<1>5. Shapes'
  <2>1. \A k \in Services : slot'[k] <= issued[k]
    BY <1>1, Numbers, Constants
  <2> QED
    BY <1>1, <2>1 DEF Shapes
<1> QED
  BY <1>3, <1>4, <1>5, Whole

LEMMA HeldIsToken ==
  ASSUME IInv, NEW h \in Handlers, req[h].pc \in Working
  PROVE  req[h].held \in Tokens
<1>1. req[h].held \in Tokens \union {None}
  BY Parts DEF Request
<1>2. req[h].held # None
  BY Parts DEF OneWaits
<1> QED
  BY <1>1, <1>2

\* Whoever arrives was at rest, and is counted.
LEMMA Arrival ==
  ASSUME IInv, NEW h \in Handlers, Arrives(h)
  PROVE  req[h].pc = "idle" /\ req[h].tab = NoTab /\ requests' \in 0..MaxRequests
<1>1. requests \in 0..MaxRequests /\ MaxRequests \in Nat
  BY Parts, Constants DEF Shapes
<1>2. req[h].pc = "idle" /\ req[h].tab = NoTab
  BY Parts DEF Arrives, OneWaits
<1>3. requests' = requests + 1 /\ requests < MaxRequests
  BY DEF Arrives
<1> QED
  BY <1>1, <1>2, <1>3

\* Steps of the Gmail requests.
LEMMA GmailStarts ==
  ASSUME IInv, NEW h \in Handlers, GmailStart(h)
  PROVE  IInv'
<1> DEFINE n == issued["gmail"] + 1
           q == [IdleReq EXCEPT !.pc = "link", !.held = n]
<1>1. /\ Shapes /\ Waiting /\ OneWaits /\ OnePlace /\ LinkOrder
      /\ req[h].pc = "idle" /\ req[h].tab = NoTab /\ requests' \in 0..MaxRequests
  BY Parts, Arrival DEF GmailStart
<1>2. /\ "gmail" \in Services /\ UNCHANGED <<links, tab, uses>>
      /\ Put("gmail", n) /\ req' = [req EXCEPT ![h] = q]
      /\ issued["gmail"] < MaxTokens /\ issued' = [issued EXCEPT !["gmail"] = @ + 1]
  BY DEF GmailStart, Services
<1>3. /\ n \in Tokens /\ issued' \in [Services -> 0..MaxTokens]
      /\ issued'["gmail"] = n /\ issued["gmail"] < n /\ n \in Nat
      /\ \A l \in Services : issued[l] <= issued'[l]
  BY <1>1, <1>2, NextToken, Constants
<1>4. q \in Request /\ q.pc = "link" /\ q.held = n /\ q.tab = NoTab
  BY <1>3, NewRequest
<1> HIDE DEF n, q
<1>5. /\ Waiting' /\ OneWaits' /\ req' \in [Handlers -> Request]
      /\ req'[h] = q /\ \A g \in Handlers \ {h} : req'[g] = req[g]
  BY <1>1, <1>2, <1>4, KeepsTab DEF Working
<1>6. OnePlace' /\ slot' \in [Services -> Tokens \union {None}]
      /\ \A l \in Services : slot'[l] <= issued'[l]
  BY <1>1, <1>2, <1>3, <1>4, <1>5, TokenIsPut
<1>7. 1..issued["gmail"] \subseteq 1..issued'["gmail"] /\ n \in 1..issued'["gmail"]
  BY <1>1, <1>2, <1>3, Numbers, Constants
<1>8. Shapes'
  BY <1>1, <1>2, <1>3, <1>5, <1>6, <1>7 DEF Shapes
<1>9. LinkOrder'
  <2>1. slot'["gmail"] = n
    BY <1>1, <1>2 DEF Put, Shapes
  <2>2. \A g \in Handlers : req'[g].pc = "link" => req'[g].held \in 1..issued'["gmail"]
    BY <1>1, <1>4, <1>5, <1>7 DEF LinkOrder
  <2> QED
    BY <2>1, <2>2, <1>3 DEF LinkOrder
<1> QED
  BY <1>5, <1>6, <1>8, <1>9, Whole

LEMMA LinkIsFollowed ==
  ASSUME IInv, NEW h \in Handlers, FollowLink(h)
  PROVE  IInv'
<1>1. /\ Shapes /\ Waiting /\ OneWaits /\ LinkOrder
      /\ req[h].pc = "link" /\ req[h].tab = NoTab
      /\ links' = links \union {req[h].held} /\ req' = [req EXCEPT ![h] = IdleReq]
      /\ UNCHANGED <<slot, issued, tab, uses, requests>>
  BY Parts DEF FollowLink, Finish, OneWaits
<1>2. /\ Waiting' /\ OneWaits' /\ req' \in [Handlers -> Request]
      /\ req'[h] = IdleReq /\ \A g \in Handlers \ {h} : req'[g] = req[g]
  BY <1>1, RestShapes, KeepsTab DEF Working
<1>3. links' \subseteq 1..issued["gmail"]
  BY <1>1 DEF LinkOrder, Shapes
<1>4. /\ requests' \in 0..MaxRequests /\ tab' \in [Tabs -> Dialog]
      /\ slot' \in [Services -> Tokens \union {None}]
  BY <1>1 DEF Shapes
<1> QED
  BY <1>1, <1>2, <1>3, <1>4, RestShapes, QuietStep

LEMMA CallbackComes ==
  ASSUME IInv, NEW h \in Handlers, NEW n \in links, NEW consent \in BOOLEAN,
         GmailCallback(h, n, consent)
  PROVE  IInv'
<1>1. /\ Shapes /\ Waiting /\ OneWaits /\ OnePlace /\ LinkOrder
      /\ req[h].pc = "idle" /\ req[h].tab = NoTab /\ requests' \in 0..MaxRequests
      /\ UNCHANGED <<issued, links, tab, uses>> /\ slot' = [slot EXCEPT !["gmail"] = None]
  BY Parts, Arrival DEF GmailCallback, Put
<1>2. /\ tab' \in [Tabs -> Dialog] /\ links' \subseteq 1..issued["gmail"]
      /\ slot' \in [Services -> Tokens \union {None}]
      /\ \A k \in Services : slot'[k] \in {slot[k], None}
      /\ slot'["gmail"] = None /\ req \in [Handlers -> Request]
      /\ \A k \in Services : slot'[k] <= issued[k]
  <2>1. "gmail" \in Services /\ \A k \in Services : None <= issued[k]
    BY <1>1, Numbers, Constants DEF Services
  <2> QED
    BY <1>1, <2>1 DEF Shapes
<1>3. CASE consent /\ n = slot["gmail"]
  <2> DEFINE q == [IdleReq EXCEPT !.pc = "exchange", !.held = n]
  <2>1. n \in Tokens /\ "gmail" \in Services /\ n <= issued["gmail"]
    <3>1. issued["gmail"] \in 0..MaxTokens /\ n \in 1..issued["gmail"] /\ MaxTokens \in Nat
      BY <1>1, Constants DEF Shapes, Services
    <3> QED
      BY <3>1 DEF Tokens, Services
  <2>2. q \in Request /\ q.pc = "exchange" /\ q.held = n /\ q.tab = NoTab
        /\ req' = [req EXCEPT ![h] = q]
    BY <1>3, <2>1, NewRequest DEF GmailCallback
  <2> HIDE DEF q
  <2>3. /\ Waiting' /\ OneWaits' /\ req' \in [Handlers -> Request]
        /\ req'[h] = q /\ \A g \in Handlers \ {h} : req'[g] = req[g]
    <3>1. n # None
      BY <2>1, Constants
    <3> QED
      BY <1>1, <2>2, <3>1, KeepsTab
  <2>4. \A l \in Services, m \in Tokens : Holds(h, l, m)' => l = "gmail"
    BY <2>2, <2>3 DEF Holds
  <2>5. OnePlace'
    <3>1. issued' \in [Services -> 0..MaxTokens] /\ \A l \in Services : issued[l] <= issued'[l]
      BY <1>1, Numbers DEF Shapes
    <3>2. n # None /\ n <= issued'["gmail"] /\ uses' = uses
      BY <1>1, <2>1, Constants
    <3> QED
      BY <1>1, <1>2, <1>3, <2>1, <2>2, <2>3, <2>4, <3>1, <3>2, TokenIsHeld
  <2>6. Shapes'
    BY <1>1, <1>2, <2>3 DEF Shapes
  <2>7. LinkOrder'
    BY <1>1, <1>2, <2>2, <2>3 DEF LinkOrder
  <2> QED
    BY <2>3, <2>5, <2>6, <2>7, Whole
<1>4. CASE ~(consent /\ n = slot["gmail"])
  <2>1. UNCHANGED req
    BY <1>4 DEF GmailCallback
  <2>2. Waiting' /\ OneWaits'
    BY <1>1, <2>1 DEF Waiting, OneWaits
  <2> QED
    BY <1>1, <1>2, <2>1, <2>2, QuietStep
<1> QED
  BY <1>3, <1>4

LEMMA CallbackIsRefused ==
  ASSUME IInv, NEW h \in Handlers, NEW n \in links, CallbackFails(h, n)
  PROVE  IInv'
<1>1. /\ Shapes /\ Waiting /\ OneWaits /\ requests' \in 0..MaxRequests
      /\ UNCHANGED <<slot, issued, links, req, tab, uses>>
  BY Parts, Arrival DEF CallbackFails
<1>2. Waiting' /\ OneWaits'
  BY <1>1 DEF Waiting, OneWaits
<1>3. /\ tab' \in [Tabs -> Dialog] /\ links' \subseteq 1..issued["gmail"]
      /\ slot' \in [Services -> Tokens \union {None}] /\ req' \in [Handlers -> Request]
  BY <1>1 DEF Shapes
<1> QED
  BY <1>1, <1>2, <1>3, QuietStep

\* A handler that holds a token uses it and is done with it.
LEMMA UsesStep ==
  ASSUME IInv, NEW h \in Handlers, NEW k \in Services, NEW q \in Request,
         Holds(h, k, req[h].held), Use(k, req[h].held),
         q.tab = req[h].tab, q.pc \in {"idle", "reply"}, q.pc = "idle" => q.tab = NoTab,
         q.pc = "reply" => q.answer # "", req' = [req EXCEPT ![h] = q],
         tab' \in [Tabs -> Dialog], \A t \in Tabs : tab'[t].busy = tab[t].busy,
         UNCHANGED <<slot, issued, links, requests>>
  PROVE  IInv'
<1>1. Shapes /\ Waiting /\ OneWaits /\ OnePlace /\ LinkOrder
  BY Parts
<1>2. /\ Waiting' /\ OneWaits' /\ req' \in [Handlers -> Request]
      /\ req'[h] = q /\ \A g \in Handlers \ {h} : req'[g] = req[g]
  BY <1>1, KeepsTab DEF Working
<1>3. OnePlace' /\ uses' \in [Services -> [Tokens -> Nat]]
  <2>1. req[h].held \in Tokens
    BY <1>1, HeldIsToken DEF Holds, Working
  <2> QED
    BY <1>1, <1>2, <2>1, TokenIsUsed
<1>4. Shapes'
  BY <1>1, <1>2, <1>3 DEF Shapes
<1>5. LinkOrder'
  BY <1>1, <1>2 DEF LinkOrder
<1> QED
  BY <1>2, <1>3, <1>4, <1>5, Whole

LEMMA CodeIsExchanged ==
  ASSUME IInv, NEW h \in Handlers, Exchange(h)
  PROVE  IInv'
<1>1. /\ req[h].pc = "exchange" /\ req[h].tab = NoTab /\ "gmail" \in Services
      /\ Use("gmail", req[h].held) /\ req' = [req EXCEPT ![h] = IdleReq]
      /\ UNCHANGED <<slot, issued, links, tab, requests>>
  BY Parts DEF Exchange, Finish, OneWaits, Services
<1>2. Holds(h, "gmail", req[h].held)
  BY <1>1 DEF Holds
<1>3. tab' \in [Tabs -> Dialog] /\ \A t \in Tabs : tab'[t].busy = tab[t].busy
  BY <1>1, Parts DEF Shapes
<1> QED
  BY <1>1, <1>2, <1>3, RestShapes, UsesStep

\* Steps of the Telegram requests.
LEMMA CodeIsSent ==
  ASSUME IInv, NEW h \in Handlers, SendCode(h)
  PROVE  IInv'
<1> DEFINE n == issued["telegram"] + 1
           q == [req[h] EXCEPT !.pc = "save", !.held = n]
<1>1. /\ Shapes /\ Waiting /\ OneWaits /\ OnePlace /\ LinkOrder /\ req[h] \in Request
      /\ "telegram" \in Services /\ "gmail" \in Services
  BY Parts DEF Services
<1>2. /\ req[h].pc = "send" /\ issued["telegram"] < MaxTokens
      /\ issued' = [issued EXCEPT !["telegram"] = @ + 1]
      /\ UNCHANGED <<slot, links, tab, uses, requests>>
  BY DEF SendCode
<1>3. /\ n \in Tokens /\ issued' \in [Services -> 0..MaxTokens]
      /\ issued'["telegram"] = n /\ issued["telegram"] < n
      /\ \A l \in Services : issued[l] <= issued'[l]
      /\ issued'["gmail"] = issued["gmail"]
  BY <1>1, <1>2, NextToken
<1>4. q \in Request /\ q.pc = "save" /\ q.held = n /\ q.tab = req[h].tab
  BY <1>1, <1>3 DEF Request
<1>5. req' = [req EXCEPT ![h] = q]
  BY <1>1 DEF SendCode, Shapes
<1>6. n # None /\ n <= issued'["telegram"]
  <2>1. n # None /\ n \in Nat /\ issued'["telegram"] = n
    BY <1>3, Constants
  <2> HIDE DEF n
  <2> QED
    BY <2>1
<1> HIDE DEF n, q
<1>7. /\ Waiting' /\ OneWaits' /\ req' \in [Handlers -> Request]
      /\ req'[h] = q /\ \A g \in Handlers \ {h} : req'[g] = req[g]
  BY <1>1, <1>2, <1>4, <1>5, <1>6, KeepsTab
<1>8. \A l \in Services, m \in Tokens : Holds(h, l, m)' => l = "telegram"
  BY <1>4, <1>7 DEF Holds, Services
<1>9. OnePlace'
  <2>1. slot'["telegram"] # n /\ \A l \in Services : slot'[l] \in {slot[l], None}
    <3>1. slot["telegram"] <= issued["telegram"] /\ issued["telegram"] \in Nat
          /\ slot["telegram"] \in Nat /\ n \in Nat
      BY <1>1, <1>3, Numbers, Constants
    <3> QED
      BY <1>2, <1>3, <3>1
  <2> QED
    BY <1>1, <1>2, <1>3, <1>4, <1>6, <1>7, <1>8, <2>1, TokenIsHeld
<1>10. Shapes'
  <2>1. \A k \in Services : slot'[k] <= issued'[k]
    BY <1>1, <1>2, <1>3, Numbers
  <2> QED
    BY <1>1, <1>2, <1>3, <1>7, <2>1 DEF Shapes
<1>11. LinkOrder'
  BY <1>1, <1>2, <1>3, <1>4, <1>7 DEF LinkOrder
<1> QED
  BY <1>7, <1>9, <1>10, <1>11, Whole

\* The login goes under the user's key, for the first time or again.
LEMMA PutsStep ==
  ASSUME IInv, NEW h \in Handlers, NEW q \in Request, req[h].pc \in {"save", "return"},
         Put("telegram", req[h].held), q.tab = req[h].tab, q.pc = "reply", q.answer # "",
         req' = [req EXCEPT ![h] = q],
         tab' \in [Tabs -> Dialog], \A t \in Tabs : tab'[t].busy = tab[t].busy,
         UNCHANGED <<issued, links, uses, requests>>
  PROVE  IInv'
<1>1. /\ Shapes /\ Waiting /\ OneWaits /\ OnePlace /\ LinkOrder
      /\ req[h].held \in Tokens /\ "telegram" \in Services
  BY Parts, HeldIsToken DEF Working, Services
<1>2. /\ Waiting' /\ OneWaits' /\ req' \in [Handlers -> Request]
      /\ req'[h] = q /\ \A g \in Handlers \ {h} : req'[g] = req[g]
  BY <1>1, KeepsTab DEF Working
<1>3. Holds(h, "telegram", req[h].held)
  BY DEF Holds
<1>4. OnePlace' /\ slot' \in [Services -> Tokens \union {None}]
      /\ \A l \in Services : slot'[l] <= issued'[l]
  <2>1. issued' \in [Services -> 0..MaxTokens] /\ \A l \in Services : issued[l] <= issued'[l]
    BY <1>1, IssuedStays
  <2>2. req[h].held <= issued'["telegram"]
    BY <1>1, <1>3 DEF OnePlace
  <2> QED
    BY <1>1, <1>2, <1>3, <2>1, <2>2, TokenIsPut
<1>5. Shapes'
  BY <1>1, <1>2, <1>4 DEF Shapes
<1>6. LinkOrder'
  <2>1. slot'["gmail"] = slot["gmail"]
    BY <1>1 DEF Put, Shapes, Services
  <2> QED
    BY <1>1, <1>2, <2>1 DEF LinkOrder
<1> QED
  BY <1>2, <1>4, <1>5, <1>6, Whole

LEMMA Disturbs ==
  ASSUME Shapes, NEW T, Disturb(T)
  PROVE  tab' \in [Tabs -> Dialog] /\ \A t \in Tabs : tab'[t].busy = tab[t].busy
<1>1. \A t \in Tabs : tab[t] \in Dialog
  BY DEF Shapes
<1>2. \A t \in Tabs : /\ [tab[t] EXCEPT !.disturbed = TRUE] \in Dialog
                      /\ [tab[t] EXCEPT !.disturbed = TRUE].busy = tab[t].busy
  BY <1>1, DialogFields
<1> QED
  BY <1>1, <1>2 DEF Disturb

LEMMA Answers ==
  ASSUME Shapes, NEW h \in Handlers, Answer(h, "code") \/ Answer(h, "password")
                   \/ Answer(h, "done") \/ Answer(h, "restart") \/ Answer(h, "error")
  PROVE  \E q \in Request : /\ req' = [req EXCEPT ![h] = q]
                            /\ q.pc = "reply" /\ q.answer # ""
                            /\ q.tab = req[h].tab /\ q.held = req[h].held
<1>1. PICK a \in {"code", "password", "done", "restart", "error"} : Answer(h, a)
  OBVIOUS
<1>2. req[h] \in Request
  BY DEF Shapes
<1> DEFINE q == [req[h] EXCEPT !.pc = "reply", !.answer = a]
<1>3. q \in Request /\ q.pc = "reply" /\ q.answer = a /\ q.tab = req[h].tab /\ q.held = req[h].held
  BY <1>2 DEF Request
<1>4. req' = [req EXCEPT ![h] = q]
  BY <1>1 DEF Answer, Shapes
<1> QED
  BY <1>3, <1>4

LEMMA LoginIsSaved ==
  ASSUME IInv, NEW h \in Handlers, SavePending(h)
  PROVE  IInv'
<1>1. Shapes /\ \A t \in Tabs : tab[t] \in Dialog
  BY Parts
<1>2. PICK q \in Request : /\ req' = [req EXCEPT ![h] = q]
                           /\ q.pc = "reply" /\ q.answer # "" /\ q.tab = req[h].tab
  BY <1>1, Answers DEF SavePending
<1>3. \A t \in Tabs : /\ [tab[t] EXCEPT !.disturbed = t # req[h].tab] \in Dialog
                      /\ [tab[t] EXCEPT !.disturbed = t # req[h].tab].busy = tab[t].busy
  <2> SUFFICES ASSUME NEW t \in Tabs, NEW b \in BOOLEAN
               PROVE  /\ [tab[t] EXCEPT !.disturbed = b] \in Dialog
                      /\ [tab[t] EXCEPT !.disturbed = b].busy = tab[t].busy
    OBVIOUS
  <2>1. tab[t] \in Dialog
    BY <1>1
  <2> QED
    BY <2>1 DEF Dialog
<1>4. tab' \in [Tabs -> Dialog] /\ \A t \in Tabs : tab'[t].busy = tab[t].busy
  BY <1>3 DEF SavePending
<1> QED
  BY <1>2, <1>4, PutsStep DEF SavePending

LEMMA LoginIsReturned ==
  ASSUME IInv, NEW h \in Handlers, ReturnPending(h)
  PROVE  IInv'
<1>1. Shapes
  BY Parts
<1>2. PICK q \in Request : /\ req' = [req EXCEPT ![h] = q]
                           /\ q.pc = "reply" /\ q.answer # "" /\ q.tab = req[h].tab
  BY <1>1, Answers DEF ReturnPending
<1>3. tab' \in [Tabs -> Dialog] /\ \A t \in Tabs : tab'[t].busy = tab[t].busy
  BY <1>1, Disturbs DEF ReturnPending
<1> QED
  BY <1>2, <1>3, PutsStep DEF ReturnPending

\* A step of one handler that makes, takes, puts and uses no token.
LEMMA QuietHandler ==
  ASSUME IInv, NEW h \in Handlers, NEW q \in Request, req' = [req EXCEPT ![h] = q],
         q.tab = req[h].tab, q.pc \in {"reply", "return"},
         q.pc = "reply" => q.answer # "",
         q.pc = "return" => req[h].pc = "signin" /\ q.held = req[h].held,
         tab' \in [Tabs -> Dialog], \A t \in Tabs : tab'[t].busy = tab[t].busy,
         slot' \in [Services -> Tokens \union {None}],
         \A k \in Services : slot'[k] \in {slot[k], None},
         UNCHANGED <<issued, links, uses, requests>>
  PROVE  IInv'
<1>1. Shapes /\ Waiting /\ OneWaits
  BY Parts
<1>2. q.pc \in Working => q.held # None
  BY <1>1 DEF Working, OneWaits
<1>3. /\ Waiting' /\ OneWaits' /\ req' \in [Handlers -> Request]
      /\ req'[h] = q /\ \A g \in Handlers \ {h} : req'[g] = req[g]
  BY <1>1, <1>2, KeepsTab
<1>4. links' \subseteq 1..issued["gmail"] /\ requests' \in 0..MaxRequests
  BY <1>1 DEF Shapes
<1> QED
  BY <1>1, <1>3, <1>4, QuietStep

LEMMA LoginIsTaken ==
  ASSUME IInv, NEW h \in Handlers, TakePending(h)
  PROVE  IInv'
<1> DEFINE n == slot["telegram"]
           q == [req[h] EXCEPT !.pc = "signin", !.held = n]
<1>1. /\ Shapes /\ Waiting /\ OneWaits /\ OnePlace /\ LinkOrder /\ req[h] \in Request
      /\ "telegram" \in Services /\ "gmail" \in Services
      /\ req[h].pc = "take" /\ UNCHANGED <<issued, links, uses, requests>>
  BY Parts DEF Services, TakePending
<1>2. /\ slot' \in [Services -> Tokens \union {None}] /\ slot'["telegram"] = None
      /\ slot'["gmail"] = slot["gmail"]
      /\ \A k \in Services : slot'[k] \in {slot[k], None}
  BY <1>1 DEF TakePending, Put, Shapes, Services
<1>3. CASE n = None
  <2>1. Answer(h, "restart") /\ UNCHANGED tab
    BY <1>3 DEF TakePending
  <2>2. PICK r \in Request : /\ req' = [req EXCEPT ![h] = r]
                             /\ r.pc = "reply" /\ r.answer # "" /\ r.tab = req[h].tab
    BY <1>1, <2>1, Answers
  <2>3. tab' \in [Tabs -> Dialog] /\ \A t \in Tabs : tab'[t].busy = tab[t].busy
    BY <1>1, <2>1 DEF Shapes
  <2> QED
    BY <1>1, <1>2, <2>2, <2>3, QuietHandler
<1>4. CASE n # None
  <2>1. n \in Tokens
    BY <1>1, <1>4 DEF Shapes
  <2>2. q \in Request /\ q.pc = "signin" /\ q.held = n /\ q.tab = req[h].tab
    BY <1>1, <2>1 DEF Request
  <2>3. req' = [req EXCEPT ![h] = q] /\ Disturb(Others(h))
    BY <1>1, <1>4 DEF TakePending, Shapes
  <2> HIDE DEF q
  <2>4. /\ Waiting' /\ OneWaits' /\ req' \in [Handlers -> Request]
        /\ req'[h] = q /\ \A g \in Handlers \ {h} : req'[g] = req[g]
        /\ tab' \in [Tabs -> Dialog]
    <3>1. tab' \in [Tabs -> Dialog] /\ \A t \in Tabs : tab'[t].busy = tab[t].busy
      BY <1>1, <2>3, Disturbs
    <3> QED
      BY <1>1, <1>4, <2>2, <2>3, <3>1, KeepsTab
  <2>5. \A l \in Services, m \in Tokens : Holds(h, l, m)' => l = "telegram"
    BY <2>2, <2>4 DEF Holds, Services
  <2>6. OnePlace'
    <3>1. issued' \in [Services -> 0..MaxTokens] /\ \A l \in Services : issued[l] <= issued'[l]
      BY <1>1, IssuedStays
    <3>2. n <= issued'["telegram"] /\ slot'["telegram"] # n /\ uses' = uses
      BY <1>1, <1>2, <1>4 DEF Shapes
    <3> HIDE DEF n
    <3> QED
      BY <1>1, <1>2, <2>1, <2>2, <2>4, <2>5, <3>1, <3>2, TokenIsHeld DEF n
  <2>7. Shapes'
    <3>1. \A k \in Services : slot'[k] <= issued[k]
      BY <1>1, <1>2, Numbers, Constants
    <3> QED
      BY <1>1, <1>2, <2>4, <3>1 DEF Shapes
  <2>8. LinkOrder'
    BY <1>1, <1>2, <2>2, <2>4 DEF LinkOrder
  <2> QED
    BY <2>4, <2>6, <2>7, <2>8, Whole
<1> QED
  BY <1>3, <1>4

LEMMA LoginSucceeds ==
  ASSUME IInv, NEW h \in Handlers, SignedIn(h)
  PROVE  IInv'
<1>1. Shapes /\ "telegram" \in Services /\ Holds(h, "telegram", req[h].held)
  BY Parts DEF SignedIn, Services, Holds
<1>2. PICK q \in Request : /\ req' = [req EXCEPT ![h] = q]
                           /\ q.pc = "reply" /\ q.answer # "" /\ q.tab = req[h].tab
  BY <1>1, Answers DEF SignedIn
<1>3. tab' \in [Tabs -> Dialog] /\ \A t \in Tabs : tab'[t].busy = tab[t].busy
  <2>1. CASE UNCHANGED tab
    BY <1>1, <2>1 DEF Shapes
  <2>2. CASE Disturb({req[h].tab})
    BY <1>1, <2>2, Disturbs
  <2> QED
    BY <2>1, <2>2 DEF SignedIn
<1> QED
  BY <1>1, <1>2, <1>3, UsesStep DEF SignedIn

LEMMA LoginIsRefused ==
  ASSUME IInv, NEW h \in Handlers, Refused(h)
  PROVE  IInv'
<1>1. Shapes /\ "telegram" \in Services /\ Holds(h, "telegram", req[h].held)
  BY Parts DEF Refused, Services, Holds
<1>2. PICK q \in Request : /\ req' = [req EXCEPT ![h] = q]
                           /\ q.pc = "reply" /\ q.answer # "" /\ q.tab = req[h].tab
  BY <1>1, Answers DEF Refused
<1>3. tab' \in [Tabs -> Dialog] /\ \A t \in Tabs : tab'[t].busy = tab[t].busy
  BY <1>1 DEF Refused, Shapes
<1> QED
  BY <1>1, <1>2, <1>3, UsesStep DEF Refused

LEMMA PasswordIsMissing ==
  ASSUME IInv, NEW h \in Handlers, PasswordNeeded(h)
  PROVE  IInv'
<1> DEFINE q == [req[h] EXCEPT !.pc = "return"]
<1>1. Shapes /\ req[h] \in Request /\ req[h].pc = "signin"
      /\ UNCHANGED <<slot, issued, links, tab, uses, requests>>
  BY Parts DEF PasswordNeeded
<1>2. q \in Request /\ q.pc = "return" /\ q.held = req[h].held /\ q.tab = req[h].tab
  BY <1>1 DEF Request
<1>3. req' = [req EXCEPT ![h] = q]
  BY <1>1 DEF PasswordNeeded, Goto, Shapes
<1>4. tab' \in [Tabs -> Dialog] /\ slot' \in [Services -> Tokens \union {None}]
  BY <1>1 DEF Shapes
<1> HIDE DEF q
<1> QED
  BY <1>1, <1>2, <1>3, <1>4, QuietHandler

\* What a failing handler does, by where it stands.
LEMMA FailureIs ==
  ASSUME NEW h \in Handlers, HandlerFails(h)
  PROVE  /\ UNCHANGED <<slot, issued, links, uses, requests>>
         /\ req[h].pc \in {"link", "send", "save", "take", "return"}
         /\ req[h].pc = "link" => Finish(h)
         /\ req[h].pc = "take" => Answer(h, "restart")
         /\ req[h].pc \in {"send", "save", "return"} => Answer(h, "error")
         /\ IF req[h].pc = "return" THEN Disturb({req[h].tab}) ELSE UNCHANGED tab
BY DEF HandlerFails, LinkFails, CodeFails, TakeFails, ReturnFails

LEMMA HandlerHasFailed ==
  ASSUME IInv, NEW h \in Handlers, HandlerFails(h)
  PROVE  IInv'
<1>1. /\ Shapes /\ Waiting /\ OneWaits
      /\ UNCHANGED <<slot, issued, links, uses, requests>>
  BY Parts, FailureIs
<1>2. /\ slot' \in [Services -> Tokens \union {None}]
      /\ \A k \in Services : slot'[k] \in {slot[k], None}
      /\ links' \subseteq 1..issued["gmail"] /\ requests' \in 0..MaxRequests
  BY <1>1 DEF Shapes
<1>3. CASE req[h].pc # "link"
  <2>1. PICK q \in Request : /\ req' = [req EXCEPT ![h] = q]
                             /\ q.pc = "reply" /\ q.answer # "" /\ q.tab = req[h].tab
    BY <1>1, <1>3, Answers, FailureIs
  <2>2. tab' \in [Tabs -> Dialog] /\ \A t \in Tabs : tab'[t].busy = tab[t].busy
    <3>1. CASE UNCHANGED tab
      BY <1>1, <3>1 DEF Shapes
    <3>2. CASE Disturb({req[h].tab})
      BY <1>1, <3>2, Disturbs
    <3> QED
      BY <1>3, <3>1, <3>2, FailureIs
  <2> QED
    BY <1>1, <1>2, <2>1, <2>2, QuietHandler
<1>4. CASE req[h].pc = "link"
  <2>1. req' = [req EXCEPT ![h] = IdleReq] /\ UNCHANGED tab /\ req[h].tab = NoTab
    BY <1>1, <1>4, FailureIs DEF Finish, OneWaits
  <2>2. /\ Waiting' /\ OneWaits' /\ req' \in [Handlers -> Request]
        /\ req'[h] = IdleReq /\ \A g \in Handlers \ {h} : req'[g] = req[g]
    BY <1>1, <2>1, RestShapes, KeepsTab DEF Working
  <2>3. tab' \in [Tabs -> Dialog]
    BY <1>1, <2>1 DEF Shapes
  <2> QED
    BY <1>1, <1>2, <2>2, <2>3, RestShapes, QuietStep
<1> QED
  BY <1>3, <1>4

\* A step of one handler after which its tab waits no more.
LEMMA AnswerArrives ==
  ASSUME IInv, NEW h \in Handlers, Reply(h)
  PROVE  IInv'
<1>1. /\ Shapes /\ Waiting /\ OneWaits /\ req[h] \in Request /\ req[h].pc = "reply"
      /\ req' = [req EXCEPT ![h] = IdleReq]
      /\ UNCHANGED <<slot, issued, links, uses, requests>>
  BY Parts DEF Reply, Finish
<1>2. /\ req[h].answer \in {"code", "password", "done", "restart", "error"}
      /\ req[h].held \in Tokens \union {None}
  BY <1>1 DEF OneWaits, Request
<1>3. \A t \in Tabs :
        LET d == [Answered(tab[t], req[h].held, req[h].answer) EXCEPT !.busy = FALSE]
        IN d \in Dialog /\ ~d.busy
  <2> TAKE t \in Tabs
  <2>1. tab[t] \in Dialog
    BY <1>1 DEF Shapes
  <2> QED
    BY <1>2, <2>1, DialogFields
<1>4. /\ tab' \in [Tabs -> Dialog]
      /\ \A t \in Tabs : IF t = req[h].tab THEN ~tab'[t].busy ELSE tab'[t].busy = tab[t].busy
  BY <1>1, <1>3 DEF Reply, Shapes
<1>5. /\ Waiting' /\ OneWaits' /\ req' \in [Handlers -> Request]
      /\ req'[h] = IdleReq /\ \A g \in Handlers \ {h} : req'[g] = req[g]
  BY <1>1, <1>4, RestShapes, LeavesTab DEF Working
<1>6. /\ slot' \in [Services -> Tokens \union {None}]
      /\ links' \subseteq 1..issued["gmail"] /\ requests' \in 0..MaxRequests
  BY <1>1 DEF Shapes
<1> QED
  BY <1>1, <1>4, <1>5, <1>6, RestShapes, QuietStep

LEMMA ConnectionBreaks ==
  ASSUME IInv, NEW h \in Handlers, Break(h)
  PROVE  IInv'
<1> DEFINE q == [req[h] EXCEPT !.tab = NoTab]
<1>1. /\ Shapes /\ Waiting /\ OneWaits /\ req[h] \in Request /\ req[h].tab \in Tabs
      /\ UNCHANGED <<slot, issued, links, uses, requests>>
  BY Parts DEF Break, Request
<1>2. q \in Request /\ q.pc = req[h].pc /\ q.held = req[h].held /\ q.tab = NoTab
      /\ q.answer = req[h].answer
  BY <1>1 DEF Request
<1>3. req' = [req EXCEPT ![h] = q]
  BY <1>1 DEF Break, Shapes
<1>4. (q.pc = "reply" => q.answer # "") /\ (q.pc \in Working => q.held # None)
  BY <1>1, <1>2 DEF OneWaits
<1> HIDE DEF q
<1>5. /\ tab' \in [Tabs -> Dialog]
      /\ \A t \in Tabs : IF t = req[h].tab THEN ~tab'[t].busy ELSE tab'[t].busy = tab[t].busy
  <2> DEFINE d == [tab[req[h].tab] EXCEPT !.busy = FALSE, !.disturbed = TRUE]
  <2>1. tab[req[h].tab] \in Dialog
    BY <1>1 DEF Shapes
  <2>2. d \in Dialog /\ ~d.busy
    BY <2>1, DialogFields
  <2>3. tab' = [tab EXCEPT ![req[h].tab] = d]
    BY <1>1 DEF Break, Shapes
  <2> HIDE DEF d
  <2> QED
    BY <1>1, <2>2, <2>3 DEF Shapes
<1>6. /\ Waiting' /\ OneWaits' /\ req' \in [Handlers -> Request]
      /\ req'[h] = q /\ \A g \in Handlers \ {h} : req'[g] = req[g]
  BY <1>1, <1>2, <1>3, <1>4, <1>5, LeavesTab
<1>7. /\ slot' \in [Services -> Tokens \union {None}]
      /\ links' \subseteq 1..issued["gmail"] /\ requests' \in 0..MaxRequests
  BY <1>1 DEF Shapes
<1> QED
  BY <1>1, <1>2, <1>5, <1>6, <1>7, QuietStep

\* A dialog sends a request.
LEMMA DialogSends ==
  ASSUME IInv, NEW t \in Tabs, NEW h \in Handlers, NEW q \in Request, NEW d \in Dialog,
         Arrives(h), ~tab[t].busy, d.busy, tab' = [tab EXCEPT ![t] = d],
         q.tab = t, q.pc \in {"send", "take", "reply"}, q.pc = "reply" => q.answer # "",
         req' = [req EXCEPT ![h] = q], UNCHANGED <<slot, issued, links, uses>>
  PROVE  IInv'
<1>1. /\ Shapes /\ Waiting /\ OneWaits
      /\ req[h].pc = "idle" /\ requests' \in 0..MaxRequests
  BY Parts, Arrival
<1>2. /\ tab' \in [Tabs -> Dialog]
      /\ \A u \in Tabs : IF u = t THEN tab'[u].busy ELSE tab'[u].busy = tab[u].busy
  BY <1>1 DEF Shapes
<1>3. /\ Waiting' /\ OneWaits' /\ req' \in [Handlers -> Request]
      /\ req'[h] = q /\ \A g \in Handlers \ {h} : req'[g] = req[g]
  BY <1>1, <1>2, ClaimsTab
<1>4. slot' \in [Services -> Tokens \union {None}] /\ links' \subseteq 1..issued["gmail"]
  BY <1>1 DEF Shapes
<1> QED
  BY <1>1, <1>2, <1>3, <1>4, QuietStep

LEMMA CodeIsAsked ==
  ASSUME IInv, NEW t \in Tabs, NEW h \in Handlers, AskCode(t, h)
  PROVE  IInv'
<1> DEFINE d == [tab[t] EXCEPT !.busy = TRUE]
           q == [IdleReq EXCEPT !.pc = "send", !.tab = t]
<1>1. Shapes /\ tab[t] \in Dialog
  BY Parts
<1>2. d \in Dialog /\ d.busy
  BY <1>1 DEF Dialog
<1>3. q \in Request /\ q.pc = "send" /\ q.tab = t
  BY NewRequest
<1>4. tab' = [tab EXCEPT ![t] = d] /\ req' = [req EXCEPT ![h] = q]
  BY <1>1 DEF AskCode, Shapes
<1> HIDE DEF d, q
<1> QED
  BY <1>2, <1>3, <1>4, DialogSends DEF AskCode

LEMMA CodeIsTyped ==
  ASSUME IInv, NEW t \in Tabs, NEW h \in Handlers, NEW c \in Tokens, ConfirmCode(t, h, c)
  PROVE  IInv'
<1> DEFINE d == [tab[t] EXCEPT !.busy = TRUE, !.code = c]
           q == [IdleReq EXCEPT !.pc = "take", !.tab = t, !.code = c, !.password = tab[t].password]
<1>1. Shapes /\ tab[t] \in Dialog
  BY Parts
<1>2. d \in Dialog /\ d.busy /\ tab[t].password \in Passwords
  BY <1>1 DEF Dialog
<1>3. q \in Request /\ q.pc = "take" /\ q.tab = t
  BY <1>2, Constants DEF Request, IdleReq
<1>4. tab' = [tab EXCEPT ![t] = d] /\ req' = [req EXCEPT ![h] = q]
  BY <1>1 DEF ConfirmCode, Shapes
<1> HIDE DEF d, q
<1> QED
  BY <1>2, <1>3, <1>4, DialogSends DEF ConfirmCode

LEMMA PasswordIsTyped ==
  ASSUME IInv, NEW t \in Tabs, NEW h \in Handlers, NEW p \in Passwords,
         ConfirmPassword(t, h, p)
  PROVE  IInv'
<1> DEFINE d == [tab[t] EXCEPT !.busy = TRUE, !.password = p]
           q == [IdleReq EXCEPT
                   !.pc = IF tab[t].code = None THEN "reply" ELSE "take",
                   !.answer = IF tab[t].code = None THEN "error" ELSE "",
                   !.tab = t, !.code = tab[t].code, !.password = p]
<1>1. Shapes /\ tab[t] \in Dialog
  BY Parts
<1>2. d \in Dialog /\ d.busy /\ tab[t].code \in Tokens \union {None}
  BY <1>1 DEF Dialog
<1>3. q \in Request /\ q.pc \in {"take", "reply"} /\ q.tab = t /\ (q.pc = "reply" => q.answer # "")
  BY <1>2, Constants DEF Request, IdleReq
<1>4. tab' = [tab EXCEPT ![t] = d] /\ req' = [req EXCEPT ![h] = q]
  BY <1>1 DEF ConfirmPassword, Shapes
<1> HIDE DEF d, q
<1> QED
  BY <1>2, <1>3, <1>4, DialogSends DEF ConfirmPassword

\* Opening and closing the dialog, and the expiry of a key.
LEMMA NobodyMoves ==
  ASSUME IInv, tab' \in [Tabs -> Dialog], \A t \in Tabs : tab'[t].busy = tab[t].busy,
         slot' \in [Services -> Tokens \union {None}],
         \A k \in Services : slot'[k] \in {slot[k], None},
         UNCHANGED <<issued, links, req, uses, requests>>
  PROVE  IInv'
<1>1. Shapes /\ Waiting /\ OneWaits
  BY Parts
<1>2. OneWaits'
  BY <1>1 DEF OneWaits
<1>3. Waiting'
  <2> SUFFICES ASSUME NEW t \in Tabs
               PROVE  tab'[t].busy <=> \E h \in Handlers : req[h].tab = t
    BY DEF Waiting
  <2>1. tab[t].busy <=> \E h \in Handlers : req[h].tab = t
    BY <1>1 DEF Waiting
  <2> QED
    BY <2>1
<1>4. /\ links' \subseteq 1..issued["gmail"] /\ requests' \in 0..MaxRequests
      /\ req' \in [Handlers -> Request]
  BY <1>1 DEF Shapes
<1> QED
  BY <1>2, <1>3, <1>4, QuietStep

LEMMA DialogStep ==
  ASSUME IInv, NEW t \in Tabs, OpenDialog(t) \/ CloseDialog(t)
  PROVE  IInv'
<1>1. Shapes /\ tab[t] \in Dialog
  BY Parts
<1>2. PICK d \in Dialog : d.busy = tab[t].busy /\ tab' = [tab EXCEPT ![t] = d]
  <2>1. CASE OpenDialog(t)
    <3> DEFINE d == [tab[t] EXCEPT !.open = TRUE]
    <3>1. d \in Dialog /\ d.busy = tab[t].busy
      BY <1>1 DEF Dialog
    <3>2. tab' = [tab EXCEPT ![t] = d]
      BY <1>1, <2>1 DEF OpenDialog, Shapes
    <3> QED
      BY <3>1, <3>2
  <2>2. CASE CloseDialog(t)
    <3> DEFINE b == tab[t].busy /\ tab[t].step # "phone"
               d == [Closed(tab[t]) EXCEPT !.disturbed = @ \/ b]
    <3>1. d \in Dialog /\ d.busy = tab[t].busy
      <4>1. b \in BOOLEAN
        OBVIOUS
      <4> HIDE DEF b
      <4> QED
        BY <1>1, <4>1 DEF Dialog, Closed, Passwords
    <3>2. tab' = [tab EXCEPT ![t] = d]
      BY <2>2 DEF CloseDialog
    <3> QED
      BY <3>1, <3>2
  <2> QED
    BY <2>1, <2>2
<1>3. tab' \in [Tabs -> Dialog] /\ \A u \in Tabs : tab'[u].busy = tab[u].busy
  BY <1>1, <1>2 DEF Shapes
<1>4. /\ slot' \in [Services -> Tokens \union {None}]
      /\ \A k \in Services : slot'[k] \in {slot[k], None}
      /\ UNCHANGED <<issued, links, req, uses, requests>>
  BY <1>1 DEF OpenDialog, CloseDialog, Shapes
<1> QED
  BY <1>3, <1>4, NobodyMoves

LEMMA KeyExpires ==
  ASSUME IInv, NEW k \in Services, Expire(k)
  PROVE  IInv'
<1>1. Shapes
  BY Parts
<1>2. tab' \in [Tabs -> Dialog] /\ \A t \in Tabs : tab'[t].busy = tab[t].busy
  <2>1. CASE UNCHANGED tab
    BY <1>1, <2>1 DEF Shapes
  <2>2. CASE Disturb(Tabs)
    BY <1>1, <2>2, Disturbs
  <2> QED
    BY <2>1, <2>2 DEF Expire
<1>3. /\ slot' \in [Services -> Tokens \union {None}]
      /\ \A l \in Services : slot'[l] \in {slot[l], None}
  BY <1>1 DEF Expire, Put, Shapes
<1> QED
  BY <1>2, <1>3, NobodyMoves DEF Expire

LEMMA PageReloads ==
  ASSUME IInv, NEW t \in Tabs, Reload(t)
  PROVE  IInv'
<1>1. /\ Shapes /\ Waiting /\ OneWaits /\ \A h \in Handlers : req[h] \in Request
      /\ UNCHANGED <<slot, issued, links, uses, requests>>
  BY Parts DEF Reload
<1>2. \A h \in Handlers :
        /\ req'[h].pc = req[h].pc /\ req'[h].held = req[h].held
        /\ req'[h].answer = req[h].answer
        /\ req'[h].tab = IF req[h].tab = t THEN NoTab ELSE req[h].tab
        /\ req'[h] \in Request
  <2> TAKE h \in Handlers
  <2>1. req[h] \in Request
    BY <1>1
  <2>2. CASE req[h].tab = t
    <3>1. req'[h] = [req[h] EXCEPT !.tab = NoTab]
      BY <2>2 DEF Reload
    <3> QED
      BY <2>1, <2>2, <3>1 DEF Request
  <2>3. CASE req[h].tab # t
    BY <2>1, <2>3 DEF Reload
  <2> QED
    BY <2>2, <2>3
<1>3. req' \in [Handlers -> Request]
  BY <1>2 DEF Reload
<1>4. NoTab \notin Tabs
  BY Constants
<1>5. OneWaits'
  BY <1>1, <1>2 DEF OneWaits
<1>6. tab' \in [Tabs -> Dialog] /\ ~tab'[t].busy /\ \A u \in Tabs \ {t} : tab'[u] = tab[u]
  BY <1>1, RestShapes DEF Reload, Shapes
<1>7. Waiting'
  <2> SUFFICES ASSUME NEW u \in Tabs
               PROVE  tab'[u].busy <=> \E h \in Handlers : req'[h].tab = u
    BY DEF Waiting
  <2>1. CASE u = t
    BY <2>1, <1>2, <1>4, <1>6
  <2>2. CASE u # t
    <3>1. tab[u].busy <=> \E h \in Handlers : req[h].tab = u
      BY <1>1 DEF Waiting
    <3>2. \A h \in Handlers : req'[h].tab = u <=> req[h].tab = u
      BY <2>2, <1>2, <1>4
    <3> QED
      BY <2>2, <3>1, <3>2, <1>6
  <2> QED
    BY <2>1, <2>2
<1>8. /\ slot' \in [Services -> Tokens \union {None}]
      /\ links' \subseteq 1..issued["gmail"] /\ requests' \in 0..MaxRequests
  BY <1>1 DEF Shapes
<1> QED
  BY <1>1, <1>2, <1>3, <1>5, <1>6, <1>7, <1>8, QuietStep

-----------------------------------------------------------------------------
(* The theorems *)

LEMMA Initially == Init => IInv
<1> SUFFICES ASSUME Init PROVE IInv
  OBVIOUS
<1>1. Shapes
  BY RestShapes, Constants DEF Init, Shapes
<1>2. OneWaits /\ LinkOrder
  BY RestShapes DEF Init, OneWaits, LinkOrder, Working, Services
<1>3. Waiting
  BY RestShapes, Constants DEF Init, Waiting
<1>4. OnePlace
  BY RestShapes, Constants DEF Init, OnePlace, Holds
<1> QED
  BY <1>1, <1>2, <1>3, <1>4, TypeOKSplit DEF IInv

LEMMA Stutter ==
  ASSUME IInv, UNCHANGED vars
  PROVE  IInv'
<1>1. Shapes
  BY Parts
<1>2. /\ tab' \in [Tabs -> Dialog] /\ \A t \in Tabs : tab'[t].busy = tab[t].busy
      /\ slot' \in [Services -> Tokens \union {None}]
      /\ \A k \in Services : slot'[k] \in {slot[k], None}
  BY <1>1 DEF vars, Shapes
<1> QED
  BY <1>2, NobodyMoves DEF vars

LEMMA HandlerSteps ==
  ASSUME IInv, NEW h \in Handlers, HandlerStep(h)
  PROVE  IInv'
BY LinkIsFollowed, CodeIsExchanged, CodeIsSent, LoginIsSaved, LoginIsTaken, LoginSucceeds,
   LoginIsRefused, PasswordIsMissing, LoginIsReturned, HandlerHasFailed, AnswerArrives,
   ConnectionBreaks DEF HandlerStep

LEMMA Inductive == IInv /\ [Next]_vars => IInv'
<1> SUFFICES ASSUME IInv, [Next]_vars PROVE IInv'
  OBVIOUS
<1>1. ASSUME NEW h \in Handlers, HandlerStep(h) PROVE IInv'
  BY <1>1, HandlerSteps
<1>2. ASSUME NEW h \in Handlers, GmailRequest(h) PROVE IInv'
  BY <1>2, GmailStarts, CallbackComes, CallbackIsRefused DEF GmailRequest
<1>3. ASSUME NEW t \in Tabs, NEW h \in Handlers, Submit(t, h) PROVE IInv'
  BY <1>3, CodeIsAsked, CodeIsTyped, PasswordIsTyped DEF Submit
<1>4. ASSUME NEW t \in Tabs, OpenDialog(t) \/ CloseDialog(t) \/ Reload(t) PROVE IInv'
  BY <1>4, DialogStep, PageReloads
<1>5. ASSUME NEW k \in Services, Expire(k) PROVE IInv'
  BY <1>5, KeyExpires
<1>6. CASE UNCHANGED vars
  BY <1>6, Stutter
<1> QED
  BY <1>1, <1>2, <1>3, <1>4, <1>5, <1>6 DEF Next

LEMMA Invariant == Spec => []IInv
BY Initially, Inductive, PTL DEF Spec

(***************************************************************************)
(* Handlers, dialogs, keys and tokens keep their shape, and a dialog waits *)
(* exactly as long as a request of its own is under way, whatever breaks,  *)
(* for any tabs, handlers and bounds.                                      *)
(***************************************************************************)
THEOREM TypeCorrect == Spec => []TypeOK
<1>1. IInv => TypeOK
  BY DEF IInv
<1> QED
  BY <1>1, Invariant, PTL

(***************************************************************************)
(* No state of Google and no pending login of Telegram is used twice,      *)
(* however requests of any number of tabs overlap: GETDEL gives it to one  *)
(* handler, and a handler returns it only if it did not use it.            *)
(***************************************************************************)
THEOREM UsedOnce == Spec => []OneUse
<1>1. IInv => OneUse
  <2> SUFFICES ASSUME IInv, NEW k \in Services, NEW n \in Tokens
               PROVE  /\ uses[k][n] <= 1
                      /\ uses[k][n] = 1 => slot[k] # n /\ \A h \in Handlers : ~Holds(h, k, n)
    BY DEF OneUse
  <2>1. OnePlace
    BY DEF IInv
  <2> QED
    BY <2>1 DEF OnePlace
<1> QED
  BY <1>1, Invariant, PTL

\* No step but a callback makes a handler exchange a code.
LEMMA NoExchange ==
  ASSUME IInv, NEW h \in Handlers, HandlerStep(h)
  PROVE  \A g \in Handlers : req'[g].pc = "exchange" => req[g].pc = "exchange"
<1>1. req \in [Handlers -> Request]
  BY Parts DEF Shapes
<1>2. CASE FollowLink(h) \/ Exchange(h) \/ Reply(h)
  BY <1>1, <1>2, RestShapes DEF FollowLink, Exchange, Reply, Finish
<1>3. CASE SendCode(h) \/ PasswordNeeded(h) \/ Break(h)
  BY <1>1, <1>3 DEF SendCode, PasswordNeeded, Break, Goto, Request
<1>4. CASE SavePending(h) \/ SignedIn(h) \/ Refused(h) \/ ReturnPending(h)
  BY <1>1, <1>4 DEF SavePending, SignedIn, Refused, ReturnPending, Answer, Request
<1>5. CASE TakePending(h)
  BY <1>1, <1>5 DEF TakePending, Answer, Request
<1>6. CASE HandlerFails(h)
  <2>1. Finish(h) \/ Answer(h, "error") \/ Answer(h, "restart")
    BY <1>6, FailureIs
  <2> QED
    BY <1>1, <2>1, RestShapes DEF Answer, Finish, Request
<1> QED
  BY <1>2, <1>3, <1>4, <1>5, <1>6 DEF HandlerStep

LEMMA AcceptsLatest ==
  ASSUME IInv, NEW h \in Handlers, NEW n \in links, NEW consent \in BOOLEAN,
         GmailCallback(h, n, consent), NEW g \in Handlers,
         req'[g].pc = "exchange", req[g].pc # "exchange"
  PROVE  req'[g].held = issued["gmail"]
<1>1. req \in [Handlers -> Request] /\ LinkOrder
  BY Parts DEF Shapes
<1>2. g = h /\ n = slot["gmail"]
  BY <1>1 DEF GmailCallback
<1>3. req'[g].held = n
  BY <1>1, <1>2 DEF GmailCallback, IdleReq
<1>4. n # None
  BY Parts, Constants DEF Shapes
<1> QED
  BY <1>1, <1>2, <1>3, <1>4 DEF LinkOrder

(***************************************************************************)
(* A callback is accepted only with the state given out last, for any      *)
(* number of starts, callbacks and tabs.                                   *)
(***************************************************************************)
THEOREM OnlyLatestLink == Spec => LatestLinkOnly
<1> DEFINE P == \A h \in Handlers : req'[h].pc = "exchange" /\ req[h].pc # "exchange"
                                      => req'[h].held = issued["gmail"]
<1>1. ASSUME IInv, Next
      PROVE  P
  <2>0. \A h \in Handlers : req[h] \in Request
    BY <1>1, Parts
  <2>1. ASSUME NEW h \in Handlers, HandlerStep(h) PROVE P
    BY <1>1, <2>1, NoExchange
  <2>2. ASSUME NEW h \in Handlers, GmailRequest(h) PROVE P
    <3>1. CASE GmailStart(h)
      BY <1>1, <3>1, Parts DEF GmailStart, Shapes, IdleReq
    <3>2. ASSUME NEW n \in links, NEW consent \in BOOLEAN, GmailCallback(h, n, consent) PROVE P
      BY <1>1, <3>2, AcceptsLatest
    <3>3. ASSUME NEW n \in links, CallbackFails(h, n) PROVE P
      BY <3>3 DEF CallbackFails
    <3> QED
      BY <2>2, <3>1, <3>2, <3>3 DEF GmailRequest
  <2>3. ASSUME NEW t \in Tabs, NEW h \in Handlers, Submit(t, h) PROVE P
    <3>1. req \in [Handlers -> Request]
      BY <1>1, Parts DEF Shapes
    <3>2. ASSUME NEW q, q.pc # "exchange", req' = [req EXCEPT ![h] = q] PROVE P
      BY <3>1, <3>2
    <3>3. CASE AskCode(t, h)
      <4> DEFINE q == [IdleReq EXCEPT !.pc = "send", !.tab = t]
      <4>1. q.pc # "exchange"
        BY DEF IdleReq
      <4>2. req' = [req EXCEPT ![h] = q]
        BY <3>3 DEF AskCode
      <4> QED
        BY <4>1, <4>2, <3>2
    <3>4. ASSUME NEW c \in Tokens, ConfirmCode(t, h, c) PROVE P
      <4> DEFINE q == [IdleReq EXCEPT !.pc = "take", !.tab = t, !.code = c,
                                      !.password = tab[t].password]
      <4>1. q.pc # "exchange"
        BY DEF IdleReq
      <4>2. req' = [req EXCEPT ![h] = q]
        BY <3>4 DEF ConfirmCode
      <4> QED
        BY <4>1, <4>2, <3>2
    <3>5. ASSUME NEW p \in Passwords, ConfirmPassword(t, h, p) PROVE P
      <4> DEFINE q == [IdleReq EXCEPT
                         !.pc = IF tab[t].code = None THEN "reply" ELSE "take",
                         !.answer = IF tab[t].code = None THEN "error" ELSE "",
                         !.tab = t, !.code = tab[t].code, !.password = p]
      <4>1. q.pc # "exchange"
        BY DEF IdleReq
      <4>2. req' = [req EXCEPT ![h] = q]
        BY <3>5 DEF ConfirmPassword
      <4> QED
        BY <4>1, <4>2, <3>2
    <3> QED
      BY <2>3, <3>3, <3>4, <3>5 DEF Submit
  <2>4. ASSUME NEW t \in Tabs, OpenDialog(t) \/ CloseDialog(t) \/ Reload(t) PROVE P
    <3>1. CASE Reload(t)
      BY <2>0, <3>1 DEF Reload, Request
    <3> QED
      BY <2>4, <3>1 DEF OpenDialog, CloseDialog
  <2>5. ASSUME NEW k \in Services, Expire(k) PROVE P
    BY <2>5 DEF Expire
  <2> QED
    BY <1>1, <2>1, <2>2, <2>3, <2>4, <2>5 DEF Next
<1>2. IInv /\ [Next]_vars => [P]_vars
  BY <1>1
<1> QED
  BY <1>2, Invariant, PTL DEF Spec, LatestLinkOnly

-----------------------------------------------------------------------------
(* The dialog and the server *)

\* What a dialog nobody disturbed and the server have in common while no
\* request of the dialog is under way, and while one is.
Agrees(d, waits) ==
  d.step # "phone" /\ ~d.disturbed
    => /\ waits = d.login
       /\ d.step = "password" => d.code = d.login

Expects(d, q, waits) ==
  /\ q.pc \in {"send", "save"} => d.step = "phone"
  /\ ~d.disturbed =>
       /\ q.pc = "take" => d.step # "phone" /\ d.code = q.code /\ waits = d.login
       /\ q.pc = "signin" => d.step # "phone" /\ d.code = q.code /\ q.held = d.login
       /\ q.pc = "return" =>
            d.step # "phone" /\ d.code = d.login /\ q.code = d.login /\ q.held = d.login
       /\ q.pc = "reply" /\ q.answer = "code" => waits = q.held
       /\ q.pc = "reply" /\ q.answer = "password" =>
            d.step # "phone" /\ d.code = d.login /\ waits = d.login
       /\ q.pc = "reply" /\ q.answer = "error" => Agrees(d, waits)

Agreement ==
  /\ \A t \in Tabs : ~tab[t].busy => Agrees(tab[t], slot["telegram"])
  /\ \A h \in Handlers :
       req[h].tab \in Tabs => Expects(tab[req[h].tab], req[h], slot["telegram"])

\* Dialogs that do not wait for this step are left alone, with the login under
\* the key, or disturbed.
LeftAlone(t) ==
  \/ tab'[t] = tab[t] /\ slot'["telegram"] = slot["telegram"]
  \/ tab'[t].disturbed /\ tab'[t].step = tab[t].step

LEMMA LeftAgree ==
  ASSUME NEW t, LeftAlone(t)
  PROVE  \A q : Expects(tab[t], q, slot["telegram"]) => Expects(tab'[t], q, slot'["telegram"])
BY DEF LeftAlone, Agrees, Expects

\* A step of one handler: what has to be shown is about the dialog that it is
\* for, and about the one that it was for before.
LEMMA AgreementStep ==
  ASSUME IInv, IInv', Agreement, NEW h \in Handlers, NEW q \in Request,
         req' = [req EXCEPT ![h] = q],
         \A t \in Tabs : t # q.tab /\ t # req[h].tab => LeftAlone(t),
         q.tab \in Tabs => Expects(tab'[q.tab], q, slot'["telegram"]),
         req[h].tab \in Tabs /\ req[h].tab # q.tab
           => Agrees(tab'[req[h].tab], slot'["telegram"])
  PROVE  Agreement'
<1>1. /\ Shapes /\ Waiting /\ OneWaits /\ Waiting' /\ OneWaits'
  BY Parts, TypeOKSplit DEF IInv
<1>2. req'[h] = q /\ \A g \in Handlers \ {h} : req'[g] = req[g]
  BY <1>1 DEF Shapes
<1>3. ASSUME NEW t \in Tabs, ~tab'[t].busy PROVE Agrees(tab'[t], slot'["telegram"])
  <2>1. t # q.tab
    BY <1>1, <1>2, <1>3 DEF Waiting
  <2>2. CASE t = req[h].tab
    BY <2>1, <2>2
  <2>3. CASE t # req[h].tab
    <3>1. \A g \in Handlers : req'[g].tab # t
      BY <1>1, <1>3 DEF Waiting
    <3>2. \A g \in Handlers : req[g].tab # t
      BY <1>2, <2>3, <3>1
    <3>3. ~tab[t].busy
      BY <1>1, <3>2 DEF Waiting
    <3>4. Agrees(tab[t], slot["telegram"])
      BY <3>3 DEF Agreement
    <3>5. LeftAlone(t)
      BY <2>1, <2>3
    <3> QED
      BY <3>4, <3>5 DEF LeftAlone, Agrees
  <2> QED
    BY <2>2, <2>3
<1>4. ASSUME NEW g \in Handlers, req'[g].tab \in Tabs
      PROVE  Expects(tab'[req'[g].tab], req'[g], slot'["telegram"])
  <2>1. CASE g = h
    BY <1>2, <1>4, <2>1
  <2>2. CASE g # h
    <3>1. req'[g] = req[g] /\ req[g].tab \in Tabs /\ req[g].tab # NoTab
      BY <1>2, <1>4, <2>2, Constants
    <3>2. req[g].tab # q.tab /\ req[g].tab # req[h].tab
      BY <1>1, <1>2, <2>2, <3>1 DEF OneWaits
    <3>3. LeftAlone(req[g].tab)
      BY <3>1, <3>2
    <3>4. Expects(tab[req[g].tab], req[g], slot["telegram"])
      BY <3>1 DEF Agreement
    <3> QED
      BY <3>1, <3>3, <3>4, LeftAgree
  <2> QED
    BY <2>1, <2>2
<1> QED
  BY <1>3, <1>4 DEF Agreement

\* An answer, exactly.
LEMMA AnswerIs ==
  ASSUME Shapes, NEW h \in Handlers, NEW a \in {"code", "password", "done", "restart", "error"},
         Answer(h, a)
  PROVE  \E q \in Request : /\ req' = [req EXCEPT ![h] = q]
                            /\ q.pc = "reply" /\ q.answer = a
                            /\ q.tab = req[h].tab /\ q.held = req[h].held
                            /\ q.code = req[h].code
<1>1. req[h] \in Request
  BY DEF Shapes
<1> DEFINE q == [req[h] EXCEPT !.pc = "reply", !.answer = a]
<1>2. /\ q \in Request /\ q.pc = "reply" /\ q.answer = a /\ q.tab = req[h].tab
      /\ q.held = req[h].held /\ q.code = req[h].code
  BY <1>1 DEF Request
<1>3. req' = [req EXCEPT ![h] = q]
  BY DEF Answer, Shapes
<1> QED
  BY <1>2, <1>3

\* A disturbed dialog is at the step where it was.
LEMMA DisturbIs ==
  ASSUME Shapes, NEW T, Disturb(T)
  PROVE  /\ \A t \in Tabs : t \in T => LeftAlone(t) /\ tab'[t].disturbed
         /\ \A t \in Tabs : t \notin T => tab'[t] = tab[t]
<1>1. \A t \in Tabs : tab[t] \in Dialog
  BY DEF Shapes
<1>2. \A d \in Dialog : /\ [d EXCEPT !.disturbed = TRUE].disturbed
                        /\ [d EXCEPT !.disturbed = TRUE].step = d.step
  BY DEF Dialog
<1>3. \A t \in Tabs : tab'[t] = IF t \in T THEN [tab[t] EXCEPT !.disturbed = TRUE] ELSE tab[t]
  BY DEF Disturb
<1> QED
  BY <1>1, <1>2, <1>3 DEF LeftAlone

\* What is put under the key is under it.
LEMMA PutIs ==
  ASSUME Shapes, NEW n, Put("telegram", n)
  PROVE  slot'["telegram"] = n
BY DEF Put, Shapes, Services

\* A handler in whose request no dialog has a part goes on, or begins.
LEMMA NoDialog ==
  ASSUME IInv, IInv', Agreement, NEW h \in Handlers, NEW q \in Request,
         req' = [req EXCEPT ![h] = q], q.tab = NoTab, req[h].tab = NoTab,
         UNCHANGED tab, slot'["telegram"] = slot["telegram"]
  PROVE  Agreement'
<1>1. \A t \in Tabs : LeftAlone(t)
  BY DEF LeftAlone
<1> QED
  BY <1>1, Constants, AgreementStep

\* A handler goes on, in a request that a dialog may have a part in.
LEMMA GoesOn ==
  ASSUME IInv, IInv', Agreement, NEW h \in Handlers, NEW q \in Request,
         req' = [req EXCEPT ![h] = q], q.tab = req[h].tab,
         \A t \in Tabs : t # req[h].tab => LeftAlone(t),
         ASSUME req[h].tab \in Tabs, Expects(tab[req[h].tab], req[h], slot["telegram"])
         PROVE  Expects(tab'[req[h].tab], q, slot'["telegram"])
  PROVE  Agreement'
<1>1. req[h].tab \in Tabs => Expects(tab[req[h].tab], req[h], slot["telegram"])
  BY DEF Agreement
<1> QED
  BY <1>1, AgreementStep

\* The steps of Gmail's sign-in: no dialog has a part in them.
LEMMA AgreeOnGmail ==
  ASSUME IInv, IInv', Agreement, NEW h \in Handlers,
         GmailRequest(h) \/ FollowLink(h) \/ Exchange(h)
  PROVE  Agreement'
<1>1. Shapes /\ OneWaits
  BY Parts
<1>2. UNCHANGED tab /\ slot'["telegram"] = slot["telegram"]
  BY <1>1 DEF GmailRequest, GmailStart, GmailCallback, CallbackFails, FollowLink, Exchange,
     Put, Shapes, Services
<1>3. CASE UNCHANGED req
  BY <1>2, <1>3 DEF Agreement
<1>4. CASE GmailStart(h)
  <2> DEFINE q == [IdleReq EXCEPT !.pc = "link", !.held = issued["gmail"] + 1]
  <2>1. issued["gmail"] + 1 \in Tokens
    BY <1>1, <1>4, NextToken DEF GmailStart, Services
  <2>2. q \in Request /\ q.tab = NoTab
    BY <2>1, NewRequest
  <2>3. req' = [req EXCEPT ![h] = q] /\ req[h].tab = NoTab
    BY <1>1, <1>4 DEF GmailStart, Arrives, OneWaits
  <2> HIDE DEF q
  <2> QED
    BY <1>2, <2>2, <2>3, NoDialog
<1>5. ASSUME NEW n \in links, NEW consent \in BOOLEAN, GmailCallback(h, n, consent),
             ~UNCHANGED req
      PROVE  Agreement'
  <2> DEFINE q == [IdleReq EXCEPT !.pc = "exchange", !.held = n]
  <2>1. n \in Tokens
    BY <1>1, Constants DEF Shapes, Services, Tokens
  <2>2. q \in Request /\ q.tab = NoTab
    BY <2>1, NewRequest
  <2>3. req' = [req EXCEPT ![h] = q] /\ req[h].tab = NoTab
    BY <1>1, <1>5 DEF GmailCallback, Arrives, OneWaits
  <2> HIDE DEF q
  <2> QED
    BY <1>2, <2>2, <2>3, NoDialog
<1>6. CASE FollowLink(h) \/ Exchange(h)
  <2>1. req' = [req EXCEPT ![h] = IdleReq] /\ req[h].tab = NoTab
    BY <1>1, <1>6 DEF FollowLink, Exchange, Finish, OneWaits
  <2> QED
    BY <1>2, <2>1, RestShapes, NoDialog
<1> QED
  BY <1>3, <1>4, <1>5, <1>6 DEF GmailRequest, CallbackFails

\* A dialog sends a request.
LEMMA SendsAgree ==
  ASSUME IInv, IInv', Agreement, NEW t \in Tabs, NEW h \in Handlers, NEW q \in Request,
         NEW d \in Dialog, Arrives(h), ~tab[t].busy, tab' = [tab EXCEPT ![t] = d],
         q.tab = t, req' = [req EXCEPT ![h] = q], UNCHANGED slot,
         Agrees(tab[t], slot["telegram"]) => Expects(d, q, slot["telegram"])
  PROVE  Agreement'
<1>1. Shapes /\ OneWaits /\ req[h].tab = NoTab /\ NoTab \notin Tabs
  BY Parts, Constants DEF Arrives, OneWaits
<1>2. Expects(d, q, slot["telegram"])
  BY DEF Agreement
<1>3. tab'[t] = d /\ \A u \in Tabs \ {t} : LeftAlone(u)
  BY <1>1 DEF Shapes, LeftAlone
<1> QED
  BY <1>1, <1>2, <1>3, AgreementStep

\* A dialog asks for a code or sends what was typed.
LEMMA AgreeOnSubmit ==
  ASSUME IInv, IInv', Agreement, NEW t \in Tabs, NEW h \in Handlers, Submit(t, h)
  PROVE  Agreement'
<1>1. Shapes /\ tab[t] \in Dialog
  BY Parts
<1>2. CASE AskCode(t, h)
  <2> DEFINE d == [tab[t] EXCEPT !.busy = TRUE]
             q == [IdleReq EXCEPT !.pc = "send", !.tab = t]
  <2>1. d \in Dialog /\ d.step = "phone"
    BY <1>1, <1>2 DEF Dialog, AskCode
  <2>2. q \in Request /\ q.pc = "send" /\ q.tab = t
    BY NewRequest
  <2>3. tab' = [tab EXCEPT ![t] = d] /\ req' = [req EXCEPT ![h] = q] /\ UNCHANGED slot
    BY <1>1, <1>2 DEF AskCode, Shapes
  <2> HIDE DEF d, q
  <2>4. Expects(d, q, slot["telegram"])
    BY <2>1, <2>2 DEF Expects
  <2>5. Arrives(h) /\ ~tab[t].busy
    BY <1>2 DEF AskCode
  <2> QED
    BY <2>1, <2>2, <2>3, <2>4, <2>5, SendsAgree
<1>3. ASSUME NEW c \in Tokens, ConfirmCode(t, h, c) PROVE Agreement'
  <2> DEFINE d == [tab[t] EXCEPT !.busy = TRUE, !.code = c]
             q == [IdleReq EXCEPT !.pc = "take", !.tab = t, !.code = c,
                                  !.password = tab[t].password]
  <2>1. d \in Dialog /\ d.step = "code" /\ d.code = c /\ d.login = tab[t].login
        /\ d.disturbed = tab[t].disturbed /\ tab[t].step = "code" /\ tab[t].password \in Passwords
    BY <1>1, <1>3 DEF Dialog, ConfirmCode
  <2>2. q \in Request /\ q.pc = "take" /\ q.tab = t /\ q.code = c
    BY <2>1, Constants DEF Request, IdleReq
  <2>3. tab' = [tab EXCEPT ![t] = d] /\ req' = [req EXCEPT ![h] = q] /\ UNCHANGED slot
    BY <1>1, <1>3 DEF ConfirmCode, Shapes
  <2> HIDE DEF d, q
  <2>4. Agrees(tab[t], slot["telegram"]) => Expects(d, q, slot["telegram"])
    BY <2>1, <2>2 DEF Expects, Agrees
  <2>5. Arrives(h) /\ ~tab[t].busy
    BY <1>3 DEF ConfirmCode
  <2> QED
    BY <2>1, <2>2, <2>3, <2>4, <2>5, SendsAgree
<1>4. ASSUME NEW p \in Passwords, ConfirmPassword(t, h, p) PROVE Agreement'
  <2> DEFINE d == [tab[t] EXCEPT !.busy = TRUE, !.password = p]
             q == [IdleReq EXCEPT
                     !.pc = IF tab[t].code = None THEN "reply" ELSE "take",
                     !.answer = IF tab[t].code = None THEN "error" ELSE "",
                     !.tab = t, !.code = tab[t].code, !.password = p]
  <2>1. d \in Dialog /\ d.step = "password" /\ d.code = tab[t].code /\ d.login = tab[t].login
        /\ d.disturbed = tab[t].disturbed /\ tab[t].step = "password"
        /\ tab[t].code \in Tokens \union {None}
    BY <1>1, <1>4 DEF Dialog, ConfirmPassword
  <2>2. /\ q \in Request /\ q.pc \in {"reply", "take"} /\ q.tab = t /\ q.code = tab[t].code
        /\ q.pc = "reply" => q.answer = "error"
    BY <2>1, Constants DEF Request, IdleReq
  <2>3. tab' = [tab EXCEPT ![t] = d] /\ req' = [req EXCEPT ![h] = q] /\ UNCHANGED slot
    BY <1>1, <1>4 DEF ConfirmPassword, Shapes
  <2> HIDE DEF d, q
  <2>4. Agrees(tab[t], slot["telegram"]) => Expects(d, q, slot["telegram"])
    BY <2>1, <2>2 DEF Expects, Agrees
  <2>5. Arrives(h) /\ ~tab[t].busy
    BY <1>4 DEF ConfirmPassword
  <2> QED
    BY <2>1, <2>2, <2>3, <2>4, <2>5, SendsAgree
<1> QED
  BY <1>2, <1>3, <1>4 DEF Submit

\* A login is made, saved, taken, or put back: others' dialogs are disturbed.
LEMMA AgreeOnLogin ==
  ASSUME IInv, IInv', Agreement, NEW h \in Handlers,
         SendCode(h) \/ SavePending(h) \/ TakePending(h) \/ ReturnPending(h)
  PROVE  Agreement'
<1>1. Shapes /\ req[h] \in Request
  BY Parts
<1>2. CASE SendCode(h)
  <2> DEFINE q == [req[h] EXCEPT !.pc = "save", !.held = issued["telegram"] + 1]
  <2>1. issued["telegram"] + 1 \in Tokens
    BY <1>1, <1>2, NextToken DEF SendCode, Services
  <2>2. q \in Request /\ q.pc = "save" /\ q.tab = req[h].tab
    BY <1>1, <2>1 DEF Request
  <2>3. req' = [req EXCEPT ![h] = q] /\ UNCHANGED <<slot, tab>> /\ req[h].pc = "send"
    BY <1>1, <1>2 DEF SendCode, Shapes
  <2> HIDE DEF q
  <2>4. \A t \in Tabs : LeftAlone(t)
    BY <2>3 DEF LeftAlone
  <2>5. \A d : Expects(d, req[h], slot["telegram"]) => Expects(d, q, slot["telegram"])
    BY <2>2, <2>3 DEF Expects
  <2> QED
    BY <2>2, <2>3, <2>4, <2>5, GoesOn
<1>3. CASE SavePending(h)
  <2>1. PICK q \in Request : /\ req' = [req EXCEPT ![h] = q]
                             /\ q.pc = "reply" /\ q.answer = "code"
                             /\ q.tab = req[h].tab /\ q.held = req[h].held
    BY <1>1, <1>3, AnswerIs DEF SavePending
  <2>2. slot'["telegram"] = q.held
    BY <1>1, <1>3, <2>1, PutIs DEF SavePending
  <2>3. \A t \in Tabs : t # req[h].tab => LeftAlone(t)
    <3>1. \A d \in Dialog : /\ [d EXCEPT !.disturbed = TRUE].disturbed
                            /\ [d EXCEPT !.disturbed = TRUE].step = d.step
      BY DEF Dialog
    <3>2. ASSUME NEW t \in Tabs, t # req[h].tab
          PROVE  tab[t] \in Dialog /\ tab'[t] = [tab[t] EXCEPT !.disturbed = TRUE]
      <4>1. tab'[t] = [tab[t] EXCEPT !.disturbed = (t # req[h].tab)]
        BY <1>3 DEF SavePending
      <4>2. (t # req[h].tab) = TRUE
        BY <3>2
      <4> QED
        BY <1>1, <4>1, <4>2 DEF Shapes
    <3> QED
      BY <3>1, <3>2 DEF LeftAlone
  <2>4. \A d : Expects(d, q, slot'["telegram"])
    BY <2>1, <2>2 DEF Expects
  <2> QED
    BY <2>1, <2>3, <2>4, GoesOn
<1>4. ASSUME TakePending(h), slot["telegram"] = None PROVE Agreement'
  <2>1. Answer(h, "restart") /\ UNCHANGED tab /\ slot'["telegram"] = slot["telegram"]
    BY <1>1, <1>4, PutIs DEF TakePending
  <2>2. PICK q \in Request : /\ req' = [req EXCEPT ![h] = q]
                             /\ q.pc = "reply" /\ q.answer = "restart" /\ q.tab = req[h].tab
    BY <1>1, <2>1, AnswerIs
  <2>3. \A t \in Tabs : LeftAlone(t)
    BY <2>1 DEF LeftAlone
  <2>4. \A d, w : Expects(d, q, w)
    BY <2>2 DEF Expects
  <2> QED
    BY <2>2, <2>3, <2>4, GoesOn
<1>5. ASSUME TakePending(h), slot["telegram"] # None PROVE Agreement'
  <2> DEFINE q == [req[h] EXCEPT !.pc = "signin", !.held = slot["telegram"]]
  <2>1. slot["telegram"] \in Tokens
    BY <1>1, <1>5 DEF Shapes, Services
  <2>2. q \in Request /\ q.pc = "signin" /\ q.held = slot["telegram"] /\ q.tab = req[h].tab
        /\ q.code = req[h].code
    BY <1>1, <2>1 DEF Request
  <2>3. req' = [req EXCEPT ![h] = q] /\ Disturb(Others(h)) /\ req[h].pc = "take"
    BY <1>1, <1>5 DEF TakePending, Shapes
  <2> HIDE DEF q
  <2>4. /\ \A t \in Tabs : t # req[h].tab => LeftAlone(t)
        /\ req[h].tab \in Tabs => tab'[req[h].tab] = tab[req[h].tab]
    BY <1>1, <2>3, DisturbIs DEF Others
  <2>5. \A d, w : Expects(d, req[h], slot["telegram"]) => Expects(d, q, w)
    BY <2>2, <2>3 DEF Expects
  <2> QED
    BY <2>2, <2>3, <2>4, <2>5, GoesOn
<1>6. CASE ReturnPending(h)
  <2>1. PICK q \in Request : /\ req' = [req EXCEPT ![h] = q]
                             /\ q.pc = "reply" /\ q.answer = "password"
                             /\ q.tab = req[h].tab /\ q.held = req[h].held
    BY <1>1, <1>6, AnswerIs DEF ReturnPending
  <2>2. slot'["telegram"] = req[h].held /\ req[h].pc = "return"
    BY <1>1, <1>6, PutIs DEF ReturnPending
  <2>3. /\ \A t \in Tabs : t # req[h].tab => LeftAlone(t)
        /\ req[h].tab \in Tabs => tab'[req[h].tab] = tab[req[h].tab]
    BY <1>1, <1>6, DisturbIs DEF Others, ReturnPending
  <2>4. \A d : Expects(d, req[h], slot["telegram"]) => Expects(d, q, slot'["telegram"])
    BY <2>1, <2>2 DEF Expects
  <2> QED
    BY <2>1, <2>3, <2>4, GoesOn
<1> QED
  BY <1>2, <1>3, <1>4, <1>5, <1>6

\* Telegram answers, or a handler fails.
LEMMA AgreeOnSignIn ==
  ASSUME IInv, IInv', Agreement, NEW h \in Handlers,
         SignedIn(h) \/ Refused(h) \/ PasswordNeeded(h) \/ HandlerFails(h)
  PROVE  Agreement'
<1>1. Shapes /\ OneWaits /\ req[h] \in Request /\ UNCHANGED slot
  BY Parts, FailureIs DEF SignedIn, Refused, PasswordNeeded
<1>2. ASSUME NEW a \in {"done", "restart", "error"}, Answer(h, a),
             \/ UNCHANGED tab /\ (a = "error" => req[h].pc \in {"send", "save"})
             \/ Disturb({req[h].tab})
      PROVE  Agreement'
  <2>1. PICK q \in Request : /\ req' = [req EXCEPT ![h] = q]
                             /\ q.pc = "reply" /\ q.answer = a /\ q.tab = req[h].tab
    BY <1>1, <1>2, AnswerIs
  <2>2. \A t \in Tabs : t # req[h].tab => LeftAlone(t)
    <3>1. \A t \in Tabs : t # req[h].tab => tab'[t] = tab[t]
      BY <1>1, <1>2, DisturbIs
    <3> QED
      BY <1>1, <3>1 DEF LeftAlone
  <2>3. ASSUME req[h].tab \in Tabs, Expects(tab[req[h].tab], req[h], slot["telegram"])
        PROVE  Expects(tab'[req[h].tab], q, slot'["telegram"])
    <3>1. CASE Disturb({req[h].tab})
      <4>1. tab'[req[h].tab].disturbed
        BY <1>1, <2>3, <3>1, DisturbIs
      <4> QED
        BY <2>1, <4>1 DEF Expects
    <3>2. CASE UNCHANGED tab /\ (a = "error" => req[h].pc \in {"send", "save"})
      <4>1. a = "error" => tab'[req[h].tab].step = "phone"
        BY <2>3, <3>2 DEF Expects
      <4> QED
        BY <2>1, <4>1 DEF Expects, Agrees
    <3> QED
      BY <1>2, <3>1, <3>2
  <2> QED
    BY <2>1, <2>2, <2>3, GoesOn
<1>3. CASE SignedIn(h)
  <2>1. \/ Answer(h, "done") /\ UNCHANGED tab
        \/ Answer(h, "error") /\ Disturb({req[h].tab})
    BY <1>3 DEF SignedIn
  <2> QED
    BY <1>2, <2>1
<1>4. CASE Refused(h)
  BY <1>2, <1>4 DEF Refused
<1>5. CASE PasswordNeeded(h)
  <2> DEFINE q == [req[h] EXCEPT !.pc = "return"]
  <2>1. q \in Request /\ q.pc = "return" /\ q.held = req[h].held /\ q.tab = req[h].tab
        /\ q.code = req[h].code
    BY <1>1 DEF Request
  <2>2. req' = [req EXCEPT ![h] = q] /\ UNCHANGED tab /\ req[h].pc = "signin"
        /\ req[h].code = req[h].held
    BY <1>1, <1>5 DEF PasswordNeeded, Goto, Shapes
  <2> HIDE DEF q
  <2>3. \A t \in Tabs : LeftAlone(t)
    BY <1>1, <2>2 DEF LeftAlone
  <2>4. \A d, w : Expects(d, req[h], w) => Expects(d, q, w)
    BY <2>1, <2>2 DEF Expects
  <2> QED
    BY <1>1, <2>1, <2>2, <2>3, <2>4, GoesOn
<1>6. CASE HandlerFails(h)
  <2>1. CASE req[h].pc = "link"
    <3>1. req' = [req EXCEPT ![h] = IdleReq] /\ UNCHANGED tab /\ req[h].tab = NoTab
      BY <1>1, <1>6, <2>1, FailureIs DEF Finish, OneWaits
    <3> QED
      BY <1>1, <3>1, RestShapes, NoDialog
  <2>2. CASE req[h].pc = "take"
    <3>1. Answer(h, "restart") /\ UNCHANGED tab
      BY <1>6, <2>2, FailureIs
    <3> QED
      BY <1>2, <3>1
  <2>3. CASE req[h].pc \in {"send", "save", "return"}
    <3>1. /\ Answer(h, "error")
          /\ IF req[h].pc = "return" THEN Disturb({req[h].tab}) ELSE UNCHANGED tab
      BY <1>6, <2>3, FailureIs
    <3> QED
      BY <1>2, <2>3, <3>1
  <2> QED
    BY <1>6, <2>1, <2>2, <2>3, FailureIs
<1> QED
  BY <1>3, <1>4, <1>5, <1>6

\* The dialog gets its answer, or the connection broke.
LEMMA AgreeOnReply ==
  ASSUME IInv, IInv', Agreement, NEW h \in Handlers, Reply(h) \/ Break(h)
  PROVE  Agreement'
<1>1. Shapes /\ OneWaits /\ req[h] \in Request /\ UNCHANGED slot
  BY Parts DEF Reply, Break
<1>2. CASE Reply(h)
  <2>1. /\ req' = [req EXCEPT ![h] = IdleReq] /\ req[h].pc = "reply"
        /\ \A t \in Tabs : t # req[h].tab => LeftAlone(t)
    BY <1>1, <1>2 DEF Reply, Finish, LeftAlone
  <2>2. ASSUME req[h].tab \in Tabs PROVE Agrees(tab'[req[h].tab], slot'["telegram"])
    <3> DEFINE d == tab[req[h].tab]
    <3>1. /\ d \in Dialog /\ Expects(d, req[h], slot["telegram"])
          /\ req[h].answer \in {"code", "password", "done", "restart", "error"}
      BY <1>1, <2>1, <2>2 DEF Agreement, Shapes, OneWaits, Request
    <3>2. tab'[req[h].tab] = [Answered(d, req[h].held, req[h].answer) EXCEPT !.busy = FALSE]
      BY <1>2, <2>2 DEF Reply
    <3> HIDE DEF d
    <3>3. CASE req[h].answer = "code"
      <4>1. tab'[req[h].tab] = [d EXCEPT !.step = "code", !.login = req[h].held, !.busy = FALSE]
        BY <3>1, <3>2, <3>3 DEF Answered, Dialog
      <4>2. /\ tab'[req[h].tab].step = "code" /\ tab'[req[h].tab].login = req[h].held
            /\ tab'[req[h].tab].disturbed = d.disturbed
        BY <3>1, <4>1 DEF Dialog
      <4> QED
        BY <1>1, <2>1, <3>1, <3>3, <4>2 DEF Agrees, Expects
    <3>4. CASE req[h].answer = "password"
      <4>1. tab'[req[h].tab] = [d EXCEPT !.step = "password", !.busy = FALSE]
        BY <3>1, <3>2, <3>4 DEF Answered, Dialog
      <4>2. /\ tab'[req[h].tab].login = d.login /\ tab'[req[h].tab].code = d.code
            /\ tab'[req[h].tab].disturbed = d.disturbed
        BY <3>1, <4>1 DEF Dialog
      <4> QED
        BY <1>1, <2>1, <3>1, <3>4, <4>2 DEF Agrees, Expects
    <3>5. CASE req[h].answer \in {"done", "restart"}
      <4>1. tab'[req[h].tab].step = "phone"
        BY <3>1, <3>2, <3>5 DEF Answered, Closed, Dialog
      <4> QED
        BY <4>1 DEF Agrees
    <3>6. CASE req[h].answer = "error"
      <4>1. tab'[req[h].tab] = [d EXCEPT !.busy = FALSE]
        BY <3>2, <3>6 DEF Answered
      <4>2. /\ tab'[req[h].tab].login = d.login /\ tab'[req[h].tab].code = d.code
            /\ tab'[req[h].tab].disturbed = d.disturbed /\ tab'[req[h].tab].step = d.step
        BY <3>1, <4>1 DEF Dialog
      <4> QED
        BY <1>1, <2>1, <3>1, <3>6, <4>2 DEF Agrees, Expects
    <3> QED
      BY <3>1, <3>3, <3>4, <3>5, <3>6
  <2>3. IdleReq.tab \notin Tabs
    BY RestShapes, Constants
  <2> QED
    BY <2>1, <2>2, <2>3, RestShapes, AgreementStep
<1>3. CASE Break(h)
  <2> DEFINE q == [req[h] EXCEPT !.tab = NoTab]
             d == [tab[req[h].tab] EXCEPT !.busy = FALSE, !.disturbed = TRUE]
  <2>1. q \in Request /\ q.tab = NoTab /\ req[h].tab \in Tabs /\ NoTab \notin Tabs
    BY <1>1, <1>3, Constants DEF Request, Break
  <2>2. req' = [req EXCEPT ![h] = q]
    BY <1>1, <1>3 DEF Break, Shapes
  <2>3. tab' = [tab EXCEPT ![req[h].tab] = d] /\ tab[req[h].tab] \in Dialog
    BY <1>1, <1>3, <2>1 DEF Break, Shapes
  <2>4. d.disturbed
    BY <2>3 DEF Dialog
  <2> HIDE DEF d, q
  <2>5. \A t \in Tabs : t # req[h].tab => LeftAlone(t)
    BY <1>1, <2>3 DEF LeftAlone, Shapes
  <2>6. Agrees(tab'[req[h].tab], slot'["telegram"])
    BY <1>1, <2>1, <2>3, <2>4 DEF Agrees, Shapes
  <2> QED
    BY <2>1, <2>2, <2>5, <2>6, AgreementStep
<1> QED
  BY <1>2, <1>3

\* The dialog is opened or closed: no request moves.
LEMMA AgreeOnScreen ==
  ASSUME IInv, Agreement, NEW t \in Tabs, OpenDialog(t) \/ CloseDialog(t)
  PROVE  Agreement'
<1>1. /\ Shapes /\ Waiting /\ tab[t] \in Dialog /\ UNCHANGED <<slot, req>>
      /\ \A h \in Handlers : req[h] \in Request
  BY Parts DEF OpenDialog, CloseDialog
<1>2. \A u \in Tabs : u # t => tab'[u] = tab[u]
  BY <1>1 DEF OpenDialog, CloseDialog, Shapes
<1>3. /\ ~tab'[t].busy => Agrees(tab'[t], slot["telegram"])
      /\ \A h \in Handlers : req[h].tab = t => Expects(tab'[t], req[h], slot["telegram"])
  <2>1. \A h \in Handlers : req[h].tab = t => Expects(tab[t], req[h], slot["telegram"])
    BY DEF Agreement
  <2>2. CASE OpenDialog(t)
    <3>1. tab'[t] = [tab[t] EXCEPT !.open = TRUE]
      BY <1>1, <2>2 DEF OpenDialog, Shapes
    <3>2. /\ tab'[t].step = tab[t].step /\ tab'[t].disturbed = tab[t].disturbed
          /\ tab'[t].login = tab[t].login /\ tab'[t].code = tab[t].code
          /\ tab'[t].busy = tab[t].busy
      BY <1>1, <3>1 DEF Dialog
    <3> QED
      BY <2>1, <3>2 DEF Agreement, Agrees, Expects
  <2>3. CASE CloseDialog(t)
    <3> DEFINE b == tab[t].busy /\ tab[t].step # "phone"
    <3>1. tab'[t] = [Closed(tab[t]) EXCEPT !.disturbed = @ \/ b]
      BY <1>1, <2>3 DEF CloseDialog, Shapes
    <3>2. tab'[t].step = "phone" /\ tab'[t].disturbed = (tab[t].disturbed \/ b)
      <4> HIDE DEF b
      <4> QED
        BY <1>1, <3>1 DEF Closed, Dialog
    <3>3. Agrees(tab'[t], slot["telegram"])
      BY <3>2 DEF Agrees
    <3>4. ASSUME NEW h \in Handlers, req[h].tab = t, ~tab'[t].disturbed
          PROVE  tab[t].step = "phone" /\ ~tab[t].disturbed
      <4>1. tab[t].busy
        BY <1>1, <3>4 DEF Waiting
      <4> QED
        BY <3>2, <3>4, <4>1
    <3> QED
      BY <2>1, <3>2, <3>3, <3>4 DEF Expects
  <2> QED
    BY <2>2, <2>3
<1> QED
  BY <1>1, <1>2, <1>3 DEF Agreement

\* The page is loaded anew: its requests are nobody's.
LEMMA AgreeOnReload ==
  ASSUME IInv, Agreement, NEW t \in Tabs, Reload(t)
  PROVE  Agreement'
<1>1. Shapes /\ UNCHANGED slot /\ NoTab \notin Tabs /\ \A h \in Handlers : req[h] \in Request
  BY Parts, Constants DEF Reload
<1>2. tab'[t] = FreshTab /\ \A u \in Tabs : u # t => tab'[u] = tab[u]
  BY <1>1 DEF Reload, Shapes
<1>3. Agrees(FreshTab, slot["telegram"])
  BY DEF Agrees, FreshTab
<1>4. ASSUME NEW h \in Handlers, req'[h].tab \in Tabs
      PROVE  req'[h] = req[h] /\ req[h].tab # t
  <2>1. CASE req[h].tab = t
    <3>1. req'[h] = [req[h] EXCEPT !.tab = NoTab]
      BY <2>1 DEF Reload
    <3>2. req'[h].tab = NoTab
      BY <1>1, <3>1 DEF Request
    <3> QED
      BY <1>1, <1>4, <3>2
  <2>2. CASE req[h].tab # t
    BY <2>2 DEF Reload
  <2> QED
    BY <2>1, <2>2
<1> QED
  BY <1>1, <1>2, <1>3, <1>4 DEF Agreement

\* A key expires: every dialog is disturbed if it was Telegram's.
LEMMA AgreeOnExpiry ==
  ASSUME IInv, Agreement, NEW k \in Services, Expire(k)
  PROVE  Agreement'
<1>1. Shapes /\ UNCHANGED req
  BY Parts DEF Expire
<1>2. CASE k = "telegram"
  <2>1. \A t \in Tabs : LeftAlone(t) /\ tab'[t].disturbed
    BY <1>1, <1>2, DisturbIs DEF Expire
  <2>2. \A t \in Tabs : Agrees(tab'[t], slot'["telegram"])
    BY <2>1 DEF Agrees
  <2> QED
    BY <1>1, <2>1, <2>2, LeftAgree DEF Agreement
<1>3. CASE k # "telegram"
  <2>1. UNCHANGED tab /\ slot'["telegram"] = slot["telegram"]
    BY <1>1, <1>3 DEF Expire, Put, Shapes, Services
  <2> QED
    BY <1>1, <2>1 DEF Agreement
<1> QED
  BY <1>2, <1>3

-----------------------------------------------------------------------------
(* What is left in the field of the password *)

\* The part of a dialog that this is about.
SameForm(d, e) == e.step = d.step /\ e.password = d.password /\ e.sentBack = d.sentBack

\* A request that ends with a code sent was made on the step of the phone.
AsksForCode(q) == q.pc \in {"send", "save"} \/ (q.pc = "reply" /\ q.answer = "code")
OnPhone(h) == req[h].tab \in Tabs /\ AsksForCode(req[h]) => tab[req[h].tab].step = "phone"

Leftover == (\A t \in Tabs : PasswordIsOwn(t)) /\ \A h \in Handlers : OnPhone(h)

\* A step that leaves the forms, and makes no request for a code.
LEMMA FormsStay ==
  ASSUME Leftover, \A t \in Tabs : SameForm(tab[t], tab'[t]),
         \A h \in Handlers : req'[h].tab \in Tabs /\ AsksForCode(req'[h])
                            => req[h].tab = req'[h].tab /\ AsksForCode(req[h])
  PROVE  Leftover'
BY DEF Leftover, OnPhone, PasswordIsOwn, SameForm

LEMMA DisturbedForm ==
  ASSUME Shapes, NEW T, Disturb(T) \/ UNCHANGED tab
  PROVE  \A t \in Tabs : SameForm(tab[t], tab'[t])
<1>1. \A d \in Dialog : SameForm(d, [d EXCEPT !.disturbed = TRUE]) /\ SameForm(d, d)
  BY DEF Dialog, SameForm
<1> QED
  BY <1>1 DEF Shapes, Disturb

\* A handler answers something other than a code.
LEMMA OtherAnswer ==
  ASSUME IInv, Leftover, NEW h \in Handlers,
         NEW a \in {"password", "done", "restart", "error"}, Answer(h, a),
         NEW T, Disturb(T) \/ UNCHANGED tab
  PROVE  Leftover'
<1>1. Shapes
  BY Parts
<1>2. PICK q \in Request : req' = [req EXCEPT ![h] = q] /\ q.pc = "reply" /\ q.answer = a
  BY <1>1, AnswerIs
<1>3. ~AsksForCode(q)
  BY <1>2 DEF AsksForCode
<1>4. req'[h] = q /\ \A g \in Handlers \ {h} : req'[g] = req[g]
  BY <1>1, <1>2 DEF Shapes
<1> QED
  BY <1>1, <1>3, <1>4, DisturbedForm, FormsStay

\* A handler moves, and the forms stay.
LEMMA HandlerLeavesForms ==
  ASSUME IInv, Leftover, NEW h \in Handlers, HandlerStep(h), ~Reply(h)
  PROVE  Leftover'
<1>1. Shapes /\ req[h] \in Request
  BY Parts
<1>2. ASSUME NEW q \in Request, req' = [req EXCEPT ![h] = q],
             \A t \in Tabs : SameForm(tab[t], tab'[t]),
             q.tab \in Tabs /\ AsksForCode(q) => req[h].tab = q.tab /\ AsksForCode(req[h])
      PROVE  Leftover'
  <2>1. req'[h] = q /\ \A g \in Handlers \ {h} : req'[g] = req[g]
    BY <1>1, <1>2 DEF Shapes
  <2> QED
    BY <1>2, <2>1, FormsStay
<1>3. UNCHANGED tab => \A t \in Tabs : SameForm(tab[t], tab'[t])
  BY DEF SameForm
<1>4. CASE FollowLink(h) \/ Exchange(h) \/ LinkFails(h)
  BY <1>2, <1>3, <1>4, RestShapes DEF FollowLink, Exchange, LinkFails, Finish, AsksForCode
<1>5. CASE SendCode(h)
  <2> DEFINE q == [req[h] EXCEPT !.pc = "save", !.held = issued["telegram"] + 1]
  <2>1. issued["telegram"] + 1 \in Tokens
    BY <1>1, <1>5, NextToken DEF SendCode, Services
  <2>2. q \in Request /\ q.pc = "save" /\ q.tab = req[h].tab
    BY <1>1, <2>1 DEF Request
  <2>3. req' = [req EXCEPT ![h] = q] /\ UNCHANGED tab /\ req[h].pc = "send"
    BY <1>1, <1>5 DEF SendCode, Shapes
  <2> HIDE DEF q
  <2> QED
    BY <1>2, <1>3, <2>2, <2>3 DEF AsksForCode
<1>6. CASE SavePending(h)
  <2>1. PICK q \in Request : /\ req' = [req EXCEPT ![h] = q]
                             /\ q.pc = "reply" /\ q.answer = "code" /\ q.tab = req[h].tab
    BY <1>1, <1>6, AnswerIs DEF SavePending
  <2>2. \A d \in Dialog, b \in BOOLEAN : SameForm(d, [d EXCEPT !.disturbed = b])
    BY DEF Dialog, SameForm
  <2>3. \A t \in Tabs : SameForm(tab[t], tab'[t])
    <3>1. ASSUME NEW t \in Tabs
          PROVE  /\ tab'[t] = [tab[t] EXCEPT !.disturbed = (t # req[h].tab)]
                 /\ tab[t] \in Dialog /\ (t # req[h].tab) \in BOOLEAN
      BY <1>1, <1>6 DEF SavePending, Shapes
    <3> QED
      BY <2>2, <3>1
  <2> QED
    BY <1>2, <1>6, <2>1, <2>3 DEF AsksForCode, SavePending
<1>7. CASE TakePending(h)
  <2>1. CASE slot["telegram"] = None
    BY <1>7, <2>1, OtherAnswer DEF TakePending
  <2>2. CASE slot["telegram"] # None
    <3> DEFINE q == [req[h] EXCEPT !.pc = "signin", !.held = slot["telegram"]]
    <3>1. q \in Request /\ q.pc = "signin"
      BY <1>1, <2>2 DEF Request, Shapes, Services
    <3>2. req' = [req EXCEPT ![h] = q] /\ Disturb(Others(h))
      BY <1>1, <1>7, <2>2 DEF TakePending, Shapes
    <3> HIDE DEF q
    <3> QED
      BY <1>1, <1>2, <3>1, <3>2, DisturbedForm DEF AsksForCode
  <2> QED
    BY <2>1, <2>2
<1>8. CASE SignedIn(h) \/ Refused(h) \/ ReturnPending(h)
  BY <1>8, OtherAnswer DEF SignedIn, Refused, ReturnPending
<1>9. CASE PasswordNeeded(h)
  <2> DEFINE q == [req[h] EXCEPT !.pc = "return"]
  <2>1. q \in Request /\ q.pc = "return"
    BY <1>1 DEF Request
  <2>2. req' = [req EXCEPT ![h] = q] /\ UNCHANGED tab
    BY <1>1, <1>9 DEF PasswordNeeded, Goto, Shapes
  <2> HIDE DEF q
  <2> QED
    BY <1>2, <1>3, <2>1, <2>2 DEF AsksForCode
<1>10. CASE CodeFails(h) \/ TakeFails(h) \/ ReturnFails(h)
  BY <1>10, OtherAnswer DEF CodeFails, TakeFails, ReturnFails
<1>11. CASE Break(h)
  <2> DEFINE q == [req[h] EXCEPT !.tab = NoTab]
             d == [tab[req[h].tab] EXCEPT !.busy = FALSE, !.disturbed = TRUE]
  <2>1. q \in Request /\ q.tab = NoTab /\ req[h].tab \in Tabs /\ NoTab \notin Tabs
    BY <1>1, <1>11, Constants DEF Request, Break
  <2>2. req' = [req EXCEPT ![h] = q] /\ tab' = [tab EXCEPT ![req[h].tab] = d]
    BY <1>1, <1>11 DEF Break, Shapes
  <2>3. tab[req[h].tab] \in Dialog
    BY <1>1, <2>1 DEF Shapes
  <2>4. SameForm(tab[req[h].tab], d)
    BY <2>3 DEF Dialog, SameForm
  <2> HIDE DEF q, d
  <2>5. \A t \in Tabs : SameForm(tab[t], tab'[t])
    BY <1>1, <2>2, <2>4 DEF Shapes, SameForm
  <2> QED
    BY <1>2, <2>1, <2>2, <2>5
<1> QED
  BY <1>4, <1>5, <1>6, <1>7, <1>8, <1>9, <1>10, <1>11 DEF HandlerStep, HandlerFails

\* The answer to a code asked for comes to the step of the phone; one that sends
\* the dialog back says so; and the form of a dialog that is done is empty.
LEMMA AnswerLeavesOwn ==
  ASSUME IInv, Leftover, NEW h \in Handlers, Reply(h)
  PROVE  Leftover'
<1>1. /\ Shapes /\ OneWaits /\ req[h] \in Request /\ req[h].pc = "reply"
      /\ req' = [req EXCEPT ![h] = IdleReq]
  BY Parts DEF Reply, Finish
<1>2. req'[h] = IdleReq /\ \A g \in Handlers \ {h} : req'[g] = req[g]
  BY <1>1 DEF Shapes
<1>3. \A t \in Tabs : t # req[h].tab => tab'[t] = tab[t]
  BY DEF Reply
<1>4. ASSUME NEW g \in Handlers PROVE OnPhone(g)'
  <2>1. CASE g = h
    BY <1>2, <2>1, RestShapes, Constants DEF OnPhone
  <2>2. CASE g # h
    <3>1. OnPhone(g) /\ req'[g] = req[g]
      BY <1>2, <2>2 DEF Leftover
    <3>2. req[g].tab \in Tabs => tab'[req[g].tab] = tab[req[g].tab]
      BY <1>1, <1>3, <2>2, Constants DEF OneWaits
    <3> QED
      BY <3>1, <3>2 DEF OnPhone, AsksForCode
  <2> QED
    BY <2>1, <2>2
<1>5. ASSUME NEW t \in Tabs PROVE PasswordIsOwn(t)'
  <2>1. CASE t # req[h].tab
    BY <1>3, <2>1 DEF PasswordIsOwn, Leftover
  <2>2. CASE t = req[h].tab
    <3> DEFINE a == req[h].answer
    <3>1. tab'[t] = [Answered(tab[t], req[h].held, a) EXCEPT !.busy = FALSE]
      BY <2>2 DEF Reply
    <3>2. tab[t] \in Dialog /\ a \in {"code", "password", "done", "restart", "error"}
      BY <1>1 DEF Shapes, OneWaits, Request
    <3>3. CASE a = "code"
      <4>1. tab[t].step = "phone"
        BY <1>1, <2>2, <3>3 DEF Leftover, OnPhone, AsksForCode
      <4>2. tab'[t].password = tab[t].password /\ tab'[t].sentBack = tab[t].sentBack
        BY <3>1, <3>2, <3>3 DEF Answered, Dialog
      <4> QED
        BY <4>1, <4>2 DEF PasswordIsOwn, Leftover
    <3>4. CASE a = "password"
      BY <3>1, <3>2, <3>4 DEF Answered, Dialog, PasswordIsOwn
    <3>5. CASE a = "done"
      BY <3>1, <3>2, <3>5 DEF Answered, Closed, Dialog, PasswordIsOwn
    <3>6. CASE a = "restart"
      BY <3>1, <3>2, <3>6 DEF Answered, Dialog, PasswordIsOwn
    <3>7. CASE a = "error"
      <4>1. SameForm(tab[t], tab'[t])
        BY <3>1, <3>2, <3>7 DEF Answered, Dialog, SameForm
      <4> QED
        BY <4>1 DEF SameForm, PasswordIsOwn, Leftover
    <3> QED
      BY <3>2, <3>3, <3>4, <3>5, <3>6, <3>7
  <2> QED
    BY <2>1, <2>2
<1> QED
  BY <1>4, <1>5 DEF Leftover

\* What the user sends: a code is asked for on the step of the phone, and a
\* password is typed on its own.
LEMMA SubmitLeavesOwn ==
  ASSUME IInv, Leftover, NEW t \in Tabs, NEW h \in Handlers, Submit(t, h)
  PROVE  Leftover'
<1>1. Shapes /\ tab[t] \in Dialog
  BY Parts DEF Shapes
<1>2. ASSUME NEW q, NEW d, req' = [req EXCEPT ![h] = q], tab' = [tab EXCEPT ![t] = d],
             d.step = tab[t].step, d.sentBack = tab[t].sentBack, q.tab = t,
             AsksForCode(q) => d.step = "phone",
             d.step = "password" \/ d.password = tab[t].password
      PROVE  Leftover'
  <2>1. /\ req'[h] = q /\ \A g \in Handlers \ {h} : req'[g] = req[g]
        /\ tab'[t] = d /\ \A u \in Tabs \ {t} : tab'[u] = tab[u]
    BY <1>1, <1>2 DEF Shapes
  <2>2. ASSUME NEW g \in Handlers PROVE OnPhone(g)'
    <3>1. CASE g = h
      BY <1>2, <2>1, <3>1 DEF OnPhone
    <3>2. CASE g # h
      BY <1>2, <2>1, <3>2 DEF OnPhone, Leftover
    <3> QED
      BY <3>1, <3>2
  <2>3. ASSUME NEW u \in Tabs PROVE PasswordIsOwn(u)'
    <3>1. CASE u = t
      BY <1>2, <2>1, <3>1 DEF PasswordIsOwn, Leftover
    <3>2. CASE u # t
      BY <2>1, <3>2 DEF PasswordIsOwn, Leftover
    <3> QED
      BY <3>1, <3>2
  <2> QED
    BY <2>2, <2>3 DEF Leftover
<1>3. CASE AskCode(t, h)
  <2> DEFINE q == [IdleReq EXCEPT !.pc = "send", !.tab = t]
             d == [tab[t] EXCEPT !.busy = TRUE]
  <2>1. q.tab = t
    BY DEF IdleReq
  <2>2. /\ d.step = tab[t].step /\ d.sentBack = tab[t].sentBack
        /\ d.password = tab[t].password
    BY <1>1 DEF Dialog
  <2>3. req' = [req EXCEPT ![h] = q] /\ tab' = [tab EXCEPT ![t] = d] /\ tab[t].step = "phone"
    BY <1>1, <1>3 DEF AskCode, Shapes
  <2> HIDE DEF q, d
  <2> QED
    BY <1>2, <2>1, <2>2, <2>3
<1>4. ASSUME NEW c \in Tokens, ConfirmCode(t, h, c) PROVE Leftover'
  <2> DEFINE q == [IdleReq EXCEPT !.pc = "take", !.tab = t, !.code = c,
                                  !.password = tab[t].password]
             d == [tab[t] EXCEPT !.busy = TRUE, !.code = c]
  <2>1. q.tab = t /\ ~AsksForCode(q)
    BY DEF IdleReq, AsksForCode
  <2>2. /\ d.step = tab[t].step /\ d.sentBack = tab[t].sentBack
        /\ d.password = tab[t].password
    BY <1>1 DEF Dialog
  <2>3. req' = [req EXCEPT ![h] = q] /\ tab' = [tab EXCEPT ![t] = d]
    BY <1>1, <1>4 DEF ConfirmCode, Shapes
  <2> HIDE DEF q, d
  <2> QED
    BY <1>2, <2>1, <2>2, <2>3
<1>5. ASSUME NEW p \in Passwords, ConfirmPassword(t, h, p) PROVE Leftover'
  <2> DEFINE q == [IdleReq EXCEPT
                     !.pc = IF tab[t].code = None THEN "reply" ELSE "take",
                     !.answer = IF tab[t].code = None THEN "error" ELSE "",
                     !.tab = t, !.code = tab[t].code, !.password = p]
             d == [tab[t] EXCEPT !.busy = TRUE, !.password = p]
  <2>1. q.tab = t /\ ~AsksForCode(q)
    BY DEF IdleReq, AsksForCode
  <2>2. d.step = tab[t].step /\ d.sentBack = tab[t].sentBack
    BY <1>1 DEF Dialog
  <2>3. /\ req' = [req EXCEPT ![h] = q] /\ tab' = [tab EXCEPT ![t] = d]
        /\ tab[t].step = "password"
    BY <1>1, <1>5 DEF ConfirmPassword, Shapes
  <2> HIDE DEF q, d
  <2> QED
    BY <1>2, <2>1, <2>2, <2>3
<1> QED
  BY <1>3, <1>4, <1>5 DEF Submit

\* Closing empties the form and goes back to the phone, and so does loading the
\* page anew.
LEMMA ScreenLeavesOwn ==
  ASSUME IInv, Leftover, NEW t \in Tabs, OpenDialog(t) \/ CloseDialog(t) \/ Reload(t)
  PROVE  Leftover'
<1>1. Shapes /\ tab[t] \in Dialog /\ \A h \in Handlers : req[h] \in Request
  BY Parts DEF Shapes
<1>2. CASE OpenDialog(t)
  <2>1. UNCHANGED req /\ \A u \in Tabs : SameForm(tab[u], tab'[u])
    BY <1>1, <1>2 DEF OpenDialog, SameForm, Shapes, Dialog
  <2> QED
    BY <2>1, FormsStay
<1>3. CASE CloseDialog(t) \/ Reload(t)
  <2>1. /\ tab'[t].step = "phone" /\ tab'[t].password = ""
        /\ \A u \in Tabs \ {t} : tab'[u] = tab[u]
    <3>1. CASE CloseDialog(t)
      <4> DEFINE b == tab[t].busy /\ tab[t].step # "phone"
      <4>1. tab'[t] = [Closed(tab[t]) EXCEPT !.disturbed = @ \/ b]
        BY <1>1, <3>1 DEF CloseDialog, Shapes
      <4> HIDE DEF b
      <4>2. tab'[t].step = "phone" /\ tab'[t].password = ""
        BY <1>1, <4>1 DEF Closed, Dialog
      <4> QED
        BY <1>1, <3>1, <4>2 DEF CloseDialog, Shapes
    <3>2. CASE Reload(t)
      BY <1>1, <3>2 DEF Reload, FreshTab, Shapes
    <3> QED
      BY <1>3, <3>1, <3>2
  <2>2. \A h \in Handlers : req'[h].tab \in Tabs => req'[h] = req[h]
    <3>1. CASE Reload(t)
      <4>1. ASSUME NEW h \in Handlers, req[h].tab = t PROVE req'[h].tab \notin Tabs
        <5>1. req'[h] = [req[h] EXCEPT !.tab = NoTab]
          BY <3>1, <4>1 DEF Reload
        <5> QED
          BY <1>1, <5>1, Constants DEF Request
      <4>2. \A h \in Handlers : req[h].tab # t => req'[h] = req[h]
        BY <3>1 DEF Reload
      <4> QED
        BY <4>1, <4>2
    <3>2. CASE CloseDialog(t)
      BY <3>2 DEF CloseDialog
    <3> QED
      BY <1>3, <3>1, <3>2
  <2> QED
    BY <2>1, <2>2 DEF Leftover, OnPhone, PasswordIsOwn
<1> QED
  BY <1>2, <1>3

LEMMA LeftoverStays ==
  ASSUME IInv, Leftover, [Next]_vars
  PROVE  Leftover'
<1>1. ASSUME NEW h \in Handlers, HandlerStep(h) PROVE Leftover'
  BY <1>1, HandlerLeavesForms, AnswerLeavesOwn
<1>2. ASSUME NEW h \in Handlers, GmailRequest(h) PROVE Leftover'
  <2>1. Shapes /\ UNCHANGED tab /\ \A t \in Tabs : SameForm(tab[t], tab'[t])
    BY <1>2, Parts DEF GmailRequest, GmailStart, GmailCallback, CallbackFails, SameForm
  <2>2. \A q : q.pc \in {"link", "exchange"} => ~AsksForCode(q)
    BY DEF AsksForCode
  <2>3. CASE GmailStart(h)
    <3> DEFINE q == [IdleReq EXCEPT !.pc = "link", !.held = issued["gmail"] + 1]
    <3>1. q.pc = "link" /\ req' = [req EXCEPT ![h] = q]
      BY <2>3 DEF GmailStart, IdleReq
    <3> HIDE DEF q
    <3> QED
      BY <2>1, <2>2, <3>1, FormsStay DEF Shapes
  <2>4. ASSUME NEW n \in links, NEW consent \in BOOLEAN, GmailCallback(h, n, consent)
        PROVE  Leftover'
    <3> DEFINE q == [IdleReq EXCEPT !.pc = "exchange", !.held = n]
    <3>1. q.pc = "exchange" /\ (req' = [req EXCEPT ![h] = q] \/ UNCHANGED req)
      BY <2>4 DEF GmailCallback, IdleReq
    <3> HIDE DEF q
    <3> QED
      BY <2>1, <2>2, <3>1, FormsStay DEF Shapes
  <2>5. ASSUME NEW n \in links, CallbackFails(h, n) PROVE Leftover'
    BY <2>1, <2>5, FormsStay DEF CallbackFails
  <2> QED
    BY <1>2, <2>3, <2>4, <2>5 DEF GmailRequest
<1>3. ASSUME NEW t \in Tabs, NEW h \in Handlers, Submit(t, h) PROVE Leftover'
  BY <1>3, SubmitLeavesOwn
<1>4. ASSUME NEW t \in Tabs, OpenDialog(t) \/ CloseDialog(t) \/ Reload(t) PROVE Leftover'
  BY <1>4, ScreenLeavesOwn
<1>5. ASSUME NEW k \in Services, Expire(k) PROVE Leftover'
  <2>1. UNCHANGED req /\ (Disturb(Tabs) \/ UNCHANGED tab)
    BY <1>5 DEF Expire
  <2> QED
    BY <2>1, Parts, DisturbedForm, FormsStay
<1>6. CASE UNCHANGED vars
  BY <1>6, FormsStay DEF vars, SameForm
<1> QED
  BY <1>1, <1>2, <1>3, <1>4, <1>5, <1>6 DEF Next

(***************************************************************************)
(* An undisturbed dialog asks for what the server waits for, and sends no  *)
(* password that was not typed for it, but the one left by an answer that  *)
(* sent it back to the phone: any tabs, any handlers under way at once,    *)
(* any order of answers, reloads, lost connections and expiries (sendCode, *)
(* confirmCode, closeTelegram, handleTelegramConfirm).                     *)
(***************************************************************************)
THEOREM DialogIsRight == Spec => []DialogAgrees
<1>1. Init => Agreement
  <2>1. Init => (\A t \in Tabs : tab[t].step = "phone") /\ \A h \in Handlers : req[h].tab = NoTab
    <3>1. FreshTab.step = "phone"
      BY DEF FreshTab
    <3> QED
      BY <3>1, RestShapes DEF Init
  <2> QED
    BY <2>1, Constants DEF Agreement, Agrees
<1>2. IInv /\ IInv' /\ Agreement /\ [Next]_vars => Agreement'
  <2> SUFFICES ASSUME IInv, IInv', Agreement, [Next]_vars PROVE Agreement'
    OBVIOUS
  <2>1. ASSUME NEW h \in Handlers, HandlerStep(h) PROVE Agreement'
    BY <2>1, AgreeOnGmail, AgreeOnLogin, AgreeOnSignIn, AgreeOnReply DEF HandlerStep
  <2>2. ASSUME NEW h \in Handlers, GmailRequest(h) PROVE Agreement'
    BY <2>2, AgreeOnGmail
  <2>3. ASSUME NEW t \in Tabs, NEW h \in Handlers, Submit(t, h) PROVE Agreement'
    BY <2>3, AgreeOnSubmit
  <2>4. ASSUME NEW t \in Tabs, OpenDialog(t) \/ CloseDialog(t) \/ Reload(t) PROVE Agreement'
    BY <2>4, AgreeOnScreen, AgreeOnReload
  <2>5. ASSUME NEW k \in Services, Expire(k) PROVE Agreement'
    BY <2>5, AgreeOnExpiry
  <2>6. CASE UNCHANGED vars
    BY <2>6 DEF vars, Agreement
  <2> QED
    BY <2>1, <2>2, <2>3, <2>4, <2>5, <2>6 DEF Next
<1>3. Init => Leftover
  <2>1. FreshTab.password = ""
    BY DEF FreshTab
  <2> QED
    BY <2>1, RestShapes, Constants DEF Init, Leftover, OnPhone, PasswordIsOwn
<1>4. IInv /\ Leftover /\ [Next]_vars => Leftover'
  BY LeftoverStays
<1>5. Agreement /\ Leftover => DialogAgrees
  BY DEF Agreement, Agrees, Leftover, AsksForLogin, DialogAgrees
<1> QED
  BY <1>1, <1>2, <1>3, <1>4, <1>5, Invariant, PTL DEF Spec

-----------------------------------------------------------------------------
(* The keys keep the promise of OneTimeKeys *)

\* Where a handler must stand to have a token of k in its hands.
Hands(k) == IF k = "gmail" THEN {"exchange"} ELSE {"save", "signin", "return"}

\* held of OneTimeKeys, as SignIn maps it.
InHands == [k \in Services |-> {n \in Tokens : \E h \in Handlers : Holds(h, k, n)}]

LEMMA HandsAre ==
  /\ \A h, k, n : Holds(h, k, n) <=> req[h].held = n /\ req[h].pc \in Hands(k)
  /\ \A h, k, n : Holds(h, k, n)' <=> req'[h].held = n /\ req'[h].pc \in Hands(k)
  /\ \A k \in Services : Hands(k) \subseteq Working
  /\ \A k, l \in Services : k # l => Hands(k) \cap Hands(l) = {}
BY DEF Holds, Hands, Services, Working

LEMMA InHandsOf ==
  /\ \A k \in Services, n \in Tokens :
       /\ n \in InHands[k] <=> \E h \in Handlers : Holds(h, k, n)
       /\ n \in InHands'[k] <=> \E h \in Handlers : Holds(h, k, n)'
  /\ \A k \in Services : InHands[k] \subseteq Tokens /\ InHands'[k] \subseteq Tokens
  /\ InHands = [k \in Services |-> InHands[k]] /\ InHands' = [k \in Services |-> InHands'[k]]
BY DEF InHands

\* Only the hands of one service change.
LEMMA HandsBecome ==
  ASSUME NEW k \in Services, NEW T, InHands'[k] = T,
         \A l \in Services : l # k => InHands'[l] = InHands[l]
  PROVE  InHands' = [InHands EXCEPT ![k] = T]
BY InHandsOf

\* A handler goes on with what it held, or held nothing and holds nothing.
LEMMA HandsStay ==
  ASSUME \A h \in Handlers, k \in Services, n \in Tokens : Holds(h, k, n)' <=> Holds(h, k, n)
  PROVE  InHands' = InHands
<1>1. \A k \in Services : InHands'[k] = InHands[k]
  BY InHandsOf
<1> QED
  BY <1>1, InHandsOf

LEMMA HandlerKeeps ==
  ASSUME IInv, NEW h \in Handlers, NEW q, req' = [req EXCEPT ![h] = q],
         \/ req[h].pc \notin Working /\ q.pc \notin Working
         \/ q.held = req[h].held /\ q.pc = req[h].pc
         \/ q.held = req[h].held /\ {q.pc, req[h].pc} \subseteq Hands("telegram")
  PROVE  InHands' = InHands
<1>1. req'[h] = q /\ \A g \in Handlers \ {h} : req'[g] = req[g]
  BY Parts DEF Shapes
<1>2. ASSUME NEW g \in Handlers, NEW k \in Services, NEW n \in Tokens
      PROVE  Holds(g, k, n)' <=> Holds(g, k, n)
  <2>1. CASE g # h
    BY <1>1, <2>1, HandsAre
  <2>2. CASE g = h
    BY <1>1, <2>2, HandsAre DEF Services
  <2> QED
    BY <2>1, <2>2
<1> QED
  BY <1>2, HandsStay

\* A token leaves the hands that held it: nobody else held it.
LEMMA HandlerLetsGo ==
  ASSUME IInv, NEW h \in Handlers, NEW q, req' = [req EXCEPT ![h] = q], NEW k \in Services,
         req[h].pc \in Hands(k), q.pc \notin Working
  PROVE  /\ req[h].held \in Tokens /\ req[h].held \in InHands[k]
         /\ InHands' = [InHands EXCEPT ![k] = @ \ {req[h].held}]
<1>1. req'[h] = q /\ (\A g \in Handlers \ {h} : req'[g] = req[g]) /\ OnePlace
  BY Parts DEF Shapes
<1>2. req[h].held \in Tokens /\ Holds(h, k, req[h].held)
  BY HandsAre, HeldIsToken
<1>3. ASSUME NEW g \in Handlers, NEW l \in Services, NEW n \in Tokens
      PROVE  Holds(g, l, n)' <=> Holds(g, l, n) /\ g # h
  <2>1. CASE g # h
    BY <1>1, <2>1, HandsAre
  <2>2. CASE g = h
    BY <1>1, <2>2, HandsAre
  <2> QED
    BY <2>1, <2>2
<1>4. \A n \in Tokens : Holds(h, k, n) <=> n = req[h].held
  BY <1>2, HandsAre
<1>5. InHands'[k] = InHands[k] \ {req[h].held}
  <2>1. ASSUME NEW n \in Tokens
        PROVE  n \in InHands'[k] <=> n \in InHands[k] /\ n # req[h].held
    <3>1. CASE n = req[h].held
      BY <1>1, <1>2, <1>3, <3>1, InHandsOf DEF OnePlace
    <3>2. CASE n # req[h].held
      BY <1>3, <1>4, <3>2, InHandsOf
    <3> QED
      BY <3>1, <3>2
  <2> QED
    BY <2>1, InHandsOf
<1>6. ASSUME NEW l \in Services, l # k PROVE InHands'[l] = InHands[l]
  <2>1. \A n \in Tokens : ~Holds(h, l, n)
    BY <1>2, <1>6, HandsAre
  <2>2. \A n \in Tokens : n \in InHands'[l] <=> n \in InHands[l]
    BY <1>3, <2>1, InHandsOf
  <2> QED
    BY <2>2, InHandsOf
<1> QED
  BY <1>2, <1>5, <1>6, HandsBecome, InHandsOf

\* A handler whose hands were empty has a token.
LEMMA HandlerReceives ==
  ASSUME IInv, NEW h \in Handlers, NEW q, req' = [req EXCEPT ![h] = q], NEW k \in Services,
         req[h].pc \notin Working, q.pc \in Hands(k), q.held \in Tokens
  PROVE  InHands' = [InHands EXCEPT ![k] = @ \union {q.held}]
<1>1. req'[h] = q /\ \A g \in Handlers \ {h} : req'[g] = req[g]
  BY Parts DEF Shapes
<1>2. ASSUME NEW g \in Handlers, NEW l \in Services, NEW n \in Tokens
      PROVE  Holds(g, l, n)' <=> Holds(g, l, n) \/ (g = h /\ l = k /\ n = q.held)
  <2>1. CASE g # h
    BY <1>1, <2>1, HandsAre
  <2>2. CASE g = h
    BY <1>1, <2>2, HandsAre
  <2> QED
    BY <2>1, <2>2
<1>3. InHands'[k] = InHands[k] \union {q.held}
  <2>1. \A n \in Tokens : n \in InHands'[k] <=> n \in InHands[k] \/ n = q.held
    BY <1>2, InHandsOf
  <2> QED
    BY <2>1, InHandsOf
<1>4. ASSUME NEW l \in Services, l # k PROVE InHands'[l] = InHands[l]
  <2>1. \A n \in Tokens : n \in InHands'[l] <=> n \in InHands[l]
    BY <1>2, <1>4, InHandsOf
  <2> QED
    BY <2>1, InHandsOf
<1> QED
  BY <1>3, <1>4, HandsBecome, InHandsOf

\* Nothing that OneTimeKeys knows of.
LEMMA NothingMoves ==
  ASSUME IInv, UNCHANGED <<slot, issued, uses>>, InHands' = InHands
  PROVE  UNCHANGED Keys!vars
BY DEF Keys!vars, InHands

LEMMA KeepsAll ==
  ASSUME IInv, UNCHANGED <<slot, issued, uses>>, NEW h \in Handlers, NEW q,
         req' = [req EXCEPT ![h] = q],
         \/ req[h].pc \notin Working /\ q.pc \notin Working
         \/ q.held = req[h].held /\ q.pc = req[h].pc
         \/ q.held = req[h].held /\ {q.pc, req[h].pc} \subseteq Hands("telegram")
  PROVE  UNCHANGED Keys!vars
BY HandlerKeeps, NothingMoves

\* A failure loses what the handler held.
LEMMA FailureDrops ==
  ASSUME IInv, UNCHANGED <<slot, issued, uses>>, NEW h \in Handlers, NEW q,
         req' = [req EXCEPT ![h] = q], NEW k \in Services,
         req[h].pc \in Hands(k), q.pc \notin Working
  PROVE  Keys!Next
<1>1. Keys!Drop(k, req[h].held) /\ req[h].held \in Tokens
  BY HandlerLetsGo DEF Keys!Drop, InHands
<1> QED
  BY <1>1 DEF Keys!Next, Tokens

LEMMA UseIsUp ==
  ASSUME IInv, UNCHANGED <<slot, issued>>, NEW h \in Handlers, NEW q,
         req' = [req EXCEPT ![h] = q], NEW k \in Services,
         req[h].pc \in Hands(k), q.pc \notin Working, Use(k, req[h].held)
  PROVE  Keys!Next
<1>1. Keys!UseUp(k, req[h].held) /\ req[h].held \in Tokens
  BY HandlerLetsGo DEF Keys!UseUp, InHands, Use
<1> QED
  BY <1>1 DEF Keys!Next, Tokens

LEMMA PutIsStore ==
  ASSUME IInv, UNCHANGED <<issued, uses>>, NEW h \in Handlers, NEW q,
         req' = [req EXCEPT ![h] = q], req[h].pc \in {"save", "return"}, q.pc \notin Working,
         Put("telegram", req[h].held)
  PROVE  Keys!Next
<1>1. req[h].pc \in Hands("telegram") /\ "telegram" \in Services
  BY DEF Hands, Services
<1>2. Keys!Store("telegram", req[h].held) /\ req[h].held \in Tokens
  BY <1>1, HandlerLetsGo DEF Keys!Store, InHands, Put
<1> QED
  BY <1>1, <1>2 DEF Keys!Next, Tokens

\* GETDEL gives the token to one handler.
LEMMA GetIsTake ==
  ASSUME IInv, UNCHANGED <<issued, uses>>, NEW h \in Handlers, NEW q,
         req' = [req EXCEPT ![h] = q], NEW k \in Services, req[h].pc \notin Working,
         q.pc \in Hands(k), q.held = slot[k], slot[k] # None, Put(k, None)
  PROVE  Keys!Next
<1>1. q.held \in Tokens
  BY Parts DEF Shapes
<1>2. InHands' = [InHands EXCEPT ![k] = @ \union {slot[k]}]
  BY <1>1, HandlerReceives
<1>3. Keys!Take(k)
  BY <1>2 DEF Keys!Take, Keys!None, None, InHands, Put
<1> QED
  BY <1>3 DEF Keys!Next

LEMMA EmptiedIsForgotten ==
  ASSUME UNCHANGED <<issued, uses>>, NEW k \in Services, Put(k, None), InHands' = InHands
  PROVE  Keys!Next
<1>1. Keys!Forget(k)
  BY DEF Keys!Forget, Keys!None, None, InHands, Put
<1> QED
  BY <1>1 DEF Keys!Next

Kept == Keys!Next \/ UNCHANGED Keys!vars

LEMMA AnswersWith ==
  ASSUME IInv, NEW h \in Handlers,
         NEW a \in {"code", "password", "done", "restart", "error"}, Answer(h, a)
  PROVE  \E q : req' = [req EXCEPT ![h] = q] /\ q.pc = "reply"
BY Parts, AnswerIs

LEMMA GmailKeepsPromise ==
  ASSUME IInv, NEW h \in Handlers, GmailRequest(h)
  PROVE  Kept
<1>1. Shapes /\ "gmail" \in Services /\ "gmail" \notin {"telegram"}
  BY Parts DEF Services
<1>2. CASE GmailStart(h)
  <2> DEFINE n == issued["gmail"] + 1
             q == [IdleReq EXCEPT !.pc = "link", !.held = n]
  <2>1. q.pc = "link" /\ req' = [req EXCEPT ![h] = q] /\ req[h].pc = "idle"
    BY <1>2 DEF GmailStart, Arrives, IdleReq
  <2> HIDE DEF q
  <2>2. InHands' = InHands
    BY <2>1, HandlerKeeps DEF Working
  <2>3. Keys!Make("gmail")
    BY <1>1, <1>2, <2>2 DEF GmailStart, Keys!Make, InHands, Put
  <2> QED
    BY <1>1, <2>3 DEF Kept, Keys!Next
<1>3. ASSUME NEW n \in links, NEW consent \in BOOLEAN, GmailCallback(h, n, consent)
      PROVE  Kept
  <2>1. UNCHANGED <<issued, uses>> /\ Put("gmail", None) /\ req[h].pc = "idle"
    BY <1>3 DEF GmailCallback, Arrives
  <2>2. CASE consent /\ n = slot["gmail"]
    <3> DEFINE q == [IdleReq EXCEPT !.pc = "exchange", !.held = n]
    <3>1. q.pc = "exchange" /\ q.held = slot["gmail"] /\ req' = [req EXCEPT ![h] = q]
      BY <1>3, <2>2 DEF GmailCallback, IdleReq
    <3>2. slot["gmail"] # None /\ q.pc \in Hands("gmail")
      BY <1>1, <2>2, <3>1, Constants DEF Shapes, Hands
    <3> HIDE DEF q
    <3>3. Keys!Next
      BY <1>1, <2>1, <3>1, <3>2, GetIsTake DEF Working
    <3> QED
      BY <3>3 DEF Kept
  <2>3. CASE ~(consent /\ n = slot["gmail"])
    <3>1. UNCHANGED req
      BY <1>3, <2>3 DEF GmailCallback
    <3>2. InHands' = InHands
      BY <3>1, HandsStay DEF Holds
    <3>3. Keys!Next
      BY <1>1, <2>1, <3>2, EmptiedIsForgotten
    <3> QED
      BY <3>3 DEF Kept
  <2> QED
    BY <2>2, <2>3
<1>4. ASSUME NEW n \in links, CallbackFails(h, n) PROVE Kept
  <2>1. UNCHANGED <<slot, issued, uses, req>>
    BY <1>4 DEF CallbackFails
  <2>2. InHands' = InHands
    BY <2>1, HandsStay DEF Holds
  <2> QED
    BY <2>1, <2>2, NothingMoves DEF Kept
<1> QED
  BY <1>2, <1>3, <1>4 DEF GmailRequest

\* The handlers of Telegram, as far as the pending login.
LEMMA LoginKeepsPromise ==
  ASSUME IInv, NEW h \in Handlers,
         SendCode(h) \/ SavePending(h) \/ TakePending(h) \/ ReturnPending(h)
  PROVE  Kept
<1>1. Shapes /\ "telegram" \in Services /\ req[h] \in Request
  BY Parts DEF Services
<1>2. CASE SendCode(h)
  <2> DEFINE n == issued["telegram"] + 1
             q == [req[h] EXCEPT !.pc = "save", !.held = n]
  <2>1. n \in Tokens /\ req[h].pc = "send" /\ UNCHANGED <<slot, uses>>
        /\ issued' = [issued EXCEPT !["telegram"] = @ + 1]
    BY <1>1, <1>2, NextToken DEF SendCode
  <2>2. q.pc \in Hands("telegram") /\ q.held = n /\ req' = [req EXCEPT ![h] = q]
    BY <1>1, <1>2 DEF SendCode, Request, Hands, Shapes
  <2> HIDE DEF n, q
  <2>3. InHands' = [InHands EXCEPT !["telegram"] = @ \union {n}]
    BY <1>1, <2>1, <2>2, HandlerReceives DEF Working
  <2>4. Keys!Make("telegram")
    BY <1>1, <2>1, <2>3 DEF Keys!Make, InHands, n
  <2> QED
    BY <1>1, <2>4 DEF Kept, Keys!Next
<1>3. CASE SavePending(h) \/ ReturnPending(h)
  <2>1. /\ UNCHANGED <<issued, uses>> /\ req[h].pc \in {"save", "return"}
        /\ Put("telegram", req[h].held)
        /\ \E a \in {"code", "password"} : Answer(h, a)
    BY <1>3 DEF SavePending, ReturnPending
  <2>2. PICK q : req' = [req EXCEPT ![h] = q] /\ q.pc = "reply"
    BY <2>1, AnswersWith
  <2> QED
    BY <2>1, <2>2, PutIsStore DEF Kept, Working
<1>4. CASE TakePending(h) /\ slot["telegram"] = None
  <2>1. UNCHANGED <<slot, issued, uses>> /\ req[h].pc = "take" /\ Answer(h, "restart")
    BY <1>1, <1>4 DEF TakePending, Put, Shapes
  <2>2. PICK q : req' = [req EXCEPT ![h] = q] /\ q.pc = "reply"
    BY <2>1, AnswersWith
  <2> QED
    BY <2>1, <2>2, KeepsAll DEF Kept, Working
<1>5. CASE TakePending(h) /\ slot["telegram"] # None
  <2> DEFINE q == [req[h] EXCEPT !.pc = "signin", !.held = slot["telegram"]]
  <2>1. UNCHANGED <<issued, uses>> /\ req[h].pc = "take" /\ Put("telegram", None)
    BY <1>5 DEF TakePending
  <2>2. q.pc \in Hands("telegram") /\ q.held = slot["telegram"] /\ req' = [req EXCEPT ![h] = q]
    BY <1>1, <1>5 DEF TakePending, Request, Hands, Shapes
  <2> HIDE DEF q
  <2> QED
    BY <1>1, <1>5, <2>1, <2>2, GetIsTake DEF Kept, Working
<1> QED
  BY <1>2, <1>3, <1>4, <1>5

\* What Telegram and Google make of a token, and what a failure makes of it.
LEMMA UseKeepsPromise ==
  ASSUME IInv, NEW h \in Handlers,
         Exchange(h) \/ SignedIn(h) \/ Refused(h) \/ PasswordNeeded(h) \/ HandlerFails(h)
  PROVE  Kept
<1>1. Shapes /\ {"gmail", "telegram"} \subseteq Services /\ req[h] \in Request
  BY Parts DEF Services
<1>2. CASE Exchange(h)
  <2>1. /\ UNCHANGED <<slot, issued>> /\ req[h].pc \in Hands("gmail")
        /\ Use("gmail", req[h].held) /\ req' = [req EXCEPT ![h] = IdleReq]
    BY <1>2 DEF Exchange, Hands, Finish
  <2> QED
    BY <1>1, <2>1, UseIsUp, RestShapes DEF Kept, Working
<1>3. CASE SignedIn(h) \/ Refused(h)
  <2>1. /\ UNCHANGED <<slot, issued>> /\ req[h].pc \in Hands("telegram")
        /\ Use("telegram", req[h].held)
        /\ \E a \in {"done", "error", "restart"} : Answer(h, a)
    BY <1>3 DEF SignedIn, Refused, Hands
  <2>2. PICK q : req' = [req EXCEPT ![h] = q] /\ q.pc = "reply"
    BY <2>1, AnswersWith
  <2> QED
    BY <1>1, <2>1, <2>2, UseIsUp DEF Kept, Working
<1>4. CASE PasswordNeeded(h)
  <2> DEFINE q == [req[h] EXCEPT !.pc = "return"]
  <2>1. /\ UNCHANGED <<slot, issued, uses>> /\ req' = [req EXCEPT ![h] = q]
        /\ q.held = req[h].held /\ {q.pc, req[h].pc} \subseteq Hands("telegram")
    BY <1>1, <1>4 DEF PasswordNeeded, Goto, Request, Hands, Shapes
  <2> HIDE DEF q
  <2> QED
    BY <2>1, KeepsAll DEF Kept
<1>5. CASE HandlerFails(h)
  <2>1. UNCHANGED <<slot, issued, uses>> /\ req[h].pc \in {"send", "save", "return", "take", "link"}
    BY <1>5, FailureIs
  <2>2. PICK q : req' = [req EXCEPT ![h] = q] /\ q.pc \notin Working
    <3>1. CASE req[h].pc = "link"
      <4>1. req' = [req EXCEPT ![h] = IdleReq] /\ IdleReq.pc \notin Working
        BY <1>5, <3>1, RestShapes, FailureIs DEF Finish, Working
      <4> QED
        BY <4>1
    <3>2. CASE req[h].pc # "link"
      <4>1. Answer(h, "error") \/ Answer(h, "restart")
        BY <1>5, <3>2, FailureIs
      <4>2. PICK q : req' = [req EXCEPT ![h] = q] /\ q.pc = "reply"
        BY <4>1, AnswersWith
      <4> QED
        BY <4>2 DEF Working
    <3> QED
      BY <3>1, <3>2
  <2>3. CASE req[h].pc \in {"save", "return"}
    <3>1. req[h].pc \in Hands("telegram")
      BY <2>3 DEF Hands
    <3> QED
      BY <1>1, <2>1, <2>2, <3>1, FailureDrops DEF Kept
  <2>4. CASE req[h].pc \in {"send", "take", "link"}
    BY <2>1, <2>2, <2>4, KeepsAll DEF Kept, Working
  <2> QED
    BY <2>1, <2>3, <2>4
<1> QED
  BY <1>2, <1>3, <1>4, <1>5

\* Answers, links and broken connections move no token.
LEMMA ReplyKeepsPromise ==
  ASSUME IInv, NEW h \in Handlers, FollowLink(h) \/ Reply(h) \/ Break(h)
  PROVE  Kept
<1>1. Shapes /\ req[h] \in Request /\ UNCHANGED <<slot, issued, uses>>
  BY Parts DEF FollowLink, Reply, Break
<1>2. CASE FollowLink(h) \/ Reply(h)
  <2>1. req' = [req EXCEPT ![h] = IdleReq] /\ req[h].pc \in {"link", "reply"}
    BY <1>2 DEF FollowLink, Reply, Finish
  <2> QED
    BY <1>1, <2>1, RestShapes, KeepsAll DEF Kept, Working
<1>3. CASE Break(h)
  <2> DEFINE q == [req[h] EXCEPT !.tab = NoTab]
  <2>1. req' = [req EXCEPT ![h] = q] /\ q.held = req[h].held /\ q.pc = req[h].pc
    BY <1>1, <1>3 DEF Break, Request, Shapes
  <2> HIDE DEF q
  <2> QED
    BY <1>1, <2>1, KeepsAll DEF Kept
<1> QED
  BY <1>2, <1>3

\* Requests of the dialog begin with empty hands.
LEMMA SubmitKeepsPromise ==
  ASSUME IInv, NEW t \in Tabs, NEW h \in Handlers, Submit(t, h)
  PROVE  Kept
<1>1. UNCHANGED <<slot, issued, uses>> /\ req[h].pc = "idle"
  BY DEF Submit, AskCode, ConfirmCode, ConfirmPassword, Arrives
<1>2. ASSUME NEW q, req' = [req EXCEPT ![h] = q], q.pc \in {"send", "take", "reply"}
      PROVE  Kept
  BY <1>1, <1>2, KeepsAll DEF Kept, Working
<1>3. CASE AskCode(t, h)
  <2> DEFINE q == [IdleReq EXCEPT !.pc = "send", !.tab = t]
  <2>1. req' = [req EXCEPT ![h] = q] /\ q.pc = "send"
    BY <1>3 DEF AskCode, IdleReq
  <2> QED
    BY <1>2, <2>1
<1>4. ASSUME NEW c \in Tokens, ConfirmCode(t, h, c) PROVE Kept
  <2> DEFINE q == [IdleReq EXCEPT !.pc = "take", !.tab = t, !.code = c,
                                  !.password = tab[t].password]
  <2>1. req' = [req EXCEPT ![h] = q] /\ q.pc = "take"
    BY <1>4 DEF ConfirmCode, IdleReq
  <2> QED
    BY <1>2, <2>1
<1>5. ASSUME NEW p \in Passwords, ConfirmPassword(t, h, p) PROVE Kept
  <2> DEFINE q == [IdleReq EXCEPT
                     !.pc = IF tab[t].code = None THEN "reply" ELSE "take",
                     !.answer = IF tab[t].code = None THEN "error" ELSE "",
                     !.tab = t, !.code = tab[t].code, !.password = p]
  <2>1. req' = [req EXCEPT ![h] = q] /\ q.pc \in {"take", "reply"}
    BY <1>5 DEF ConfirmPassword, IdleReq
  <2> QED
    BY <1>2, <2>1
<1> QED
  BY <1>3, <1>4, <1>5 DEF Submit

\* Opening, closing, loading anew, and the expiry of a key.
LEMMA ScreenKeepsPromise ==
  ASSUME IInv
  PROVE  /\ \A t \in Tabs : OpenDialog(t) \/ CloseDialog(t) \/ Reload(t) => Kept
         /\ \A k \in Services : Expire(k) => Kept
<1>1. ASSUME NEW t \in Tabs, OpenDialog(t) \/ CloseDialog(t) \/ Reload(t) PROVE Kept
  <2>1. UNCHANGED <<slot, issued, uses>>
    BY <1>1 DEF OpenDialog, CloseDialog, Reload
  <2>2. ASSUME NEW h \in Handlers PROVE req'[h].held = req[h].held /\ req'[h].pc = req[h].pc
    <3>1. CASE Reload(t)
      BY <3>1, Parts DEF Reload, Request
    <3>2. CASE ~Reload(t)
      BY <1>1, <3>2 DEF OpenDialog, CloseDialog
    <3> QED
      BY <3>1, <3>2
  <2>3. InHands' = InHands
    BY <2>2, HandsStay, HandsAre
  <2> QED
    BY <2>1, <2>3, NothingMoves DEF Kept
<1>2. ASSUME NEW k \in Services, Expire(k) PROVE Kept
  <2>1. UNCHANGED <<issued, uses, req>> /\ Put(k, None)
    BY <1>2 DEF Expire
  <2>2. InHands' = InHands
    BY <2>1, HandsStay DEF Holds
  <2> QED
    BY <2>1, <2>2, EmptiedIsForgotten DEF Kept
<1> QED
  BY <1>1, <1>2

(***************************************************************************)
(* Redis keys and handlers together keep the promise of one-time keys: the *)
(* state of Google and the pending login are never in two places, are used *)
(* only from the hands GETDEL gave them to, and once; for any number of    *)
(* tabs, of handlers at once and of tokens (NewOAuthState, TakeOAuthState, *)
(* SavePending, TakePending, handleTelegramConfirm).                       *)
(***************************************************************************)
THEOREM KeysRefined == Spec => ImplementsOneTimeKeys
<1>1. Init => Keys!Init
  <2> SUFFICES ASSUME Init PROVE Keys!Init
    OBVIOUS
  <2>1. \A h \in Handlers, k \in Services, n \in Tokens : ~Holds(h, k, n)
    BY RestShapes, HandsAre DEF Init, Working
  <2> QED
    BY <2>1 DEF Init, Keys!Init, Keys!None, None, Tokens
<1>2. IInv /\ [Next]_vars => [Keys!Next]_Keys!vars
  <2> SUFFICES ASSUME IInv, [Next]_vars PROVE Kept
    BY DEF Kept
  <2>1. CASE Next
    BY <2>1, GmailKeepsPromise, LoginKeepsPromise, UseKeepsPromise, ReplyKeepsPromise,
       SubmitKeepsPromise, ScreenKeepsPromise DEF Next, HandlerStep
  <2>2. CASE UNCHANGED vars
    <3>1. InHands' = InHands
      BY <2>2, HandsStay DEF vars, Holds
    <3> QED
      BY <2>2, <3>1, NothingMoves DEF vars, Kept
  <2> QED
    BY <2>1, <2>2
<1> QED
  BY <1>1, <1>2, Invariant, PTL DEF Spec, ImplementsOneTimeKeys, Keys!Spec
=============================================================================
