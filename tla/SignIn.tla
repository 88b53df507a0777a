------------------------------- MODULE SignIn -------------------------------
(***************************************************************************)
(* How a source is signed in, up to the credentials that Connections       *)
(* stores: the OAuth state of Gmail and the pending login of Telegram,     *)
(* each a single key of the user in Redis that is taken by GETDEL          *)
(* (internal/redis, routers/connections.go, telegram.SignIn), and the      *)
(* dialog of the connections screen that leads through phone, code and     *)
(* password (ConnectionsScreen.tsx), in several tabs at once.              *)
(*                                                                         *)
(* States and logins are tokens, numbered as they are made.  A login's     *)
(* number is also the code that Telegram sends for it, which is what the   *)
(* user types.  Google and Telegram are modelled from their use here.      *)
(***************************************************************************)
EXTENDS Naturals

CONSTANTS Tabs, Handlers,
          NoTab,                    \* of a request nobody waits for
          MaxTokens, MaxRequests    \* bounds for TLC

ASSUME ConstantsOK == NoTab \notin Tabs /\ {MaxTokens, MaxRequests} \subseteq Nat

VARIABLES slot,         \* Redis: service |-> the token under the user's key
          issued,       \* service |-> how many tokens were made
          links,        \* states of the consent pages the browser was sent to
          req,          \* local state of the handlers
          tab,          \* state of the dialog in each tab, and three histories:
                        \* the login it is about, whether an answer sent it back
                        \* to the phone since it was closed last, and whether
                        \* anything from outside came between it and the server
          uses,         \* history: service |-> token |-> how often it was used
          requests

vars == <<slot, issued, links, req, tab, uses, requests>>

Services == {"gmail", "telegram"}
None == 0
Tokens == 1..MaxTokens
Passwords == {"", "wrong", "right"}

IdleReq == [pc |-> "idle", tab |-> NoTab, held |-> None, code |-> None,
            password |-> "", answer |-> ""]
FreshTab == [open |-> FALSE, step |-> "phone", code |-> None, password |-> "",
             busy |-> FALSE, login |-> None, sentBack |-> FALSE, disturbed |-> FALSE]

Init == /\ slot = [k \in Services |-> None]
        /\ issued = [k \in Services |-> 0]
        /\ links = {}
        /\ req = [h \in Handlers |-> IdleReq]
        /\ tab = [t \in Tabs |-> FreshTab]
        /\ uses = [k \in Services |-> [n \in Tokens |-> 0]]
        /\ requests = 0

Arrives(h) == /\ req[h].pc = "idle"
              /\ requests < MaxRequests
              /\ requests' = requests + 1
Goto(h, pc) == req' = [req EXCEPT ![h].pc = pc]
Answer(h, answer) == req' = [req EXCEPT ![h].pc = "reply", ![h].answer = answer]
Finish(h) == req' = [req EXCEPT ![h] = IdleReq]

Put(k, n) == slot' = [slot EXCEPT ![k] = n]
Use(k, n) == uses' = [uses EXCEPT ![k][n] = @ + 1]

\* The dialogs of the given tabs can no longer count on what the server holds.
Disturb(tabs) ==
  tab' = [t \in Tabs |-> IF t \in tabs THEN [tab[t] EXCEPT !.disturbed = TRUE] ELSE tab[t]]
Others(h) == Tabs \ {req[h].tab}

-----------------------------------------------------------------------------
(* Gmail: handleGmailStart, handleGmailCallback *)

\* Mutant: a state that still waits is left.
StateIfNone(h) ==
  /\ Arrives(h)
  /\ issued["gmail"] < MaxTokens
  /\ issued' = [issued EXCEPT !["gmail"] = @ + 1]
  /\ Put("gmail", IF slot["gmail"] = None THEN issued["gmail"] + 1 ELSE slot["gmail"])
  /\ req' = [req EXCEPT ![h] = [IdleReq EXCEPT !.pc = "link", !.held = issued["gmail"] + 1]]
  /\ UNCHANGED <<links, tab, uses>>

\* NewOAuthState: a new state replaces the one that waits.
GmailStart(h) ==
  /\ Arrives(h)
  /\ issued["gmail"] < MaxTokens
  /\ issued' = [issued EXCEPT !["gmail"] = @ + 1]
  /\ Put("gmail", issued["gmail"] + 1)
  /\ req' = [req EXCEPT ![h] = [IdleReq EXCEPT !.pc = "link", !.held = issued["gmail"] + 1]]
  /\ UNCHANGED <<links, tab, uses>>

\* The browser leaves for Google's page (connectGmail).
FollowLink(h) ==
  /\ req[h].pc = "link"
  /\ links' = links \union {req[h].held}
  /\ Finish(h)
  /\ UNCHANGED <<slot, issued, tab, uses, requests>>

\* Google redirects back, with a code if the user consented; the browser may
\* repeat it.  TakeOAuthState comes first, whatever the callback carries.
GmailCallback(h, n, consent) ==
  /\ Arrives(h)
  /\ n \in links
  /\ Put("gmail", None)
  /\ IF consent /\ n = slot["gmail"]
     THEN req' = [req EXCEPT ![h] = [IdleReq EXCEPT !.pc = "exchange", !.held = n]]
     ELSE UNCHANGED req
  /\ UNCHANGED <<issued, links, tab, uses>>

\* Redis does not answer TakeOAuthState: the callback is refused.
CallbackFails(h, n) ==
  /\ Arrives(h)
  /\ n \in links
  /\ UNCHANGED <<slot, issued, links, req, tab, uses>>

\* ExchangeCode: credentials, or an error; the state is used up either way.
Exchange(h) ==
  /\ req[h].pc = "exchange"
  /\ Use("gmail", req[h].held)
  /\ Finish(h)
  /\ UNCHANGED <<slot, issued, links, tab, requests>>

-----------------------------------------------------------------------------
(* Telegram: handleTelegramStart *)

\* "Получить код".
AskCode(t, h) ==
  /\ Arrives(h)
  /\ tab[t].open /\ tab[t].step = "phone" /\ ~tab[t].busy
  /\ tab' = [tab EXCEPT ![t].busy = TRUE]
  /\ req' = [req EXCEPT ![h] = [IdleReq EXCEPT !.pc = "send", !.tab = t]]
  /\ UNCHANGED <<slot, issued, links, uses>>

SendCode(h) ==
  /\ req[h].pc = "send"
  /\ issued["telegram"] < MaxTokens
  /\ issued' = [issued EXCEPT !["telegram"] = @ + 1]
  /\ req' = [req EXCEPT ![h].pc = "save", ![h].held = issued["telegram"] + 1]
  /\ UNCHANGED <<slot, links, tab, uses, requests>>

SavePending(h) ==
  /\ req[h].pc = "save"
  /\ Put("telegram", req[h].held)
  /\ Answer(h, "code")
  /\ tab' = [t \in Tabs |-> [tab[t] EXCEPT !.disturbed = t # req[h].tab]]
  /\ UNCHANGED <<issued, links, uses, requests>>

-----------------------------------------------------------------------------
(* Telegram: handleTelegramConfirm *)

\* The code is typed on its step; the password is what was typed last, if ever.
ConfirmCode(t, h, code) ==
  /\ Arrives(h)
  /\ tab[t].open /\ tab[t].step = "code" /\ ~tab[t].busy
  /\ code \in 1..issued["telegram"]
  /\ tab' = [tab EXCEPT ![t].busy = TRUE, ![t].code = code]
  /\ req' = [req EXCEPT ![h] = [IdleReq EXCEPT !.pc = "take", !.tab = t, !.code = code,
                                               !.password = tab[t].password]]
  /\ UNCHANGED <<slot, issued, links, uses>>

\* On the password step the code is sent again; without one the answer is 422.
ConfirmPassword(t, h, password) ==
  /\ Arrives(h)
  /\ tab[t].open /\ tab[t].step = "password" /\ ~tab[t].busy
  /\ password # ""
  /\ tab' = [tab EXCEPT ![t].busy = TRUE, ![t].password = password]
  /\ req' = [req EXCEPT ![h] = [IdleReq EXCEPT
               !.pc = IF tab[t].code = None THEN "reply" ELSE "take",
               !.answer = IF tab[t].code = None THEN "error" ELSE "",
               !.tab = t, !.code = tab[t].code, !.password = password]]
  /\ UNCHANGED <<slot, issued, links, uses>>

\* Mutant: the pending login is read and left where it is.
ReadsPending(h) ==
  /\ req[h].pc = "take"
  /\ IF slot["telegram"] = None THEN Answer(h, "restart")
     ELSE req' = [req EXCEPT ![h].pc = "signin", ![h].held = slot["telegram"]]
  /\ UNCHANGED <<slot, issued, links, tab, uses, requests>>

TakePending(h) ==
  /\ req[h].pc = "take"
  /\ Put("telegram", None)
  /\ IF slot["telegram"] = None
     THEN Answer(h, "restart") /\ UNCHANGED tab
     ELSE /\ req' = [req EXCEPT ![h].pc = "signin", ![h].held = slot["telegram"]]
          /\ Disturb(Others(h))
  /\ UNCHANGED <<issued, links, uses, requests>>

\* The code is right and so is the password, or the account has none: there are
\* credentials, which a statement that fails may lose.
SignedIn(h) ==
  /\ req[h].pc = "signin"
  /\ req[h].code = req[h].held
  /\ req[h].password # "wrong"
  /\ Use("telegram", req[h].held)
  /\ \/ Answer(h, "done") /\ UNCHANGED tab
     \/ Answer(h, "error") /\ Disturb({req[h].tab})
  /\ UNCHANGED <<slot, issued, links, requests>>

\* A wrong code, a wrong password, or any other error of SignIn.
Refused(h) ==
  /\ req[h].pc = "signin"
  /\ Use("telegram", req[h].held)
  /\ Answer(h, "restart")
  /\ UNCHANGED <<slot, issued, links, tab, requests>>

\* ErrPasswordNeeded: the code was right, no password was given.
PasswordNeeded(h) ==
  /\ req[h].pc = "signin"
  /\ req[h].code = req[h].held
  /\ req[h].password = ""
  /\ Goto(h, "return")
  /\ UNCHANGED <<slot, issued, links, tab, uses, requests>>

\* Mutant: the login is not put back.
ForgetsPending(h) ==
  /\ req[h].pc = "return"
  /\ Answer(h, "password")
  /\ UNCHANGED <<slot, issued, links, tab, uses, requests>>

\* The login goes back as it was taken, over whatever is there by now.
ReturnPending(h) ==
  /\ req[h].pc = "return"
  /\ Put("telegram", req[h].held)
  /\ Answer(h, "password")
  /\ Disturb(Others(h))
  /\ UNCHANGED <<issued, links, uses, requests>>

-----------------------------------------------------------------------------
(* Failures of handlers, of Redis, and of the network *)

\* Redis or Telegram fails, or the client has left and its context is cancelled:
\* no state could be stored for the link,
LinkFails(h) ==
  /\ req[h].pc = "link"
  /\ Finish(h)
  /\ UNCHANGED <<slot, issued, links, tab, uses, requests>>

\* no code could be sent, or its login not be stored,
CodeFails(h) ==
  /\ req[h].pc \in {"send", "save"}
  /\ Answer(h, "error")
  /\ UNCHANGED <<slot, issued, links, tab, uses, requests>>

\* the login could not be fetched, which is answered as if there were none,
TakeFails(h) ==
  /\ req[h].pc = "take"
  /\ Answer(h, "restart")
  /\ UNCHANGED <<slot, issued, links, tab, uses, requests>>

\* or not be put back: it is lost.
ReturnFails(h) ==
  /\ req[h].pc = "return"
  /\ Answer(h, "error")
  /\ Disturb({req[h].tab})
  /\ UNCHANGED <<slot, issued, links, uses, requests>>

HandlerFails(h) == LinkFails(h) \/ CodeFails(h) \/ TakeFails(h) \/ ReturnFails(h)

\* PendingTTL, OAuthStateTTL.
Expire(k) ==
  /\ slot[k] # None
  /\ Put(k, None)
  /\ IF k = "telegram" THEN Disturb(Tabs) ELSE UNCHANGED tab
  /\ UNCHANGED <<issued, links, req, uses, requests>>

\* The connection breaks: the dialog gets an error, the handler goes on.
Break(h) ==
  /\ req[h].tab # NoTab
  /\ tab' = [tab EXCEPT ![req[h].tab].busy = FALSE, ![req[h].tab].disturbed = TRUE]
  /\ req' = [req EXCEPT ![h].tab = NoTab]
  /\ UNCHANGED <<slot, issued, links, uses, requests>>

-----------------------------------------------------------------------------
(* The dialog: ConnectionsScreen *)

OpenDialog(t) ==
  /\ ~tab[t].open
  /\ tab' = [tab EXCEPT ![t].open = TRUE]
  /\ UNCHANGED <<slot, issued, links, req, uses, requests>>

\* Mutant: the password stays in its field.
KeepsPassword(d) == [d EXCEPT !.open = FALSE, !.step = "phone", !.code = None,
                              !.sentBack = FALSE]

Closed(d) == [d EXCEPT !.open = FALSE, !.step = "phone", !.code = None, !.password = "",
                       !.sentBack = FALSE]

\* closeTelegram does not wait for the answer to a request under way.
CloseDialog(t) ==
  /\ tab[t].open
  /\ tab' = [tab EXCEPT ![t] = [Closed(tab[t]) EXCEPT
               !.disturbed = @ \/ (tab[t].busy /\ tab[t].step # "phone")]]
  /\ UNCHANGED <<slot, issued, links, req, uses, requests>>

\* What sendCode and confirmCode make of an answer. Going back to the phone they
\* leave code and password in their fields.
Answered(d, login, answer) ==
  CASE answer = "code" -> [d EXCEPT !.step = "code", !.login = login]
    [] answer = "password" -> [d EXCEPT !.step = "password"]
    [] answer = "done" -> Closed(d)
    [] answer = "restart" -> [d EXCEPT !.step = "phone", !.sentBack = TRUE]
    [] answer = "error" -> d

\* Mutant: busy is reset after a success only.
BusyAfterError(h) ==
  /\ req[h].pc = "reply"
  /\ tab' = [t \in Tabs |-> IF t # req[h].tab THEN tab[t]
               ELSE [Answered(tab[t], req[h].held, req[h].answer) EXCEPT
                       !.busy = req[h].answer \in {"restart", "error"}]]
  /\ Finish(h)
  /\ UNCHANGED <<slot, issued, links, uses, requests>>

Reply(h) ==
  /\ req[h].pc = "reply"
  /\ tab' = [t \in Tabs |-> IF t # req[h].tab THEN tab[t]
               ELSE [Answered(tab[t], req[h].held, req[h].answer) EXCEPT !.busy = FALSE]]
  /\ Finish(h)
  /\ UNCHANGED <<slot, issued, links, uses, requests>>

\* The page is loaded anew; nobody waits for its requests.
Reload(t) ==
  /\ tab' = [tab EXCEPT ![t] = FreshTab]
  /\ req' = [h \in Handlers |-> IF req[h].tab = t THEN [req[h] EXCEPT !.tab = NoTab]
                                ELSE req[h]]
  /\ UNCHANGED <<slot, issued, links, uses, requests>>

HandlerStep(h) ==
  \/ FollowLink(h) \/ Exchange(h)
  \/ SendCode(h) \/ SavePending(h) \/ TakePending(h)
  \/ SignedIn(h) \/ Refused(h) \/ PasswordNeeded(h) \/ ReturnPending(h)
  \/ HandlerFails(h) \/ Reply(h) \/ Break(h)

GmailRequest(h) ==
  \/ GmailStart(h)
  \/ \E n \in links : \/ \E consent \in BOOLEAN : GmailCallback(h, n, consent)
                      \/ CallbackFails(h, n)

Submit(t, h) ==
  \/ AskCode(t, h)
  \/ \E code \in Tokens : ConfirmCode(t, h, code)
  \/ \E password \in Passwords : ConfirmPassword(t, h, password)

Next ==
  \/ \E h \in Handlers : \/ HandlerStep(h) \/ GmailRequest(h)
                         \/ \E t \in Tabs : Submit(t, h)
  \/ \E t \in Tabs : OpenDialog(t) \/ CloseDialog(t) \/ Reload(t)
  \/ \E k \in Services : Expire(k)

Spec == Init /\ [][Next]_vars

-----------------------------------------------------------------------------
(* Properties *)

(***************************************************************************)
(* The variables keep their shape: no token is anywhere before it was      *)
(* made, and a dialog waits exactly as long as a request of its own.       *)
(***************************************************************************)
Request == [pc : {"idle", "link", "exchange", "send", "save", "take", "signin", "return",
                  "reply"},
            tab : Tabs \union {NoTab}, held : Tokens \union {None},
            code : Tokens \union {None}, password : Passwords,
            answer : {"", "code", "password", "done", "restart", "error"}]
Dialog == [open : BOOLEAN, step : {"phone", "code", "password"},
           code : Tokens \union {None}, password : Passwords, busy : BOOLEAN,
           login : Tokens \union {None}, sentBack : BOOLEAN, disturbed : BOOLEAN]

WaitsFor(t, h) == req[h].tab = t

TypeOK ==
  /\ issued \in [Services -> 0..MaxTokens]
  /\ slot \in [Services -> Tokens \union {None}]
  /\ \A k \in Services : slot[k] <= issued[k]
  /\ links \subseteq 1..issued["gmail"]
  /\ req \in [Handlers -> Request] /\ tab \in [Tabs -> Dialog]
  /\ uses \in [Services -> [Tokens -> Nat]] /\ requests \in 0..MaxRequests
  /\ \A t \in Tabs : tab[t].busy <=> \E h \in Handlers : WaitsFor(t, h)

(***************************************************************************)
(* A state of Google and a pending login of Telegram are used once at      *)
(* most, however callbacks and confirmations repeat and overlap: what was  *)
(* used, with success or not, is nowhere to be taken again (GETDEL in      *)
(* TakeOAuthState and TakePending; decision 52).                           *)
(***************************************************************************)
Holds(h, k, n) ==
  req[h].held = n /\ req[h].pc \in IF k = "gmail" THEN {"exchange"}
                                                 ELSE {"save", "signin", "return"}

OneUse ==
  \A k \in Services, n \in Tokens :
    /\ uses[k][n] <= 1
    /\ uses[k][n] = 1 => slot[k] # n /\ \A h \in Handlers : ~Holds(h, k, n)

(***************************************************************************)
(* Only the link given out last is accepted: a second start, in another    *)
(* tab say, makes the first one's consent worthless (NewOAuthState).       *)
(***************************************************************************)
LatestLinkOnly ==
  [][\A h \in Handlers : req'[h].pc = "exchange" /\ req[h].pc # "exchange"
         => req'[h].held = issued["gmail"]]_vars

(***************************************************************************)
(* The user's keys are what OneTimeKeys promises: a state or a pending     *)
(* login is in one place, whatever handlers overlap, fail or are abandoned;*)
(* only what GETDEL gave is used, and it is used up by that; a failure     *)
(* loses it and never doubles it; only a login goes back, and only from    *)
(* the hands that took it; and Gmail's key holds the newest state or none. *)
(***************************************************************************)
Keys == INSTANCE OneTimeKeys WITH
          key <- slot, made <- issued, used <- uses, Returning <- {"telegram"},
          held <- [k \in Services |-> {n \in Tokens : \E h \in Handlers : Holds(h, k, n)}]
ImplementsOneTimeKeys == Keys!Spec

(***************************************************************************)
(* A dialog that asks for the code or the password asks for what the       *)
(* server waits for, with the code already typed in the second case;       *)
(* unless another tab or an abandoned request came between, the login      *)
(* expired, the server failed to put it back or to store the credentials,  *)
(* the connection broke, or the dialog was closed while it waited.  And a  *)
(* password is sent unasked, along with a code, only after an answer sent  *)
(* the dialog back to the phone: confirmCode sends what is in the field,   *)
(* and what was typed there before stays.  If that password was refused,   *)
(* the next code is refused for it though it is right: even undisturbed,   *)
(* the right code then signs nobody in.  Nothing is left of an earlier     *)
(* dialog (sendCode, confirmCode, closeTelegram; handleTelegramConfirm).   *)
(***************************************************************************)
AsksForLogin(t) ==
  tab[t].step # "phone" /\ ~tab[t].busy /\ ~tab[t].disturbed
    => /\ slot["telegram"] = tab[t].login
       /\ tab[t].step = "password" => tab[t].code = tab[t].login

PasswordIsOwn(t) ==
  tab[t].step # "password" /\ tab[t].password # "" => tab[t].sentBack

DialogAgrees == \A t \in Tabs : AsksForLogin(t) /\ PasswordIsOwn(t)
=============================================================================
