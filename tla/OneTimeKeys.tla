------------------------------ MODULE OneTimeKeys ------------------------------
(***************************************************************************)
(* What a key of the user in Redis that is taken by GETDEL promises,       *)
(* without the requests, the dialog or the ways things fail: a token is    *)
(* under its key, or in one pair of hands, or gone; it is used from the    *)
(* hands only and leaves them by that.  Where nothing is given back the    *)
(* key holds the token made last.  SignIn implements this.                 *)
(***************************************************************************)
EXTENDS Naturals

CONSTANTS Services,
          Returning,    \* those that may put a token back after they took it
          MaxTokens

VARIABLES key,          \* service |-> the token that waits, or None
          made,         \* service |-> how many tokens were made
          held,         \* service |-> tokens in somebody's hands
          used          \* service |-> token |-> how often it was used

vars == <<key, made, held, used>>

None == 0

Init == /\ key = [k \in Services |-> None]
        /\ made = [k \in Services |-> 0]
        /\ held = [k \in Services |-> {}]
        /\ used = [k \in Services |-> [n \in 1..MaxTokens |-> 0]]

\* A new token: into the hands of whoever will put it, or at once over the old one.
Make(k) ==
  /\ made' = [made EXCEPT ![k] = @ + 1]
  /\ IF k \in Returning
     THEN held' = [held EXCEPT ![k] = @ \union {made[k] + 1}] /\ UNCHANGED key
     ELSE key' = [key EXCEPT ![k] = made[k] + 1] /\ UNCHANGED held
  /\ UNCHANGED used

Take(k) == /\ key[k] # None
           /\ key' = [key EXCEPT ![k] = None]
           /\ held' = [held EXCEPT ![k] = @ \union {key[k]}]
           /\ UNCHANGED <<made, used>>

\* Over whatever is there by now.
Store(k, n) == /\ k \in Returning /\ n \in held[k]
               /\ key' = [key EXCEPT ![k] = n]
               /\ held' = [held EXCEPT ![k] = @ \ {n}]
               /\ UNCHANGED <<made, used>>

UseUp(k, n) == /\ n \in held[k]
               /\ used' = [used EXCEPT ![k][n] = @ + 1]
               /\ held' = [held EXCEPT ![k] = @ \ {n}]
               /\ UNCHANGED <<key, made>>

\* What waits is lost, or what somebody held.
Forget(k) == key' = [key EXCEPT ![k] = None] /\ UNCHANGED <<made, held, used>>
Drop(k, n) == n \in held[k] /\ held' = [held EXCEPT ![k] = @ \ {n}] /\ UNCHANGED <<key, made, used>>

Next == \E k \in Services :
          \/ Make(k) \/ Take(k) \/ Forget(k)
          \/ \E n \in 1..MaxTokens : Store(k, n) \/ UseUp(k, n) \/ Drop(k, n)

Spec == Init /\ [][Next]_vars
=============================================================================
