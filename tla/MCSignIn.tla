------------------------------- MODULE MCSignIn -------------------------------
(* Instance of SignIn for TLC. *)
EXTENDS SignIn, TLC

CONSTANTS t1, t2, h1, h2, nobody

Symmetric == Permutations({t1, t2}) \union Permutations({h1, h2})
=============================================================================
