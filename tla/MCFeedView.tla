------------------------------ MODULE MCFeedView ------------------------------
(* Instance of FeedView for TLC. *)
EXTENDS FeedView, TLC

CONSTANTS m1, m2, gmail, telegram, r1, r2, nobody

TwoSources == m1 :> gmail @@ m2 :> telegram

\* The messages are alike, each in its own source.
Swap == m1 :> m2 @@ m2 :> m1 @@ gmail :> telegram @@ telegram :> gmail
Symmetric == Permutations({r1, r2}) \union {Swap}
=============================================================================
