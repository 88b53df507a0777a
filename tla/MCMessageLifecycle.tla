------------------------- MODULE MCMessageLifecycle -------------------------
(* MessageLifecycle over small sets of ids, requests, criteria and levels. *)
EXTENDS MessageLifecycle, TLC

CONSTANTS h1, h2, c1, c2

OneHandler == {h1}
TwoHandlers == {h1, h2}
TwoCriteria == {c1, c2}
TwoLevels == {"NORMAL", "HIGH"}
OneLevel == {"NORMAL"}
=============================================================================
