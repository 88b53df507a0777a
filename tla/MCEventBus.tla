------------------------------ MODULE MCEventBus ------------------------------
(* Instance of EventBus for TLC: a stream for each of two users. *)
EXTENDS EventBus, TLC

CONSTANTS u1, u2, s1, s2

Streams == (s1 :> u1) @@ (s2 :> u2)
=============================================================================
