---------------------------- MODULE MCConnections ----------------------------
(* Instance of Connections for TLC. *)
EXTENDS Connections

CONSTANTS gmail, telegram, h1, h2
=============================================================================
