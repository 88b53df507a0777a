---------------------------- MODULE MCTelegramSync ----------------------------
(* TLC instance of TelegramSync. *)
EXTENDS TelegramSync
=============================================================================
