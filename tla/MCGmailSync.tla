----------------------------- MODULE MCGmailSync -----------------------------
(* Instance of GmailSync for TLC. *)
EXTENDS GmailSync
=============================================================================
