------------------------------- MODULE MCSetup -------------------------------
(* Instance of Setup for TLC: a server with a live demo, a command that     *)
(* loads the feed, and the two migrations of postgres/migrations.           *)
EXTENDS Setup, TLC

CONSTANTS server, command, player, loader, h1

Creates(t, columns) == [table |-> t, makes |-> {t} \union columns, drops |-> {}]
Alters(t, column) == [table |-> t, makes |-> {}, drops |-> {column}]

TheFiles == <<
  <<Creates("users", {"users.email"}), Creates("message", {})>>,
  <<Alters("users", "users.email")>> >>

TheHomes == (player :> server) @@ (loader :> command) @@ (h1 :> server)
TheKinds == <<"gmail", "telegram", "gmail">>
=============================================================================
