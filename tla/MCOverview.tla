------------------------------ MODULE MCOverview ------------------------------
(* Instance of Overview for TLC: tables of up to three messages, on both    *)
(* sides of every limit, of every level and with every flag.                *)
EXTENDS Overview, TLC

CONSTANTS r1, r2

Symmetric == Permutations({r1, r2})

Message(i, k, hours, level, override) ==
  [id |-> i, kind |-> k, received |-> Noon - hours, level |-> level, override |-> override,
   status |-> IF level = "" THEN "PROCESSING" ELSE "DONE", read |-> FALSE, reply |-> FALSE,
   action |-> FALSE, texts |-> {<<"A", "%">>}]

\* Ages in hours: the last midnight of several zones, and the ends of the three windows.
Ages == {2, 3, 6, 7, 16, 17, 24, 25, 168, 169, 720, 721}

ByTime == {{Message(1, "gmail", a, "HIGH", ""), Message(2, "gmail", b, "CRITICAL", "")} :
             a, b \in Ages}
Ratings == {<<"", "">>, <<"CRITICAL", "">>, <<"HIGH", "">>, <<"LOW", "HIGH">>, <<"HIGH", "LOW">>}
ByLevel == {{Message(1, "gmail", 3, x[1], x[2]), Message(2, "telegram", 3, y[1], y[2]),
             Message(3, "gmail", 2, z[1], z[2])} : x, y, z \in Ratings}
ByFlag == {{[Message(1, "telegram", 24, "LOW", "") EXCEPT !.read = a, !.reply = b,
                                                         !.action = c]} : a, b, c \in BOOLEAN}

TheTables == {{}} \union ByTime \union ByLevel \union ByFlag
TheOffsets == {-20, -14, -5, 0, 3, 14, 15}
=============================================================================
