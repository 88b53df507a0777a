-------------------------------- MODULE SqlText --------------------------------
(***************************************************************************)
(* What postgres/db.go and queries.go do to the text they send: numbering  *)
(* the placeholders (rebind), cutting a migration into statements          *)
(* (splitStatements), and making a pattern of what was searched for        *)
(* (escapeLike).  A text is a sequence of characters.                      *)
(***************************************************************************)
EXTENDS Integers, Sequences, FiniteSets, SequencesExt

Quote == "'"

\* What the character at i leaves the scanner in.  A doubled quote inside a literal leaves
\* it and enters it again; a comment lasts to the end of its line.
NextMode(text, comments, mode, i) ==
  CASE mode = "comment" -> IF text[i] = "\n" THEN "code" ELSE "comment"
    [] mode # "comment" /\ text[i] = Quote -> IF mode = "code" THEN "literal" ELSE "code"
    [] comments /\ mode = "code" /\ i < Len(text) /\ text[i] = "-" /\ text[i + 1] = "-"
         -> "comment"
    [] OTHER -> mode

\* Where each character stands, the loop of both scanners.
Modes(text, comments) ==
  FoldLeftDomain(LAMBDA modes, i :
                   Append(modes, NextMode(text, comments,
                                          IF i = 1 THEN "code" ELSE modes[i - 1], i)),
                 <<>>, text)

\* Mutant: a character means the same wherever it stands.
AllIsCode(mode) == mode # "comment"

\* A character that means something, since it is not in a literal.
Bare(mode) == mode = "code"

Numbers == <<"$1", "$2", "$3", "$4">>

Rebind(text) ==
  LET modes == Modes(text, FALSE)
      holders == {i \in 1..Len(text) : text[i] = "?" /\ Bare(modes[i])}
  IN [i \in 1..Len(text) |-> IF i \in holders THEN Numbers[Cardinality(holders \cap (1..i))]
                                              ELSE text[i]]

\* strings.TrimSpace.
Trim(text) ==
  LET solid == {i \in 1..Len(text) : text[i] \notin {" ", "\n"}}
  IN IF solid = {} THEN <<>>
     ELSE SubSeq(text, CHOOSE i \in solid : \A j \in solid : i <= j,
                       CHOOSE i \in solid : \A j \in solid : i >= j)

\* Comments become line ends; a statement of nothing but blanks is left out.
SplitStatements(text) ==
  LET modes == Modes(text, TRUE)
      ends == {i \in 1..Len(text) : text[i] = ";" /\ Bare(modes[i])}
      bounds == SetToSortSeq(ends \union {0, Len(text) + 1}, <)
      clean == [i \in 1..Len(text) |-> IF modes[i] = "comment" THEN "\n" ELSE text[i]]
      pieces == [k \in 1..(Len(bounds) - 1) |->
                   Trim(SubSeq(clean, bounds[k] + 1, bounds[k + 1] - 1))]
  IN SelectSeq(pieces, LAMBDA piece : piece # <<>>)

-----------------------------------------------------------------------------
Replaced(text, c) == FlattenSeq([i \in 1..Len(text) |->
                                   IF text[i] = c THEN <<"\\", c>> ELSE <<text[i]>>])

\* Mutant: the backslashes last, those just written among them.
EscapesTwice(text) == Replaced(Replaced(Replaced(text, "%"), "_"), "\\")

EscapeLike(text) == Replaced(Replaced(Replaced(text, "\\"), "%"), "_")

\* One character of a pattern, from the places at where what precedes it may end.
LikeChar(text, s, c) ==
  LET after == {i + 1 : i \in {j \in s.at : j < Len(text)}}
      places == 0..Len(text)
  IN CASE ~s.escaped /\ c = "\\" -> [s EXCEPT !.escaped = TRUE]
       [] ~s.escaped /\ c = "%" -> [s EXCEPT !.at = {i \in places : \E j \in s.at : j <= i}]
       [] ~s.escaped /\ c = "_" -> [s EXCEPT !.at = after]
       [] OTHER -> [at |-> {i \in after : text[i] = c}, escaped |-> FALSE]

\* text LIKE pattern ESCAPE '\', as Postgres defines it.
Like(text, pattern) ==
  Len(text) \in FoldLeft(LAMBDA s, c : LikeChar(text, s, c),
                         [at |-> {0}, escaped |-> FALSE], pattern).at

\* lower() and strings.ToLower, over one letter. They are one function here, as
\* they are on what the texts contain; outside ASCII they may fold a letter apart.
Lower(text) == [i \in 1..Len(text) |-> IF text[i] = "A" THEN "a" ELSE text[i]]

Found(text, query) == Like(Lower(text), <<"%">> \o EscapeLike(Lower(query)) \o <<"%">>)
=============================================================================
