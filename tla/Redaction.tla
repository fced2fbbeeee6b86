----------------------------- MODULE Redaction -----------------------------
(***************************************************************************)
(* redact_sql_literals of main.rs: what of a statement goes to the log     *)
(* ring, and what of it a server's lexer takes for literals.  A statement  *)
(* is a sequence of characters, of which those matter that open or close a *)
(* literal, a quoted identifier or a comment, and the backslash; the       *)
(* result is the set of places copied as they are, everything else having  *)
(* become '?'.                                                             *)
(***************************************************************************)
EXTENDS Naturals, Sequences

Quote  == "'"
Double == "''"
Back   == "backquote"
Escape == "back"
Dollar == "dollar"   \* opens and closes a literal of PostgreSQL, its tag with it
Note   == "note"     \* opens a comment: two dashes, a slash and a star
Break  == "break"    \* closes it
Chars  == {Quote, Double, Back, Escape, Dollar, Note, Break, "x"}

Quotes(doubleIsString) == {Quote} \cup IF doubleIsString THEN {Double} ELSE {}

\* Where the scanner is before each character: outside, or inside a literal of
\* some quote, perhaps to skip the character.
Outside == [quote |-> "none", skip |-> FALSE]
Inside(quote, skip) == [quote |-> quote, skip |-> skip]

\* A quote that the next character repeats stands for itself.
Doubled(sql, i) == i < Len(sql) /\ sql[i + 1] = sql[i]

Scan_NoEscape(sql, doubleIsString) ==
    LET at[i \in 1..(Len(sql) + 1)] ==
          IF i = 1 THEN Outside
          ELSE LET c == sql[i - 1]
                   before == at[i - 1]
               IN CASE before = Outside ->
                         IF c \in Quotes(doubleIsString) THEN Inside(c, FALSE) ELSE Outside
                    [] before.skip -> Inside(before.quote, FALSE)
                    [] before # Outside /\ ~before.skip /\ c = before.quote ->
                         IF Doubled(sql, i - 1) THEN Inside(c, TRUE) ELSE Outside
                    [] OTHER -> before
    IN at
Scan(sql, doubleIsString) ==
    LET at[i \in 1..(Len(sql) + 1)] ==
          IF i = 1 THEN Outside
          ELSE LET c == sql[i - 1]
                   before == at[i - 1]
               IN CASE before = Outside ->
                         IF c \in Quotes(doubleIsString) THEN Inside(c, FALSE) ELSE Outside
                    [] before.skip -> Inside(before.quote, FALSE)
                    [] before # Outside /\ ~before.skip /\ c = Escape -> Inside(before.quote, TRUE)
                    [] before # Outside /\ ~before.skip /\ c = before.quote ->
                         IF Doubled(sql, i - 1) THEN Inside(c, TRUE) ELSE Outside
                    [] OTHER -> before
    IN at

InClear(sql, doubleIsString) ==
    {i \in DOMAIN sql : /\ Scan(sql, doubleIsString)[i] = Outside
                        /\ sql[i] \notin Quotes(doubleIsString)}

-----------------------------------------------------------------------------
(* What a server's lexer takes for literals *)

\* What opens a literal of the server, and what hides a quote from it: an identifier in
\* quotes or a comment.
Literal(mysql) == {Quote, IF mysql THEN Double ELSE Dollar}
Hiding(mysql)  == {Note, IF mysql THEN Back ELSE Double}

Closer(opener) == IF opener = Note THEN Break ELSE opener

\* Where the lexer is before each character.  A quote doubled closes the literal and opens it
\* again, which puts the same places inside.  A backslash escapes in MySQL's literals only
\* (sql_mode without NO_BACKSLASH_ESCAPES and ANSI_QUOTES; standard_conforming_strings).
Lex(sql, mysql) ==
    LET at[i \in 1..(Len(sql) + 1)] ==
          IF i = 1 THEN Outside
          ELSE LET c == sql[i - 1]
                   before == at[i - 1]
               IN CASE before = Outside ->
                         IF c \in Literal(mysql) \cup Hiding(mysql) THEN Inside(c, FALSE) ELSE Outside
                    [] before.skip -> Inside(before.quote, FALSE)
                    [] before # Outside /\ ~before.skip /\ c = Closer(before.quote) -> Outside
                    [] before # Outside /\ ~before.skip /\ c = Escape
                          /\ mysql /\ before.quote \in Literal(mysql) -> Inside(before.quote, TRUE)
                    [] OTHER -> before
    IN at

\* The places of a statement's literals, quotes included.
Literals(sql, mysql) ==
    {i \in DOMAIN sql :
        \/ Lex(sql, mysql)[i].quote \in Literal(mysql)
        \/ Lex(sql, mysql)[i] = Outside /\ sql[i] \in Literal(mysql)}

\* Where redact_sql_literals and the server fall out of step: at a quote in a comment or in a
\* quoted identifier and, in PostgreSQL, at a backslash in a literal and at a dollar quote.
Misleading(sql, mysql) ==
    {i \in DOMAIN sql :
        \/ Lex(sql, mysql)[i].quote \in Hiding(mysql) /\ sql[i] \in Quotes(mysql)
        \/ ~mysql /\ Lex(sql, mysql)[i].quote \in Literal(mysql) /\ sql[i] = Escape
        \/ ~mysql /\ Lex(sql, mysql)[i] = Outside /\ sql[i] = Dollar}
=============================================================================
