---------------------------- MODULE SplitQueries ----------------------------
(***************************************************************************)
(* splitQueries of the editor (web/src/pages/editor/utils.ts): where a     *)
(* text is cut into statements, one iteration of its loop to a step.  A    *)
(* text comes with its reading, token by token, by ClickHouse's lexer, so  *)
(* that its statements are known; the characters that matter have names.   *)
(***************************************************************************)
EXTENDS Naturals, Sequences, SequencesExt, FiniteSetsExt

CONSTANTS
    MaxTokens \* bound: tokens of a text

VARIABLE calc \* the call under way

vars == <<calc>>

-----------------------------------------------------------------------------
(* Texts                                                                   *)

Quotes == {"single", "double", "backtick"}

Separator == <<"semicolon">>
CommentStart == <<"slash", "star">>
CommentEnd == <<"star", "slash">>
LineComment == <<"dash", "dash", "semicolon", "single", "newline">>

\* String.prototype.trim
Trim(s) ==
    LET solid == {i \in DOMAIN s : s[i] \notin {"space", "newline"}}
    IN  IF solid = {} THEN <<>> ELSE SubSeq(s, Min(solid), Max(solid))

\* What has been read: within which literal and how many comments the reader
\* is, the statements that are ended, and the one that is not.
Start == [in |-> "code", depth |-> 0, stmts |-> <<>>, current |-> <<>>]

\* What can follow: in comments, which nest, anything, their own marks too;
\* in a literal anything, but its quote doubled or, as a backslash, escaped;
\* elsewhere code, a separator, and what starts a literal or a comment.
Readable(r) ==
    IF r.depth > 0 THEN {<<"semicolon">>, <<"single">>, CommentStart, CommentEnd}
    ELSE IF r.in = "code" THEN {<<"x">>, Separator, CommentStart, LineComment} \union {<<q>> : q \in Quotes}
    ELSE {<<"semicolon">>, <<r.in, r.in>>, <<"backslash", r.in>>, <<"backslash", "backslash">>}
         \union {<<q>> : q \in Quotes}

\* The statements, with the one that ends here, if it is not blank.
Ended(r) == r.stmts \o (IF Trim(r.current) = <<>> THEN <<>> ELSE <<Trim(r.current)>>)

\* A token is read: a separator ends the statement, and any other joins it,
\* a comment to the end of its line as a space.
After(r, token) ==
    IF r.depth = 0 /\ r.in = "code" /\ token = Separator
    THEN [r EXCEPT !.stmts = Ended(r), !.current = <<>>]
    ELSE [r EXCEPT
        !.current = @ \o (IF token = LineComment THEN <<"space">> ELSE token),
        !.depth = IF token = CommentStart THEN @ + 1 ELSE IF token = CommentEnd THEN @ - 1 ELSE @,
        !.in = IF r.depth > 0 \/ token \notin {<<q>> : q \in Quotes} THEN @
               ELSE IF @ = "code" THEN token[1] ELSE IF @ = token[1] THEN "code" ELSE @]

\* Texts of a number of tokens, with what has been read before each and at
\* the end.
Readings[n \in 0 .. MaxTokens] ==
    IF n = 0 THEN {[text |-> <<>>, read |-> <<Start>>]}
    ELSE UNION {{[text |-> Append(p.text, t), read |-> Append(p.read, After(p.read[n], t))] :
                 t \in Readable(p.read[n])} : p \in Readings[n - 1]}

\* Those that do not end within a literal or a comment.
Init ==
    \E n \in 0 .. MaxTokens : \E p \in Readings[n] :
        /\ p.read[n + 1].in = "code" /\ p.read[n + 1].depth = 0
        /\ calc = [text |-> p.text, read |-> p.read, sql |-> FlattenSeq(p.text), i |-> 1,
                   in |-> "code", depth |-> 0, current |-> <<>>, stmts |-> <<>>]

-----------------------------------------------------------------------------
(* The loop                                                                *)

Ch == calc.sql[calc.i]
Following == IF calc.i < Len(calc.sql) THEN calc.sql[calc.i + 1] ELSE "end"
Reading == calc.i <= Len(calc.sql)

\* The next n characters join the statement.
Take(n) == [calc EXCEPT !.current = @ \o SubSeq(calc.sql, calc.i, calc.i + n - 1), !.i = @ + n]

\* Mutant: a comment is closed by the first end of one.
FlatComment == [Take(2) EXCEPT !.depth = IF Ch = "slash" THEN 1 ELSE 0]

NestedComment == [Take(2) EXCEPT !.depth = IF Ch = "slash" THEN @ + 1 ELSE @ - 1]

Marker == <<Ch, Following>> \in {<<"slash", "star">>, <<"star", "slash">>}

InComment ==
    /\ calc.depth > 0
    /\ calc' = IF Marker THEN NestedComment ELSE Take(1)

Escape ==
    /\ calc.depth = 0 /\ calc.in \in {"single", "double"}
    /\ Ch = "backslash" /\ Following # "end"
    /\ calc' = Take(2)

\* A quote opens or closes its literal; one that opens takes a quote that
\* follows with it.
Quote ==
    /\ calc.depth = 0 /\ Ch \in Quotes /\ calc.in \in {"code", Ch}
    /\ calc' = IF calc.in = Ch THEN [Take(1) EXCEPT !.in = "code"]
               ELSE [Take(IF Ch # "backtick" /\ Following = Ch THEN 2 ELSE 1) EXCEPT !.in = Ch]

OpenComment ==
    /\ calc.depth = 0 /\ calc.in = "code"
    /\ Ch = "slash" /\ Following = "star"
    /\ calc' = NestedComment

\* To the end of the line or of the text, for which a space stands.
SkipLine ==
    /\ calc.depth = 0 /\ calc.in = "code" /\ Ch = "dash" /\ Following = "dash"
    /\ \E end \in calc.i .. Len(calc.sql) + 1 :
         /\ \A j \in calc.i .. end - 1 : calc.sql[j] # "newline"
         /\ end <= Len(calc.sql) => calc.sql[end] = "newline"
         /\ calc' = [calc EXCEPT !.current = Append(@, "space"), !.i = end + 1]

Pushed(c) == IF Trim(c.current) = <<>> THEN c.stmts ELSE Append(c.stmts, Trim(c.current))

Cut ==
    /\ calc.depth = 0 /\ calc.in = "code" /\ Ch = "semicolon"
    /\ calc' = [calc EXCEPT !.stmts = Pushed(calc), !.current = <<>>, !.i = @ + 1]

Other ==
    /\ calc.depth = 0
    /\ ~ (Ch \in Quotes /\ calc.in \in {"code", Ch})
    /\ ~ (calc.in \in {"single", "double"} /\ Ch = "backslash" /\ Following # "end")
    /\ ~ (calc.in = "code" /\ \/ <<Ch, Following>> \in {<<"slash", "star">>, <<"dash", "dash">>}
                              \/ Ch = "semicolon")
    /\ calc' = Take(1)

Finish ==
    /\ calc.i = Len(calc.sql) + 1
    /\ calc' = [calc EXCEPT !.stmts = Pushed(calc), !.current = <<>>, !.i = @ + 1]

Next ==
    \/ Reading /\ (InComment \/ Escape \/ Quote \/ OpenComment \/ SkipLine \/ Cut \/ Other)
    \/ Finish

Spec == Init /\ [][Next]_vars

-----------------------------------------------------------------------------
(* Properties                                                              *)

\* A quote after one that opens its literal or is doubled in it: splitQueries
\* takes it with an opening one (Quote), as if '' were an escape there too,
\* and reads what follows inside out.
QuoteOnQuote ==
    \E n \in 1 .. Len(calc.text) - 1 :
        /\ calc.read[n + 1].in \in {"single", "double"}
        /\ calc.text[n][1] = calc.read[n + 1].in /\ calc.text[n + 1][1] = calc.read[n + 1].in

\* A backtick with a backslash before it, within an identifier: to ClickHouse
\* it is part of the name, while splitQueries, which knows escapes in the
\* other literals only, ends the identifier with it.
EscapedBacktick == \E n \in DOMAIN calc.text : calc.text[n] = <<"backslash", "backtick">>

\* The editor runs the statements that were written: separators within
\* literals and comments cut nothing, and those between statements do.
\* Excepted are the two kinds of text that splitQueries reads otherwise than
\* ClickHouse: those with an empty literal in single or double quotes, or with
\* such a quote right after one that opens its literal or is doubled in it;
\* and those with an escaped backtick in an identifier.
StatementsAreMeant ==
    calc.i > Len(calc.sql) + 1 /\ ~ QuoteOnQuote /\ ~ EscapedBacktick =>
        calc.stmts = Ended(Last(calc.read))
=============================================================================
