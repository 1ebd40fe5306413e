-------------------------------- MODULE Lexer --------------------------------
\* yylex() of src/main/compile.y: the text of a page is read letter by letter into tokens.
\* What a letter is depends on the lexical state; states are stacked, and each place of the
\* stack counts the brackets of its state. Origins of tokens are left out.
EXTENDS Integers, Sequences, SequencesExt

CONSTANTS Twice,     \* sets of [why, one, other]: two texts, each [text, from, to], that should be
                     \* the same code from..to
          MaxStates  \* MAX_LEXICAL_STATES

VARIABLES twice,  \* an element of one of Twice
          lexer,  \* Parse_control of the text at hand
          before  \* the tokens of the first text

Begun(t, explicit) ==
    [text |-> t.text, explicit |-> explicit, source |-> 1, begin |-> 1, string |-> <<>>, tokens |-> <<>>,
     ls |-> "USER", stack |-> <<>>, nestages |-> <<>>, trim_bof |-> TRUE, over |-> FALSE]

White == {" ", "\t", "\n"}
NoWhite(str) == SelectSeq(str, LAMBDA c : c \notin White)
At(l, i) == IF i \in DOMAIN l.text THEN l.text[i] ELSE "eof"
Here(l) == At(l, l.source)
Ahead(l, i) == At(l, l.source + i)
Reads(l, str) == \A i \in DOMAIN str : At(l, l.source + i - 1) = str[i]
FirstColumn(l) == l.source = 1 \/ At(l, l.source - 1) = "\n"
\* end == begin: nothing is read yet
Fresh(l) == l.begin = l.source
-----------------------------------------------------------------------------
\* Steps of the loop
Skip(l, n) == [l EXCEPT !.source = @ + n]
Continue(l) == Skip(l, 1)
\* What is read so far is left out
Restart(l) == [Continue(l) EXCEPT !.begin = l.source + 1]
Piece(l) == SubSeq(l.text, l.begin, l.source - 1)
Appended(l) == [l EXCEPT !.string = @ \o Piece(l)]

\* break2: what is read is a token of its own, then comes the result, it spans n letters
Untrimmed(l) ==
    LET ends == {i \in l.begin - 1..l.source - 1 : \A j \in i + 1..l.source - 1 : At(l, j) = "\n"}
    IN  SubSeq(l.text, l.begin, (CHOOSE i \in ends : \A j \in ends : i <= j))
Result(l, token, n) ==
    LET last == IF Here(l) \in {"@", "eof"} THEN Untrimmed(l) ELSE Piece(l)
        str == l.string \o IF l.ls = "USER_COMMENT" THEN <<>> ELSE last
    IN  [l EXCEPT !.tokens = @ \o (IF str = <<>> THEN <<>> ELSE <<[is |-> "STRING", of |-> str, at |-> l.begin + Len(last) - 1]>>)
                               \o (IF token = "" THEN <<>> ELSE <<[is |-> token, of |-> <<>>, at |-> l.source - 1 + n]>>),
                  !.string = <<>>, !.source = @ + n, !.begin = l.source + n,
                  !.over = token \in {"END", "BAD"}]
ResultHere(l) == Result(l, Here(l), 1)
EON(l) == Result(l, "EON", 0)

push_LS(l, ls) ==
    IF Len(l.stack) = MaxStates THEN [l EXCEPT !.over = TRUE] ELSE [l EXCEPT !.stack = Append(@, l.ls), !.ls = ls, !.nestages = Append(@, 1)]
pop_LS(l) == [l EXCEPT !.ls = Last(l.stack), !.stack = Front(@), !.nestages = Front(@)]
Nested(l, n) == [l EXCEPT !.nestages[Len(l.stack)] = n]
Nestage(l) == l.nestages[Len(l.stack)]
Switched(l, ls) == [l EXCEPT !.ls = ls]
\* Mutant: the brackets of the state before count on
Opened_wrong(l, ls) == ResultHere(Switched(l, ls))
Opened(l, ls) == ResultHere(Nested(Switched(l, ls), 1))
Pushed(l, ls) == LET p == push_LS(l, ls) IN IF p.over THEN p ELSE ResultHere(p)
-----------------------------------------------------------------------------
\* ^ makes a letter of a bracket and of what else starts code; ^#HH is a letter by its code
Names == {"EXPRESSION_VAR_NAME_WITH_COLON", "EXPRESSION_VAR_NAME_WITHOUT_COLON", "VAR_NAME_SIMPLE_WITH_COLON",
          "VAR_NAME_SIMPLE_WITHOUT_COLON", "VAR_NAME_CURLY", "METHOD_NAME", "USER_COMMENT", "DEF_COMMENT"}
Escapable == {"^", "$", ";", "@", "(", ")", "[", "]", "{", "}", "\"", ":", "#"}
Escapes(l) == Here(l) = "^" /\ l.ls \notin Names /\ Ahead(l, 1) \in Escapable
Hex == {"0", "4"}
Escaped(l) ==
    LET a == Appended(l)
    IN  IF Ahead(l, 1) = "#" /\ Ahead(l, 2) \in Hex /\ Ahead(l, 3) \in Hex
        THEN IF Ahead(l, 2) = "0" /\ Ahead(l, 3) = "0" THEN Result(l, "BAD", 1)
             ELSE [a EXCEPT !.string = Append(@, "H"), !.source = @ + 4, !.begin = l.source + 4]
        ELSE [a EXCEPT !.source = @ + 2, !.begin = l.source + 1]

\* Text between brackets, of a string of an expression, and of the page
Opening == [VAR_SQUARE |-> "[", METHOD_SQUARE |-> "[", NAME_SQUARE_PART |-> "[", VAR_CURLY |-> "{", METHOD_CURLY |-> "{"]
Closing == [VAR_SQUARE |-> "]", METHOD_SQUARE |-> "]", NAME_SQUARE_PART |-> "]", VAR_CURLY |-> "}", METHOD_CURLY |-> "}",
            EXPRESSION_STRING_QUOTED |-> "\"", EXPRESSION_STRING_APOSTROFED |-> "'"]
Texts == {"USER"} \cup DOMAIN Closing
Delimited == {"VAR_SQUARE", "METHOD_SQUARE", "METHOD_CURLY"}
Ended(l) == IF l.ls \in {"METHOD_SQUARE", "METHOD_CURLY", "METHOD_ROUND"} THEN Switched(l, "METHOD_AFTER") ELSE pop_LS(l)
Closed(l) ==
    LET left == Nested(l, Nestage(l) - 1)
    IN  IF l.ls \in DOMAIN Opening /\ Nestage(left) # 0 THEN Continue(left) ELSE ResultHere(Ended(left))
\* In a method that names its result letters of the page do not matter, nor of { }; [ ] saves
\* and clears explicit_result
Explicit(l) ==
    /\ l.explicit /\ l.ls \in {"USER", "METHOD_CURLY"}
    /\ \A i \in DOMAIN l.stack : l.stack[i] \notin {"VAR_SQUARE", "METHOD_SQUARE", "NAME_SQUARE_PART"}
Text(l) ==
    LET c == Here(l)
        u == [l EXCEPT !.trim_bof = FALSE]
    IN  CASE l.ls \in {"USER", "NAME_SQUARE_PART"} /\ l.trim_bof /\ c \in White -> Restart(l)
          [] c = "$" -> Pushed(u, "VAR_NAME_SIMPLE_WITH_COLON")
          [] c = "^" -> Pushed(u, "METHOD_NAME")
          [] l.ls \in DOMAIN Closing /\ c = Closing[l.ls] -> Closed(u)
          [] l.ls \in Delimited /\ c = ";" -> ResultHere(u)
          [] OTHER ->
                LET n == IF l.ls \in DOMAIN Opening /\ c = Opening[l.ls] THEN Nested(u, Nestage(u) + 1) ELSE u
                IN  IF ~Explicit(l) \/ c = "eof" THEN Continue(n)
                    ELSE Restart([n EXCEPT !.string = IF c \in White THEN @ ELSE Append(@, c)])

\* Definitions of methods
Define(l) ==
    LET c == Here(l)
    IN  CASE l.ls = "DEF_NAME" /\ c = "[" -> ResultHere(Switched(l, "DEF_PARAMS"))
          [] l.ls = "DEF_NAME" /\ c = "\n" -> ResultHere(Switched(l, "DEF_SPECIAL_BODY"))
          [] l.ls = "DEF_PARAMS" /\ c = "$" -> Result(l, "BAD", 1)
          [] l.ls \in {"DEF_PARAMS", "DEF_LOCALS"} /\ c = ";" -> ResultHere(l)
          [] l.ls = "DEF_LOCALS" /\ c = "[" -> ResultHere(l)
          [] l.ls = "DEF_PARAMS" /\ c = "]" -> ResultHere(Switched(l, IF Ahead(l, 1) = "[" THEN "DEF_LOCALS" ELSE "DEF_COMMENT"))
          [] l.ls = "DEF_LOCALS" /\ c = "]" -> ResultHere(Switched(l, "DEF_COMMENT"))
          [] l.ls \in {"DEF_PARAMS", "DEF_LOCALS", "DEF_COMMENT"} /\ c = "\n" -> ResultHere(pop_LS(l))
          [] l.ls = "DEF_SPECIAL_BODY" /\ c = "\n" -> ResultHere(l)
          [] OTHER -> Continue(l)
-----------------------------------------------------------------------------
\* Expressions. Operators: the longest that begins here
Symbols == {<<"-", "f">>, <<"-", "d">>, <<"&", "&">>, <<"|", "|">>, <<"!", "|", "|">>, <<"!", "|">>, <<"!", "=">>,
            <<"<", "<">>, <<"<", "=">>, <<">", ">">>, <<">", "=">>, <<"=", "=">>}
           \cup {<<c>> : c \in {"-", "+", "*", "/", "%", "\\", "~", ";", "&", "|", "!", "<", ">", "="}}
\* Words are operators right after white space, when white space follows
Words == {<<"l", "t">>, <<"g", "t">>, <<"l", "e">>, <<"g", "e">>, <<"n", "e">>, <<"e", "q">>, <<"i", "n">>, <<"i", "s">>}
BadWords == {<<"e", "t">>, <<"n", "t">>, <<"e", "e">>, <<"l", "q">>, <<"g", "q">>, <<"n", "q">>}
Literals == {<<"t", "r", "u", "e">>, <<"f", "a", "l", "s", "e">>}
IsWord(l) == {w \in Words \cup BadWords : Fresh(l) /\ Reads(l, w) /\ Ahead(l, 2) \in White}
IsDef(l) == Fresh(l) /\ Reads(l, <<"d", "e", "f">>) /\ Ahead(l, 3) \in White \cup {"\"", "'", "^", "$"}
IsLiteral(l) == {w \in Literals : Fresh(l) /\ Reads(l, w)}
Joined(w) == FoldLeft(LAMBDA a, b : a \o b, "", w)
Operator(l, w) == Result(l, Joined(w), Len(w))
Round(l) ==
    LET c == Here(l)
        symbols == {w \in Symbols : Reads(l, w)}
    IN  CASE c = ")" -> LET left == Nested(l, Nestage(l) - 1) IN ResultHere(IF Nestage(left) = 0 THEN Ended(left) ELSE left)
          [] c = "#" -> LET p == push_LS(Appended(l), "EXPRESSION_COMMENT") IN IF p.over THEN p ELSE Continue(p)
          [] c = "$" -> Pushed(l, "EXPRESSION_VAR_NAME_WITH_COLON")
          [] c = "^" -> Pushed(l, "METHOD_NAME")
          [] c = "(" -> ResultHere(Nested(l, Nestage(l) + 1))
          [] c = "\"" -> Pushed(l, "EXPRESSION_STRING_QUOTED")
          [] c = "'" -> Pushed(l, "EXPRESSION_STRING_APOSTROFED")
          [] symbols # {} -> Operator(l, CHOOSE w \in symbols : \A v \in symbols : Len(v) <= Len(w))
          [] IsWord(l) # {} -> LET w == CHOOSE w \in IsWord(l) : TRUE IN IF w \in BadWords THEN Result(l, "BAD", 2) ELSE Operator(l, w)
          [] IsDef(l) -> Operator(l, <<"d", "e", "f">>)
          [] IsLiteral(l) # {} -> Operator(l, CHOOSE w \in IsLiteral(l) : TRUE)
          [] c \in White -> IF Fresh(l) THEN Restart(l) ELSE Result(l, "", 1)
          [] OTHER -> Continue(l)

\* The letter after the one read ends the comment
ExpressionComment(l) ==
    LET n == IF Here(l) = "(" THEN Nestage(l) + 1 ELSE Nestage(l)
    IN  CASE Ahead(l, 1) = ")" /\ n # 1 -> Continue(Nested(l, n - 1))
          [] Ahead(l, 1) = "\n" \/ (Ahead(l, 1) = ")" /\ n = 1) -> Restart(pop_LS(Nested(l, n)))
          [] OTHER -> Continue(Nested(l, n))
-----------------------------------------------------------------------------
\* Names of variables
InExpression == {"EXPRESSION_VAR_NAME_WITH_COLON", "EXPRESSION_VAR_NAME_WITHOUT_COLON"}
VarNames == InExpression \cup {"VAR_NAME_SIMPLE_WITH_COLON", "VAR_NAME_SIMPLE_WITHOUT_COLON"}
WithoutColon == {"EXPRESSION_VAR_NAME_WITHOUT_COLON", "VAR_NAME_SIMPLE_WITHOUT_COLON"}
EndsName == {"eof", ";", "]", "}", ")", "\"", "'", "<", ">", "+", "*", "/", "\\", "%", "&", "|", "=", "!", ",", "?", "#", "^"} \cup White
Previous(l) == At(l, l.source - 1)
NextPart == [EXPRESSION_VAR_NAME_WITH_COLON |-> "EXPRESSION_VAR_NAME_WITHOUT_COLON",
             VAR_NAME_SIMPLE_WITH_COLON |-> "VAR_NAME_SIMPLE_WITHOUT_COLON"]
VarName(l) ==
    LET c == Here(l)
    IN  CASE \/ c \in EndsName
             \/ c = "-" /\ l.ls \in InExpression
             \/ c = ":" /\ l.ls \in WithoutColon -> EON(pop_LS(l))
          [] c = "[" -> IF Previous(l) \in {"$", ":", "."} THEN Pushed(l, "NAME_SQUARE_PART") ELSE Opened(l, "VAR_SQUARE")
          [] c = "{" -> IF Previous(l) = "$" THEN ResultHere(Switched(l, "VAR_NAME_CURLY")) ELSE Opened(l, "VAR_CURLY")
          [] c = "(" -> IF Previous(l) \in {":", "."} THEN Pushed(l, "VAR_ROUND") ELSE Opened(l, "VAR_ROUND")
          [] c \in {".", "$"} \/ (c = ":" /\ l.ls \notin WithoutColon) -> ResultHere(IF l.ls \in DOMAIN NextPart THEN Switched(l, NextPart[l.ls]) ELSE l)
          [] OTHER -> Continue(l)
VarNameCurly(l) ==
    LET c == Here(l)
    IN  CASE c = "[" -> Pushed(l, "NAME_SQUARE_PART")
          [] c = "(" -> Pushed(l, "VAR_ROUND")
          [] c = "}" -> ResultHere(pop_LS(l))
          [] c \in {".", "$", ":"} -> ResultHere(l)
          [] OTHER -> Continue(l)

\* Calls; after a bracket another may follow
MethodName(l) ==
    LET c == Here(l)
        part == Previous(l) \in {":", "."}
    IN  CASE c = "[" -> IF part THEN Pushed(l, "NAME_SQUARE_PART") ELSE Opened(l, "METHOD_SQUARE")
          [] c = "{" -> Opened(l, "METHOD_CURLY")
          [] c = "(" -> IF part THEN Pushed(l, "VAR_ROUND") ELSE Opened(l, "METHOD_ROUND")
          [] c \in {".", "$", ":", "^", "]", "}", ")", " "} -> ResultHere(l)
          [] OTHER -> Continue(l)
MethodAfter(l) ==
    LET c == Here(l)
    IN  CASE c = "[" -> Opened(l, "METHOD_SQUARE")
          [] c = "{" -> Opened(l, "METHOD_CURLY")
          [] c = "(" -> Opened(l, "METHOD_ROUND")
          [] OTHER -> EON(pop_LS(l))
-----------------------------------------------------------------------------
Analyzed(l) ==
    CASE l.ls \in Texts -> Text(l)
      [] l.ls = "USER_COMMENT" -> IF Here(l) = "\n" THEN Restart(pop_LS(l)) ELSE Continue(l)
      [] l.ls \in {"VAR_ROUND", "METHOD_ROUND"} -> Round(l)
      [] l.ls = "EXPRESSION_COMMENT" -> ExpressionComment(l)
      [] l.ls \in VarNames -> VarName(l)
      [] l.ls = "VAR_NAME_CURLY" -> VarNameCurly(l)
      [] l.ls = "METHOD_NAME" -> MethodName(l)
      [] l.ls = "METHOD_AFTER" -> MethodAfter(l)
      [] OTHER -> Define(l)
Declared(l) ==
    LET u == IF l.ls = "DEF_SPECIAL_BODY" THEN pop_LS(l) ELSE l
    IN  IF u.ls = "USER" THEN Pushed(u, "DEF_NAME") ELSE Result(u, "BAD", 1)
\* One turn of the loop
Turn(l) ==
    LET a == Analyzed(l)
    IN  CASE FirstColumn(l) /\ Here(l) = "@" -> Declared(l)
          [] Here(l) = "^" /\ l.ls = "METHOD_AFTER" -> EON(pop_LS(l))
          [] Escapes(l) /\ l.ls # "METHOD_AFTER" -> Escaped(l)
          [] FirstColumn(l) /\ Here(l) = "#" -> LET p == push_LS(Appended(l), "USER_COMMENT") IN IF p.over THEN p ELSE Continue(p)
          [] OTHER -> IF Here(l) = "eof" /\ a.source > l.source /\ a.tokens = l.tokens THEN Result(l, "END", 1) ELSE a
-----------------------------------------------------------------------------
\* The tokens of what is compared
Between(l, t) ==
    LET inside == SelectSeq(l.tokens, LAMBDA token : token.at \in t.from..t.to)
        Code(token) == <<token.is, IF twice.why = "explicit" THEN NoWhite(token.of) ELSE token.of>>
    IN  SelectSeq([i \in DOMAIN inside |-> Code(inside[i])], LAMBDA token : token # <<"STRING", <<>>>>)

Init ==
    /\ \E same \in Twice : twice \in same
    /\ lexer = Begun(twice.one, FALSE)
    /\ before = <<>>
Lex ==
    /\ ~lexer.over
    /\ lexer' = Turn(lexer)
    /\ UNCHANGED <<twice, before>>
\* The first text is whole: what it opens it closes
Again ==
    /\ lexer.over /\ lexer.ls = "USER" /\ before = <<>>
    /\ before' = <<Between(lexer, twice.one)>>
    /\ lexer' = Begun(twice.other, twice.why = "explicit")
    /\ UNCHANGED twice
Next == Lex \/ Again
Spec == Init /\ [][Next]_<<twice, lexer, before>>
-----------------------------------------------------------------------------
\* A whole piece of code is lexed into the same tokens wherever it stands: on the page, in
\* brackets of variables, calls and names, in a string; an expression in whatever
\* parentheses; with comments and without; with whitespace that does not matter
Lexed == before # <<>> /\ lexer.over
SameCode == Lexed => Between(lexer, twice.other) = before[1]

\* Comments in expressions work until the end of the line or the closing parenthesis
\* (operators.txt:5), one of no letters too: the code asks about the letter after the next
CommentEnds == twice.why = "comment" => SameCode
=============================================================================
