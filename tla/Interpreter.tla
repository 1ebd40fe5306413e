----------------------------- MODULE Interpreter -----------------------------
(***************************************************************************)
(* The interpreter, in four parts side by side: how a request leaves its   *)
(* nested code (SkipFlow), a page compiled by two builds and run by both   *)
(* (TwoBuilds), a string and the languages of its letters (LangString),    *)
(* the text of a page lexed (Lexer).  They share no state here, so in a    *)
(* behaviour one goes on and the others do not start.                      *)
(***************************************************************************)
EXTENDS SkipFlow

CONSTANTS LoopLimit, RecursionLimit, Programs, Builds,                  \* pages
          Parts, Langs, Other, Dictionary, Blanks, Delimiter, MaxLength, \* strings
          Twice, MaxStates                                              \* texts

VARIABLES part, \* "flow", "pages", "strings" or "texts"
          program, build, code, machine, plain,
          string, letters,
          twice, lexer, before

page == <<program, build, code, machine, plain>>
str == <<string, letters>>
text == <<twice, lexer, before>>

Pages == INSTANCE TwoBuilds
Strings == INSTANCE LangString
Texts == INSTANCE Lexer
-----------------------------------------------------------------------------
\* What does not start
NoPage == program = 0 /\ build = 0 /\ code = 0 /\ machine = 0 /\ plain = 0
NoString == string = 0 /\ letters = 0
NoText == twice = 0 /\ lexer = 0 /\ before = 0

InterpreterInit ==
    /\ Init
    /\ \/ part = "flow" /\ NoPage /\ NoString /\ NoText
       \/ part = "pages" /\ Pages!Init /\ NoString /\ NoText
       \/ part = "strings" /\ Strings!Init /\ NoPage /\ NoText
       \/ part = "texts" /\ Texts!Init /\ NoPage /\ NoString

\* A page that has ended rests
InterpreterNext ==
    \/ part = "flow" /\ Next /\ UNCHANGED <<part, page, str, text>>
    \/ part = "pages" /\ Pages!Next /\ UNCHANGED <<part, vars, str, text>>
    \/ part = "strings" /\ Strings!Next /\ UNCHANGED <<part, vars, page, text>>
    \/ part = "texts" /\ Texts!Next /\ UNCHANGED <<part, vars, page, str>>

InterpreterSpec == InterpreterInit /\ [][InterpreterNext]_<<vars, part, page, str, text>>
-----------------------------------------------------------------------------
\* What the compiler replaces by a shorter sequence means the same, and code takes and leaves
\* the operands that are its own: compile.y and compile_tools.h against execute.C, see TwoBuilds.tla
BuildsAgree == part = "pages" => Pages!SameMeaning /\ Pages!OwnOperands

\* Letters keep their languages, are split at clean delimiters and counted in characters:
\* pa_string.h, pa_string.C and untaint.C, see LangString.tla
StringsKept == part = "strings" =>
    Strings!LangsKept /\ Strings!SplitWhole /\ Strings!RightCounts /\ Strings!PosIsPlace

\* The same code is the same tokens wherever it stands: yylex() of compile.y, see Lexer.tla
TokensAgree == part = "texts" => Texts!SameCode

\* Comments in expressions work until the end of the line or the closing parenthesis
\* (operators.txt:5), one of no letters too: yylex() of compile.y, see Lexer.tla
CommentEnds == part = "texts" => Texts!CommentEnds
=============================================================================
