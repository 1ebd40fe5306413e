---------------------------- MODULE InterpreterMC ----------------------------
EXTENDS Interpreter, TextsMC

P == INSTANCE PagesMC

MCPrograms == P!AllPrograms
MCBuilds == P!AllBuilds

\* A letter, a delimiter, and a character of two bytes; strings of one language and of two
a == <<97>>
comma == <<44>>
wide == <<208, 144>>
MCPiece == {a, comma, wide}
\* L_TAINTED, L_CLEAN, L_HTML and the latter with the optimizing bit
tainted == 84
clean == 48
html == 72
MCLangs == {tainted, clean, html + 128}
Just(lang) == [just |-> TRUE, of |-> <<lang>>]
MCOther == {[body |-> comma \o wide, langs |-> [just |-> FALSE, of |-> <<clean, tainted, tainted>>]]}
MCDictionary == {<<[from |-> a, to |-> [body |-> comma, langs |-> Just(clean)]]>>,
                 <<[from |-> a \o comma, to |-> [body |-> <<>>, langs |-> Just(0)]],
                   [from |-> a, to |-> [body |-> wide, langs |-> Just(html)]]>>}
MCWhite == {a, comma \o wide}
MCDelimiter == {a, comma}
=============================================================================
