---------------------------- MODULE WebSocketMC ----------------------------
\* Frames for the model checker: each opcode, a character cut in two, and frames
\* that are refused by parse() and by each part of receive().
EXTENDS WebSocket

clientFrame(op, fin, code, data) == [op |-> op, fin |-> fin, code |-> code, data |-> data]
SomeFrames ==
    {clientFrame("text", FALSE, "NORMAL", <<"lead">>)}
    \cup {clientFrame(op, TRUE, "NORMAL", <<"trail">>) : op \in {"text", "binary", "cont"}}
    \cup {clientFrame("cont", FALSE, "NORMAL", <<"trail">>)}
    \cup {clientFrame(op, TRUE, "NORMAL", <<"a">>) : op \in {"ping", "pong", "close", "badreason"}}
    \cup {clientFrame(op, TRUE, "NO_STATUS", <<>>) : op \in {"close", "short"}}
    \cup {clientFrame("invalid", TRUE, "TOO_BIG", <<>>)}
=============================================================================
