------------------------------ MODULE WebSocket ------------------------------
(***************************************************************************)
(* A websocket connection of the built-in server: class WebSocket of       *)
(* main/pa_websocket.C, the ^websocket: methods that call it, and what      *)
(* Request::core() and the destructor do with it when the request ends.    *)
(*                                                                         *)
(* The client is external: it sends any frames of Frames, closes or resets *)
(* the connection, and may leave unread what it gets.  A frame is a record *)
(* that has arrived whole or has not: a part of it only makes fill() be    *)
(* called again.  A payload is a sequence of bytes of three sorts, enough  *)
(* to tell texts that are UTF-8 from those that are not: "a" is a          *)
(* character, "lead" and "trail" make one together.                        *)
(***************************************************************************)
EXTENDS Naturals, SequencesExt

CONSTANTS Frames,            \* what the client may send
          MaxFrames,         \* bound: how many frames it sends
          MaxWire,           \* bound: how many of them wait for one fill()
          MaxSends,          \* bound: how many times the program calls send or ping
          max_message_size   \* pa_post_max_size at the time of ^websocket:accept[]

Byte  == {"a", "lead", "trail"}
Code  == {"NORMAL", "NO_STATUS", "ABNORMAL", "PROTOCOL_ERROR", "INVALID_DATA",
          "TOO_BIG", "INTERNAL_ERROR"}
Data  == {"text", "binary", "cont"}   \* opcodes of the frames of messages

\* A frame of op "invalid" is one parse() refuses, with its error_code; the size
\* of any other is one parse() lets through.  op "short", "badstatus" and
\* "badreason" are Close frames the CLOSE case of receive() refuses.
ASSUME FramesAssumption ==
    \A f \in Frames :
        /\ f.op \in Data \cup {"ping", "pong", "close", "short", "badstatus",
                               "badreason", "invalid"}
        /\ f.fin \in BOOLEAN /\ f.code \in Code /\ f.data \in Seq(Byte)
        /\ Len(f.data) <= max_message_size
ASSUME BoundsAssumption == {MaxFrames, MaxWire, MaxSends, max_message_size} \subseteq Nat

VARIABLES
    \* the client and the network
    sent,        \* frames the client has sent and the network has not dropped
    wire,        \* those of them the server has not received yet
    peer,        \* "open", "closed" (the client sends no more) or "reset"
    out,         \* what the server has written after the handshake
    writeFailed, \* history: a send_body() has failed
    \* class WebSocket
    accepted, closed, close_sent, rbuf, eof, msg_opcode, msg,
    \* the request
    started,     \* response.started is WEBSOCKET
    handler,     \* "main", "closing" (core() has called close()), "unhandled" (which
                 \* has failed)
    pc,          \* "program", in a call: "receive" or "close", "end", "done"
    result,      \* the Close message receive() has returned last, its code
    delivered,   \* history: the messages given to the program
    asked,       \* history: close() was called
    sends        \* history: calls of send() and of ping

net     == <<sent, wire, peer>>
written == <<out, writeFailed>>
flags   == <<accepted, closed, close_sent, started>>
message == <<msg_opcode, msg>>
request == <<handler, pc, result, delivered, asked, sends>>
vars    == <<net, written, flags, rbuf, eof, message, request>>

Init ==
    /\ sent = <<>> /\ wire = <<>> /\ peer = "open"
    /\ out = <<>> /\ writeFailed = FALSE
    /\ accepted = FALSE /\ closed = FALSE /\ close_sent = FALSE /\ started = FALSE
    /\ rbuf = <<>> /\ eof = FALSE /\ msg_opcode = "" /\ msg = <<>>
    /\ handler = "main" /\ pc = "program" /\ result = "none"
    /\ delivered = <<>> /\ asked = FALSE /\ sends = 0
-----------------------------------------------------------------------------
\* The client and the network (external)

\* Only accept and fill() look at what has come: what the client sends while
\* the program does something else may as well come when they look
looking == ~started \/ (pc \in {"receive", "close"} /\ rbuf = <<>>)

clientSends ==
    /\ peer = "open" /\ looking /\ Len(sent) < MaxFrames /\ Len(wire) < MaxWire
    /\ \E f \in Frames : sent' = Append(sent, f) /\ wire' = Append(wire, f)
    /\ UNCHANGED <<peer, written, flags, rbuf, eof, message, request>>

clientCloses ==
    /\ peer = "open" /\ looking /\ peer' = "closed"
    /\ UNCHANGED <<sent, wire, written, flags, rbuf, eof, message, request>>

dropped == /\ peer' = "reset" /\ wire' = <<>>
           /\ sent' = SubSeq(sent, 1, Len(sent) - Len(wire))
clientResets ==
    /\ peer # "reset" /\ pc # "done" /\ dropped
    /\ UNCHANGED <<written, flags, rbuf, eof, message, request>>
-----------------------------------------------------------------------------
\* write_frame(): the frame goes whole, or send_body() throws (the client is
\* gone, or does not read until SO_SNDTIMEO, or the response timeout interrupts
\* the call).  What may have gone of the frame then is no frame.  Bound: with a
\* client that is there this happens once.

frame(op, code, data) == [op |-> op, code |-> code, data |-> data]
wrote(f) == peer # "reset" /\ out' = Append(out, f) /\ UNCHANGED writeFailed
writeFails == (writeFailed => peer # "open") /\ writeFailed' = TRUE /\ UNCHANGED out
\* send_close(): close_sent is set first
send_close(code) ==
    /\ close_sent' = TRUE
    /\ wrote(frame("close", code, <<>>)) \/ writeFails
-----------------------------------------------------------------------------
\* ^websocket:accept[] sends the headers, start() takes what came after those of
\* the request.  Before the headers a refused handshake is an ordinary error.
accept ==
    /\ pc = "program" /\ ~started /\ peer # "reset"
    /\ started' = TRUE /\ accepted' = TRUE
    /\ \E n \in 0 .. Len(wire) :
          rbuf' = SubSeq(wire, 1, n) /\ wire' = SubSeq(wire, n + 1, Len(wire))
    /\ UNCHANGED <<sent, peer, written, closed, close_sent, eof, message, request>>

\* response.started is set before the headers go
acceptFails ==
    /\ pc = "program" /\ ~started
    /\ started' = TRUE /\ writeFailed' = TRUE /\ dropped
    /\ UNCHANGED <<out, accepted, closed, close_sent, rbuf, eof, message, request>>
-----------------------------------------------------------------------------
\* ^websocket:receive(timeout) and the loop of receive(): a step is one frame or
\* one fill()

enterReceive ==
    /\ pc = "program" /\ accepted /\ ~closed
    /\ pc' = "receive" /\ result' = "none"
    /\ UNCHANGED <<net, written, flags, rbuf, eof, message, handler, delivered, asked, sends>>

parsed(ops) == /\ pc = "receive" /\ rbuf # <<>> /\ Head(rbuf).op \in ops
               /\ rbuf' = Tail(rbuf)

\* failed(): the Close message; with notify the client is told too, and an error
\* of that is ignored
failed(code, notify) ==
    /\ closed' = TRUE /\ msg_opcode' = "" /\ msg' = <<>>
    /\ IF notify THEN send_close(code) ELSE UNCHANGED <<close_sent, written>>
    /\ pc' = "program" /\ result' = code
    /\ UNCHANGED delivered

deliver(op, data) ==
    /\ delivered' = Append(delivered, [op |-> op, data |-> data])
    /\ pc' = "program" /\ UNCHANGED <<result, closed, close_sent, written>>

pong(f)       == frame("pong", "", f.data)

receivePing ==
    /\ parsed({"ping"})
    /\ \/ wrote(pong(Head(rbuf))) /\ UNCHANGED pc
       \/ writeFails /\ pc' = "program"
    /\ UNCHANGED <<net, flags, eof, message, handler, result, delivered, asked, sends>>

receivePong ==
    /\ parsed({"pong"})
    /\ UNCHANGED <<net, written, flags, eof, message, request>>

answer(f) == frame("close", f.code, <<>>)

\* The answer to a Close has its code; when it fails the exception leaves closed unset
receiveClose ==
    /\ parsed({"close"})
    /\ IF close_sent
       THEN closed' = TRUE /\ UNCHANGED <<close_sent, written>>
       ELSE /\ close_sent' = TRUE
            /\ \/ wrote(answer(Head(rbuf))) /\ closed' = TRUE
               \/ writeFails /\ UNCHANGED closed
    /\ pc' = "program"
    /\ result' = IF closed' THEN Head(rbuf).code ELSE "none"
    /\ UNCHANGED <<net, accepted, started, eof, message, handler, delivered, asked, sends>>

receiveRefused ==
    /\ parsed({"invalid", "short", "badstatus", "badreason"})
    /\ failed(CASE Head(rbuf).op = "invalid" -> Head(rbuf).code
                [] Head(rbuf).op = "badreason" -> "INVALID_DATA"
                [] OTHER -> "PROTOCOL_ERROR", TRUE)
    /\ UNCHANGED <<net, accepted, started, eof, handler, asked, sends>>

\* pa_pcre_valid_utf(): lead and trail go in pairs
valid_utf8(data) ==
    \A i \in DOMAIN data :
        /\ data[i] = "lead" => i < Len(data) /\ data[i + 1] = "trail"
        /\ data[i] = "trail" => i > 1 /\ data[i - 1] = "lead"

outOfPlace(f) == IF f.op = "cont" THEN msg_opcode = "" ELSE msg_opcode # ""
opcodeOf(f)   == IF f.op = "cont" THEN msg_opcode ELSE f.op
\* the fragments so far; msg.size is reset by the first one
joined_wrong(f) == msg \o f.data
joined(f)       == IF f.op = "cont" THEN msg \o f.data ELSE f.data

tooBig(data)       == Len(data) > max_message_size

receiveFragment ==
    /\ parsed(Data)
    /\ LET f == Head(rbuf) IN
       /\ ~outOfPlace(f) /\ ~f.fin
       /\ IF tooBig(joined(f))
          THEN failed("TOO_BIG", TRUE)
          ELSE /\ msg_opcode' = opcodeOf(f) /\ msg' = joined(f)
               /\ UNCHANGED <<closed, close_sent, written, pc, result, delivered>>
    /\ UNCHANGED <<net, accepted, started, eof, handler, asked, sends>>

receiveMessage ==
    /\ parsed(Data)
    /\ LET f == Head(rbuf) IN
       \/ outOfPlace(f) /\ failed("PROTOCOL_ERROR", TRUE)
       \/ /\ ~outOfPlace(f) /\ f.fin
          /\ IF tooBig(joined(f))
             THEN failed("TOO_BIG", TRUE)
             ELSE IF opcodeOf(f) = "text" /\ ~valid_utf8(joined(f))
             THEN failed("INVALID_DATA", TRUE)
             ELSE /\ deliver(opcodeOf(f), joined(f))
                  /\ msg_opcode' = ""
                  /\ msg' = IF f.op = "cont" THEN joined(f) ELSE msg
    /\ UNCHANGED <<net, accepted, started, eof, handler, asked, sends>>
-----------------------------------------------------------------------------
\* fill() when no whole frame is there: in receive() and in close()

fillData ==
    /\ pc \in {"receive", "close"} /\ rbuf = <<>>
    /\ \E n \in 1 .. Len(wire) :
          rbuf' = SubSeq(wire, 1, n) /\ wire' = SubSeq(wire, n + 1, Len(wire))
    /\ UNCHANGED <<sent, peer, written, flags, eof, message, request>>

\* where close() was called from: @main is over, or ^websocket:close[]
afterClose == IF handler = "closing" THEN "end" ELSE "program"

\* The end of data: the Close message of receive(), the end of close()
fillEof ==
    /\ pc \in {"receive", "close"} /\ rbuf = <<>> /\ wire = <<>> /\ peer # "open"
    /\ eof' = TRUE
    /\ IF pc = "receive" THEN failed("ABNORMAL", FALSE)
       ELSE /\ closed' = TRUE /\ pc' = afterClose
            /\ UNCHANGED <<close_sent, written, message, result, delivered>>
    /\ UNCHANGED <<net, accepted, started, rbuf, handler, asked, sends>>

\* Nothing comes in time
fillTimeoutIn(calls) ==
    /\ pc \in calls /\ rbuf = <<>> /\ peer = "open"
    /\ IF pc = "receive" THEN pc' = "program" /\ UNCHANGED closed
       ELSE closed' = TRUE /\ pc' = afterClose
    /\ UNCHANGED <<net, written, accepted, close_sent, started, rbuf, eof, message,
                   handler, result, delivered, asked, sends>>

fillTimeout_wrong == fillTimeoutIn({"receive"})
fillTimeout       == fillTimeoutIn({"receive", "close"})

\* An exception: poll() or recv() fail, and so does every call after it
fillError ==
    /\ pc \in {"receive", "close"} /\ rbuf = <<>> /\ dropped
    /\ pc' = "program"
    /\ handler' = IF handler = "closing" THEN "unhandled" ELSE handler
    /\ UNCHANGED <<written, flags, rbuf, eof, message, result, delivered, asked, sends>>

\* The response timeout interrupts poll(); receive() has stopped the timer
closeInterrupted ==
    /\ pc = "close" /\ rbuf = <<>>
    /\ pc' = "program"
    /\ handler' = IF handler = "closing" THEN "unhandled" ELSE handler
    /\ UNCHANGED <<net, written, flags, rbuf, eof, message, result, delivered, asked, sends>>
-----------------------------------------------------------------------------
\* ^websocket:send[] and ^websocket:ping[], which differ in the opcode only

maySend_wrong == ~closed
maySend       == ~closed /\ ~close_sent

send ==
    /\ pc = "program" /\ accepted /\ maySend /\ sends < MaxSends
    /\ sends' = sends + 1
    /\ wrote(frame("text", "", <<"a">>)) \/ writeFails
    /\ UNCHANGED <<net, flags, rbuf, eof, message, handler, pc, result, delivered, asked>>

\* close(): from ^websocket:close[] or, when @main is over, from core(); there it is
\* called if response.started, even when the headers have failed
close(from) ==
    /\ asked' = TRUE /\ result' = "none"
    /\ IF closed
       THEN /\ pc' = IF from = "closing" THEN "end" ELSE "program"
            /\ UNCHANGED <<close_sent, written>> /\ handler' = from
       ELSE IF close_sent
       THEN pc' = "close" /\ handler' = from /\ UNCHANGED <<close_sent, written>>
       ELSE /\ close_sent' = TRUE
            /\ \/ wrote(frame("close", "NORMAL", <<>>)) /\ pc' = "close" /\ handler' = from
               \/ /\ writeFails /\ pc' = "program"
                  /\ handler' = IF from = "closing" THEN "unhandled" ELSE from
    /\ UNCHANGED <<net, accepted, closed, started, rbuf, eof, message, delivered, sends>>

programCloses == pc = "program" /\ accepted /\ close(handler)
mainReturns   == pc = "program" /\ handler = "main" /\ started /\ close("closing")

\* The closing handshake: everything but Close is ignored
closeIgnores ==
    /\ pc = "close" /\ rbuf # <<>> /\ rbuf' = Tail(rbuf)
    /\ Head(rbuf).op \notin {"close", "short", "badstatus", "badreason", "invalid"}
    /\ UNCHANGED <<net, written, flags, eof, message, request>>

closeEnds ==
    /\ pc = "close" /\ rbuf # <<>> /\ rbuf' = Tail(rbuf)
    /\ Head(rbuf).op \in {"close", "short", "badstatus", "badreason", "invalid"}
    /\ closed' = TRUE /\ pc' = afterClose
    /\ UNCHANGED <<net, written, accepted, close_sent, started, eof, message,
                   handler, result, delivered, asked, sends>>

\* An error nothing has caught ends the request without close(), and so does the
\* end of @unhandled_exception.  What that method does with the connection the
\* program might have done before the error.
requestFails ==
    /\ pc = "program" /\ pc' = "end" /\ handler' = "closing" /\ result' = "none"
    /\ UNCHANGED <<net, written, flags, rbuf, eof, message, delivered, asked, sends>>

leftOpen == accepted /\ ~closed /\ ~close_sent

dtor ==
    /\ pc = "end" /\ pc' = "done"
    /\ IF leftOpen THEN send_close("INTERNAL_ERROR")
       ELSE UNCHANGED <<close_sent, written>>
    /\ UNCHANGED <<net, accepted, closed, started, rbuf, eof, message,
                   handler, result, delivered, asked, sends>>
-----------------------------------------------------------------------------
inCall ==
    \/ receivePing \/ receivePong \/ receiveClose \/ receiveRefused
    \/ receiveFragment \/ receiveMessage
    \/ fillData \/ fillEof \/ fillTimeout \/ closeIgnores \/ closeEnds

program ==
    \/ accept \/ acceptFails \/ enterReceive \/ send \/ programCloses
    \/ mainReturns \/ requestFails \/ dtor

done == pc = "done" /\ UNCHANGED vars

Next == clientSends \/ clientCloses \/ clientResets \/ inCall \/ fillError
        \/ closeInterrupted \/ program \/ done

Spec == Init /\ [][Next]_vars
\* A call goes on while it can; no error and no interruption need ever come
FairSpec == Spec /\ WF_vars(inCall)
-----------------------------------------------------------------------------
OutFrame == [op : {"text", "pong", "close"}, code : Code \cup {""}, data : Seq(Byte)]

TypeOK ==
    /\ wire \in Seq(Frames) /\ rbuf \in Seq(Frames) /\ sent \in Seq(Frames)
    /\ peer \in {"open", "closed", "reset"} /\ out \in Seq(OutFrame)
    /\ {writeFailed, accepted, closed, close_sent, started, eof, asked} \subseteq BOOLEAN
    /\ msg_opcode \in {"", "text", "binary"}
    /\ msg \in Seq(Byte) /\ Len(msg) <= max_message_size
    /\ handler \in {"main", "closing", "unhandled"}
    /\ pc \in {"program", "receive", "close", "end", "done"}
    /\ result \in Code \cup {"none"} /\ sends \in 0 .. MaxSends

\* How many frames receive() has taken, as long as close() has taken none.
Taken == Len(sent) - Len(wire) - Len(rbuf)

\* The fragments of a message among frames i to j, with control frames between
\* them: how many bytes they have, and the bytes, each of the fragment that
\* brings their number to its place or beyond.
isData(f) == f.op \in Data
sizeOf(d, i, j) ==
    Cardinality({b \in (i .. j) \X (1 .. max_message_size) : isData(d[b[1]]) /\ b[2] <= Len(d[b[1]].data)})
placed(d, i, j, x) ==
    {d[k].data[x - sizeOf(d, i, k - 1)] :
        k \in {k \in i .. j : sizeOf(d, i, k - 1) < x /\ x <= sizeOf(d, i, k)}}
bytesOf(d, i, j) == [x \in 1 .. sizeOf(d, i, j) |-> CHOOSE byte \in placed(d, i, j, x) : TRUE]
Message(d, i, j) == [op |-> d[i].op, data |-> bytesOf(d, i, j)]

\* Frames i to j make a message if none before i is left unfinished, j is the only
\* final fragment of them and only i names the opcode; the size is up to the limit
\* and a text is UTF-8.
mayBegin(d, i) ==
    \A k \in 1 .. i - 1 : isData(d[k]) /\ ~d[k].fin => \E l \in k + 1 .. i - 1 : isData(d[l]) /\ d[l].fin
IsMessage(d, i, j) ==
    /\ mayBegin(d, i) /\ isData(d[i]) /\ isData(d[j])
    /\ \A k \in i .. j : isData(d[k]) => (d[k].fin <=> k = j) /\ (d[k].op = "cont" <=> k # i)
    /\ sizeOf(d, i, j) <= max_message_size
    /\ d[i].op = "text" => valid_utf8(bytesOf(d, i, j))
\* where those of the first n frames end
Ends(d, n) == {j \in 1 .. n : \E i \in 1 .. j : IsMessage(d, i, j)}
AllOf(d, n, messages) ==
    /\ Len(messages) = Cardinality(Ends(d, n))
    /\ \A j \in Ends(d, n) : \A i \in 1 .. j :
          IsMessage(d, i, j) => messages[Cardinality(Ends(d, j))] = Message(d, i, j)

\* What ^websocket:receive() has returned are the messages the client has sent,
\* whole, in order and with none missing, whatever control frames came between
\* the fragments and however the frames were cut into reads.
DeliveredWhole == ~asked => AllOf(sent, Taken, delivered)

\* How many of the first n frames have this opcode
Nth(frames, op, n) == Cardinality({i \in 1 .. n : frames[i].op = op})
\* the pongs among ours are those to the pings of the first n of theirs, in order
PongsFor(theirs, n, ours) ==
    /\ Nth(ours, "pong", Len(ours)) = Nth(theirs, "ping", n)
    /\ \A i \in 1 .. Len(ours), j \in 1 .. n :
          ours[i].op = "pong" /\ theirs[j].op = "ping" /\ Nth(ours, "pong", i) = Nth(theirs, "ping", j) =>
              ours[i].data = theirs[j].data

\* Each ping that was taken got a pong with the data of the ping, in order.
PingsAnswered == ~asked /\ ~writeFailed => PongsFor(sent, Taken, out)

\* The handshake of closing.  After its Close the server sends no message and no
\* ping (RFC 6455 5.5.1); the code of the Close message the program gets is the
\* one the client was told, unless the client is gone, the telling failed, or the
\* server had asked to close first; and however the request ends, a client that
\* is still there got a Close.
NoDataAfterClose ==
    \A i, j \in DOMAIN out : i < j /\ out[i].op = "close" => out[j].op # "text"
ToldAlike ==
    result \notin {"none", "ABNORMAL"} /\ ~asked /\ ~writeFailed =>
        out # <<>> /\ Last(out) = frame("close", result, <<>>)
EndsWithClose ==
    pc = "done" /\ accepted =>
        \/ \E i \in DOMAIN out : out[i].op = "close"
        \/ writeFailed \/ peer # "open"
ClosesOnce == NoDataAfterClose /\ ToldAlike /\ EndsWithClose

\* What the protocol asks of the server besides messages
PeerAnswered == PingsAnswered /\ ClosesOnce

\* receive() and close() return, even when the client says nothing.
CallsReturn == pc \in {"receive", "close"} ~> pc \notin {"receive", "close"}
=============================================================================
