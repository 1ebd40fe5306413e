----------------------------- MODULE RequestCore -----------------------------
(***************************************************************************)
(* One request, from the code of the page to the last byte of the answer:  *)
(* Request::core() and what it calls to answer (output_result(), start(),  *)
(* stream(), output_pieces(), send_range() of main/pa_request.C), the      *)
(* SAPI_Info classes that keep and send the headers (targets/cgi/          *)
(* pa_sapi_info.h) and the handlers of the last resort around core()       *)
(* (targets/cgi/parser3.C).                                                *)
(*                                                                         *)
(* The code of the page (main method, @postprocess[], then                 *)
(* @unhandled_exception[] if there is one) is any sequence of the calls    *)
(* that reach the answer.  A header is the name of who has set it.         *)
(***************************************************************************)
EXTENDS FiniteSets, ByteRange

CONSTANTS Ranges,      \* the Range headers clients send
          MaxSize,     \* bound: bytes of a file the page answers with
          Block,       \* FILE_BUFFER_SIZE
          MaxOps,      \* bound: calls the code of the page makes
          MaxFails     \* bound: writes and reads that fail
ASSUME RangesAssumption == Ranges \subseteq Seq(Token)
ASSUME BoundsAssumption ==
    /\ MaxSize \in Nat /\ MaxSize < UNSET /\ Block \in Nat \ {0}
    /\ MaxOps \in Nat /\ MaxFails \in Nat

VARIABLES
    target,       \* whose SAPI_Info it is: "httpd", "cgi" or "console"
    header_only,  \* is_header_only(): the method is HEAD
    \* core()
    stage,        \* where it is
    pass,         \* 1, and 2 in its catch
    exc,          \* the type of the last exception
    \* response
    started, fields,
    \* SAPI_Info: headers, and http_response_code is HEADERS_SENT
    headers, headersSent,
    fused,        \* console.was_used()
    \* the file being sent
    range,        \* the Range header asked for, <<>> for none
    size,         \* of file_stat()
    actual,       \* of the file opened after it
    piece,        \* what output_pieces() has decided
    sent,         \* bytes of it that have gone
    \* what the client gets, and history
    out, broken, raised, logged, handled, ops, fails

control == <<stage, pass, exc, raised>>
resp    == <<started, fields>>
info    == <<headers, headersSent>>
file    == <<range, size, actual, piece, sent>>
counts  == <<ops, fails>>
vars == <<target, header_only, control, resp, info, fused, file, out, broken,
          logged, handled, counts>>

Code  == {"main", "postprocess", "unhandled"}    \* stages in the code of the page
Stage == Code \cup {"output", "output_sole_piece", "output_pieces", "send_range", "send_blocks",
                    "catch", "noUnhandled", "unhandledFailed", "report", "outer", "threadCatch", "done"}
Error == {"none", "parser.runtime", "parser.interrupted", "file.missing", "file.read",
          "httpd.write"}
Header == {"cookie", "page", "error", "switch", "ranges", "206", "length", "modified"}

head(attrs)  == [kind |-> "head", by |-> pass, data |-> attrs]
body(what)   == [kind |-> "body", by |-> pass, data |-> {what}]
error(status) == [kind |-> "error", by |-> pass, data |-> {status}]
isAnswer(item) == item.kind \in {"head", "error"}
headIsOut == \E i \in DOMAIN out : isAnswer(out[i])

Init ==
    /\ target \in {"httpd", "cgi", "console"}
    /\ header_only \in (IF target = "console" THEN {FALSE} ELSE BOOLEAN)
    /\ stage = "main" /\ pass = 1 /\ exc = "none"
    /\ started = "UNSTARTED" /\ fields = {}
    /\ headers = {} /\ headersSent = FALSE /\ fused = FALSE
    /\ range = <<>> /\ size = 0 /\ actual = 0 /\ piece = whole(0) /\ sent = 0
    /\ out = <<>> /\ broken = FALSE /\ raised = 0 /\ logged = 0 /\ handled = FALSE
    /\ ops = 0 /\ fails = 0
-----------------------------------------------------------------------------
\* Exceptions.  Those of the first pass go to core()'s catch, those of
\* @unhandled_exception[] to the catch in it, all others leave core().
\* broken: an answer that has begun will not be finished.

catcher == CASE pass = 1 -> "catch"
             [] stage = "unhandled" -> "unhandledFailed"
             [] stage = "outer" -> "threadCatch"
             [] OTHER -> "outer"
raise(e) == /\ stage' = catcher /\ exc' = e /\ raised' = raised + 1
            /\ UNCHANGED pass
\* An exception in the code of the page may be caught there, but for the
\* interruption (Uncatchable_exception)
thrown(e) == \/ raise(e)
             \/ e # "parser.interrupted" /\ UNCHANGED control

\* SAPI::send_headers() puts a head before what follows, where there is one
noHead == target = "console" \/ (target = "cgi" /\ fused)
withHead(attrs, items) == IF noHead THEN items ELSE <<head(attrs)>> \o items

\* A series of writes, the first of which is send_headers() when h.  Only the
\* server reports a write that failed, by then a part of items has gone; the
\* write of another target is lost without an exception.
written(items, h) ==
    /\ out' = out \o items
    /\ headersSent' = (headersSent \/ (h /\ ~noHead))
    /\ UNCHANGED <<broken, fails>>
writeThrows(items, h) ==
    /\ target = "httpd" /\ fails < MaxFails /\ fails' = fails + 1
    /\ broken' = TRUE
    /\ \E k \in 0..Len(items) - 1 :
           /\ out' = out \o SubSeq(items, 1, k)
           /\ headersSent' = (headersSent \/ (h /\ k > 0))
writeLost(items, h) ==
    /\ target # "httpd" /\ items # <<>> /\ fails < MaxFails /\ fails' = fails + 1
    /\ broken' = TRUE /\ UNCHANGED out
    /\ headersSent' = (headersSent \/ (h /\ ~noHead))
WriteError == {"httpd.write", "parser.interrupted"}

\* SAPI::send_error(): nothing after the headers.  Two writes, one item.
errorItems(status) ==
    IF headersSent /\ target # "console" THEN <<>> ELSE <<error(status)>>
\* cookie.output_result() and the fields of the response; one of them may not be
\* a value for a header, some of the others are in headers then
addFields ==
    /\ "bad" \notin fields
    /\ headers' = headers \cup {"cookie"} \cup fields
addFieldsFails ==
    /\ "bad" \in fields
    /\ \E some \in SUBSET (fields \ {"bad"}) : headers' = headers \cup {"cookie"} \cup some
-----------------------------------------------------------------------------
\* The code of the page

running == stage \in Code /\ ops < MaxOps /\ ops' = ops + 1
owner   == IF pass = 1 THEN "page" ELSE "error"

\* $response:field[], with a value that is good for a header or is not
putElement ==
    /\ running
    /\ \E field \in {owner, "bad"} : fields' = fields \cup {field}
    /\ UNCHANGED <<target, header_only, control, started, info, fused, file, out,
                   broken, logged, handled, fails>>
\* ^response:clear[]
clear ==
    /\ running /\ fields' = {}
    /\ UNCHANGED <<target, header_only, control, started, info, fused, file, out,
                   broken, logged, handled, fails>>
\* $console:line[]: to stdout, which is not the answer of the server
consoleLine ==
    /\ running /\ target # "httpd"
    /\ fused' = TRUE /\ out' = Append(out, body("line"))
    /\ UNCHANGED <<target, header_only, control, resp, info, file, broken, logged,
                   handled, fails>>

\* Request::start(): started is set when the headers are ready, before they go
start(mode, items, more) ==
    \/ /\ addFieldsFails /\ thrown("parser.runtime")
       /\ fields' = fields \cup more
       /\ UNCHANGED <<started, headersSent, out, broken, fails>>
    \/ /\ "bad" \notin fields
       /\ fields' = fields \cup more
       /\ headers' = headers \cup {"cookie"} \cup fields'
       /\ started' = mode
       /\ LET all == withHead(headers', items)
          IN  \/ written(all, TRUE) /\ UNCHANGED control
              \/ writeLost(all, TRUE) /\ UNCHANGED control
              \/ writeThrows(all, TRUE) /\ \E e \in WriteError : thrown(e)

partItems == IF header_only THEN <<>> ELSE <<body(owner)>>
\* ^response:stream[], the first and the next ones
streamStart ==
    /\ running /\ started = "UNSTARTED"
    /\ start("STREAM", partItems, {})
    /\ UNCHANGED <<target, header_only, fused, file, logged, handled>>
streamPart ==
    /\ running /\ started = "STREAM"
    /\ \/ written(partItems, FALSE) /\ UNCHANGED control
       \/ writeLost(partItems, FALSE) /\ UNCHANGED control
       \/ writeThrows(partItems, FALSE) /\ \E e \in WriteError : thrown(e)
    /\ UNCHANGED <<target, header_only, resp, headers, fused, file, logged, handled>>
streamRefused ==
    /\ running /\ started = "WEBSOCKET" /\ thrown("parser.runtime")
    /\ UNCHANGED <<target, header_only, resp, info, fused, file, out, broken, logged,
                   handled, fails>>
\* ^websocket:accept[]: its headers are put into the fields first
accept ==
    /\ running /\ target = "httpd" /\ started = "UNSTARTED"
    /\ start("WEBSOCKET", <<>>, {"switch"})
    /\ UNCHANGED <<target, header_only, fused, file, logged, handled>>
\* an exception the code of the page does not catch
fail ==
    /\ running
    /\ \E e \in {"parser.runtime", "parser.interrupted", "file.missing"} : raise(e)
    /\ UNCHANGED <<target, header_only, resp, info, fused, file, out, broken, logged,
                   handled, fails>>
-----------------------------------------------------------------------------
\* core() after the main method

\* The websocket is closed (module WebSocket); what has started is the answer
mainReturns ==
    /\ stage = "main"
    /\ IF started # "UNSTARTED"
       THEN stage' = "done"
       ELSE stage' \in {"postprocess", "output"}
    /\ UNCHANGED <<target, header_only, pass, exc, raised, resp, info, fused, file, out,
                   broken, logged, handled, counts>>
postprocessReturns ==
    /\ stage = "postprocess" /\ stage' = "output"
    /\ UNCHANGED <<target, header_only, pass, exc, raised, resp, info, fused, file, out,
                   broken, logged, handled, counts>>

\* as_vfile() of the result throws: it is no file and no string, or a part of it
\* is tainted as SQL.  For the page of an error after a stream that is the end of
\* the promise that nothing but data follows.
asVfileFails ==
    /\ stage \in {"output", "report"} /\ raise("parser.runtime")
    /\ broken' = (broken \/ (pass = 2 /\ started # "UNSTARTED"))
    /\ UNCHANGED <<target, header_only, resp, info, fused, file, out, logged, handled,
                   counts>>
\* output_result(): the answer has started already
\* Mutant: output_result() forgets websockets
alreadyStarted_wrong == started = "STREAM"
alreadyStarted == started # "UNSTARTED"
outputNothing ==
    /\ stage \in {"output", "report"} /\ alreadyStarted /\ stage' = "done"
    /\ UNCHANGED <<target, header_only, pass, exc, raised, resp, info, fused, file, out,
                   broken, logged, handled, counts>>
\* output_result(): the headers
outputFails ==
    /\ stage \in {"output", "report"} /\ ~alreadyStarted
    /\ addFieldsFails /\ raise("parser.runtime")
    /\ UNCHANGED <<target, header_only, resp, headersSent, fused, file, out, broken,
                   logged, handled, counts>>
outputResult ==
    /\ stage \in {"output", "report"} /\ ~alreadyStarted
    /\ addFields
    /\ stage' \in {"output_sole_piece"} \cup
                  (IF pass = 1 THEN {"output_pieces"} ELSE {})
    /\ UNCHANGED <<target, header_only, pass, exc, raised, resp, headersSent, fused, file,
                   out, broken, logged, handled, counts>>

output_sole_piece ==
    /\ stage = "output_sole_piece"
    /\ headers' = headers \cup {"length"}
    /\ LET all == withHead(headers', partItems)
       IN  \/ /\ written(all, TRUE) \/ writeLost(all, TRUE)
              /\ stage' = "done" /\ UNCHANGED <<pass, exc, raised>>
           \/ writeThrows(all, TRUE) /\ \E e \in WriteError : raise(e)
    /\ UNCHANGED <<target, header_only, resp, fused, file, logged, handled, ops>>

\* output_pieces() after file_stat(), which may throw
statFails ==
    /\ stage = "output_pieces" /\ raise("file.missing")
    /\ UNCHANGED <<target, header_only, resp, info, fused, file, out, broken, logged,
                   handled, counts>>
pieceFor(text, length) ==
    IF text = <<>> \/ length = 0 THEN whole(length) ELSE ranged(text, length)
sendError(status) ==
    \/ /\ written(errorItems(status), FALSE) \/ writeLost(errorItems(status), FALSE)
       /\ stage' = "done" /\ UNCHANGED <<pass, exc, raised>>
    \/ writeThrows(errorItems(status), FALSE) /\ \E e \in WriteError : raise(e)

output_pieces ==
    /\ stage = "output_pieces"
    /\ range' \in {<<>>} \cup (IF target = "console" THEN {} ELSE Ranges)
    /\ size' \in 0..MaxSize
    /\ piece' = pieceFor(range', size') /\ sent' = 0
    /\ IF piece'.status \notin {"200", "206"}
       THEN /\ sendError(piece'.status)
            /\ headers' = headers \cup {"ranges"} /\ UNCHANGED actual
       ELSE /\ headers' = headers \cup {"ranges", "length", "modified"}
                          \cup (IF piece'.status = "206" THEN {"206"} ELSE {})
            /\ stage' = "send_range" /\ UNCHANGED <<pass, exc, raised>>
            /\ actual' \in 0..size'
            /\ UNCHANGED <<out, headersSent, broken, fails>>
    /\ UNCHANGED <<target, header_only, resp, fused, logged, handled, ops>>
\* For HEAD send_headers() is all; for others the file is opened and locked
\* first, which may fail
sendRangeHead ==
    /\ stage = "send_range" /\ ~headersSent /\ sent = 0
    /\ LET all == withHead(headers, <<>>)
       IN  \/ /\ written(all, TRUE) \/ writeLost(all, TRUE)
              /\ stage' = IF header_only THEN "done" ELSE "send_blocks"
              /\ UNCHANGED <<pass, exc, raised>>
           \/ writeThrows(all, TRUE) /\ \E e \in WriteError : raise(e)
           \/ /\ ~header_only /\ raise("file.missing")
              /\ UNCHANGED <<out, headersSent, broken, fails>>
    /\ UNCHANGED <<target, header_only, resp, headers, fused, file, logged, handled, ops>>
\* send_range(): read a block, write it, until there is no more of the part or
\* of the file
toSend ==
    LET at == piece.offset + sent
    IN  IF at >= actual THEN 0
        ELSE atMost(atMost(piece.length - sent, Block), actual - at)
sendBlock ==
    /\ stage = "send_blocks" /\ toSend > 0
    /\ LET block == <<body("file")>>
       IN  \/ /\ written(block, FALSE) /\ sent' = sent + toSend
              /\ stage' = IF sent' = piece.length THEN "done" ELSE stage
              /\ UNCHANGED <<pass, exc, raised>>
           \/ /\ writeLost(block, FALSE) /\ stage' = "done"
              /\ UNCHANGED <<pass, exc, raised, sent>>
           \/ /\ writeThrows(block, FALSE) /\ \E e \in WriteError : raise(e)
              /\ UNCHANGED sent
    /\ UNCHANGED <<target, header_only, resp, headers, fused, range, size, actual, piece,
                   logged, handled, ops>>
sendEnds ==
    /\ stage = "send_blocks" /\ toSend = 0 /\ stage' = "done"
    /\ UNCHANGED <<target, header_only, pass, exc, raised, resp, info, fused, file, out,
                   broken, logged, handled, counts>>
readFails ==
    /\ stage = "send_blocks" /\ fails < MaxFails /\ fails' = fails + 1
    /\ raise("file.read") /\ broken' = (broken \/ headIsOut)
    /\ UNCHANGED <<target, header_only, resp, info, fused, file, out, logged, handled, ops>>
-----------------------------------------------------------------------------
\* core()'s catch

SAPIclearHeaders == headers' = {} /\ headersSent' = FALSE
statusOf(e) == IF e = "file.missing" THEN "404" ELSE "500"

\* The response is reset, and the class may have @unhandled_exception[]
caught ==
    /\ stage = "catch" /\ pass' = 2
    /\ fields' = {} /\ SAPIclearHeaders
    /\ stage' \in {"unhandled", "noUnhandled"}
    /\ UNCHANGED <<target, header_only, exc, raised, started, fused, file, out, broken,
                   logged, handled, counts>>
\* @unhandled_exception[] returns; it may have set $exception.handled
unhandledReturns ==
    /\ stage = "unhandled" /\ stage' = "report"
    /\ handled' \in BOOLEAN
    /\ logged' = IF handled' THEN logged ELSE logged + 1
    /\ UNCHANGED <<target, header_only, pass, exc, raised, resp, info, fused, file, out,
                   broken, counts>>
\* The ugly report, when there is no @unhandled_exception[] or it has failed
\* Mutant: send_error() whether response.started or not
sendErrorUnlessStarted_wrong(status) == sendError(status)
sendErrorUnlessStarted(status) ==
    IF started = "UNSTARTED" THEN sendError(status)
    ELSE stage' = "done" /\ UNCHANGED <<pass, exc, raised, out, headersSent, broken, fails>>
reportUgly ==
    /\ stage = "noUnhandled" /\ logged' = logged + 1
    /\ sendErrorUnlessStarted(statusOf(exc))
    /\ UNCHANGED <<target, header_only, resp, headers, fused, file, handled, ops>>
\* Mutant: the exception of @unhandled_exception[] hides the first one
unhandledFailed_wrong ==
    /\ stage = "unhandledFailed" /\ logged' = logged + 1
    /\ sendErrorUnlessStarted("500")
    /\ UNCHANGED <<target, header_only, resp, headers, fused, file, handled, ops>>
unhandledFailed ==
    /\ stage = "unhandledFailed" /\ logged' = logged + 2
    /\ sendErrorUnlessStarted("500")
    /\ UNCHANGED <<target, header_only, resp, headers, fused, file, handled, ops>>

\* The handlers of the last resort: connection_handler(), or main()
outer ==
    /\ stage = "outer" /\ logged' = logged + 1
    /\ IF target = "httpd" /\ exc = "httpd.write"
       THEN stage' = "done" /\ UNCHANGED <<pass, exc, raised, out, headersSent, broken, fails>>
       ELSE sendError(statusOf(exc))
    /\ UNCHANGED <<target, header_only, resp, headers, fused, file, handled, ops>>
\* connection_thread(): its send_error() has thrown
threadCatch ==
    /\ stage = "threadCatch" /\ logged' = logged + 1 /\ stage' = "done"
    /\ UNCHANGED <<target, header_only, pass, exc, raised, resp, info, fused, file, out,
                   broken, handled, counts>>

page == putElement \/ clear \/ consoleLine \/ streamStart \/ streamPart \/ streamRefused
        \/ accept \/ fail
output == asVfileFails \/ outputNothing \/ outputFails \/ outputResult \/ output_sole_piece
          \/ statFails \/ output_pieces \/ sendRangeHead \/ sendBlock \/ sendEnds \/ readFails
handlers == caught \/ unhandledReturns \/ reportUgly \/ unhandledFailed \/ outer \/ threadCatch
finished == stage = "done" /\ UNCHANGED vars
Next == page \/ mainReturns \/ postprocessReturns \/ output \/ handlers \/ finished
Spec == Init /\ [][Next]_vars
-----------------------------------------------------------------------------
TypeOK ==
    /\ stage \in Stage /\ pass \in {1, 2} /\ exc \in Error
    /\ started \in {"UNSTARTED", "STREAM", "WEBSOCKET"}
    /\ fields \subseteq Header \cup {"bad"} /\ headers \subseteq Header
    /\ headersSent \in BOOLEAN /\ fused \in BOOLEAN /\ broken \in BOOLEAN
    /\ piece.offset + piece.length <= size /\ sent \in 0..MaxSize
    /\ raised \in 0..4 /\ logged \in 0..4

\* The client gets one head or error page, whatever fails in whichever of the
\* four places that may report it: no second one after the first, and one by the
\* end.
OneAnswer ==
    target # "console" /\ ~broken =>
        /\ Cardinality({i \in DOMAIN out : isAnswer(out[i])}) <= 1
        /\ stage = "done" => headIsOut \/ fused

\* After the first part of a stream (or the handshake of a websocket) nothing
\* goes but data: no headers and no error page, from no handler
StreamGoesOn ==
    [][started # "UNSTARTED" /\ ~broken' =>
         \A i \in Len(out) + 1..Len(out') : ~isAnswer(out'[i])]_vars

\* "Can't send error message after headers have been sent" (pa_sapi_info.h): no
\* error page after the head of a page or a file (StreamGoesOn has the streams).
\* There is: core()'s catch resets the mark HEADERS_SENT together with the headers.
NoErrorAfterHeaders ==
    [][target # "console" /\ headIsOut /\ started = "UNSTARTED" =>
         \A i \in Len(out) + 1..Len(out') : out'[i].kind # "error"]_vars

\* A head tells of what follows it: an error page has no header of the page that
\* has failed, and the head of an answer to HEAD has no body.
HeadMatches ==
    /\ \A i \in DOMAIN out : out[i].kind = "head" /\ out[i].by = 2 =>
           out[i].data \cap {"page", "ranges", "206", "modified"} = {}
    /\ header_only => \A i \in DOMAIN out : out[i].kind = "body" => out[i].data = {"line"}

\* Each exception that ends a part of the request is in the log, unless
\* @unhandled_exception[] has handled it
EveryErrorLogged ==
    stage = "done" => raised = logged + (IF handled THEN 1 ELSE 0)

\* A Range header with one range is answered as RFC 7233 says, one with two is
\* refused; and as many bytes go as content-length has announced.
RangeUnderstood ==
    piece # whole(0) /\ range # <<>> /\ size > 0 =>
        /\ isSpec(range, 1, Len(range)) /\ (\A i \in DOMAIN range : range[i].n < UNSET) =>
               LET want == bytesOf(range, size)
               IN  IF want = {} THEN piece.status = "416"
                   ELSE /\ piece.status = "206"
                        /\ want = piece.offset..piece.offset + piece.length - 1
        /\ (\E i \in DOMAIN range :
                /\ range[i].kind = "comma" /\ isSpec(range, 1, i - 1)
                /\ isSpec(range, i + 1, Len(range))) => piece.status = "501"
LengthKept ==
    /\ sent <= piece.length
    /\ stage = "done" /\ pass = 1 /\ ~broken /\ ~header_only /\ actual = size =>
           sent = piece.length
RangeServed == RangeUnderstood /\ LengthKept

\* What follows a head is what the head has told
BodyAsPromised == HeadMatches /\ RangeServed
=============================================================================
