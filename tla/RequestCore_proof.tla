-------------------------- MODULE RequestCore_proof --------------------------
(***************************************************************************)
(* One answer to a request, of the bytes it asks for, and a log of all its *)
(* errors, for any Range headers, sizes of files, calls of the page and    *)
(* failures of writes and reads.                                           *)
(*                                                                         *)
(* There are four handlers that may report an error: core()'s catch, the   *)
(* catch in it, connection_handler() or main(), and connection_thread().   *)
(* Balance says how many exceptions are thrown and not yet logged at each  *)
(* place between them.  Answers says when the head is out: not before      *)
(* response.started, or the writes of a file, and always after; whoever    *)
(* reports an error looks at one of the two, and where one of them is      *)
(* wrong the answer was broken before.  Heads says whose headers are kept  *)
(* in the second pass, after SAPI::clear_headers().  Sends says that the   *)
(* part being sent is the one the Range header asked for, and inside the   *)
(* file; what a turn of parse_range() reads of a header is followed from   *)
(* token to token.                                                         *)
(***************************************************************************)
EXTENDS RequestCore, FiniteSetTheorems, WellFoundedInduction, TLAPS

FirstPass  == {"main", "postprocess", "catch", "output_pieces", "send_range", "send_blocks"}
SecondPass == {"unhandled", "noUnhandled", "unhandledFailed", "report", "outer", "threadCatch"}
Status == {"400", "404", "416", "500", "501"}
Word == Header \cup Status \cup {"file", "line"}
Item == [kind : {"head", "body", "error"}, by : {1, 2}, data : SUBSET Word]

Types ==
    /\ stage \in Stage /\ pass \in {1, 2} /\ exc \in Error
    /\ started \in {"UNSTARTED", "STREAM", "WEBSOCKET"}
    /\ fields \subseteq Header \cup {"bad"} /\ headers \subseteq Header
    /\ headersSent \in BOOLEAN /\ broken \in BOOLEAN /\ handled \in BOOLEAN
    /\ header_only \in BOOLEAN /\ raised \in Nat /\ logged \in Nat /\ out \in Seq(Item)

\* core() runs to its catch once
Passes ==
    /\ stage \in FirstPass => pass = 1
    /\ stage \in SecondPass => pass = 2
    /\ handled => pass = 2 /\ stage \notin {"unhandled", "noUnhandled", "unhandledFailed"}

\* What has started is not answered again; where it is, the answer was broken
Sending == {"output_sole_piece", "output_pieces", "send_range", "send_blocks"}
Started ==
    /\ stage \in Sending => started = "UNSTARTED"
    /\ stage = "outer" => started = "UNSTARTED" \/ broken

\* The exceptions that wait for the one who logs them
pending == CASE stage \in {"catch", "unhandled", "noUnhandled", "outer", "threadCatch"} -> 1
             [] stage = "unhandledFailed" -> 2
             [] OTHER -> 0
Balance == raised = logged + (IF handled THEN 1 ELSE 0) + pending

\* Where the head is out
AtMostOne == \A i, j \in DOMAIN out : isAnswer(out[i]) /\ isAnswer(out[j]) => i = j
Answers ==
    target # "console" /\ ~broken =>
        /\ AtMostOne
        /\ headersSent => headIsOut
        /\ started # "UNSTARTED" => headIsOut \/ fused
        /\ headIsOut => started # "UNSTARTED" \/ stage \in {"send_blocks", "done"}
        /\ stage \in {"send_blocks", "done"} => headIsOut \/ fused
        /\ stage \in {"output_sole_piece", "output_pieces", "send_range", "send_blocks", "outer"} =>
               started = "UNSTARTED"
        /\ stage # "threadCatch" /\ exc # "httpd.write"

\* What is in the headers of the second pass, and in the heads that went
OfPage == {"page", "ranges", "206", "modified"}
Heads ==
    /\ pass = 2 => (headers \cup fields) \cap OfPage = {}
    /\ header_only => stage # "send_blocks"
    /\ HeadMatches

\* The part that is sent is of the file, and of it no more than there is
Sends ==
    /\ range \in {<<>>} \cup Ranges /\ size \in 0 .. MaxSize /\ actual \in Nat /\ sent \in Nat
    /\ piece = pieceFor(range, size)
    /\ stage \in {"main", "postprocess", "output", "output_sole_piece", "output_pieces"} /\ pass = 1 =>
           piece.length = 0 /\ sent = 0
    /\ LengthKept

IInv == Types /\ Passes /\ Started /\ Balance /\ Answers /\ Heads /\ Sends
-----------------------------------------------------------------------------
\* How a step changes control and the log
Output == {"output", "report", "output_sole_piece", "output_pieces", "send_range", "send_blocks"}
Reporting == {"noUnhandled", "unhandledFailed", "outer"}
credit == IF stage = "unhandledFailed" THEN 2 ELSE 1

thrownHere == /\ stage \in Code \cup Output /\ \E e \in Error \ {"none"} : raise(e)
              /\ UNCHANGED <<logged, handled>>
moves(from, to) == /\ stage \in from /\ stage' \in to
                   /\ UNCHANGED <<pass, exc, raised, logged, handled>>
reports == /\ stage \in Reporting /\ logged' = logged + credit /\ UNCHANGED handled
           /\ \/ stage' = "done" /\ UNCHANGED <<pass, exc, raised>>
              \/ \E e \in Error \ {"none"} : raise(e)

LEMMA Control ==
    ASSUME [Next]_vars
    PROVE  \/ UNCHANGED <<stage, pass, exc, raised, logged, handled>>
           \/ thrownHere
           \/ moves({"main"}, {"postprocess", "output", "done"})
           \/ moves({"postprocess"}, {"output"})
           \/ moves({"output", "report"}, {"output_sole_piece", "done"})
           \/ moves({"output"}, {"output_pieces"}) /\ pass = 1
           \/ moves({"report"}, {"output_pieces"}) /\ pass = 1
           \/ moves({"output_sole_piece", "output_pieces", "send_range", "send_blocks"}, {"done"})
           \/ moves({"output_pieces"}, {"send_range"})
           \/ moves({"send_range"}, {"send_blocks"})
           \/ caught \/ unhandledReturns \/ reports \/ threadCatch
<1>. USE DEF control
<1>1. CASE page
  BY <1>1 DEF page, putElement, clear, consoleLine, streamStart, streamPart, streamRefused, accept, fail,
       start, thrown, running, thrownHere, Error, WriteError
<1>2. CASE mainReturns \/ postprocessReturns
  BY <1>2 DEF mainReturns, postprocessReturns, moves
<1>3. CASE asVfileFails \/ outputNothing \/ outputFails \/ outputResult \/ statFails \/ sendEnds \/ readFails
  BY <1>3 DEF asVfileFails, outputNothing, outputFails, outputResult, statFails, sendEnds, readFails,
       moves, thrownHere, Output, Error
<1>4. CASE output_sole_piece
  BY <1>4 DEF output_sole_piece, moves, thrownHere, Output, Error, WriteError
<1>5. CASE output_pieces
  BY <1>5 DEF output_pieces, sendError, moves, thrownHere, Output, Error, WriteError
<1>6. CASE sendRangeHead
  BY <1>6 DEF sendRangeHead, moves, thrownHere, Output, Error, WriteError
<1>7. CASE sendBlock
  BY <1>7 DEF sendBlock, moves, thrownHere, Output, Error, WriteError
<1>8. CASE reportUgly \/ unhandledFailed \/ outer
  BY <1>8 DEF reportUgly, unhandledFailed, outer, sendErrorUnlessStarted, sendError, reports, Reporting,
       credit, Error, WriteError
<1>9. CASE finished \/ UNCHANGED vars
  BY <1>9 DEF finished, vars
<1>. QED
  BY <1>1, <1>2, <1>3, <1>4, <1>5, <1>6, <1>7, <1>8, <1>9 DEF Next, output, handlers

LEMMA PassesStep == Types /\ Passes /\ [Next]_vars => Passes'
<1>. SUFFICES ASSUME Types, Passes, [Next]_vars PROVE Passes'
  OBVIOUS
<1>. USE DEF Types, Passes, FirstPass, SecondPass, Stage, Code, Output, Reporting, raise, catcher
<1>1. CASE thrownHere
  BY <1>1 DEF thrownHere
<1>2. CASE reports
  BY <1>2 DEF reports
<1>3. CASE caught \/ unhandledReturns \/ threadCatch
  BY <1>3 DEF caught, unhandledReturns, threadCatch
<1>. QED
  BY <1>1, <1>2, <1>3, Control DEF moves

LEMMA BalanceStep == Types /\ Passes /\ Balance /\ [Next]_vars => Balance'
<1>. SUFFICES ASSUME Types, Passes, Balance, [Next]_vars PROVE Balance'
  OBVIOUS
<1>. USE DEF Types, Passes, FirstPass, SecondPass, Stage, Code, Output, Reporting, raise, catcher,
             Balance, pending
<1>1. CASE thrownHere
  BY <1>1 DEF thrownHere
<1>2. CASE reports
  BY <1>2 DEF reports, credit
<1>3. CASE caught \/ unhandledReturns \/ threadCatch
  BY <1>3 DEF caught, unhandledReturns, threadCatch
<1>. QED
  BY <1>1, <1>2, <1>3, Control DEF moves
-----------------------------------------------------------------------------
\* What the writes add to the answer

\* A series of writes adds the items, or some of them and the answer is broken.
LEMMA Writes ==
    ASSUME Types, NEW items \in Seq(Item), NEW h \in BOOLEAN,
           written(items, h) \/ writeThrows(items, h) \/ writeLost(items, h)
    PROVE  /\ headersSent' \in BOOLEAN /\ broken' \in BOOLEAN /\ (broken => broken')
           /\ \E more \in Seq(Item) :
                  /\ out' = out \o more
                  /\ \A i \in 1 .. Len(more) : i \in 1 .. Len(items) /\ more[i] = items[i]
           /\ ~broken' => written(items, h)
<1>. USE DEF Types
<1>1. CASE written(items, h)
  <2>1. headersSent' \in BOOLEAN
    BY <1>1, Zenon DEF written
  <2>. QED
    BY <1>1, <2>1 DEF written
<1>2. CASE writeThrows(items, h)
  <2>1. PICK k \in 0 .. Len(items) - 1 : /\ out' = out \o SubSeq(items, 1, k)
                                         /\ headersSent' = (headersSent \/ (h /\ k > 0))
    BY <1>2 DEF writeThrows
  <2>2. headersSent' \in BOOLEAN
    BY <2>1, Zenon
  <2>3. SubSeq(items, 1, k) \in Seq(Item) /\ Len(SubSeq(items, 1, k)) = k
        /\ \A i \in 1 .. k : SubSeq(items, 1, k)[i] = items[i]
    BY <2>1
  <2>4. \A i \in 1 .. k : i \in 1 .. Len(items)
    BY <2>1
  <2>. QED
    BY <1>2, <2>1, <2>2, <2>3, <2>4 DEF writeThrows
<1>3. CASE writeLost(items, h)
  <2>1. headersSent' \in BOOLEAN
    BY <1>3, Zenon DEF writeLost
  <2>2. out' = out \o <<>>
    BY <1>3 DEF writeLost
  <2>3. <<>> \in Seq(Item) /\ \A i \in 1 .. Len(<<>>) : i \in 1 .. Len(items) /\ <<>>[i] = items[i]
    OBVIOUS
  <2>. QED
    BY <1>3, <2>1, <2>2, <2>3, Zenon DEF writeLost
<1>. QED
  BY <1>1, <1>2, <1>3

\* The items that are written
LEMMA Items ==
    ASSUME Types
    PROVE  /\ partItems \in Seq(Item) /\ \A i \in 1 .. Len(partItems) : ~isAnswer(partItems[i])
           /\ \A status \in Word :
                  /\ errorItems(status) \in Seq(Item)
                  /\ \A i \in 1 .. Len(errorItems(status)) :
                         i = 1 /\ errorItems(status)[i].kind = "error" /\ isAnswer(errorItems(status)[i])
                  /\ target # "console" /\ ~headersSent => Len(errorItems(status)) = 1
                  /\ target # "console" /\ headersSent => errorItems(status) = <<>>
           /\ <<body("file")>> \in Seq(Item) /\ ~isAnswer(body("file"))
           /\ <<body("line")>> \in Seq(Item) /\ ~isAnswer(body("line"))
<1>. USE DEF Types
<1>1. \A w \in Word : body(w) \in Item /\ ~isAnswer(body(w))
  BY DEF body, Item, isAnswer
<1>2. \A status \in Word : error(status) \in Item /\ isAnswer(error(status)) /\ error(status).kind = "error"
  BY DEF error, Item, isAnswer
<1>3. \A b \in Item : /\ <<b>> \in Seq(Item) /\ Len(<<b>>) = 1
                      /\ \A i \in 1 .. Len(<<b>>) : i = 1 /\ <<b>>[i] = b
  OBVIOUS
<1>4. <<>> \in Seq(Item) /\ Len(<<>>) = 0 /\ \A i \in 1 .. Len(<<>>) : FALSE
  OBVIOUS
<1>5. partItems \in Seq(Item) /\ \A i \in 1 .. Len(partItems) : ~isAnswer(partItems[i])
  <2>1. PICK b \in Item : b = body(owner) /\ ~isAnswer(b)
    <3>1. owner \in Word
      BY DEF owner, Word, Header
    <3>. QED
      BY <1>1, <3>1
  <2>2. partItems = <<>> \/ partItems = <<b>>
    BY <2>1 DEF partItems
  <2>3. CASE partItems = <<>>
    BY <1>4, <2>3
  <2>4. CASE partItems = <<b>>
    <3>1. <<b>> \in Seq(Item) /\ \A i \in 1 .. Len(<<b>>) : <<b>>[i] = b
      BY <1>3
    <3>2. \A i \in 1 .. Len(<<b>>) : ~isAnswer(<<b>>[i])
      BY <2>1, <3>1 DEF isAnswer
    <3>. QED
      BY <2>4, <3>1, <3>2
  <2>. QED
    BY <2>2, <2>3, <2>4
<1>6. ASSUME NEW status \in Word
      PROVE  /\ errorItems(status) \in Seq(Item)
             /\ \A i \in 1 .. Len(errorItems(status)) :
                    i = 1 /\ errorItems(status)[i].kind = "error" /\ isAnswer(errorItems(status)[i])
             /\ target # "console" /\ ~headersSent => Len(errorItems(status)) = 1
             /\ target # "console" /\ headersSent => errorItems(status) = <<>>
  <2>1. PICK b \in Item : b = error(status) /\ isAnswer(b) /\ b.kind = "error"
    BY <1>2
  <2>2. errorItems(status) = IF headersSent /\ target # "console" THEN <<>> ELSE <<b>>
    BY <2>1 DEF errorItems
  <2>. QED
    BY <1>3, <1>4, <2>1, <2>2
<1>7. "file" \in Word /\ "line" \in Word
  BY DEF Word
<1>8. /\ <<body("file")>> \in Seq(Item) /\ ~isAnswer(body("file"))
      /\ <<body("line")>> \in Seq(Item) /\ ~isAnswer(body("line"))
  BY <1>1, <1>3, <1>7
<1>. QED
  BY <1>5, <1>6, <1>8

\* A head before them, or none
LEMMA WithHead ==
    ASSUME Types, NEW attrs \in SUBSET Word, NEW items \in Seq(Item),
           \A i \in 1 .. Len(items) : ~isAnswer(items[i])
    PROVE  /\ withHead(attrs, items) \in Seq(Item)
           /\ noHead => withHead(attrs, items) = items
           /\ ~noHead =>
                 /\ Len(withHead(attrs, items)) = Len(items) + 1
                 /\ withHead(attrs, items)[1] = head(attrs) /\ isAnswer(head(attrs))
                 /\ \A i \in 2 .. Len(items) + 1 : withHead(attrs, items)[i] = items[i - 1]
<1>1. head(attrs) \in Item /\ isAnswer(head(attrs))
  BY DEF head, Item, isAnswer, Types
<1>2. CASE noHead
  BY <1>2 DEF withHead
<1>3. CASE ~noHead
  <2>1. withHead(attrs, items) = <<head(attrs)>> \o items
    BY <1>3 DEF withHead
  <2>. QED
    BY <1>1, <1>3, <2>1
<1>. QED
  BY <1>2, <1>3

\* How the answers in it are counted
LEMMA Bodies ==
    ASSUME out \in Seq(Item), NEW more \in Seq(Item), out' = out \o more,
           \A i \in 1 .. Len(more) : ~isAnswer(more[i])
    PROVE  (headIsOut' <=> headIsOut) /\ (AtMostOne => AtMostOne')
<1>1. /\ Len(out') = Len(out) + Len(more) /\ DOMAIN out' = 1 .. Len(out')
      /\ \A i \in 1 .. Len(out) : out'[i] = out[i]
      /\ \A i \in Len(out) + 1 .. Len(out') : ~isAnswer(out'[i])
  <2>1. \A i \in Len(out) + 1 .. Len(out') : i - Len(out) \in 1 .. Len(more) /\ out'[i] = more[i - Len(out)]
    OBVIOUS
  <2>. QED
    BY <2>1
<1>2. \A i \in DOMAIN out' : isAnswer(out'[i]) <=> i \in DOMAIN out /\ isAnswer(out[i])
  BY <1>1
<1>3. \A i \in DOMAIN out : i \in DOMAIN out'
  BY <1>1
<1>. QED
  BY <1>2, <1>3 DEF headIsOut, AtMostOne, isAnswer

LEMMA FirstHead ==
    ASSUME out \in Seq(Item), NEW more \in Seq(Item), out' = out \o more,
           Len(more) > 0, isAnswer(more[1]), \A i \in 2 .. Len(more) : ~isAnswer(more[i]), ~headIsOut
    PROVE  headIsOut' /\ AtMostOne'
<1>. DEFINE n == Len(out) + 1
<1>1. Len(out') = Len(out) + Len(more) /\ DOMAIN out' = 1 .. Len(out') /\ n \in DOMAIN out'
  OBVIOUS
<1>2. isAnswer(out'[n])
  BY <1>1
<1>3. \A i \in DOMAIN out' : isAnswer(out'[i]) => i = n
  <2>. SUFFICES ASSUME NEW i \in DOMAIN out', i # n PROVE ~isAnswer(out'[i])
    OBVIOUS
  <2>1. CASE i \in 1 .. Len(out)
    BY <2>1 DEF headIsOut
  <2>2. CASE i \in n + 1 .. Len(out')
    <3>1. i - Len(out) \in 2 .. Len(more) /\ out'[i] = more[i - Len(out)]
      BY <2>2
    <3>. QED
      BY <3>1
  <2>. QED
    BY <1>1, <2>1, <2>2
<1>. QED
  BY <1>1, <1>2, <1>3 DEF headIsOut, AtMostOne, isAnswer
-----------------------------------------------------------------------------
\* A stream starts in the code of the page only

LEMMA StartedStep == Types /\ Passes /\ Started /\ [Next]_vars => Started'
<1>. SUFFICES ASSUME Types, Passes, Started, [Next]_vars PROVE Started'
  OBVIOUS
<1>. USE DEF Started, Sending, control, resp, raise, catcher, Code
<1>1. CASE page
  <2>1. stage \in Code /\ stage' \in {stage, "catch", "unhandledFailed"}
    BY <1>1 DEF page, putElement, clear, consoleLine, streamStart, streamPart, streamRefused, accept, fail,
         start, thrown, running, Passes, FirstPass, Types
  <2>. QED
    BY <2>1
<1>2. CASE mainReturns \/ postprocessReturns \/ outputNothing \/ statFails \/ sendEnds \/ readFails
  BY <1>2 DEF mainReturns, postprocessReturns, outputNothing, statFails, sendEnds, readFails, Passes, FirstPass
<1>3. CASE asVfileFails
  <2>1. pass = 2 /\ started # "UNSTARTED" => broken'
    BY <1>3, Zenon DEF asVfileFails
  <2>2. started' = started /\ stage' \in {"catch", "outer"} /\ (pass = 1 => stage' = "catch")
    BY <1>3 DEF asVfileFails
  <2>. QED
    BY <2>1, <2>2 DEF Types
<1>4. CASE outputFails \/ outputResult \/ output_sole_piece \/ output_pieces \/ sendRangeHead \/ sendBlock
  <2>1. started = "UNSTARTED" /\ started' = started
    BY <1>4 DEF outputFails, outputResult, output_sole_piece, output_pieces, sendRangeHead, sendBlock,
                alreadyStarted
  <2>. QED
    BY <2>1
<1>5. CASE caught \/ unhandledReturns \/ threadCatch
  BY <1>5 DEF caught, unhandledReturns, threadCatch
<1>6. CASE reportUgly \/ unhandledFailed
  BY <1>6, Control DEF reportUgly, unhandledFailed, sendErrorUnlessStarted
<1>7. CASE outer
  <2>1. stage' \in {"done", "threadCatch"}
    <3>1. stage = "outer" /\ pass = 2
      BY <1>7 DEF outer, Passes, SecondPass
    <3>2. catcher = "threadCatch"
      BY <3>1
    <3>3. stage' \in {"done", catcher}
      BY <1>7 DEF outer, sendError
    <3>. QED
      BY <3>2, <3>3
  <2>. QED
    BY <2>1
<1>8. CASE finished \/ UNCHANGED vars
  BY <1>8 DEF finished, vars
<1>. QED
  BY <1>1, <1>2, <1>3, <1>4, <1>5, <1>6, <1>7, <1>8 DEF Next, page, output, handlers
-----------------------------------------------------------------------------
\* What is written at each place, in the notation of the lemma Writes
writes(items, h) == written(items, h) \/ writeThrows(items, h) \/ writeLost(items, h)

LEMMA Statuses ==
    /\ \A text, length : pieceFor(text, length).status \in {"200", "206"} \cup Status
    /\ \A e : statusOf(e) \in Status
<1>1. ASSUME NEW text, NEW length PROVE pieceFor(text, length).status \in {"200", "206"} \cup Status
  <2>1. \A rg : part(rg, length).status \in {"206", "416"}
    BY DEF part, refused
  <2>2. ranged(text, length).status \in {"206"} \cup Status
    BY <2>1 DEF ranged, refused, Status
  <2>3. whole(length).status = "200"
    BY DEF whole
  <2>. QED
    BY <2>2, <2>3 DEF pieceFor, Status
<1>2. \A e : statusOf(e) \in Status
  BY DEF statusOf, Status
<1>. QED
  BY <1>1, <1>2

\* How a step changes the answer
adds(items, h) == items \in Seq(Item) /\ h \in BOOLEAN /\ writes(items, h)
quiet == UNCHANGED <<out, headersSent>> /\ broken' \in BOOLEAN /\ (broken => broken')

LEMMA Answering ==
    ASSUME Types, [Next]_vars
    PROVE  \/ quiet
           \/ caught /\ UNCHANGED out /\ headersSent' = FALSE /\ broken' = broken
           \/ /\ consoleLine /\ out' = Append(out, body("line")) /\ UNCHANGED <<headersSent, broken>>
           \/ streamStart /\ adds(withHead(headers', partItems), TRUE)
           \/ accept /\ adds(withHead(headers', <<>>), TRUE)
           \/ streamPart /\ adds(partItems, FALSE)
           \/ output_sole_piece /\ adds(withHead(headers', partItems), TRUE)
           \/ output_pieces /\ \E status \in Status : adds(errorItems(status), FALSE)
           \/ sendRangeHead /\ adds(withHead(headers, <<>>), TRUE)
           \/ sendBlock /\ adds(<<body("file")>>, FALSE)
           \/ /\ (reportUgly /\ started = "UNSTARTED") \/ (unhandledFailed /\ started = "UNSTARTED") \/ outer
              /\ \E status \in Status : adds(errorItems(status), FALSE)
<1>. USE DEF Types
<1>0. /\ partItems \in Seq(Item) /\ <<>> \in Seq(Item) /\ <<body("file")>> \in Seq(Item)
      /\ \A status \in Status : errorItems(status) \in Seq(Item)
  BY Items DEF Word
<1>1. ASSUME NEW a \in SUBSET Header
      PROVE  withHead(a, partItems) \in Seq(Item) /\ withHead(a, <<>>) \in Seq(Item)
  <2>1. a \in SUBSET Word
    BY DEF Word
  <2>2. \A i \in 1 .. Len(<<>>) : ~isAnswer(<<>>[i])
    OBVIOUS
  <2>3. \A i \in 1 .. Len(partItems) : ~isAnswer(partItems[i])
    BY Items
  <2>4. withHead(a, partItems) \in Seq(Item)
    BY <1>0, <2>1, <2>3, WithHead
  <2>5. withHead(a, <<>>) \in Seq(Item)
    BY <1>0, <2>1, <2>2, WithHead
  <2>. QED
    BY <2>4, <2>5
<1>2. CASE \/ putElement \/ clear \/ streamRefused \/ fail \/ mainReturns \/ postprocessReturns
           \/ asVfileFails \/ outputNothing \/ outputFails \/ outputResult \/ statFails \/ sendEnds
  BY <1>2 DEF putElement, clear, streamRefused, fail, mainReturns, postprocessReturns,
     asVfileFails, outputNothing, outputFails, outputResult, statFails, sendEnds, info, quiet
<1>3. CASE finished \/ UNCHANGED vars \/ unhandledReturns \/ threadCatch
  BY <1>3 DEF finished, vars, unhandledReturns, threadCatch, info, quiet
<1>4. CASE readFails
  <2>1. broken' \in BOOLEAN /\ (broken => broken')
    BY <1>4, Zenon DEF readFails
  <2>. QED
    BY <1>4, <2>1 DEF readFails, info, quiet
<1>5. CASE caught
  BY <1>5 DEF caught, SAPIclearHeaders
<1>6. CASE consoleLine
  BY <1>6 DEF consoleLine, info
<1>7. ASSUME NEW mode, NEW items \in Seq(Item), NEW more \in SUBSET Header, start(mode, items, more)
      PROVE  quiet \/ (headers' \in SUBSET Header /\ writes(withHead(headers', items), TRUE))
  BY <1>7 DEF start, quiet, writes, Header
<1>8. CASE streamStart
  <2>1. start("STREAM", partItems, {}) /\ {} \in SUBSET Header
    BY <1>8 DEF streamStart
  <2>. QED
    BY <1>0, <1>7, <1>8, <1>1, <2>1 DEF adds
<1>9. CASE accept
  <2>1. start("WEBSOCKET", <<>>, {"switch"}) /\ {"switch"} \in SUBSET Header
    BY <1>9 DEF accept, Header
  <2>. QED
    BY <1>0, <1>7, <1>9, <1>1, <2>1 DEF adds
<1>10. CASE streamPart
  BY <1>0, <1>10 DEF streamPart, adds, writes
<1>11. CASE output_sole_piece
  <2>1. headers' \in SUBSET Header /\ writes(withHead(headers', partItems), TRUE)
    BY <1>11 DEF output_sole_piece, writes, Header
  <2>. QED
    BY <1>11, <1>1, <2>1 DEF adds
<1>12. CASE output_pieces
  <2>1. CASE piece'.status \notin {"200", "206"}
    <3>1. piece'.status \in Status
      BY <1>12, <2>1, Statuses DEF output_pieces
    <3>2. writes(errorItems(piece'.status), FALSE)
      BY <1>12, <2>1 DEF output_pieces, sendError, writes
    <3>. QED
      BY <1>0, <1>12, <3>1, <3>2 DEF adds
  <2>2. CASE piece'.status \in {"200", "206"}
    BY <1>12, <2>2 DEF output_pieces, quiet
  <2>. QED
    BY <2>1, <2>2
<1>13. CASE sendRangeHead
  BY <1>13, <1>1 DEF sendRangeHead, adds, writes, quiet
<1>14. CASE sendBlock
  BY <1>0, <1>14 DEF sendBlock, adds, writes
<1>15. ASSUME NEW status \in Status, sendError(status)
       PROVE  adds(errorItems(status), FALSE)
  BY <1>0, <1>15 DEF sendError, adds, writes
<1>16. CASE reportUgly \/ unhandledFailed
  <2>1. \E status \in Status : sendErrorUnlessStarted(status)
    BY <1>16, Statuses DEF reportUgly, unhandledFailed, Status
  <2>. QED
    BY <1>15, <1>16, <2>1 DEF sendErrorUnlessStarted, quiet
<1>17. CASE outer
  <2>1. quiet \/ \E status \in Status : sendError(status)
    BY <1>17, Statuses DEF outer, quiet
  <2>. QED
    BY <1>15, <1>17, <2>1
<1>. QED
  BY <1>2, <1>3, <1>4, <1>5, <1>6, <1>8, <1>9, <1>10, <1>11, <1>12, <1>13, <1>14, <1>16, <1>17
     DEF Next, page, output, handlers
-----------------------------------------------------------------------------
\* The types

LEMMA TypesStep == Types /\ Passes /\ [Next]_vars => Types'
<1>. SUFFICES ASSUME Types, Passes, [Next]_vars PROVE Types'
  OBVIOUS
<1>1. /\ stage' \in Stage /\ pass' \in {1, 2} /\ exc' \in Error
      /\ raised' \in Nat /\ logged' \in Nat /\ handled' \in BOOLEAN
  <2>. USE DEF Types, raise, catcher, Stage, Code, Error
  <2>1. CASE thrownHere
    BY <2>1 DEF thrownHere
  <2>2. CASE reports
    BY <2>2 DEF reports, credit
  <2>3. CASE caught \/ unhandledReturns \/ threadCatch
    BY <2>3 DEF caught, unhandledReturns, threadCatch
  <2>. QED
    BY <2>1, <2>2, <2>3, Control DEF moves
<1>2. headersSent' \in BOOLEAN /\ broken' \in BOOLEAN /\ out' \in Seq(Item)
  <2>1. ASSUME NEW items, NEW h, adds(items, h)
        PROVE  headersSent' \in BOOLEAN /\ broken' \in BOOLEAN /\ out' \in Seq(Item)
    <3>1. items \in Seq(Item) /\ h \in BOOLEAN /\ (written(items, h) \/ writeThrows(items, h) \/ writeLost(items, h))
      BY <2>1 DEF adds, writes
    <3>2. /\ headersSent' \in BOOLEAN /\ broken' \in BOOLEAN
          /\ \E more \in Seq(Item) : out' = out \o more
      BY <3>1, Writes
    <3>3. out \in Seq(Item)
      BY DEF Types
    <3>. QED
      BY <3>2, <3>3
  <2>2. CASE quiet \/ (caught /\ UNCHANGED out /\ headersSent' = FALSE /\ broken' = broken)
    BY <2>2 DEF quiet, Types
  <2>3. CASE out' = Append(out, body("line")) /\ UNCHANGED <<headersSent, broken>>
    <3>1. <<body("line")>> \in Seq(Item)
      BY Items
    <3>. QED
      BY <2>3, <3>1 DEF Types
  <2>. QED
    BY <2>1, <2>2, <2>3, Answering
<1>3. /\ started' \in {"UNSTARTED", "STREAM", "WEBSOCKET"} /\ header_only' \in BOOLEAN
      /\ fields' \subseteq Header \cup {"bad"} /\ headers' \subseteq Header
  <2>. USE DEF Types, resp, info, Header
  <2>1. CASE putElement \/ clear \/ consoleLine \/ streamPart \/ streamRefused \/ fail
    BY <2>1 DEF putElement, clear, consoleLine, streamPart, streamRefused, fail, owner
  <2>2. CASE streamStart \/ accept
    BY <2>2 DEF streamStart, accept, start, addFieldsFails
  <2>3. CASE mainReturns \/ postprocessReturns \/ asVfileFails \/ outputNothing \/ statFails \/ sendEnds \/ readFails
    BY <2>3 DEF mainReturns, postprocessReturns, asVfileFails, outputNothing, statFails, sendEnds, readFails
  <2>4. CASE outputFails \/ outputResult \/ output_sole_piece \/ sendRangeHead \/ sendBlock
    BY <2>4 DEF outputFails, outputResult, output_sole_piece, sendRangeHead, sendBlock, addFields, addFieldsFails
  <2>5. CASE output_pieces
    BY <2>5 DEF output_pieces
  <2>6. CASE handlers
    BY <2>6 DEF handlers, caught, unhandledReturns, reportUgly, unhandledFailed, outer, threadCatch,
                SAPIclearHeaders
  <2>7. CASE finished \/ UNCHANGED vars
    BY <2>7 DEF finished, vars
  <2>. QED
    BY <2>1, <2>2, <2>3, <2>4, <2>5, <2>6, <2>7 DEF Next, page, output
<1>. QED
  BY <1>1, <1>2, <1>3 DEF Types
-----------------------------------------------------------------------------
\* The one answer

\* A step that writes nothing
LEMMA Same ==
    ASSUME Types, Answers, target # "console", ~broken,
           UNCHANGED <<out, started, fused>>, headersSent' => headersSent,
           stage' # "threadCatch", exc' # "httpd.write",
           stage' \in {"send_blocks", "done"} => headIsOut \/ fused,
           headIsOut /\ started = "UNSTARTED" => stage' \in {"send_blocks", "done"},
           stage' \in Sending \cup {"outer"} => started = "UNSTARTED"
    PROVE  Answers'
<1>1. (headIsOut' <=> headIsOut) /\ (AtMostOne => AtMostOne')
  BY DEF headIsOut, AtMostOne, isAnswer
<1>. QED
  BY <1>1 DEF Answers, Sending

\* The first write of an answer: a head, or none after $console:line
LEMMA Begins ==
    ASSUME Types, Answers, target # "console", ~broken, ~headIsOut,
           NEW attrs \in SUBSET Word, NEW items \in Seq(Item),
           \A i \in 1 .. Len(items) : ~isAnswer(items[i]), written(withHead(attrs, items), TRUE)
    PROVE  AtMostOne' /\ (headIsOut' \/ fused) /\ (headersSent' => headIsOut')
<1>1. ~headersSent /\ AtMostOne
  BY DEF Answers
<1>2. /\ out' = out \o withHead(attrs, items) /\ out \in Seq(Item)
      /\ headersSent' <=> (headersSent \/ ~noHead)
  BY DEF written, Types
<1>3. CASE noHead
  <2>1. out' = out \o items
    BY <1>2, <1>3, WithHead
  <2>2. AtMostOne'
    BY <1>1, <1>2, <2>1, Bodies
  <2>. QED
    BY <1>1, <1>2, <1>3, <2>2 DEF noHead
<1>4. CASE ~noHead
  <2>. DEFINE more == withHead(attrs, items)
  <2>1. /\ more \in Seq(Item) /\ Len(more) = Len(items) + 1 /\ isAnswer(more[1])
        /\ \A i \in 2 .. Len(items) + 1 : more[i] = items[i - 1]
    BY <1>4, WithHead
  <2>2. Len(more) > 0 /\ \A i \in 2 .. Len(more) : ~isAnswer(more[i])
    <3>1. Len(items) \in Nat
      OBVIOUS
    <3>2. \A i \in 2 .. Len(items) + 1 : i - 1 \in 1 .. Len(items)
      BY <3>1
    <3>3. Len(more) > 0
      BY <2>1, <3>1
    <3>. HIDE DEF more
    <3>. QED
      BY <2>1, <3>2, <3>3 DEF isAnswer
  <2>. HIDE DEF more
  <2>3. headIsOut' /\ AtMostOne'
    BY <1>2, <2>1, <2>2, FirstHead DEF more
  <2>. QED
    BY <2>3
<1>. QED
  BY <1>3, <1>4

\* Parts of an answer that has begun
LEMMA GoesOn ==
    ASSUME Types, Answers, target # "console", ~broken, NEW items \in Seq(Item),
           \A i \in 1 .. Len(items) : ~isAnswer(items[i]), written(items, FALSE)
    PROVE  AtMostOne' /\ (headIsOut' <=> headIsOut) /\ (headersSent' <=> headersSent)
<1>1. out' = out \o items /\ (headersSent' <=> headersSent) /\ out \in Seq(Item) /\ AtMostOne
  BY DEF written, Types, Answers
<1>. QED
  BY <1>1, Bodies

\* An error page instead of it
LEMMA Error1 ==
    ASSUME Types, Answers, target # "console", ~broken, ~headIsOut,
           NEW status \in Status, written(errorItems(status), FALSE)
    PROVE  AtMostOne' /\ headIsOut'
<1>1. ~headersSent
  BY DEF Answers
<1>2. errorItems(status) \in Seq(Item) /\ Len(errorItems(status)) = 1 /\ isAnswer(errorItems(status)[1])
  <2>1. status \in Word
    BY DEF Word
  <2>2. /\ errorItems(status) \in Seq(Item) /\ Len(errorItems(status)) = 1
        /\ \A i \in 1 .. Len(errorItems(status)) : isAnswer(errorItems(status)[i])
    BY <1>1, <2>1, Items
  <2>. QED
    BY <2>2
<1>3. out' = out \o errorItems(status) /\ out \in Seq(Item)
  BY DEF written, Types
<1>4. \A i \in 2 .. Len(errorItems(status)) : ~isAnswer(errorItems(status)[i])
  BY <1>2
<1>. QED
  BY <1>2, <1>3, <1>4, FirstHead

LEMMA AnswersStep == Types /\ Passes /\ Answers /\ [Next]_vars => Answers'
<1>. SUFFICES ASSUME Types, Passes, Answers, [Next]_vars, target' # "console", ~broken' PROVE Answers'
  BY DEF Answers
<1>0. target' = target /\ ~broken
  <2>1. target' = target
    BY DEF Next, page, output, handlers, vars, putElement, clear, consoleLine, streamStart, streamPart,
       streamRefused, accept, fail, mainReturns, postprocessReturns, asVfileFails, outputNothing,
       outputFails, outputResult, output_sole_piece, statFails, output_pieces, sendRangeHead, sendBlock,
       sendEnds, readFails, caught, unhandledReturns, reportUgly, unhandledFailed, outer, threadCatch, finished
  <2>2. ~broken
    <3>1. ASSUME NEW items, NEW h, adds(items, h) PROVE ~broken
      BY <3>1, Writes DEF adds, writes
    <3>. QED
      BY <3>1, Answering DEF quiet
  <2>. QED
    BY <2>1, <2>2
<1>. DEFINE quietly == UNCHANGED <<out, headersSent, started, fused>>
<1>1. /\ stage # "threadCatch" /\ exc # "httpd.write"
      /\ headIsOut => started # "UNSTARTED" \/ stage \in {"send_blocks", "done"}
      /\ started # "UNSTARTED" => headIsOut \/ fused
      /\ stage \in {"send_blocks", "done"} => headIsOut \/ fused
      /\ stage \in Sending \cup {"outer"} => started = "UNSTARTED"
  BY <1>0 DEF Answers, Sending
<1>. USE DEF control, resp, info, raise, catcher, Code, Sending, Passes, FirstPass, SecondPass
<1>2. CASE putElement \/ clear \/ streamRefused \/ fail
  <2>1. /\ quietly /\ exc' # "httpd.write" /\ stage \in Code
        /\ stage' = stage \/ stage' \in {"catch", "unhandledFailed"}
    BY <1>1, <1>2 DEF putElement, clear, streamRefused, fail, running, thrown, Types
  <2>. QED
    BY <1>0, <1>1, <2>1, Same
<1>3. CASE consoleLine
  <2>1. out' = out \o <<body("line")>> /\ out \in Seq(Item) /\ AtMostOne
    <3>1. <<body("line")>> \in Seq(Item)
      BY Items
    <3>. QED
      BY <1>0, <1>3, <3>1 DEF consoleLine, Types, Answers
  <2>2. (headIsOut' <=> headIsOut) /\ AtMostOne'
    <3>1. <<body("line")>> \in Seq(Item) /\ \A i \in 1 .. Len(<<body("line")>>) : ~isAnswer(<<body("line")>>[i])
      BY Items DEF isAnswer
    <3>. QED
      BY <2>1, <3>1, Bodies
  <2>3. UNCHANGED <<headersSent, started, stage, exc>> /\ fused' = TRUE /\ stage \in Code
    BY <1>3 DEF consoleLine, running
  <2>. QED
    BY <1>0, <1>1, <2>2, <2>3 DEF Answers
<1>4. CASE streamStart \/ accept
  <2>1. /\ stage \in Code /\ started = "UNSTARTED" /\ fused' = fused
        /\ \E mode \in {"STREAM", "WEBSOCKET"}, items \in {partItems, <<>>} :
               \E more : start(mode, items, more)
    BY <1>4 DEF streamStart, accept, running
  <2>2. PICK mode \in {"STREAM", "WEBSOCKET"}, items \in {partItems, <<>>} : \E more : start(mode, items, more)
    BY <2>1
  <2>3. ~headIsOut
    BY <1>1, <2>1
  <2>4. CASE UNCHANGED <<started, headersSent, out, broken, fails>> /\ thrown("parser.runtime")
    <3>1. /\ quietly /\ exc' # "httpd.write"
          /\ stage' = stage \/ stage' \in {"catch", "unhandledFailed"}
      BY <1>1, <2>1, <2>4 DEF thrown, Types
    <3>. QED
      BY <1>0, <1>1, <2>1, <3>1, Same
  <2>5. CASE started' = mode /\ written(withHead(headers', items), TRUE) /\ UNCHANGED control
    <3>1. headers' \in SUBSET Word
      BY TypesStep DEF Types, Word
    <3>2. items \in Seq(Item) /\ \A i \in 1 .. Len(items) : ~isAnswer(items[i])
      <4>1. partItems \in Seq(Item) /\ \A i \in 1 .. Len(partItems) : ~isAnswer(partItems[i])
        BY Items
      <4>2. CASE items = <<>>
        BY <4>2
      <4>. QED
        BY <4>1, <4>2
    <3>3. AtMostOne' /\ (headIsOut' \/ fused) /\ (headersSent' => headIsOut')
      BY <1>0, <2>3, <2>5, <3>1, <3>2, Begins
    <3>. QED
      BY <1>0, <1>1, <2>1, <2>5, <3>3 DEF Answers
  <2>. QED
    BY <1>0, <2>2, <2>4, <2>5 DEF start, writeThrows, writeLost
<1>5. CASE streamPart
  <2>1. started = "STREAM" /\ started' = started /\ fused' = fused /\ stage \in Code
    BY <1>5 DEF streamPart, running
  <2>2. written(partItems, FALSE) /\ UNCHANGED control
    BY <1>0, <1>5 DEF streamPart, writeThrows, writeLost
  <2>3. AtMostOne' /\ (headIsOut' <=> headIsOut) /\ (headersSent' <=> headersSent)
    BY <1>0, <2>2, Items, GoesOn
  <2>4. headersSent => headIsOut
    BY <1>0 DEF Answers
  <2>. QED
    BY <1>1, <2>1, <2>2, <2>3, <2>4 DEF Answers
<1>6. CASE mainReturns \/ postprocessReturns \/ asVfileFails \/ outputNothing \/ outputFails \/ outputResult
  <2>1. UNCHANGED <<out, headersSent, started, fused>> /\ exc' # "httpd.write" /\ stage' # "threadCatch"
    BY <1>0, <1>1, <1>6 DEF mainReturns, postprocessReturns, asVfileFails, outputNothing, outputFails, outputResult
  <2>2. /\ stage' \in {"send_blocks", "done"} => started # "UNSTARTED"
        /\ stage' \in Sending \cup {"outer"} => started = "UNSTARTED"
        /\ stage \notin {"send_blocks", "done"}
    BY <1>0, <1>1, <1>6 DEF mainReturns, postprocessReturns, asVfileFails, outputNothing, outputFails,
                            outputResult, alreadyStarted, Types
  <2>. QED
    BY <1>0, <1>1, <2>1, <2>2, Same
<1>7. CASE output_sole_piece \/ sendRangeHead
  <2>1. /\ started = "UNSTARTED" /\ started' = started /\ fused' = fused /\ ~headIsOut
        /\ stage \in {"output_sole_piece", "send_range"}
    BY <1>1, <1>7 DEF output_sole_piece, sendRangeHead
  <2>2. CASE /\ stage' \in {"send_blocks", "done"} /\ exc' = exc
             /\ \E items \in {partItems, <<>>}, attrs \in {headers, headers'} : written(withHead(attrs, items), TRUE)
    <3>1. PICK items \in {partItems, <<>>}, attrs \in {headers, headers'} : written(withHead(attrs, items), TRUE)
      BY <2>2
    <3>2. attrs \in SUBSET Word
      BY TypesStep DEF Types, Word
    <3>3. items \in Seq(Item) /\ \A i \in 1 .. Len(items) : ~isAnswer(items[i])
      <4>1. partItems \in Seq(Item) /\ \A i \in 1 .. Len(partItems) : ~isAnswer(partItems[i])
        BY Items
      <4>2. CASE items = <<>>
        BY <4>2
      <4>. QED
        BY <4>1, <4>2
    <3>4. AtMostOne' /\ (headIsOut' \/ fused) /\ (headersSent' => headIsOut')
      BY <1>0, <2>1, <3>1, <3>2, <3>3, Begins
    <3>. QED
      BY <1>0, <1>1, <2>1, <2>2, <3>4 DEF Answers
  <2>3. CASE UNCHANGED <<out, headersSent>> /\ raise("file.missing") /\ stage = "send_range"
    BY <1>0, <1>1, <2>1, <2>3, Same
  <2>. QED
    BY <1>0, <1>7, <2>2, <2>3 DEF output_sole_piece, sendRangeHead, writeThrows, writeLost
<1>8. CASE statFails \/ readFails \/ sendEnds
  <2>1. UNCHANGED <<out, headersSent, started, fused>> /\ exc' # "httpd.write" /\ stage' # "threadCatch"
    BY <1>1, <1>8 DEF statFails, readFails, sendEnds
  <2>2. /\ stage' \in {"send_blocks", "done"} => stage = "send_blocks"
        /\ headIsOut => stage' = "done" \/ started # "UNSTARTED"
        /\ stage' # "outer" /\ stage' \notin Sending
    BY <1>0, <1>1, <1>8 DEF statFails, readFails, sendEnds
  <2>. QED
    BY <1>0, <1>1, <2>1, <2>2, Same
<1>9. CASE output_pieces
  <2>1. stage = "output_pieces" /\ started = "UNSTARTED" /\ started' = started /\ fused' = fused /\ ~headIsOut
    BY <1>1, <1>9 DEF output_pieces
  <2>2. CASE UNCHANGED <<out, headersSent, exc>> /\ stage' = "send_range"
    BY <1>0, <1>1, <2>1, <2>2, Same
  <2>3. ASSUME NEW status \in Status, written(errorItems(status), FALSE), stage' = "done", exc' = exc
        PROVE  Answers'
    <3>1. AtMostOne' /\ headIsOut'
      BY <1>0, <2>1, <2>3, Error1
    <3>. QED
      BY <1>0, <1>1, <2>1, <2>3, <3>1 DEF Answers
  <2>4. piece'.status \in {"200", "206"} \cup Status
    BY <1>9, Statuses DEF output_pieces
  <2>. QED
    BY <1>0, <1>9, <2>2, <2>3, <2>4 DEF output_pieces, sendError, writeThrows, writeLost
<1>10. CASE sendBlock
  <2>1. /\ stage = "send_blocks" /\ stage' \in {"send_blocks", "done"} /\ exc' = exc
        /\ written(<<body("file")>>, FALSE) /\ started' = started /\ fused' = fused
    BY <1>0, <1>10 DEF sendBlock, writeThrows, writeLost
  <2>2. <<body("file")>> \in Seq(Item) /\ \A i \in 1 .. Len(<<body("file")>>) : ~isAnswer(<<body("file")>>[i])
    BY Items DEF isAnswer
  <2>3. AtMostOne' /\ (headIsOut' <=> headIsOut) /\ (headersSent' <=> headersSent)
    BY <1>0, <2>1, <2>2, GoesOn
  <2>4. headersSent => headIsOut
    BY <1>0 DEF Answers
  <2>. QED
    BY <1>1, <2>1, <2>3, <2>4 DEF Answers
<1>11. CASE caught \/ unhandledReturns
  <2>1. /\ UNCHANGED <<out, started, fused, exc>> /\ (headersSent' => headersSent)
        /\ stage' \in {"unhandled", "noUnhandled", "report"} /\ stage \in {"catch", "unhandled"}
    BY <1>11 DEF caught, unhandledReturns, SAPIclearHeaders
  <2>. QED
    BY <1>0, <1>1, <2>1, Same
<1>12. CASE reportUgly \/ unhandledFailed \/ outer
  <2>1. /\ started' = started /\ fused' = fused
        /\ stage \notin {"send_blocks", "done"}
    BY <1>12 DEF reportUgly, unhandledFailed, outer
  <2>2. CASE UNCHANGED <<out, headersSent, exc>> /\ stage' = "done" /\ started # "UNSTARTED"
    BY <1>0, <1>1, <2>1, <2>2, Same
  <2>3. ASSUME NEW status \in Status, sendError(status), started = "UNSTARTED"
        PROVE  Answers'
    <3>1. written(errorItems(status), FALSE) /\ stage' = "done" /\ exc' = exc
      BY <1>0, <2>3 DEF sendError, writeThrows, writeLost
    <3>2. AtMostOne' /\ headIsOut'
      BY <1>0, <1>1, <2>1, <2>3, <3>1, Error1
    <3>. QED
      BY <1>0, <1>1, <2>1, <2>3, <3>1, <3>2 DEF Answers
  <2>4. "500" \in Status /\ statusOf(exc) \in Status
    BY Statuses DEF Status
  <2>5. CASE reportUgly \/ unhandledFailed
    BY <2>2, <2>3, <2>4, <2>5 DEF reportUgly, unhandledFailed, sendErrorUnlessStarted
  <2>6. CASE outer
    BY <1>1, <2>3, <2>4, <2>6 DEF outer
  <2>. QED
    BY <1>12, <2>5, <2>6
<1>13. CASE threadCatch
  BY <1>1, <1>13 DEF threadCatch
<1>14. CASE finished \/ UNCHANGED vars
  BY <1>0, <1>1, <1>14, Same DEF finished, vars
<1>. QED
  BY <1>2, <1>3, <1>4, <1>5, <1>6, <1>7, <1>8, <1>9, <1>10, <1>11, <1>12, <1>13, <1>14
     DEF Next, page, output, handlers
-----------------------------------------------------------------------------
\* The heads

fits(item) ==
    /\ item.kind = "head" /\ item.by = 2 => item.data \cap OfPage = {}
    /\ header_only => (item.kind = "body" => item.data = {"line"})
LEMMA Fitting ==
    ASSUME Types, Heads, header_only' = header_only, NEW more \in Seq(Item), out' = out \o more,
           \A i \in 1 .. Len(more) : fits(more[i])
    PROVE  HeadMatches'
<1>1. \A i \in DOMAIN out : fits(out[i])
  BY DEF Heads, HeadMatches, fits, OfPage
<1>2. /\ \A i \in DOMAIN out : out'[i] = out[i]
      /\ \A i \in DOMAIN out' : i \in DOMAIN out \/ (i - Len(out) \in 1 .. Len(more) /\ out'[i] = more[i - Len(out)])
  BY DEF Types
<1>3. \A i \in DOMAIN out' : fits(out'[i])
  BY <1>1, <1>2 DEF fits
<1>. QED
  BY <1>3 DEF HeadMatches, fits, OfPage

LEMMA HeadsStep == Types /\ Passes /\ Heads /\ [Next]_vars => Heads'
<1>. SUFFICES ASSUME Types, Passes, Heads, [Next]_vars PROVE Heads'
  OBVIOUS
<1>1. header_only' = header_only
  BY DEF Next, page, output, handlers, vars, putElement, clear, consoleLine, streamStart, streamPart,
     streamRefused, accept, fail, mainReturns, postprocessReturns, asVfileFails, outputNothing,
     outputFails, outputResult, output_sole_piece, statFails, output_pieces, sendRangeHead, sendBlock,
     sendEnds, readFails, caught, unhandledReturns, reportUgly, unhandledFailed, outer, threadCatch, finished
<1>2. pass' = 2 => (headers' \cup fields') \cap OfPage = {}
  <2>. SUFFICES ASSUME pass' = 2 PROVE (headers' \cup fields') \cap OfPage = {}
    OBVIOUS
  <2>. USE DEF control, resp, info, raise, OfPage
  <2>1. CASE caught
    BY <2>1 DEF caught, SAPIclearHeaders
  <2>2. CASE ~caught
    <3>1. pass = 2 /\ (headers \cup fields) \cap OfPage = {}
      <4>1. pass = 2
        BY <2>2, Control DEF thrownHere, moves, reports, unhandledReturns, threadCatch
      <4>. QED
        BY <4>1 DEF Heads
    <3>2. CASE putElement \/ clear \/ consoleLine \/ streamPart \/ streamRefused \/ fail
      <4>1. headers' = headers /\ fields' \subseteq fields \cup {"error", "bad"}
        <5>1. CASE putElement
          BY <3>1, <5>1 DEF putElement, owner
        <5>2. CASE clear
          BY <5>2 DEF clear
        <5>. QED
          BY <3>2, <5>1, <5>2 DEF consoleLine, streamPart, streamRefused, fail
      <4>. QED
        BY <3>1, <4>1
    <3>3. CASE streamStart \/ accept
      BY <3>1, <3>3 DEF streamStart, accept, start, addFieldsFails
    <3>4. CASE mainReturns \/ postprocessReturns \/ asVfileFails \/ outputNothing \/ statFails \/ sendEnds \/ readFails
      BY <3>1, <3>4 DEF mainReturns, postprocessReturns, asVfileFails, outputNothing, statFails, sendEnds, readFails
    <3>5. CASE outputFails \/ outputResult \/ output_sole_piece \/ sendRangeHead \/ sendBlock
      BY <3>1, <3>5 DEF outputFails, outputResult, output_sole_piece, sendRangeHead, sendBlock, addFields, addFieldsFails
    <3>6. CASE output_pieces
      BY <3>1, <3>6 DEF output_pieces, Passes, FirstPass
    <3>7. CASE unhandledReturns \/ reportUgly \/ unhandledFailed \/ outer \/ threadCatch
      BY <3>1, <3>7 DEF unhandledReturns, reportUgly, unhandledFailed, outer, threadCatch
    <3>8. CASE finished \/ UNCHANGED vars
      BY <3>1, <3>8 DEF finished, vars
    <3>. QED
      BY <2>2, <3>2, <3>3, <3>4, <3>5, <3>6, <3>7, <3>8 DEF Next, page, output, handlers
  <2>. QED
    BY <2>1, <2>2
<1>3. header_only' => stage' # "send_blocks"
  <2>. SUFFICES ASSUME header_only, stage' = "send_blocks" PROVE FALSE
    BY <1>1
  <2>1. stage # "send_blocks"
    BY DEF Heads
  <2>2. sendRangeHead
    <3>1. ~thrownHere /\ ~reports
      BY DEF thrownHere, reports, raise, catcher
    <3>2. stage = "send_range"
      BY <2>1, <3>1, Control DEF moves, caught, unhandledReturns, threadCatch
    <3>. QED
      <4>1. ~page
        BY <3>2 DEF page, putElement, clear, consoleLine, streamStart, streamPart, streamRefused, accept,
                    fail, running, Code
      <4>2. ~handlers
        BY <3>2 DEF handlers, caught, unhandledReturns, reportUgly, unhandledFailed, outer, threadCatch
      <4>3. output => sendRangeHead
        BY <3>2 DEF output, asVfileFails, outputNothing, outputFails, outputResult, output_sole_piece,
                    statFails, output_pieces, sendBlock, sendEnds, readFails
      <4>4. ~UNCHANGED vars
        BY <2>1 DEF vars, control
      <4>. QED
        BY <3>2, <4>1, <4>2, <4>3, <4>4 DEF Next, mainReturns, postprocessReturns, finished
  <2>. QED
    BY <2>2 DEF sendRangeHead, raise, catcher
<1>4. HeadMatches'
  <2>1. CASE UNCHANGED out
    <3>1. HeadMatches
      BY DEF Heads
    <3>. QED
      BY <1>1, <2>1, <3>1 DEF HeadMatches
  <2>2. ASSUME NEW items, NEW h, adds(items, h), \A i \in 1 .. Len(items) : fits(items[i])
        PROVE  HeadMatches'
    <3>1. items \in Seq(Item) /\ h \in BOOLEAN /\ (written(items, h) \/ writeThrows(items, h) \/ writeLost(items, h))
      BY <2>2 DEF adds, writes
    <3>2. PICK more \in Seq(Item) :
              /\ out' = out \o more
              /\ \A i \in 1 .. Len(more) : i \in 1 .. Len(items) /\ more[i] = items[i]
      BY <3>1, Writes
    <3>3. \A i \in 1 .. Len(more) : fits(more[i])
      BY <2>2, <3>2 DEF fits
    <3>. QED
      BY <1>1, <3>2, <3>3, Fitting
  <2>3. fits(body("line")) /\ (~header_only => \A w : fits(body(w))) /\ \A status : fits(error(status))
    BY DEF fits, body, error
  <2>4. \A a : (pass = 2 => a \cap OfPage = {}) => fits(head(a))
    BY DEF fits, head
  <2>5. \A b : fits(b) => \A i \in 1 .. Len(<<b>>) : fits(<<b>>[i])
    BY DEF fits
  <2>6. /\ \A i \in 1 .. Len(<<>>) : fits(<<>>[i])
        /\ \A i \in 1 .. Len(partItems) : fits(partItems[i])
        /\ \A status : \A i \in 1 .. Len(errorItems(status)) : fits(errorItems(status)[i])
    <3>1. \A i \in 1 .. Len(<<>>) : fits(<<>>[i])
      OBVIOUS
    <3>2. \A i \in 1 .. Len(partItems) : fits(partItems[i])
      <4>1. CASE header_only
        BY <3>1, <4>1 DEF partItems
      <4>2. CASE ~header_only
        <5>1. partItems = <<body(owner)>>
          BY <4>2 DEF partItems
        <5>. QED
          BY <2>3, <2>5, <4>2, <5>1
      <4>. QED
        BY <4>1, <4>2
    <3>3. ASSUME NEW status PROVE \A i \in 1 .. Len(errorItems(status)) : fits(errorItems(status)[i])
      <4>1. errorItems(status) = <<>> \/ errorItems(status) = <<error(status)>>
        BY DEF errorItems
      <4>2. \A i \in 1 .. Len(<<error(status)>>) : fits(<<error(status)>>[i])
        BY <2>3, <2>5
      <4>. QED
        BY <3>1, <4>1, <4>2
    <3>. QED
      BY <3>1, <3>2, <3>3
  <2>7. ASSUME NEW a \in SUBSET Header, pass = 2 => a \cap OfPage = {},
               NEW items \in {partItems, <<>>}
        PROVE  \A i \in 1 .. Len(withHead(a, items)) : fits(withHead(a, items)[i])
    <3>1. a \in SUBSET Word
      BY DEF Word
    <3>2. items \in Seq(Item) /\ \A i \in 1 .. Len(items) : ~isAnswer(items[i]) /\ fits(items[i])
      <4>1. partItems \in Seq(Item) /\ \A i \in 1 .. Len(partItems) : ~isAnswer(partItems[i]) /\ fits(partItems[i])
        BY <2>6, Items
      <4>2. CASE items = <<>>
        BY <4>2
      <4>. QED
        BY <4>1, <4>2
    <3>3. CASE noHead
      BY <3>1, <3>2, <3>3, WithHead
    <3>4. CASE ~noHead
      <4>. DEFINE w == withHead(a, items)
      <4>1. /\ Len(w) = Len(items) + 1 /\ w[1] = head(a)
            /\ \A i \in 2 .. Len(items) + 1 : w[i] = items[i - 1]
        BY <3>1, <3>2, <3>4, WithHead
      <4>2. fits(head(a))
        BY <2>4, <2>7
      <4>3. Len(items) \in Nat
        BY <3>2
      <4>. HIDE DEF w
      <4>4. \A i \in 1 .. Len(w) : i = 1 \/ i - 1 \in 1 .. Len(items)
        BY <4>1, <4>3
      <4>5. \A i \in 1 .. Len(w) : fits(w[i])
        BY <3>2, <4>1, <4>2, <4>3, <4>4 DEF fits
      <4>. QED
        BY <4>5 DEF w
    <3>. QED
      BY <3>3, <3>4
  <2>8. headers' \in SUBSET Header /\ headers \in SUBSET Header
    BY TypesStep DEF Types
  <2>9. CASE streamStart /\ adds(withHead(headers', partItems), TRUE)
    <3>1. pass' = pass
      BY <2>9 DEF streamStart, start, thrown, raise, control
    <3>. QED
      BY <1>2, <2>2, <2>7, <2>8, <2>9, <3>1
  <2>10. CASE accept /\ adds(withHead(headers', <<>>), TRUE)
    <3>1. pass' = pass
      BY <2>10 DEF accept, start, thrown, raise, control
    <3>. QED
      BY <1>2, <2>2, <2>7, <2>8, <2>10, <3>1
  <2>11. CASE output_sole_piece /\ adds(withHead(headers', partItems), TRUE)
    <3>1. pass' = pass
      BY <2>11 DEF output_sole_piece, raise
    <3>. QED
      BY <1>2, <2>2, <2>7, <2>8, <2>11, <3>1
  <2>12. CASE sendRangeHead /\ adds(withHead(headers, <<>>), TRUE)
    <3>1. pass = 1
      BY <2>12 DEF sendRangeHead, Passes, FirstPass
    <3>2. \A i \in 1 .. Len(withHead(headers, <<>>)) : fits(withHead(headers, <<>>)[i])
      BY <2>7, <2>8, <3>1
    <3>. QED
      BY <2>2, <2>12, <3>2
  <2>13. CASE sendBlock /\ adds(<<body("file")>>, FALSE)
    <3>1. ~header_only
      BY <2>13 DEF sendBlock, Heads
    <3>. QED
      BY <2>2, <2>3, <2>5, <2>13, <3>1
  <2>14. CASE consoleLine /\ out' = Append(out, body("line"))
    <3>1. <<body("line")>> \in Seq(Item) /\ out' = out \o <<body("line")>>
      BY <2>14, Items DEF Types
    <3>. QED
      BY <1>1, <2>3, <2>5, <3>1, Fitting
  <2>15. CASE streamPart /\ adds(partItems, FALSE)
    BY <2>2, <2>6, <2>15
  <2>16. CASE \E status \in Status : adds(errorItems(status), FALSE)
    BY <2>2, <2>6, <2>16
  <2>. QED
    BY <2>1, <2>9, <2>10, <2>11, <2>12, <2>13, <2>14, <2>15, <2>16, Answering DEF quiet
<1>. QED
  BY <1>2, <1>3, <1>4 DEF Heads
-----------------------------------------------------------------------------
\* The Range header.  A set of numbers has a least one: the first token that is no blank.
LEMMA Least ==
    ASSUME NEW T, T \subseteq Nat, T # {}
    PROVE  \E m \in T : \A k \in T : m <= k
<1>. DEFINE F == {0 .. n : n \in T}
            R == StrictSubsetOrdering(Nat)
<1>1. F \subseteq FiniteSubsetsOf(Nat) /\ F # {}
  <2>1. \A n \in T : 0 .. n \in SUBSET Nat /\ IsFiniteSet(0 .. n)
    BY FS_Interval
  <2>. QED
    BY <2>1 DEF FiniteSubsetsOf
<1>2. IsWellFoundedOn(R, FiniteSubsetsOf(Nat))
  BY FS_StrictSubsetOrderingWellFounded
<1>. HIDE DEF F
<1>3. PICK x \in F : \A y \in F : ~ (<<y, x>> \in R)
  BY <1>1, <1>2, WFMin
<1>4. PICK m \in T : x = 0 .. m
  BY DEF F
<1>5. ASSUME NEW k \in T, k < m PROVE FALSE
  <2>1. 0 .. k \in F
    BY DEF F
  <2>2. 0 .. k \in SUBSET Nat /\ 0 .. m \in SUBSET Nat /\ 0 .. k \subseteq 0 .. m
    BY <1>5
  <2>3. m \in 0 .. m /\ m \notin 0 .. k
    BY <1>5
  <2>4. <<0 .. k, 0 .. m>> \in R
    BY <2>2, <2>3 DEF StrictSubsetOrdering
  <2>. QED
    BY <1>3, <1>4, <2>1, <2>4
<1>. QED
  BY <1>5

\* Blanks are skipped, up to the end of the text if need be
LEMMA Skips ==
    ASSUME NEW s \in Seq(Token), NEW i \in 1 .. Len(s) + 1
    PROVE  /\ skipBlanks(s, i) \in i .. Len(s) + 1
           /\ \A j \in i .. Len(s) + 1 :
                  kindAt(s, j) # "blank" /\ (\A k \in i .. j - 1 : kindAt(s, k) = "blank")
                      => skipBlanks(s, i) = j
<1>1. Len(s) \in Nat
  OBVIOUS
<1>. DEFINE T == {j \in i .. Len(s) + 1 : kindAt(s, j) # "blank"}
            Fits(j) == kindAt(s, j) # "blank" /\ \A k \in i .. j - 1 : kindAt(s, k) = "blank"
<1>2. kindAt(s, Len(s) + 1) = "end"
  BY <1>1 DEF kindAt
<1>3. Len(s) + 1 \in T /\ T \subseteq Nat
  BY <1>1, <1>2
<1>4. PICK m \in T : \A k \in T : m <= k
  BY <1>3, Least
<1>5. m \in i .. Len(s) + 1 /\ kindAt(s, m) # "blank"
  OBVIOUS
<1>6. \A k \in i .. m - 1 : kindAt(s, k) = "blank"
  BY <1>1, <1>4, <1>5
<1>7. Fits(m)
  BY <1>5, <1>6
<1>8. skipBlanks(s, i) = CHOOSE j \in i .. Len(s) + 1 : Fits(j)
  BY DEF skipBlanks
<1>9. \A j, l \in i .. Len(s) + 1 : Fits(j) /\ Fits(l) => j = l
  BY <1>1
<1>. HIDE DEF Fits
<1>10. skipBlanks(s, i) \in i .. Len(s) + 1 /\ Fits(skipBlanks(s, i))
  BY <1>5, <1>7, <1>8
<1>11. \A j \in i .. Len(s) + 1 : Fits(j) => skipBlanks(s, i) = j
  BY <1>9, <1>10
<1>. QED
  BY <1>10, <1>11 DEF Fits

\* The tokens from i and before e are a byte-range-spec, read as r
Only(s, i, e, A) == \A k \in i .. e - 1 : k \notin A => s[k].kind = "blank"
ReadsFirstLast(s, i, e, r) ==
    \E a, b, c \in i .. e - 1 :
       /\ a < b /\ b < c /\ s[a].kind = "digits" /\ s[b].kind = "dash" /\ s[c].kind = "digits"
       /\ Only(s, i, e, {a, b, c}) /\ r = [start |-> s[a].n, end |-> s[c].n]
ReadsFirst(s, i, e, r) ==
    \E a, b \in i .. e - 1 :
       /\ a < b /\ s[a].kind = "digits" /\ s[b].kind = "dash"
       /\ Only(s, i, e, {a, b}) /\ r = [start |-> s[a].n, end |-> UNSET]
ReadsSuffix(s, i, e, r) ==
    \E b, c \in i .. e - 1 :
       /\ b < c /\ s[b].kind = "dash" /\ s[c].kind = "digits"
       /\ Only(s, i, e, {b, c}) /\ r = [start |-> UNSET, end |-> s[c].n]
Reads(s, i, e, r) == ReadsFirstLast(s, i, e, r) \/ ReadsFirst(s, i, e, r) \/ ReadsSuffix(s, i, e, r)

LEMMA SpecReads ==
    ASSUME NEW s \in Seq(Token), NEW i \in 1 .. Len(s) + 1, NEW e \in 1 .. Len(s) + 1, isSpec(s, i, e - 1)
    PROVE  \E r : Reads(s, i, e, r)
<1>1. Len(s) \in Nat
  OBVIOUS
<1>. DEFINE used == {k \in i .. e - 1 : s[k].kind # "blank"}
<1>2. PICK b \in used :
          /\ s[b].kind = "dash" /\ used # {b}
          /\ \A k \in used \ {b} : s[k].kind = "digits"
          /\ \A k, l \in used \ {b} : (k < b <=> l < b) => k = l
  BY DEF isSpec
<1>3. PICK k \in used : k # b
  BY <1>2
<1>4. \A l \in used : l \in i .. e - 1 /\ l \in Nat
  BY <1>1
<1>5. CASE \E l \in used : l < b
  <2>1. PICK a \in used : a < b
    BY <1>5
  <2>2. CASE \E l \in used : b < l
    <3>1. PICK c \in used : b < c
      BY <2>2
    <3>2. a # b /\ c # b /\ ~(c < b)
      BY <1>4, <2>1, <3>1
    <3>3. s[a].kind = "digits" /\ s[c].kind = "digits"
      BY <1>2, <3>2
    <3>4. \A l \in used : l \in {a, b, c}
      BY <1>2, <1>4, <2>1, <3>2
    <3>5. Only(s, i, e, {a, b, c})
      BY <3>4 DEF Only
    <3>6. a \in i .. e - 1 /\ b \in i .. e - 1 /\ c \in i .. e - 1
      BY <1>4
    <3>7. ReadsFirstLast(s, i, e, [start |-> s[a].n, end |-> s[c].n])
      BY <1>2, <2>1, <3>1, <3>3, <3>5, <3>6, Zenon DEF ReadsFirstLast
    <3>. QED
      BY <3>7 DEF Reads
  <2>3. CASE ~ \E l \in used : b < l
    <3>1. a # b
      BY <1>4, <2>1
    <3>2. s[a].kind = "digits"
      BY <1>2, <3>1
    <3>3. \A l \in used : l \in {a, b}
      BY <1>2, <1>4, <2>1, <2>3, <3>1
    <3>4. Only(s, i, e, {a, b})
      BY <3>3 DEF Only
    <3>. QED
      BY <1>2, <1>4, <2>1, <3>2, <3>4 DEF ReadsFirst, Reads
  <2>. QED
    BY <2>2, <2>3
<1>6. CASE ~ \E l \in used : l < b
  <2>1. b < k
    BY <1>3, <1>4, <1>6
  <2>2. s[k].kind = "digits"
    BY <1>2, <1>3
  <2>3. \A l \in used : l \in {b, k}
    BY <1>2, <1>3, <1>4, <1>6
  <2>4. Only(s, i, e, {b, k})
    BY <2>3 DEF Only
  <2>. QED
    BY <1>2, <1>4, <2>1, <2>2, <2>4 DEF ReadsSuffix, Reads
<1>. QED
  BY <1>5, <1>6

\* From m on, j is the next that is not blank
LEMMA Arrives ==
    ASSUME NEW s \in Seq(Token), NEW i \in 1 .. Len(s) + 1, NEW e \in 1 .. Len(s) + 1,
           kindAt(s, e) \in {"comma", "end"}, NEW A, Only(s, i, e, A),
           NEW m \in i .. e, NEW j \in m .. e, j = e \/ s[j].kind # "blank",
           \A k \in m .. j - 1 : k \notin A
    PROVE  skipBlanks(s, m) = j
<1>1. Len(s) \in Nat
  OBVIOUS
<1>2. m \in 1 .. Len(s) + 1 /\ j \in m .. Len(s) + 1
  BY <1>1
<1>3. kindAt(s, j) # "blank"
  <2>1. CASE j = e
    BY <2>1
  <2>2. CASE j # e
    BY <1>1, <2>2 DEF kindAt
  <2>. QED
    BY <2>1, <2>2
<1>4. ASSUME NEW k \in m .. j - 1 PROVE kindAt(s, k) = "blank"
  <2>1. k \in i .. e - 1 /\ k \in 1 .. Len(s)
    BY <1>1
  <2>2. s[k].kind = "blank"
    BY <2>1 DEF Only
  <2>. QED
    BY <2>1, <2>2 DEF kindAt
<1>. QED
  BY <1>2, <1>3, <1>4, Skips

\* A turn of the loop reads it, up to a comma or the end of the text
LEMMA Turn ==
    ASSUME NEW s \in Seq(Token), NEW i \in 1 .. Len(s) + 1, NEW e \in 1 .. Len(s) + 1,
           kindAt(s, e) \in {"comma", "end"}, NEW r, Reads(s, i, e, r)
    PROVE  /\ rangeAt(s, i).taken /\ rangeAt(s, i).range = r
           /\ rangeAt(s, i).next = IF e > Len(s) THEN e ELSE e + 1
<1>1. Len(s) \in Nat
  OBVIOUS
<1>. DEFINE first == skipBlanks(s, i)
            dash  == afterNumber(s, first)
            last  == skipBlanks(s, IF dash > Len(s) THEN dash ELSE dash + 1)
            comma == afterNumber(s, last)
<1>2. \A k \in 1 .. Len(s) : kindAt(s, k) = s[k].kind
  BY DEF kindAt
<1>3. \A a \in i .. e - 1 : a \in 1 .. Len(s) /\ a + 1 \in 1 .. Len(s) + 1
  BY <1>1
<1>4. SUFFICES /\ kindAt(s, dash) = "dash" /\ comma = e
               /\ [start |-> numberAt(s, first), end |-> numberAt(s, last)] = r
  BY DEF rangeAt
<1>. HIDE DEF first, dash, last, comma
<1>5. ASSUME NEW a \in i .. e - 1, NEW b \in i .. e - 1, NEW c \in i .. e - 1, a < b, b < c, s[a].kind = "digits", s[b].kind = "dash", s[c].kind = "digits",
             Only(s, i, e, {a, b, c}), r = [start |-> s[a].n, end |-> s[c].n]
      PROVE  /\ kindAt(s, dash) = "dash" /\ comma = e
             /\ [start |-> numberAt(s, first), end |-> numberAt(s, last)] = r
  <2>. DEFINE A == {a, b, c}
  <2>0. Only(s, i, e, A) /\ \A k \in A : kindAt(s, k) = s[k].kind /\ k \in 1 .. Len(s)
    BY <1>2, <1>3, <1>5
  <2>1. first = a
    <3>1. i \in i .. e /\ a \in i .. e /\ (a = e \/ s[a].kind # "blank") /\ \A k \in i .. a - 1 : k \notin A
      BY <1>1, <1>3, <1>5
    <3>2. skipBlanks(s, i) = a
      BY <2>0, <3>1, Arrives
    <3>. QED
      BY <1>1, <2>0, <1>5, <3>2 DEF first
  <2>2. dash = b
    <3>1. a + 1 \in i .. e /\ b \in a + 1 .. e /\ (b = e \/ s[b].kind # "blank") /\ \A k \in a + 1 .. b - 1 : k \notin A
      BY <1>1, <1>3, <1>5
    <3>2. skipBlanks(s, a + 1) = b
      BY <2>0, <3>1, Arrives
    <3>. QED
      BY <1>1, <2>0, <1>5, <3>2, <2>1 DEF dash, afterNumber
  <2>3. last = c
    <3>1. b + 1 \in i .. e /\ c \in b + 1 .. e /\ (c = e \/ s[c].kind # "blank") /\ \A k \in b + 1 .. c - 1 : k \notin A
      BY <1>1, <1>3, <1>5
    <3>2. skipBlanks(s, b + 1) = c
      BY <2>0, <3>1, Arrives
    <3>. QED
      BY <1>1, <2>0, <1>5, <3>2, <2>1, <2>2 DEF last
  <2>4. comma = e
    <3>1. c + 1 \in i .. e /\ e \in c + 1 .. e /\ (e = e \/ s[e].kind # "blank") /\ \A k \in c + 1 .. e - 1 : k \notin A
      BY <1>1, <1>3, <1>5
    <3>2. skipBlanks(s, c + 1) = e
      BY <2>0, <3>1, Arrives
    <3>. QED
      BY <1>1, <2>0, <1>5, <3>2, <2>1, <2>2, <2>3 DEF comma, afterNumber
  <2>. QED
    BY <2>0, <1>5, <2>1, <2>2, <2>3, <2>4 DEF numberAt
<1>6. ASSUME NEW a \in i .. e - 1, NEW b \in i .. e - 1, a < b, s[a].kind = "digits", s[b].kind = "dash",
             Only(s, i, e, {a, b}), r = [start |-> s[a].n, end |-> UNSET]
      PROVE  /\ kindAt(s, dash) = "dash" /\ comma = e
             /\ [start |-> numberAt(s, first), end |-> numberAt(s, last)] = r
  <2>. DEFINE A == {a, b}
  <2>0. Only(s, i, e, A) /\ \A k \in A : kindAt(s, k) = s[k].kind /\ k \in 1 .. Len(s)
    BY <1>2, <1>3, <1>6
  <2>1. first = a
    <3>1. i \in i .. e /\ a \in i .. e /\ (a = e \/ s[a].kind # "blank") /\ \A k \in i .. a - 1 : k \notin A
      BY <1>1, <1>3, <1>6
    <3>2. skipBlanks(s, i) = a
      BY <2>0, <3>1, Arrives
    <3>. QED
      BY <1>1, <2>0, <1>6, <3>2 DEF first
  <2>2. dash = b
    <3>1. a + 1 \in i .. e /\ b \in a + 1 .. e /\ (b = e \/ s[b].kind # "blank") /\ \A k \in a + 1 .. b - 1 : k \notin A
      BY <1>1, <1>3, <1>6
    <3>2. skipBlanks(s, a + 1) = b
      BY <2>0, <3>1, Arrives
    <3>. QED
      BY <1>1, <2>0, <1>6, <3>2, <2>1 DEF dash, afterNumber
  <2>3. last = e
    <3>1. b + 1 \in i .. e /\ e \in b + 1 .. e /\ (e = e \/ s[e].kind # "blank") /\ \A k \in b + 1 .. e - 1 : k \notin A
      BY <1>1, <1>3, <1>6
    <3>2. skipBlanks(s, b + 1) = e
      BY <2>0, <3>1, Arrives
    <3>. QED
      BY <1>1, <2>0, <1>6, <3>2, <2>1, <2>2 DEF last
  <2>4. comma = e
    <3>1. e \in i .. e /\ e \in e .. e /\ (e = e \/ s[e].kind # "blank") /\ \A k \in e .. e - 1 : k \notin A
      BY <1>1, <1>3, <1>6
    <3>2. skipBlanks(s, e) = e
      BY <2>0, <3>1, Arrives
    <3>. QED
      BY <1>1, <2>0, <1>6, <3>2, <2>1, <2>2, <2>3 DEF comma, afterNumber
  <2>5. numberAt(s, e) = UNSET
    BY DEF numberAt
  <2>. QED
    BY <2>0, <1>6, <2>1, <2>2, <2>3, <2>4, <2>5 DEF numberAt
<1>7. ASSUME NEW b \in i .. e - 1, NEW c \in i .. e - 1, b < c, s[b].kind = "dash", s[c].kind = "digits",
             Only(s, i, e, {b, c}), r = [start |-> UNSET, end |-> s[c].n]
      PROVE  /\ kindAt(s, dash) = "dash" /\ comma = e
             /\ [start |-> numberAt(s, first), end |-> numberAt(s, last)] = r
  <2>. DEFINE A == {b, c}
  <2>0. Only(s, i, e, A) /\ \A k \in A : kindAt(s, k) = s[k].kind /\ k \in 1 .. Len(s)
    BY <1>2, <1>3, <1>7
  <2>1. first = b
    <3>1. i \in i .. e /\ b \in i .. e /\ (b = e \/ s[b].kind # "blank") /\ \A k \in i .. b - 1 : k \notin A
      BY <1>1, <1>3, <1>7
    <3>2. skipBlanks(s, i) = b
      BY <2>0, <3>1, Arrives
    <3>. QED
      BY <1>1, <2>0, <1>7, <3>2 DEF first
  <2>2. dash = b
    <3>1. b \in i .. e /\ b \in b .. e /\ (b = e \/ s[b].kind # "blank") /\ \A k \in b .. b - 1 : k \notin A
      BY <1>1, <1>3, <1>7
    <3>2. skipBlanks(s, b) = b
      BY <2>0, <3>1, Arrives
    <3>. QED
      BY <1>1, <2>0, <1>7, <3>2, <2>1 DEF dash, afterNumber
  <2>3. last = c
    <3>1. b + 1 \in i .. e /\ c \in b + 1 .. e /\ (c = e \/ s[c].kind # "blank") /\ \A k \in b + 1 .. c - 1 : k \notin A
      BY <1>1, <1>3, <1>7
    <3>2. skipBlanks(s, b + 1) = c
      BY <2>0, <3>1, Arrives
    <3>. QED
      BY <1>1, <2>0, <1>7, <3>2, <2>1, <2>2 DEF last
  <2>4. comma = e
    <3>1. c + 1 \in i .. e /\ e \in c + 1 .. e /\ (e = e \/ s[e].kind # "blank") /\ \A k \in c + 1 .. e - 1 : k \notin A
      BY <1>1, <1>3, <1>7
    <3>2. skipBlanks(s, c + 1) = e
      BY <2>0, <3>1, Arrives
    <3>. QED
      BY <1>1, <2>0, <1>7, <3>2, <2>1, <2>2, <2>3 DEF comma, afterNumber
  <2>. QED
    BY <2>0, <1>7, <2>1, <2>2, <2>3, <2>4 DEF numberAt
<1>. QED
  BY <1>5, <1>6, <1>7 DEF Reads, ReadsFirstLast, ReadsFirst, ReadsSuffix
\* What a turn reads are numbers, and the part that is made of them is of the file
Bounds == [start : 0 .. UNSET, end : 0 .. UNSET]
LEMMA Bounded ==
    ASSUME NEW s \in Seq(Token), NEW i \in 1 .. Len(s) + 1
    PROVE  rangeAt(s, i).range \in Bounds
<1>1. Len(s) \in Nat /\ UNSET \in Nat
  BY UnsetAssumption
<1>2. ASSUME NEW k \in 1 .. Len(s) + 1 PROVE numberAt(s, k) \in 0 .. UNSET
  <2>1. CASE k \in 1 .. Len(s)
    <3>1. s[k] \in Token
      BY <2>1
    <3>2. s[k].n \in 0 .. UNSET
      BY <3>1 DEF Token
    <3>. QED
      BY <1>1, <3>2 DEF numberAt
  <2>2. CASE k = Len(s) + 1
    BY <1>1, <2>2 DEF numberAt, kindAt
  <2>. QED
    BY <1>1, <2>1, <2>2
<1>3. \A k \in 1 .. Len(s) + 1 : skipBlanks(s, k) \in 1 .. Len(s) + 1
  BY <1>1, Skips
<1>4. \A k \in 1 .. Len(s) + 1 : kindAt(s, k) = "digits" => k + 1 \in 1 .. Len(s) + 1
  BY <1>1 DEF kindAt
<1>5. \A k \in 1 .. Len(s) + 1 : afterNumber(s, k) \in 1 .. Len(s) + 1
  BY <1>3, <1>4 DEF afterNumber
<1>. DEFINE first == skipBlanks(s, i)
            dash  == afterNumber(s, first)
            last  == skipBlanks(s, IF dash > Len(s) THEN dash ELSE dash + 1)
<1>6. first \in 1 .. Len(s) + 1 /\ dash \in 1 .. Len(s) + 1
  BY <1>3, <1>5
<1>7. rangeAt(s, i).range = [start |-> numberAt(s, first), end |-> numberAt(s, last)]
  BY DEF rangeAt
<1>. HIDE DEF first, dash
<1>8. (IF dash > Len(s) THEN dash ELSE dash + 1) \in 1 .. Len(s) + 1
  BY <1>1, <1>6
<1>9. last \in 1 .. Len(s) + 1
  BY <1>3, <1>8
<1>. QED
  BY <1>2, <1>6, <1>7, <1>9 DEF Bounds

IsPart(p, n) == /\ p.offset \in Nat /\ p.length \in Nat /\ p.offset + p.length <= n
                /\ p.status \in {"206", "416"} /\ (p.status = "416" => p.length = 0)
LEMMA PartFits ==
    ASSUME NEW rg \in Bounds, NEW n \in Nat, n > 0
    PROVE  IsPart(part(rg, n), n)
<1>1. rg.start \in Nat /\ rg.end \in Nat /\ UNSET \in Nat
  BY UnsetAssumption DEF Bounds
<1>2. IsPart(refused("416"), n)
  BY DEF refused, IsPart
<1>3. ASSUME NEW u \in Nat, NEW v \in Nat, u <= v, v <= n - 1
      PROVE  IsPart([status |-> "206", offset |-> u, length |-> v - u + 1], n)
  BY <1>3 DEF IsPart
<1>4. CASE rg.start = UNSET /\ rg.end \in {UNSET, 0}
  <2>1. part(rg, n) = refused("416")
    BY <1>4 DEF part
  <2>. QED
    BY <1>2, <2>1
<1>5. CASE rg.start = UNSET /\ rg.end \notin {UNSET, 0}
  <2>. DEFINE u == n - atMost(rg.end, n)
  <2>1. u \in Nat /\ u <= n - 1 /\ n - 1 \in Nat
    BY <1>1, <1>5 DEF atMost
  <2>2. part(rg, n) = [status |-> "206", offset |-> u, length |-> n - 1 - u + 1]
    BY <1>5 DEF part
  <2>. HIDE DEF u
  <2>. QED
    BY <1>3, <2>1, <2>2
<1>6. CASE rg.start # UNSET /\ (rg.start >= n \/ rg.start > rg.end)
  <2>1. part(rg, n) = refused("416")
    BY <1>6 DEF part
  <2>. QED
    BY <1>2, <2>1
<1>7. CASE rg.start # UNSET /\ ~(rg.start >= n \/ rg.start > rg.end)
  <2>. DEFINE v == IF rg.end >= n THEN n - 1 ELSE rg.end
  <2>1. v \in Nat /\ rg.start <= v /\ v <= n - 1
    BY <1>1, <1>7
  <2>2. part(rg, n) = [status |-> "206", offset |-> rg.start, length |-> v - rg.start + 1]
    BY <1>7 DEF part
  <2>. HIDE DEF v
  <2>. QED
    BY <1>1, <1>3, <2>1, <2>2
<1>. QED
  BY <1>4, <1>5, <1>6, <1>7

\* The bytes asked for by the digits before the dash and after it
asked(s, n, A, C) ==
    {x \in 0 .. n - 1 : /\ \A k \in A : x >= s[k].n
                        /\ \A k \in C : IF A = {} THEN x + s[k].n >= n ELSE x <= s[k].n}
LEMMA BytesAsked ==
    ASSUME NEW s \in Seq(Token), NEW n \in Nat, NEW A, NEW b \in 1 .. Len(s), NEW C,
           s[b].kind = "dash", \A k \in A : k \in 1 .. b - 1, \A k \in C : k \in b + 1 .. Len(s),
           \A k \in A \cup C : s[k].kind = "digits",
           \A k \in 1 .. Len(s) : k \notin A \cup {b} \cup C => s[k].kind = "blank"
    PROVE  bytesOf(s, n) = asked(s, n, A, C)
<1>1. Len(s) \in Nat /\ DOMAIN s = 1 .. Len(s)
  OBVIOUS
<1>2. \A k \in DOMAIN s : s[k].kind = "dash" => k = b
  BY <1>1
<1>3. b = CHOOSE k \in DOMAIN s : s[k].kind = "dash"
  BY <1>1, <1>2
<1>4. {k \in 1 .. b - 1 : s[k].kind = "digits"} = A
  BY <1>1
<1>5. {k \in b + 1 .. Len(s) : s[k].kind = "digits"} = C
  BY <1>1
<1>. QED
  BY <1>3, <1>4, <1>5 DEF bytesOf, asked

\* One spec: the part is the bytes it asks for
Serves(p, want) ==
    IF want = {} THEN p.status = "416"
    ELSE p.status = "206" /\ want = p.offset .. p.offset + p.length - 1
LEMMA PartServes ==
    ASSUME NEW n \in Nat, n > 0, n < UNSET, NEW u \in Nat, NEW v \in Nat, u < UNSET, v < UNSET
    PROVE  /\ Serves(part([start |-> u, end |-> v], n), {x \in 0 .. n - 1 : x >= u /\ x <= v})
           /\ Serves(part([start |-> u, end |-> UNSET], n), {x \in 0 .. n - 1 : x >= u})
           /\ Serves(part([start |-> UNSET, end |-> v], n), {x \in 0 .. n - 1 : x + v >= n})
<1>1. UNSET \in Nat
  BY UnsetAssumption
<1>2. ASSUME NEW want, want = {} PROVE Serves(refused("416"), want)
  BY <1>2 DEF Serves, refused
<1>3. ASSUME NEW a \in Nat, NEW z \in Nat, a <= z
      PROVE  Serves([status |-> "206", offset |-> a, length |-> z - a + 1], a .. z)
  <2>1. a + (z - a + 1) - 1 = z /\ a \in a .. z
    BY <1>3
  <2>. QED
    BY <2>1 DEF Serves
<1>4. Serves(part([start |-> u, end |-> v], n), {x \in 0 .. n - 1 : x >= u /\ x <= v})
  <2>. DEFINE W == {x \in 0 .. n - 1 : x >= u /\ x <= v}
              z == IF v >= n THEN n - 1 ELSE v
  <2>1. CASE u >= n \/ u > v
    <3>1. part([start |-> u, end |-> v], n) = refused("416")
      BY <2>1, <1>1 DEF part
    <3>2. W = {}
      BY <2>1
    <3>. QED
      BY <1>2, <3>1, <3>2
  <2>2. CASE ~(u >= n \/ u > v)
    <3>1. part([start |-> u, end |-> v], n) = [status |-> "206", offset |-> u, length |-> z - u + 1]
      BY <2>2, <1>1 DEF part
    <3>2. z \in Nat /\ u <= z
      BY <2>2
    <3>3. W = u .. z
      BY <2>2
    <3>. HIDE DEF W, z
    <3>4. Serves(part([start |-> u, end |-> v], n), W)
      BY <1>3, <3>1, <3>2, <3>3
    <3>. QED
      BY <3>4 DEF W
  <2>. QED
    BY <2>1, <2>2
<1>5. Serves(part([start |-> u, end |-> UNSET], n), {x \in 0 .. n - 1 : x >= u})
  <2>. DEFINE W == {x \in 0 .. n - 1 : x >= u}
  <2>1. CASE u >= n
    <3>1. part([start |-> u, end |-> UNSET], n) = refused("416")
      BY <2>1, <1>1 DEF part
    <3>2. W = {}
      BY <2>1
    <3>. QED
      BY <1>2, <3>1, <3>2
  <2>2. CASE ~(u >= n)
    <3>1. part([start |-> u, end |-> UNSET], n) = [status |-> "206", offset |-> u, length |-> n - 1 - u + 1]
      BY <2>2, <1>1 DEF part
    <3>2. n - 1 \in Nat /\ u <= n - 1
      BY <2>2
    <3>3. W = u .. n - 1
      BY <2>2
    <3>. HIDE DEF W
    <3>4. Serves(part([start |-> u, end |-> UNSET], n), W)
      BY <1>3, <3>1, <3>2, <3>3
    <3>. QED
      BY <3>4 DEF W
  <2>. QED
    BY <2>1, <2>2
<1>6. Serves(part([start |-> UNSET, end |-> v], n), {x \in 0 .. n - 1 : x + v >= n})
  <2>. DEFINE W == {x \in 0 .. n - 1 : x + v >= n}
              a == n - atMost(v, n)
  <2>1. CASE v = 0
    <3>1. part([start |-> UNSET, end |-> v], n) = refused("416")
      BY <2>1, <1>1 DEF part
    <3>2. W = {}
      BY <2>1
    <3>. QED
      BY <1>2, <3>1, <3>2
  <2>2. CASE v # 0
    <3>1. part([start |-> UNSET, end |-> v], n) = [status |-> "206", offset |-> a, length |-> n - 1 - a + 1]
      BY <2>2, <1>1 DEF part
    <3>2. a \in Nat /\ n - 1 \in Nat /\ a <= n - 1
      BY <2>2 DEF atMost
    <3>3. W = a .. n - 1
      BY <2>2 DEF atMost
    <3>. HIDE DEF W, a
    <3>4. Serves(part([start |-> UNSET, end |-> v], n), W)
      BY <1>3, <3>1, <3>2, <3>3
    <3>. QED
      BY <3>4 DEF W
  <2>. QED
    BY <2>1, <2>2
<1>. QED
  BY <1>4, <1>5, <1>6

LEMMA OneAsked ==
    ASSUME NEW s \in Seq(Token), NEW n \in Nat, n > 0, n < UNSET, \A k \in DOMAIN s : s[k].n < UNSET,
           NEW rg, Reads(s, 1, Len(s) + 1, rg)
    PROVE  Serves(part(rg, n), bytesOf(s, n))
<1>1. Len(s) \in Nat /\ DOMAIN s = 1 .. Len(s)
  OBVIOUS
<1>2. ASSUME NEW k \in 1 .. Len(s) PROVE s[k].n \in Nat /\ s[k].n < UNSET
  <2>1. s[k] \in Token
    OBVIOUS
  <2>2. s[k].n \in Nat
    BY <2>1, UnsetAssumption DEF Token
  <2>3. s[k].n < UNSET
    BY <1>1
  <2>. QED
    BY <2>2, <2>3
<1>3. CASE ReadsFirstLast(s, 1, Len(s) + 1, rg)
  <2>1. PICK a, b, c \in 1 .. (Len(s) + 1) - 1 :
          /\ a < b /\ b < c /\ s[a].kind = "digits" /\ s[b].kind = "dash" /\ s[c].kind = "digits"
          /\ Only(s, 1, Len(s) + 1, {a, b, c}) /\ rg = [start |-> s[a].n, end |-> s[c].n]
    BY <1>3, Zenon DEF ReadsFirstLast
  <2>2. a \in 1 .. b - 1 /\ b \in 1 .. Len(s) /\ c \in b + 1 .. Len(s) /\ a \in 1 .. Len(s) /\ c \in 1 .. Len(s)
    BY <1>1, <2>1
  <2>3. \A k \in 1 .. Len(s) : k \notin {a, b, c} => s[k].kind = "blank"
    BY <1>1, <2>1 DEF Only
  <2>4. bytesOf(s, n) = asked(s, n, {a}, {c})
    <3>1. \A k \in {a} : k \in 1 .. b - 1
      BY <2>2, Zenon
    <3>2. \A k \in {c} : k \in b + 1 .. Len(s)
      BY <2>2, Zenon
    <3>3. \A k \in {a} \cup {c} : s[k].kind = "digits"
      BY <2>1, Zenon
    <3>4. \A k \in 1 .. Len(s) : k \notin {a} \cup {b} \cup {c} => s[k].kind = "blank"
      BY <2>3, Zenon
    <3>. QED
      BY <2>1, <2>2, <3>1, <3>2, <3>3, <3>4, BytesAsked
  <2>5. asked(s, n, {a}, {c}) = {x \in 0 .. n - 1 : x >= s[a].n /\ x <= s[c].n}
    BY DEF asked
  <2>. QED
    BY <1>2, <2>1, <2>2, <2>4, <2>5, PartServes
<1>4. CASE ReadsFirst(s, 1, Len(s) + 1, rg)
  <2>1. PICK a, b \in 1 .. (Len(s) + 1) - 1 :
          /\ a < b /\ s[a].kind = "digits" /\ s[b].kind = "dash"
          /\ Only(s, 1, Len(s) + 1, {a, b}) /\ rg = [start |-> s[a].n, end |-> UNSET]
    BY <1>4, Zenon DEF ReadsFirst
  <2>2. a \in 1 .. b - 1 /\ b \in 1 .. Len(s) /\ a \in 1 .. Len(s)
    BY <1>1, <2>1
  <2>3. \A k \in 1 .. Len(s) : k \notin {a, b} => s[k].kind = "blank"
    BY <1>1, <2>1 DEF Only
  <2>4. bytesOf(s, n) = asked(s, n, {a}, {})
    <3>1. \A k \in {a} : k \in 1 .. b - 1
      BY <2>2
    <3>2. \A k \in {} : k \in b + 1 .. Len(s)
      OBVIOUS
    <3>3. \A k \in {a} \cup {} : s[k].kind = "digits"
      BY <2>1
    <3>4. \A k \in 1 .. Len(s) : k \notin {a} \cup {b} \cup {} => s[k].kind = "blank"
      BY <2>3
    <3>. QED
      BY <2>1, <2>2, <3>1, <3>2, <3>3, <3>4, BytesAsked
  <2>5. asked(s, n, {a}, {}) = {x \in 0 .. n - 1 : x >= s[a].n}
    BY DEF asked
  <2>. QED
    BY <1>2, <2>1, <2>2, <2>4, <2>5, PartServes
<1>5. CASE ReadsSuffix(s, 1, Len(s) + 1, rg)
  <2>1. PICK b, c \in 1 .. (Len(s) + 1) - 1 :
          /\ b < c /\ s[b].kind = "dash" /\ s[c].kind = "digits"
          /\ Only(s, 1, Len(s) + 1, {b, c}) /\ rg = [start |-> UNSET, end |-> s[c].n]
    BY <1>5, Zenon DEF ReadsSuffix
  <2>2. b \in 1 .. Len(s) /\ c \in b + 1 .. Len(s) /\ c \in 1 .. Len(s)
    BY <1>1, <2>1
  <2>3. \A k \in 1 .. Len(s) : k \notin {b, c} => s[k].kind = "blank"
    BY <1>1, <2>1 DEF Only
  <2>4. bytesOf(s, n) = asked(s, n, {}, {c})
    <3>1. \A k \in {} : k \in 1 .. b - 1
      OBVIOUS
    <3>2. \A k \in {c} : k \in b + 1 .. Len(s)
      BY <2>2
    <3>3. \A k \in {} \cup {c} : s[k].kind = "digits"
      BY <2>1
    <3>4. \A k \in 1 .. Len(s) : k \notin {} \cup {b} \cup {c} => s[k].kind = "blank"
      BY <2>3
    <3>. QED
      BY <2>1, <2>2, <3>1, <3>2, <3>3, <3>4, BytesAsked
  <2>5. asked(s, n, {}, {c}) = {x \in 0 .. n - 1 : x + s[c].n >= n}
    BY DEF asked
  <2>. QED
    BY <1>2, <2>1, <2>2, <2>4, <2>5, PartServes
<1>. QED
  BY <1>3, <1>4, <1>5 DEF Reads

LEMMA OneRange ==
    ASSUME NEW s \in Seq(Token), NEW n \in Nat, n > 0, n < UNSET, isSpec(s, 1, Len(s)),
           \A k \in DOMAIN s : s[k].n < UNSET
    PROVE  Serves(ranged(s, n), bytesOf(s, n))
<1>1. Len(s) \in Nat
  OBVIOUS
<1>. DEFINE e == Len(s) + 1
<1>2. e \in 1 .. Len(s) + 1 /\ e - 1 = Len(s) /\ 1 \in 1 .. Len(s) + 1 /\ e > Len(s)
  BY <1>1
<1>3. kindAt(s, e) \in {"comma", "end"}
  BY <1>1 DEF kindAt
<1>. HIDE DEF e
<1>4. PICK rg : Reads(s, 1, e, rg)
  BY <1>2, SpecReads
<1>5. rangeAt(s, 1).taken /\ rangeAt(s, 1).range = rg /\ rangeAt(s, 1).next = e
  BY <1>2, <1>3, <1>4, Turn
<1>6. s # <<>>
  <2>1. 1 .. e - 1 # {}
    BY <1>4, Zenon DEF Reads, ReadsFirstLast, ReadsFirst, ReadsSuffix
  <2>. QED
    BY <1>2, <2>1
<1>7. parse_range(s) = <<rg>>
  BY <1>2, <1>5, <1>6 DEF parse_range
<1>8. Len(<<rg>>) = 1 /\ <<rg>>[1] = rg
  OBVIOUS
<1>9. ranged(s, n) = part(rg, n)
  BY <1>7, <1>8 DEF ranged
<1>10. Reads(s, 1, Len(s) + 1, rg)
  BY <1>4 DEF e
<1>. QED
  BY <1>9, <1>10, OneAsked

LEMMA TwoRanges ==
    ASSUME NEW s \in Seq(Token), NEW n, NEW c \in DOMAIN s, s[c].kind = "comma",
           isSpec(s, 1, c - 1), isSpec(s, c + 1, Len(s))
    PROVE  ranged(s, n).status = "501"
<1>1. Len(s) \in Nat /\ c \in 1 .. Len(s)
  OBVIOUS
<1>. DEFINE e == Len(s) + 1
            i == c + 1
<1>2. /\ e \in 1 .. Len(s) + 1 /\ e - 1 = Len(s) /\ 1 \in 1 .. Len(s) + 1 /\ e > Len(s)
      /\ i \in 1 .. Len(s) + 1 /\ c \in 1 .. Len(s) + 1 /\ ~(c > Len(s))
  BY <1>1
<1>3. kindAt(s, e) \in {"comma", "end"} /\ kindAt(s, c) \in {"comma", "end"}
  BY <1>1 DEF kindAt
<1>. HIDE DEF e
<1>4. PICK one : Reads(s, 1, c, one)
  BY <1>2, SpecReads
<1>5. PICK two : Reads(s, i, e, two)
  <2>1. isSpec(s, i, e - 1)
    BY <1>2
  <2>. HIDE DEF i
  <2>. QED
    BY <1>2, <2>1, SpecReads
<1>6. rangeAt(s, 1).taken /\ rangeAt(s, 1).range = one /\ rangeAt(s, 1).next = i
  BY <1>2, <1>3, <1>4, Turn
<1>7. i <= Len(s)
  <2>1. i .. e - 1 # {}
    BY <1>5, Zenon DEF Reads, ReadsFirstLast, ReadsFirst, ReadsSuffix
  <2>. QED
    BY <1>1, <1>2, <2>1
<1>. HIDE DEF i
<1>8. rangeAt(s, i).taken /\ rangeAt(s, i).range = two
  BY <1>2, <1>3, <1>5, Turn
<1>9. ~(i > Len(s)) /\ s # <<>>
  BY <1>1, <1>2, <1>7
<1>10. parse_range(s) = <<one, two>>
  BY <1>6, <1>8, <1>9 DEF parse_range
<1>11. Len(<<one, two>>) # 1 /\ <<one, two>> # <<>>
  OBVIOUS
<1>. QED
  BY <1>10, <1>11 DEF ranged, refused

\* Whatever the header, the part is of the file
LEMMA RangedFits ==
    ASSUME NEW s \in Seq(Token), NEW n \in Nat, n > 0
    PROVE  LET p == ranged(s, n)
           IN  /\ p.offset \in Nat /\ p.length \in Nat /\ p.offset + p.length <= n
               /\ p.status \notin {"200", "206"} => p.length = 0
<1>1. CASE Len(parse_range(s)) = 1
  <2>1. parse_range(s) = <<rangeAt(s, 1).range>>
    <3>. DEFINE two == rangeAt(s, rangeAt(s, 1).next)
                one == rangeAt(s, 1).range
    <3>. HIDE DEF two, one
    <3>1. Len(<<>>) # 1 /\ Len(<<one, two.range>>) # 1
      OBVIOUS
    <3>2. parse_range(s) \in {<<>>, <<one>>, <<one, two.range>>}
      BY DEF parse_range, one, two
    <3>3. parse_range(s) = <<one>>
      BY <1>1, <3>1, <3>2
    <3>. QED
      BY <3>3 DEF one
  <2>2. 1 \in 1 .. Len(s) + 1
    OBVIOUS
  <2>3. rangeAt(s, 1).range \in Bounds
    BY <2>2, Bounded
  <2>4. ranged(s, n) = part(rangeAt(s, 1).range, n)
    <3>. DEFINE one == rangeAt(s, 1).range
    <3>. HIDE DEF one
    <3>1. <<one>>[1] = one
      OBVIOUS
    <3>2. parse_range(s) = <<one>>
      BY <2>1 DEF one
    <3>3. ranged(s, n) = part(one, n)
      BY <1>1, <3>1, <3>2 DEF ranged
    <3>. QED
      BY <3>3 DEF one
  <2>5. IsPart(ranged(s, n), n)
    BY <2>3, <2>4, PartFits
  <2>. QED
    BY <2>5 DEF IsPart
<1>2. CASE Len(parse_range(s)) # 1
  BY <1>2 DEF ranged, refused
<1>. QED
  BY <1>1, <1>2
-----------------------------------------------------------------------------
\* What is sent of the file

LEMMA PieceFits ==
    ASSUME NEW text \in {<<>>} \cup Ranges, NEW n \in Nat
    PROVE  LET p == pieceFor(text, n)
           IN  /\ p.offset \in Nat /\ p.length \in Nat /\ p.offset + p.length <= n
               /\ p.status \notin {"200", "206"} => p.length = 0
<1>1. CASE text = <<>> \/ n = 0
  BY <1>1 DEF pieceFor, whole
<1>2. CASE ~(text = <<>> \/ n = 0)
  <2>1. text \in Seq(Token) /\ n > 0
    BY <1>2, RangesAssumption
  <2>2. pieceFor(text, n) = ranged(text, n)
    BY <1>2 DEF pieceFor
  <2>. QED
    BY <2>1, <2>2, RangedFits
<1>. QED
  BY <1>1, <1>2

LEMMA Understood == Sends => RangeUnderstood
<1>. SUFFICES ASSUME Sends, range # <<>>, size > 0
              PROVE  /\ isSpec(range, 1, Len(range)) /\ (\A i \in DOMAIN range : range[i].n < UNSET) =>
                            Serves(piece, bytesOf(range, size))
                     /\ (\E i \in DOMAIN range :
                             /\ range[i].kind = "comma" /\ isSpec(range, 1, i - 1)
                             /\ isSpec(range, i + 1, Len(range))) => piece.status = "501"
  BY DEF RangeUnderstood, Serves
<1>1. range \in Seq(Token)
  BY RangesAssumption DEF Sends
<1>2. size \in Nat /\ size < UNSET
  BY BoundsAssumption, UnsetAssumption DEF Sends
<1>3. piece = ranged(range, size)
  BY <1>2 DEF Sends, pieceFor
<1>. QED
  BY <1>1, <1>2, <1>3, OneRange, TwoRanges

\* The file and the part stay as they are but for output_pieces() and sendBlock
LEMMA FileKept ==
    ASSUME [Next]_vars, ~output_pieces, ~sendBlock
    PROVE  UNCHANGED file /\ header_only' = header_only
<1>1. CASE page
  BY <1>1 DEF page, putElement, clear, consoleLine, streamStart, streamPart, streamRefused, accept, fail
<1>2. CASE mainReturns \/ postprocessReturns
  BY <1>2 DEF mainReturns, postprocessReturns
<1>3. CASE output
  BY <1>3 DEF output, asVfileFails, outputNothing, outputFails, outputResult, output_sole_piece, statFails,
     sendRangeHead, sendEnds, readFails
<1>4. CASE handlers
  BY <1>4 DEF handlers, caught, unhandledReturns, reportUgly, unhandledFailed, outer, threadCatch
<1>5. CASE finished \/ UNCHANGED vars
  BY <1>5 DEF finished, vars
<1>. QED
  BY <1>1, <1>2, <1>3, <1>4, <1>5 DEF Next

\* Where the request ends in its first pass
LEMMA Ends ==
    ASSUME Types, Passes, [Next]_vars, stage' = "done", pass' = 1, ~output_pieces, ~sendBlock
    PROVE  \/ stage \in {"main", "output", "output_sole_piece"} /\ pass = 1
           \/ stage = "send_range" /\ header_only
           \/ sendEnds
           \/ stage = "done" /\ pass = 1 /\ UNCHANGED broken
<1>. USE DEF Passes, FirstPass, SecondPass, raise, catcher, control
<1>1. ~page
  BY DEF page, putElement, clear, consoleLine, streamStart, streamPart, streamRefused, accept, fail,
     start, thrown, running, Code
<1>2. CASE mainReturns
  BY <1>2 DEF mainReturns
<1>3. ~postprocessReturns
  BY DEF postprocessReturns
<1>4. CASE output
  <2>1. ~asVfileFails /\ ~outputFails /\ ~outputResult /\ ~statFails /\ ~readFails
    BY DEF asVfileFails, outputFails, outputResult, statFails, readFails
  <2>2. CASE outputNothing
    BY <2>2 DEF outputNothing
  <2>3. CASE output_sole_piece
    BY <2>3 DEF output_sole_piece
  <2>4. CASE sendRangeHead
    BY <2>4 DEF sendRangeHead
  <2>. QED
    BY <1>4, <2>1, <2>2, <2>3, <2>4 DEF output
<1>5. ~handlers
  <2>1. ~caught /\ ~unhandledReturns /\ ~threadCatch
    BY DEF caught, unhandledReturns, threadCatch
  <2>2. ~reportUgly /\ ~unhandledFailed /\ ~outer
    <3>1. ASSUME reportUgly \/ unhandledFailed \/ outer PROVE pass = 2 /\ pass' = pass
      BY <3>1 DEF reportUgly, unhandledFailed, outer, sendErrorUnlessStarted, sendError
    <3>. QED
      BY <3>1
  <2>. QED
    BY <2>1, <2>2 DEF handlers
<1>6. CASE finished \/ UNCHANGED vars
  BY <1>6 DEF finished, vars
<1>. QED
  BY <1>1, <1>2, <1>3, <1>4, <1>5, <1>6 DEF Next

LEMMA SendsStep == Types /\ Passes /\ Sends /\ [Next]_vars => Sends'
<1>. SUFFICES ASSUME Types, Passes, Sends, [Next]_vars PROVE Sends'
  OBVIOUS
<1>1. MaxSize \in Nat /\ Block \in Nat /\ size \in Nat /\ actual \in Nat /\ sent \in Nat
  BY BoundsAssumption DEF Sends
<1>2. piece.offset \in Nat /\ piece.length \in Nat /\ piece.offset + piece.length <= size
  BY <1>1, PieceFits DEF Sends
<1>3. CASE output_pieces
  <2>1. /\ range' \in {<<>>} \cup Ranges /\ size' \in 0 .. MaxSize /\ sent' = 0
        /\ piece' = pieceFor(range', size')
    BY <1>3 DEF output_pieces
  <2>2. size' \in Nat
    BY <1>1, <2>1
  <2>3. /\ piece'.offset \in Nat /\ piece'.length \in Nat
        /\ piece'.status \notin {"200", "206"} => piece'.length = 0
    BY <2>1, <2>2, PieceFits
  <2>4. actual' \in Nat
    BY <1>1, <1>3, <2>2 DEF output_pieces
  <2>5. stage' \notin {"main", "postprocess", "output", "output_sole_piece", "output_pieces"}
    BY <1>3 DEF output_pieces, sendError, raise, catcher
  <2>6. stage' = "done" => piece'.length = 0
    BY <1>3, <2>3 DEF output_pieces
  <2>7. LengthKept'
    BY <2>1, <2>3, <2>6 DEF LengthKept
  <2>. QED
    BY <2>1, <2>4, <2>5, <2>7 DEF Sends
<1>4. CASE sendBlock
  <2>1. UNCHANGED <<range, size, actual, piece>> /\ stage = "send_blocks" /\ sent <= piece.length
    BY <1>4 DEF sendBlock, Sends, LengthKept
  <2>2. toSend \in Nat /\ toSend <= piece.length - sent
    BY <1>1, <1>2, <2>1 DEF toSend, atMost
  <2>3. CASE sent' = sent + toSend /\ stage' = IF sent' = piece.length THEN "done" ELSE stage
    BY <1>1, <1>2, <2>1, <2>2, <2>3 DEF Sends, LengthKept
  <2>4. CASE UNCHANGED sent /\ broken' /\ stage' \in {"done", "catch", "outer"}
    BY <1>1, <1>2, <2>1, <2>4 DEF Sends, LengthKept
  <2>. QED
    BY <1>4, <2>3, <2>4 DEF sendBlock, written, writeLost, writeThrows, raise, catcher
<1>5. CASE ~output_pieces /\ ~sendBlock
  <2>1. UNCHANGED <<range, size, actual, piece, sent>> /\ header_only' = header_only
    BY <1>5, FileKept DEF file
  <2>2. sent <= piece.length
    BY DEF Sends, LengthKept
  <2>3. ASSUME stage' \in {"main", "postprocess", "output", "output_sole_piece", "output_pieces"}, pass' = 1
        PROVE  stage \in {"main", "postprocess", "output", "output_sole_piece", "output_pieces"} /\ pass = 1
    BY <2>3, Control DEF thrownHere, moves, caught, unhandledReturns, reports, threadCatch, raise, catcher,
       Types, Passes, FirstPass, SecondPass
  <2>4. ASSUME stage' = "done", pass' = 1, ~broken', ~header_only', actual' = size'
        PROVE  sent' = piece'.length
    <3>1. CASE sendEnds
      BY <1>1, <1>2, <2>1, <2>2, <2>4, <3>1, BoundsAssumption DEF sendEnds, toSend, atMost
    <3>. QED
      BY <1>5, <2>1, <2>4, <3>1, Ends DEF Sends, LengthKept
  <2>. QED
    BY <2>1, <2>2, <2>3, <2>4 DEF Sends, LengthKept
<1>. QED
  BY <1>3, <1>4, <1>5
-----------------------------------------------------------------------------
LEMMA Initially == Init => IInv
<1>. SUFFICES ASSUME Init PROVE IInv
  OBVIOUS
<1>. USE DEF Init
<1>1. Types
  <2>1. header_only \in BOOLEAN /\ headersSent \in BOOLEAN /\ broken \in BOOLEAN /\ handled \in BOOLEAN
    BY Zenon
  <2>2. out \in Seq(Item)
    OBVIOUS
  <2>3. stage \in Stage /\ exc \in Error
    BY DEF Stage, Code, Error
  <2>. QED
    BY <2>1, <2>2, <2>3 DEF Types
<1>2. Passes /\ Started
  BY DEF Passes, FirstPass, SecondPass, Started, Sending
<1>3. Balance
  BY DEF Balance, pending
<1>4. Answers /\ Heads
  BY DEF Answers, AtMostOne, headIsOut, Heads, HeadMatches
<1>5. Sends
  <2>1. piece = pieceFor(range, size)
    BY DEF pieceFor
  <2>2. LengthKept
    BY DEF LengthKept, whole
  <2>. QED
    BY <2>1, <2>2, BoundsAssumption DEF Sends, whole
<1>. QED
  BY <1>1, <1>2, <1>3, <1>4, <1>5 DEF IInv

LEMMA Invariance == IInv /\ [Next]_vars => IInv'
  BY TypesStep, PassesStep, StartedStep, BalanceStep, AnswersStep, HeadsStep, SendsStep DEF IInv

LEMMA Always == Spec => []IInv
  BY Initially, Invariance, PTL DEF Spec

\* However many exceptions are thrown, by the page, by what answers and by those
\* who report errors, each is logged once, or handled by @unhandled_exception[].
THEOREM ErrorsAreLogged == Spec => []EveryErrorLogged
<1>1. IInv => EveryErrorLogged
  BY DEF IInv, Types, Balance, pending, EveryErrorLogged
<1>. QED
  BY <1>1, Always, PTL

\* The client gets one head or one error page, unless a write or a read in the
\* middle of an answer has failed.
THEOREM AnsweredOnce == Spec => []OneAnswer
<1>1. IInv => OneAnswer
  <2>. SUFFICES ASSUME Types, Answers, target # "console", ~broken
                PROVE  /\ Cardinality({i \in DOMAIN out : isAnswer(out[i])}) <= 1
                       /\ stage = "done" => headIsOut \/ fused
    BY DEF IInv, OneAnswer
  <2>. DEFINE A == {i \in DOMAIN out : isAnswer(out[i])}
  <2>1. \A i, j \in A : i = j
    BY DEF Answers, AtMostOne
  <2>2. Cardinality(A) \in {0, 1}
    <3>1. CASE A = {}
      BY <3>1, FS_EmptySet
    <3>2. CASE A # {}
      <4>1. PICK i : i \in A
        BY <3>2
      <4>2. A = {i}
        BY <2>1, <4>1
      <4>. QED
        BY <4>2, FS_Singleton
    <3>. QED
      BY <3>1, <3>2
  <2>3. Cardinality(A) <= 1
    <3>. HIDE DEF A
    <3>. QED
      BY <2>2
  <2>. QED
    BY <2>3 DEF Answers
<1>. QED
  BY <1>1, Always, PTL

\* A head has no header of a page that has failed before, the head of an answer to
\* HEAD is all of it, a Range header of one range is answered with the bytes it asks
\* for and one of two refused, and the bytes that go are as many as announced.
THEOREM BodiesAreAsPromised == Spec => []BodyAsPromised
<1>1. IInv => HeadMatches
  BY DEF IInv, Heads
<1>2. IInv => RangeServed
  <2>1. Sends => RangeUnderstood
    BY Understood
  <2>. QED
    BY <2>1 DEF IInv, Sends, RangeServed
<1>3. IInv => BodyAsPromised
  BY <1>1, <1>2 DEF BodyAsPromised
<1>. QED
  BY <1>3, Always, PTL

\* After the first part of a stream, or the handshake of a websocket, no handler
\* sends a head or an error page, whatever fails and how often.
THEOREM StreamsGoOn == Spec => StreamGoesOn
<1>. DEFINE Step == started # "UNSTARTED" /\ ~broken' =>
                        \A i \in Len(out) + 1 .. Len(out') : ~isAnswer(out'[i])
<1>1. IInv /\ [Next]_vars => [Step]_vars
  <2>. SUFFICES ASSUME Types, Started, [Next]_vars, started # "UNSTARTED", ~broken'
                PROVE  \A i \in Len(out) + 1 .. Len(out') : ~isAnswer(out'[i])
    BY DEF IInv
  <2>. USE DEF Types
  <2>1. CASE UNCHANGED out
    <3>1. Len(out) \in Nat
      OBVIOUS
    <3>. QED
      BY <2>1, <3>1
  <2>2. ASSUME NEW items \in Seq(Item), \A i \in 1 .. Len(items) : ~isAnswer(items[i]), out' = out \o items
        PROVE  \A i \in Len(out) + 1 .. Len(out') : ~isAnswer(out'[i])
    <3>1. \A i \in Len(out) + 1 .. Len(out') : i - Len(out) \in 1 .. Len(items) /\ out'[i] = items[i - Len(out)]
      BY <2>2
    <3>. QED
      BY <2>2, <3>1
  <2>3. CASE streamPart
    <3>1. out' = out \o partItems
      BY <2>3 DEF streamPart, written, writeLost, writeThrows
    <3>. QED
      BY <2>2, <3>1, Items
  <2>4. CASE consoleLine /\ out' = Append(out, body("line"))
    <3>1. out' = out \o <<body("line")>> /\ <<body("line")>> \in Seq(Item)
      BY <2>4, Items
    <3>2. \A i \in 1 .. Len(<<body("line")>>) : ~isAnswer(<<body("line")>>[i])
      BY Items DEF isAnswer
    <3>. QED
      BY <2>2, <3>1, <3>2
  <2>5. /\ ~streamStart /\ ~accept /\ ~output_sole_piece /\ ~output_pieces /\ ~sendRangeHead /\ ~sendBlock
    BY DEF streamStart, accept, output_sole_piece, output_pieces, sendRangeHead, sendBlock, Started, Sending
  <2>6. ASSUME outer, NEW status, adds(errorItems(status), FALSE) PROVE FALSE
    <3>1. broken
      BY <2>6 DEF outer, Started
    <3>2. ~broken
      BY <2>6, Writes DEF adds, writes
    <3>. QED
      BY <3>1, <3>2
  <2>. QED
    BY <2>1, <2>3, <2>4, <2>5, <2>6, Answering DEF quiet
<1>. QED
  BY <1>1, Always, PTL DEF Spec, StreamGoesOn
=============================================================================
