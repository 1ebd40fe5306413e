--------------------------- MODULE SkipFlow_proof ---------------------------
(***************************************************************************)
(* SkipFlow, for every depth of the frames and any number of timers: an    *)
(* interruption is thrown at most once for each time it was asked for, the *)
(* interpreter implements Interruption, no opcode runs under a pending     *)
(* skip, and every skip has its target left on the stack.                  *)
(*                                                                         *)
(* The core of the first inductive invariant, IInv, is Backed:             *)
(* SKIP_INTERRUPTED, in fskip or in any copy of it that can still be       *)
(* stored back, always has finterrupted behind it.  The one copy that      *)
(* outlives finterrupted is the one in a TempSkip4Delimiter; the exception *)
(* is then on its way to destroy it.                                       *)
(*                                                                         *)
(* The second, SkipInv, says of every place where a skip can be (fskip,    *)
(* the argument of a set_skip() in progress, the Temp_skips of the frames) *)
(* that its target is below that place.                                    *)
(***************************************************************************)
EXTENDS SkipFlow, SequenceTheorems, TLAPS

\* The registers of set_skip() are in use only while it runs
SetterIdle ==
    /\ pc \notin {"read", "write", "killed"} => arg = NOTHING /\ ret = "run" /\ reg = FALSE
    /\ ret \notin {"throw", "read", "write", "unwind", "done", "killed"}

\* Between throw_interrupted() clearing finterrupted and clearing fskip
Throwing == ret = "throw2"

\* Where an exception can be while it unwinds
Unwinding ==
    /\ exc = "interrupted" =>
           pc \in {"unwind", "drop", "killed"} \/ ret = "drop"
    /\ (pc = "recatch" \/ ret = "recatch") => exc = "error"

Backed ==
    /\ fskip = INTERRUPTED => finterrupted \/ Throwing
    /\ arg = INTERRUPTED => finterrupted
    /\ reg => finterrupted
    /\ pc = "throw" => finterrupted

\* Why a copy of SKIP_INTERRUPTED may exist
Cause == finterrupted \/ Aborting \/ pc \in {"killed", "done"}
CopiesBacked ==
    \A i \in DOMAIN frames :
        frames[i].kind = "delim" /\ frames[i].saved = INTERRUPTED => Cause

IInv == TypeOK /\ SetterIdle /\ Unwinding /\ Backed /\ CopiesBacked
               /\ ThrownOncePerInterrupt
-----------------------------------------------------------------------------
(***************************************************************************)
(* What the stack operations return.                                       *)
(***************************************************************************)
\* The frame on top is a frame, and the ones below it are what pop leaves.
LEMMA TopBelow ==
    ASSUME TypeOK
    PROVE  /\ top \in Frame
           /\ below \in Seq(Frame) /\ Len(below) = Len(frames) - 1
           /\ \A i \in 1 .. Len(below) : below[i] = frames[i]
<1>1. frames \in Seq(Frame) /\ Len(frames) \in 1 .. MaxDepth
  BY DEF TypeOK
<1>2. Len(frames) \in Nat /\ Len(frames) >= 1
  BY <1>1, DepthAssumption
<1>3. \A i \in 1 .. Len(frames) : frames[i] \in Frame
  BY <1>1, ElementOfSeq
<1>4. top \in Frame
  BY <1>2, <1>3 DEF top
<1>5. \A i \in 1 .. Len(frames) - 1 : frames[i] \in Frame
  BY <1>2, <1>3
<1>6. /\ below \in Seq(Frame)
      /\ Len(below) = IF 1 <= Len(frames) - 1 THEN Len(frames) - 1 - 1 + 1 ELSE 0
      /\ \A i \in 1 .. Len(frames) - 1 - 1 + 1 : below[i] = frames[1 + i - 1]
  <2>. HIDE DEF Frame
  <2>. QED
    BY <1>2, <1>5, SubSeqProperties, 1 \in Int, Len(frames) - 1 \in Int DEF below
<1>7. Len(below) = Len(frames) - 1
  <2>. DEFINE n == Len(frames)
              m == Len(below)
  <2>1. n \in Nat /\ n >= 1 /\ m = IF 1 <= n - 1 THEN n - 1 - 1 + 1 ELSE 0
    BY <1>2, <1>6
  <2>. HIDE DEF n, m
  <2>2. m = n - 1
    BY <2>1
  <2>. QED
    BY <2>2 DEF n, m
<1>. QED
  BY <1>2, <1>4, <1>6, <1>7

\* swap replaces the top frame only.
LEMMA SwapFrame ==
    ASSUME TypeOK, NEW f \in Frame
    PROVE  /\ swap(f) \in Seq(Frame) /\ Len(swap(f)) = Len(frames)
           /\ \A i \in 1 .. Len(frames) :
                  swap(f)[i] = IF i = Len(frames) THEN f ELSE frames[i]
<1>1. below \in Seq(Frame) /\ Len(below) = Len(frames) - 1
      /\ \A i \in 1 .. Len(below) : below[i] = frames[i]
  BY TopBelow
<1>2. Len(frames) \in Nat
  BY DEF TypeOK
<1>3. Append(below, f) \in Seq(Frame) /\ Len(Append(below, f)) = Len(below) + 1
      /\ \A i \in 1 .. Len(below) + 1 :
             Append(below, f)[i] = IF i = Len(below) + 1 THEN f ELSE below[i]
  BY <1>1
<1>. QED
  BY <1>1, <1>2, <1>3 DEF swap

\* push adds one frame on top of the others.
LEMMA PushFrame ==
    ASSUME TypeOK, NEW f \in Frame, Len(frames) < MaxDepth
    PROVE  /\ push(f) \in Seq(Frame) /\ Len(push(f)) = Len(frames) + 1
           /\ Len(push(f)) \in 1 .. MaxDepth
           /\ \A i \in 1 .. Len(push(f)) :
                  push(f)[i] = IF i = Len(frames) + 1 THEN f ELSE frames[i]
<1>1. frames \in Seq(Frame) /\ Len(frames) \in 1 .. MaxDepth
  BY DEF TypeOK
<1>2. Append(frames, f) \in Seq(Frame) /\ Len(Append(frames, f)) = Len(frames) + 1
      /\ \A i \in 1 .. Len(frames) + 1 :
             Append(frames, f)[i] = IF i = Len(frames) + 1 THEN f ELSE frames[i]
  BY <1>1
<1>. QED
  BY <1>1, <1>2, DepthAssumption DEF push

\* The stack core starts a method with.
LEMMA CallFrames == call \in Seq(Frame) /\ Len(call) = 1 /\ call[1].kind = "method"
<1>1. newFrame("method", 1, FALSE) \in Frame
  BY DepthAssumption DEF newFrame, Frame, Kinds, Skip, NOTHING, INTERRUPTED
<1>2. newFrame("method", 1, FALSE).kind = "method"
  BY DEF newFrame
<1>. DEFINE f == newFrame("method", 1, FALSE)
<1>3. <<f>> \in Seq(Frame) /\ Len(<<f>>) = 1 /\ <<f>>[1] = f
  <2>. HIDE DEF f, Frame
  <2>1. f \in Frame
    BY <1>1 DEF f
  <2>. QED
    BY <2>1
<1>. QED
  BY <1>2, <1>3 DEF call
-----------------------------------------------------------------------------
(***************************************************************************)
(* Type correctness.                                                       *)
(***************************************************************************)
LEMMA SkipValues == {NOTHING, CONTINUE, BREAK, RETURN, INTERRUPTED} \subseteq Skip
  BY DEF Skip, NOTHING, CONTINUE, BREAK, RETURN, INTERRUPTED

\* The frames, the registers, and the rest of the state.
FramesOK == frames \in Seq(Frame) /\ Len(frames) \in 1 .. MaxDepth
SetterOK == pc \in Pcs /\ arg \in Skip /\ ret \in Pcs /\ reg \in BOOLEAN
FieldsOK ==
    /\ result \in BOOLEAN /\ exc \in {"none", "error", "interrupted"}
    /\ fskip \in Skip /\ finterrupted \in BOOLEAN /\ freturn \in 1 .. MaxDepth
    /\ phase \in {"main", "postprocess", "handler"}
    /\ armed \in BOOLEAN /\ expired \in BOOLEAN /\ arms \in 0 .. MaxArms
    /\ raised \in Nat /\ thrown \in Nat
HistoryOK == leak \in BOOLEAN /\ retargeted \in BOOLEAN

LEMMA TypeParts == TypeOK <=> FramesOK /\ SetterOK /\ FieldsOK /\ HistoryOK
  BY DEF TypeOK, FramesOK, SetterOK, FieldsOK, HistoryOK

\* A frame stays a frame when its kind, skip or pending error change.
LEMMA FrameExcept ==
    ASSUME TypeOK
    PROVE  /\ \A k \in Kinds : [top EXCEPT !.kind = k] \in Frame
           /\ \A s \in Skip : [top EXCEPT !.saved = s] \in Frame
           /\ \A k \in Kinds, s \in Skip : [top EXCEPT !.kind = k, !.saved = s] \in Frame
           /\ \A k \in Kinds, s \in Skip, e \in {"none", "error"} :
                  [top EXCEPT !.kind = k, !.saved = s, !.exc = e] \in Frame
<1>1. top \in Frame
  BY TopBelow
<1>. QED
  BY <1>1 DEF Frame

\* Every step keeps the frames.
LEMMA FramesStep == TypeOK /\ [Next]_vars => FramesOK'
<1>. SUFFICES ASSUME TypeOK, [Next]_vars PROVE FramesOK'
  OBVIOUS
<1>1. frames' = frames => FramesOK'
  BY DEF TypeOK, FramesOK
<1>2. ASSUME NEW f \in Frame, frames' = swap(f) PROVE FramesOK'
  BY <1>2, SwapFrame DEF TypeOK, FramesOK
<1>3. ASSUME NEW f \in Frame, Len(frames) < MaxDepth, frames' = push(f) PROVE FramesOK'
  BY <1>3, PushFrame DEF FramesOK
<1>4. ASSUME frames' = call PROVE FramesOK'
  <2>1. frames' \in Seq(Frame) /\ Len(frames') = 1 /\ 1 \in 1 .. MaxDepth
    BY <1>4, CallFrames, DepthAssumption
  <2>. QED
    BY <2>1 DEF FramesOK
<1>5. ASSUME Len(frames) > 1, frames' = below PROVE FramesOK'
  <2>1. Len(frames) \in 1 .. MaxDepth
    BY DEF TypeOK
  <2>2. Len(frames) - 1 \in 1 .. MaxDepth
    BY <1>5, <2>1, DepthAssumption
  <2>3. frames' \in Seq(Frame) /\ Len(frames') = Len(frames) - 1
    BY <1>5, TopBelow
  <2>. QED
    BY <2>2, <2>3 DEF FramesOK
<1>6. top \in Frame
  BY TopBelow
<1>7. fskip \in Skip /\ NOTHING \in Skip
  BY SkipValues DEF TypeOK
<1>8. \A e \in {"none", "error"} : runFinally(e) => FramesOK'
  BY <1>2, <1>7, FrameExcept DEF runFinally, Kinds
<1>9. CASE handler
  BY <1>1, <1>9 DEF handler
<1>10. CASE userCode
  <2>1. ASSUME NEW k \in Kinds, enter(k) PROVE FramesOK'
    <3>1. Len(frames) < MaxDepth /\ top.mf \in 1 .. MaxDepth /\ Len(frames) + 1 \in 1 .. MaxDepth
      BY <2>1, <1>6, DepthAssumption DEF enter, Frame, TypeOK
    <3>2. \A m \in 1 .. MaxDepth, b \in BOOLEAN : newFrame(k, m, b) \in Frame
      BY SkipValues DEF newFrame, Frame
    <3>3. \A i \in DOMAIN frames : frames[i].mf \in 1 .. MaxDepth
      <4>1. \A i \in DOMAIN frames : frames[i] \in Frame
        BY DEF TypeOK
      <4>. QED
        BY <4>1 DEF Frame
    <3>. QED
      BY <2>1, <3>1, <3>2, <3>3, <1>3 DEF enter
  <2>. QED
    BY <1>1, <1>10, <2>1 DEF userCode, opcode, breakOrContinue, return, throwError,
                             blockingCall, set
<1>11. ASSUME NEW d \in 1 .. MaxDepth, codeEnds(d) PROVE FramesOK'
  BY <1>1, <1>11 DEF codeEnds, endOfCode
<1>12. CASE interpreter
  <2>1. CASE cycleAgain
    <3>1. IF top.kind = "delim" THEN "dcycle" \in Kinds ELSE top.kind \in Kinds
      BY <1>6 DEF Frame, Kinds
    <3>. QED
      BY <2>1, <3>1, <1>1, <1>2, FrameExcept DEF cycleAgain
  <2>2. CASE leaveBody
    BY <2>2, <1>2, <1>7, FrameExcept DEF leaveBody, Kinds
  <2>3. CASE check_break
    <3>1. [top EXCEPT !.saved = NOTHING] \in Frame
      BY <1>7, FrameExcept
    <3>2. frames' = swap([top EXCEPT !.saved = NOTHING])
      BY <2>3, Zenon DEF check_break
    <3>. QED
      BY <3>1, <3>2, <1>2
  <2>4. CASE leaveTry
    BY <2>4, <1>1, <1>8 DEF leaveTry
  <2>5. CASE caught
    BY <2>5, <1>1, <1>8 DEF caught
  <2>6. CASE pop
    BY <2>6, <1>5 DEF pop
  <2>7. CASE coreReturn
    BY <2>7, <1>1, <1>4 DEF coreReturn
  <2>8. CASE unwindFrame
    BY <2>8, <1>5 DEF unwindFrame
  <2>9. CASE unwindToCatch
    BY <2>9, <1>2, <1>7, FrameExcept DEF unwindToCatch, Kinds
  <2>10. CASE unwindTempSkip
    BY <2>10, <1>1, <1>8 DEF unwindTempSkip
  <2>11. CASE coreCatch
    BY <2>11, <1>1, <1>4 DEF coreCatch
  <2>. QED
    BY <1>12, <1>1, <2>1, <2>2, <2>3, <2>4, <2>5, <2>6, <2>7, <2>8, <2>9, <2>10, <2>11
       DEF interpreter, blockingReturn, set_skip_read, set_skip_write, check_skip,
           throw_interrupted, leaveMethod, leaveCode, leaveValue, check_skip_break, delimiter,
           get_processed, skipInParam, leaveCatchOrFinally, afterFinally
<1>13. CASE UNCHANGED vars
  BY <1>1, <1>13 DEF vars
<1>. QED
  BY <1>9, <1>10, <1>11, <1>12, <1>13 DEF Next, finished

\* goto and set_skip keep the types of the registers.
LEMMA GotoType == ASSUME NEW p \in Pcs, goto(p) PROVE SetterOK'
<1>1. NOTHING \in Skip /\ "run" \in Pcs
  BY SkipValues DEF Pcs
<1>. QED
  BY <1>1 DEF goto, SetterOK

LEMMA SetSkipType ==
    ASSUME NEW a \in Skip, NEW r \in Pcs, set_skip(a, r) PROVE SetterOK'
<1>1. "read" \in Pcs
  BY DEF Pcs
<1>. QED
  BY <1>1 DEF set_skip, SetterOK

\* Every step keeps the types of the registers.
LEMMA SetterStep == TypeOK /\ [Next]_vars => SetterOK'
<1>. SUFFICES ASSUME TypeOK, [Next]_vars PROVE SetterOK'
  OBVIOUS
<1>1. UNCHANGED <<pc, setter>> => SetterOK'
  BY DEF TypeOK, SetterOK, setter
<1>2. /\ top.mf \in 1 .. MaxDepth /\ top.saved \in Skip
      /\ NOTHING \in Skip /\ CONTINUE \in Skip /\ BREAK \in Skip /\ RETURN \in Skip
      /\ fskip \in Skip
  <2>1. top \in Frame
    BY TopBelow
  <2>2. top.mf \in 1 .. MaxDepth /\ top.saved \in Skip
    BY <2>1 DEF Frame
  <2>. QED
    BY <2>2, SkipValues DEF TypeOK
<1>3. \A e \in {"none", "error"} : runFinally(e) => SetterOK'
  BY <1>2, SetSkipType DEF runFinally, Pcs
<1>4. \A p \in Pcs : Temp_skip_dtor(p) => SetterOK'
  BY <1>2, GotoType, SetSkipType DEF Temp_skip_dtor
<1>5. CASE handler
  BY <1>5 DEF handler, setter, SetterOK, TypeOK, Pcs
<1>6. CASE userCode
  BY <1>6, <1>1, <1>2, GotoType, SetSkipType
     DEF userCode, opcode, breakOrContinue, return, throwError, enter, blockingCall, set, Pcs
<1>7. ASSUME NEW d \in 1 .. MaxDepth, codeEnds(d) PROVE SetterOK'
  BY <1>7, GotoType DEF codeEnds, endOfCode, Pcs
<1>8. CASE interpreter
  <2>1. CASE blockingReturn
    BY <2>1, GotoType DEF blockingReturn, Pcs
  <2>2. CASE set_skip_read
    BY <2>2 DEF set_skip_read, SetterOK, TypeOK, Pcs
  <2>3. CASE set_skip_write
    BY <2>3, GotoType DEF set_skip_write, TypeOK
  <2>4. CASE check_skip
    BY <2>4, GotoType DEF check_skip, Pcs
  <2>5. CASE throw_interrupted
    BY <2>5, <1>2, GotoType, SetSkipType DEF throw_interrupted, Pcs
  <2>6. CASE leaveMethod
    BY <2>6, <1>2, GotoType, SetSkipType DEF leaveMethod, Pcs
  <2>7. CASE leaveCode
    BY <2>7, GotoType DEF leaveCode, Pcs
  <2>8. CASE check_skip_break
    BY <2>8, <1>2, GotoType, SetSkipType DEF check_skip_break, Pcs
  <2>9. CASE cycleAgain
    BY <2>9, GotoType DEF cycleAgain, Pcs
  <2>10. CASE leaveBody
    BY <2>10, <1>2, SetSkipType DEF leaveBody, Pcs
  <2>11. CASE delimiter
    BY <2>11, GotoType DEF delimiter, Pcs
  <2>12. CASE check_break
    BY <2>12, <1>2, SetSkipType DEF check_break, Pcs
  <2>13. CASE get_processed
    BY <2>13, <1>2, GotoType, SetSkipType DEF get_processed, Pcs
  <2>14. CASE skipInParam
    BY <2>14, GotoType DEF skipInParam, Pcs
  <2>15. CASE leaveTry
    BY <2>15, <1>3, GotoType DEF leaveTry, Pcs
  <2>16. CASE leaveCatchOrFinally
    BY <2>16, <1>4 DEF leaveCatchOrFinally, Pcs
  <2>17. CASE caught
    BY <2>17, <1>3, GotoType DEF caught, Pcs
  <2>18. CASE afterFinally
    BY <2>18, GotoType DEF afterFinally, Pcs
  <2>19. CASE pop
    BY <2>19, GotoType DEF pop, Pcs
  <2>20. CASE coreReturn
    BY <2>20, GotoType DEF coreReturn, Pcs
  <2>21. CASE unwindFrame
    BY <2>21, GotoType DEF unwindFrame, Pcs
  <2>22. CASE unwindToCatch
    BY <2>22, <1>2, SetSkipType DEF unwindToCatch, Pcs
  <2>23. CASE unwindTempSkip
    BY <2>23, <1>3, <1>4 DEF unwindTempSkip, Pcs
  <2>24. CASE coreCatch
    BY <2>24, GotoType DEF coreCatch, Pcs
  <2>25. CASE leaveValue
    BY <2>25, <1>2, SetSkipType DEF leaveValue, Pcs
  <2>. QED
    BY <1>8, <2>1, <2>2, <2>3, <2>4, <2>5, <2>6, <2>7, <2>8, <2>9, <2>10, <2>11, <2>12, <2>13, <2>14, <2>15, <2>16, <2>17, <2>18, <2>19, <2>20, <2>21, <2>22, <2>23, <2>24, <2>25
       DEF interpreter
<1>9. CASE UNCHANGED vars
  BY <1>1, <1>9 DEF vars, setter
<1>. QED
  BY <1>5, <1>6, <1>7, <1>8, <1>9 DEF Next, finished

\* Every step keeps the types of the fields and of the history.
LEMMA FieldsStep == TypeOK /\ [Next]_vars => FieldsOK' /\ HistoryOK'
<1>. SUFFICES ASSUME TypeOK, [Next]_vars PROVE FieldsOK' /\ HistoryOK'
  OBVIOUS
<1>. USE DEF TypeOK, FieldsOK, shared, timer
<1>1. HistoryOK'
  BY DEF Next, finished, history, userCode, codeEnds, interpreter, vars, HistoryOK
<1>. SUFFICES FieldsOK'
  BY <1>1
<1>2. top.mf \in 1 .. MaxDepth
  BY TopBelow DEF Frame
<1>. DEFINE others == /\ result' \in BOOLEAN /\ exc' \in {"none", "error", "interrupted"}
                      /\ fskip' \in Skip /\ finterrupted' \in BOOLEAN
                      /\ freturn' \in 1 .. MaxDepth /\ phase' \in {"main", "postprocess", "handler"}
                      /\ armed' \in BOOLEAN /\ expired' \in BOOLEAN
<1>3. CASE handler
  <2>1. raised' \in {raised, raised + 1} /\ thrown' = thrown /\ arms' = arms
    BY <1>3 DEF handler
  <2>2. arms' \in 0 .. MaxArms /\ raised' \in Nat /\ thrown' \in Nat
    BY <2>1
  <2>3. others
    BY <1>3, SkipValues, KillAssumption DEF handler
  <2>. QED
    BY <2>2, <2>3
<1>4. CASE userCode
  <2>1. ASSUME NEW on \in BOOLEAN, set(on) PROVE FieldsOK'
    <3>1. arms' \in 0 .. MaxArms /\ raised' \in Nat /\ thrown' \in Nat
      BY <2>1, ArmsAssumption DEF set
    <3>2. others
      BY <2>1 DEF set
    <3>. QED
      BY <3>1, <3>2
  <2>2. CASE return
    BY <2>2, <1>2 DEF return
  <2>. QED
    BY <1>4, <2>1, <2>2 DEF userCode, opcode, breakOrContinue, throwError, enter, blockingCall
<1>5. ASSUME NEW d \in 1 .. MaxDepth, codeEnds(d) PROVE FieldsOK'
  BY <1>5 DEF codeEnds, endOfCode
<1>6. CASE interpreter
  <2>1. CASE blockingReturn
    BY <2>1 DEF blockingReturn
  <2>2. CASE set_skip_read
    BY <2>2 DEF set_skip_read
  <2>3. CASE set_skip_write
    BY <2>3, SkipValues DEF set_skip_write
  <2>4. CASE check_skip
    BY <2>4 DEF check_skip
  <2>5. CASE throw_interrupted
    <3>1. thrown' \in {thrown, thrown + 1} /\ raised' = raised /\ arms' = arms
      BY <2>5 DEF throw_interrupted
    <3>2. arms' \in 0 .. MaxArms /\ raised' \in Nat /\ thrown' \in Nat
      BY <3>1
    <3>3. others
      BY <2>5 DEF throw_interrupted
    <3>. QED
      BY <3>2, <3>3
  <2>6. CASE leaveMethod
    BY <2>6 DEF leaveMethod
  <2>7. CASE leaveCode
    BY <2>7 DEF leaveCode
  <2>8. CASE check_skip_break
    BY <2>8 DEF check_skip_break
  <2>9. CASE cycleAgain
    BY <2>9 DEF cycleAgain
  <2>10. CASE leaveBody
    BY <2>10 DEF leaveBody
  <2>11. CASE delimiter
    BY <2>11 DEF delimiter
  <2>12. CASE check_break
    BY <2>12 DEF check_break
  <2>13. CASE get_processed
    BY <2>13 DEF get_processed
  <2>14. CASE skipInParam
    BY <2>14 DEF skipInParam
  <2>15. CASE leaveTry
    BY <2>15 DEF leaveTry
  <2>16. CASE leaveCatchOrFinally
    BY <2>16 DEF leaveCatchOrFinally
  <2>17. CASE caught
    BY <2>17 DEF caught
  <2>18. CASE afterFinally
    BY <2>18 DEF afterFinally
  <2>19. CASE pop
    BY <2>19 DEF pop
  <2>20. CASE coreReturn
    BY <2>20 DEF coreReturn
  <2>21. CASE unwindFrame
    BY <2>21 DEF unwindFrame
  <2>22. CASE unwindToCatch
    BY <2>22 DEF unwindToCatch
  <2>23. CASE unwindTempSkip
    BY <2>23 DEF unwindTempSkip
  <2>24. CASE coreCatch
    BY <2>24 DEF coreCatch
  <2>25. CASE leaveValue
    BY <1>2, <2>25 DEF leaveValue
  <2>. QED
    BY <1>6, <2>1, <2>2, <2>3, <2>4, <2>5, <2>6, <2>7, <2>8, <2>9, <2>10, <2>11, <2>12, <2>13, <2>14, <2>15, <2>16, <2>17, <2>18, <2>19, <2>20, <2>21, <2>22, <2>23, <2>24, <2>25
       DEF interpreter
<1>7. CASE UNCHANGED vars
  BY <1>7 DEF vars
<1>. QED
  BY <1>3, <1>4, <1>5, <1>6, <1>7 DEF Next, finished
-----------------------------------------------------------------------------
(***************************************************************************)
(* The interruption.                                                       *)
(***************************************************************************)
\* Every step leaves the registers idle or in use, and an exception where one
\* can be.
LEMMA ControlStep ==
    SetterIdle /\ Unwinding /\ [Next]_vars => SetterIdle' /\ Unwinding'
<1>. SUFFICES ASSUME SetterIdle, Unwinding, [Next]_vars PROVE SetterIdle' /\ Unwinding'
  OBVIOUS
<1>. USE DEF SetterIdle, Unwinding, goto, set_skip
<1>1. CASE handler
  BY <1>1 DEF handler, setter
<1>2. CASE userCode
  BY <1>2 DEF userCode, opcode, breakOrContinue, return, throwError, enter, blockingCall,
              set, setter
<1>3. ASSUME NEW d \in 1 .. MaxDepth, codeEnds(d) PROVE SetterIdle' /\ Unwinding'
  BY <1>3 DEF codeEnds, endOfCode
<1>4. CASE interpreter
  <2>1. CASE blockingReturn
    BY <2>1 DEF blockingReturn
  <2>2. CASE set_skip_read
    BY <2>2 DEF set_skip_read
  <2>3. CASE set_skip_write
    BY <2>3 DEF set_skip_write
  <2>4. CASE check_skip
    BY <2>4 DEF check_skip
  <2>5. CASE throw_interrupted
    BY <2>5 DEF throw_interrupted
  <2>6. CASE leaveMethod
    BY <2>6 DEF leaveMethod
  <2>7. CASE leaveCode
    BY <2>7 DEF leaveCode
  <2>8. CASE check_skip_break
    BY <2>8 DEF check_skip_break
  <2>9. CASE cycleAgain
    BY <2>9 DEF cycleAgain
  <2>10. CASE leaveBody
    BY <2>10 DEF leaveBody
  <2>11. CASE delimiter
    BY <2>11 DEF delimiter
  <2>12. CASE check_break
    BY <2>12 DEF check_break
  <2>13. CASE get_processed
    BY <2>13 DEF get_processed
  <2>14. CASE skipInParam
    BY <2>14 DEF skipInParam
  <2>15. CASE leaveTry
    BY <2>15 DEF leaveTry, runFinally
  <2>16. CASE leaveCatchOrFinally
    BY <2>16 DEF leaveCatchOrFinally, Temp_skip_dtor
  <2>17. CASE caught
    BY <2>17 DEF caught, runFinally
  <2>18. CASE afterFinally
    BY <2>18 DEF afterFinally
  <2>19. CASE pop
    BY <2>19 DEF pop
  <2>20. CASE coreReturn
    BY <2>20 DEF coreReturn
  <2>21. CASE unwindFrame
    BY <2>21 DEF unwindFrame
  <2>22. CASE unwindToCatch
    BY <2>22 DEF unwindToCatch
  <2>23. CASE unwindTempSkip
    BY <2>23 DEF unwindTempSkip, runFinally, Temp_skip_dtor
  <2>24. CASE coreCatch
    BY <2>24 DEF coreCatch
  <2>25. CASE leaveValue
    BY <2>25 DEF leaveValue
  <2>. QED
    BY <1>4, <2>1, <2>2, <2>3, <2>4, <2>5, <2>6, <2>7, <2>8, <2>9, <2>10, <2>11, <2>12, <2>13, <2>14, <2>15, <2>16, <2>17, <2>18, <2>19, <2>20, <2>21, <2>22, <2>23, <2>24, <2>25
       DEF interpreter
<1>5. CASE UNCHANGED vars
  BY <1>5 DEF vars
<1>. QED
  BY <1>1, <1>2, <1>3, <1>4, <1>5 DEF Next, finished

LEMMA SkipDistinct == /\ NOTHING # INTERRUPTED /\ CONTINUE # INTERRUPTED
                      /\ BREAK # INTERRUPTED /\ RETURN # INTERRUPTED
  BY DEF NOTHING, CONTINUE, BREAK, RETURN, INTERRUPTED

\* Every step keeps finterrupted behind each SKIP_INTERRUPTED.
LEMMA BackedStep ==
    IInv /\ [Next]_vars => Backed'
<1>. SUFFICES ASSUME SetterIdle, Unwinding, Backed, CopiesBacked, TypeOK, [Next]_vars
              PROVE  Backed'
  BY DEF IInv
<1>. USE SkipDistinct DEF Backed, Throwing, SetterIdle, goto, set_skip, shared
<1>1. CASE handler
  BY <1>1 DEF handler, setter
<1>2. CASE userCode
  <2>1. ASSUME NEW s \in {BREAK, CONTINUE}, breakOrContinue(s) PROVE Backed'
    BY <2>1 DEF breakOrContinue
  <2>2. ASSUME NEW k \in Kinds, enter(k) PROVE Backed'
    BY <2>2 DEF enter, setter
  <2>3. ASSUME NEW on \in BOOLEAN, set(on) PROVE Backed'
    BY <2>3 DEF set
  <2>4. CASE opcode \/ return \/ throwError \/ blockingCall
    BY <2>4 DEF opcode, return, throwError, blockingCall
  <2>. QED
    BY <1>2, <2>1, <2>2, <2>3, <2>4 DEF userCode
<1>3. ASSUME NEW d \in 1 .. MaxDepth, codeEnds(d) PROVE Backed'
  BY <1>3 DEF codeEnds, endOfCode
<1>4. CASE interpreter
  <2>1. CASE blockingReturn
    BY <2>1 DEF blockingReturn
  <2>2. CASE set_skip_read
    BY <2>2 DEF set_skip_read
  <2>3. CASE set_skip_write
    BY <2>3 DEF set_skip_write
  <2>4. CASE check_skip
    BY <2>4 DEF check_skip
  <2>5. CASE throw_interrupted
    BY <2>5 DEF throw_interrupted
  <2>6. CASE leaveMethod
    BY <2>6 DEF leaveMethod
  <2>7. CASE leaveCode
    BY <2>7 DEF leaveCode
  <2>8. CASE check_skip_break
    BY <2>8 DEF check_skip_break
  <2>9. CASE cycleAgain
    BY <2>9 DEF cycleAgain
  <2>10. CASE leaveBody
    BY <2>10 DEF leaveBody
  <2>11. CASE delimiter
    BY <2>11 DEF delimiter
  <2>12. CASE check_break
    <3>1. fskip = INTERRUPTED => finterrupted
      BY <2>12 DEF check_break
    <3>2. top.saved = INTERRUPTED => finterrupted
      <4>1. Len(frames) \in DOMAIN frames /\ top = frames[Len(frames)]
        BY TopBelow DEF TypeOK, top
      <4>2. top.saved = INTERRUPTED => Cause
        BY <2>12, <4>1 DEF check_break, CopiesBacked
      <4>. QED
        BY <2>12, <4>2 DEF check_break, Cause, Aborting, Unwinding
    <3>3. arg' \in {NOTHING, fskip, top.saved}
      BY <2>12, Zenon DEF check_break
    <3>. QED
      BY <2>12, <3>1, <3>2, <3>3 DEF check_break
  <2>13. CASE get_processed
    BY <2>13 DEF get_processed
  <2>14. CASE skipInParam
    BY <2>14 DEF skipInParam
  <2>15. CASE leaveTry
    BY <2>15 DEF leaveTry, runFinally
  <2>16. CASE leaveCatchOrFinally
    BY <2>16 DEF leaveCatchOrFinally, Temp_skip_dtor
  <2>17. CASE caught
    BY <2>17 DEF caught, runFinally
  <2>18. CASE afterFinally
    BY <2>18 DEF afterFinally
  <2>19. CASE pop
    BY <2>19 DEF pop
  <2>20. CASE coreReturn
    BY <2>20 DEF coreReturn
  <2>21. CASE unwindFrame
    BY <2>21 DEF unwindFrame
  <2>22. CASE unwindToCatch
    BY <2>22 DEF unwindToCatch
  <2>23. CASE unwindTempSkip
    BY <2>23 DEF unwindTempSkip, runFinally, Temp_skip_dtor
  <2>24. CASE coreCatch
    BY <2>24 DEF coreCatch
  <2>25. CASE leaveValue
    BY <2>25 DEF leaveValue
  <2>. QED
    BY <1>4, <2>1, <2>2, <2>3, <2>4, <2>5, <2>6, <2>7, <2>8, <2>9, <2>10, <2>11, <2>12, <2>13, <2>14, <2>15, <2>16, <2>17, <2>18, <2>19, <2>20, <2>21, <2>22, <2>23, <2>24, <2>25
       DEF interpreter
<1>5. CASE UNCHANGED vars
  BY <1>5 DEF vars
<1>. QED
  BY <1>1, <1>2, <1>3, <1>4, <1>5 DEF Next, finished

\* The reason for a saved SKIP_INTERRUPTED lasts until core drops the frames.
LEMMA CauseStep ==
    ASSUME Unwinding, SetterIdle, Backed, [Next]_vars, ~coreCatch, Cause
    PROVE  Cause'
<1>. USE DEF Cause, Aborting, Unwinding, SetterIdle, goto, set_skip, shared
<1>1. CASE handler
  BY <1>1 DEF handler, setter
<1>2. CASE userCode
  <2>1. ASSUME NEW s \in {BREAK, CONTINUE}, breakOrContinue(s) PROVE Cause'
    BY <2>1 DEF breakOrContinue
  <2>2. ASSUME NEW k \in Kinds, enter(k) PROVE Cause'
    BY <2>2 DEF enter, setter
  <2>3. ASSUME NEW on \in BOOLEAN, set(on) PROVE Cause'
    BY <2>3 DEF set
  <2>4. CASE opcode \/ return \/ throwError \/ blockingCall
    BY <2>4 DEF opcode, return, throwError, blockingCall
  <2>. QED
    BY <1>2, <2>1, <2>2, <2>3, <2>4 DEF userCode
<1>3. ASSUME NEW d \in 1 .. MaxDepth, codeEnds(d)
      PROVE  Cause'
  BY <1>3 DEF codeEnds, endOfCode
<1>4. CASE interpreter
  <2>1. CASE blockingReturn
    BY <2>1 DEF blockingReturn
  <2>2. CASE set_skip_read
    BY <2>2 DEF set_skip_read
  <2>3. CASE set_skip_write
    BY <2>3 DEF set_skip_write
  <2>4. CASE check_skip
    BY <2>4 DEF check_skip
  <2>5. CASE throw_interrupted
    BY <2>5 DEF throw_interrupted
  <2>6. CASE leaveMethod
    BY <2>6 DEF leaveMethod
  <2>7. CASE leaveCode
    BY <2>7 DEF leaveCode
  <2>8. CASE check_skip_break
    BY <2>8 DEF check_skip_break
  <2>9. CASE cycleAgain
    BY <2>9 DEF cycleAgain
  <2>10. CASE leaveBody
    BY <2>10 DEF leaveBody
  <2>11. CASE delimiter
    BY <2>11 DEF delimiter
  <2>12. CASE check_break
    BY <2>12 DEF check_break
  <2>13. CASE get_processed
    BY <2>13 DEF get_processed
  <2>14. CASE skipInParam
    BY <2>14 DEF skipInParam
  <2>15. CASE leaveTry
    BY <2>15 DEF leaveTry, runFinally
  <2>16. CASE leaveCatchOrFinally
    BY <2>16 DEF leaveCatchOrFinally, Temp_skip_dtor
  <2>17. CASE caught
    BY <2>17 DEF caught, runFinally
  <2>18. CASE afterFinally
    BY <2>18 DEF afterFinally
  <2>19. CASE pop
    BY <2>19 DEF pop
  <2>20. CASE coreReturn
    BY <2>20 DEF coreReturn
  <2>21. CASE unwindFrame
    BY <2>21 DEF unwindFrame
  <2>22. CASE unwindToCatch
    BY <2>22 DEF unwindToCatch
  <2>23. CASE unwindTempSkip
    BY <2>23 DEF unwindTempSkip, runFinally, Temp_skip_dtor
  <2>25. CASE leaveValue
    BY <2>25 DEF leaveValue
  <2>. QED
    BY <1>4, <2>1, <2>2, <2>3, <2>4, <2>5, <2>6, <2>7, <2>8, <2>9, <2>10, <2>11, <2>12, <2>13, <2>14, <2>15, <2>16, <2>17, <2>18, <2>19, <2>20, <2>21, <2>22, <2>23, <2>25
       DEF interpreter
<1>5. CASE UNCHANGED vars
  BY <1>5 DEF vars
<1>. QED
  BY <1>1, <1>2, <1>3, <1>4, <1>5 DEF Next, finished

\* Every step keeps a reason for each SKIP_INTERRUPTED saved for a delimiter.
LEMMA CopiesStep ==
    IInv /\ [Next]_vars => CopiesBacked'
<1>. SUFFICES ASSUME IInv, [Next]_vars PROVE CopiesBacked'
  OBVIOUS
<1>. USE DEF IInv
<1>. DEFINE Copy(f) == f.kind = "delim" /\ f.saved = INTERRUPTED
<1>1. /\ frames \in Seq(Frame) /\ Len(frames) \in Nat \ {0}
      /\ DOMAIN frames = 1 .. Len(frames)
      /\ top = frames[Len(frames)] /\ top \in Frame
  BY TopBelow, DepthAssumption DEF TypeOK, top
<1>2. \A i \in 1 .. Len(frames) : Copy(frames[i]) => Cause
  BY <1>1 DEF CopiesBacked
<1>3. ~coreCatch /\ Cause => Cause'
  BY CauseStep
<1>4. ASSUME NEW n \in Nat, DOMAIN frames' = 1 .. n, ~coreCatch,
             \A i \in 1 .. n : Copy(frames'[i]) => Cause
      PROVE  CopiesBacked'
  BY <1>4, <1>3 DEF CopiesBacked
<1>5. ASSUME frames' = frames, ~coreCatch PROVE CopiesBacked'
  BY <1>1, <1>2, <1>4, <1>5
<1>6. ASSUME NEW f \in Frame, frames' = swap(f), ~coreCatch, Copy(f) => Cause
      PROVE  CopiesBacked'
  <2>1. /\ frames' \in Seq(Frame) /\ Len(frames') = Len(frames)
        /\ \A i \in 1 .. Len(frames) :
               frames'[i] = IF i = Len(frames) THEN f ELSE frames[i]
    BY <1>6, SwapFrame
  <2>2. DOMAIN frames' = 1 .. Len(frames)
    BY <2>1
  <2>. QED
    BY <1>1, <1>2, <1>4, <1>6, <2>1, <2>2
<1>7. ASSUME NEW f \in Frame, Len(frames) < MaxDepth, frames' = push(f), ~coreCatch, ~Copy(f)
      PROVE  CopiesBacked'
  <2>1. /\ DOMAIN frames' = 1 .. Len(frames) + 1 /\ Len(frames) + 1 \in Nat
        /\ \A i \in 1 .. Len(frames) + 1 :
               frames'[i] = IF i = Len(frames) + 1 THEN f ELSE frames[i]
    BY <1>1, <1>7, PushFrame
  <2>2. \A i \in 1 .. Len(frames) + 1 : i # Len(frames) + 1 => i \in 1 .. Len(frames)
    BY <1>1
  <2>. QED
    BY <1>2, <1>4, <1>7, <2>1, <2>2
<1>8. ASSUME Len(frames) > 1, frames' = below, ~coreCatch PROVE CopiesBacked'
  <2>1. /\ DOMAIN frames' = 1 .. Len(frames) - 1 /\ Len(frames) - 1 \in Nat
        /\ \A i \in 1 .. Len(frames) - 1 : frames'[i] = frames[i]
    BY <1>1, <1>8, TopBelow
  <2>2. \A i \in 1 .. Len(frames) - 1 : i \in 1 .. Len(frames)
    BY <1>1
  <2>. QED
    BY <1>2, <1>4, <1>8, <2>1, <2>2
<1>9. ASSUME frames' = call PROVE CopiesBacked'
  <2>1. DOMAIN frames' = {1} /\ frames'[1].kind = "method"
    BY <1>9, CallFrames
  <2>. QED
    BY <2>1 DEF CopiesBacked
<1>10. ASSUME NEW e \in {"none", "error"}, runFinally(e), ~coreCatch PROVE CopiesBacked'
  <2>1. [top EXCEPT !.kind = "finally", !.saved = fskip, !.exc = e] \in Frame
    BY FrameExcept DEF TypeOK, Kinds
  <2>2. [top EXCEPT !.kind = "finally", !.saved = fskip, !.exc = e].kind = "finally"
    BY <1>1 DEF Frame
  <2>. QED
    BY <1>6, <1>10, <2>1, <2>2 DEF runFinally
<1>11. pc \notin {"unwind"} => ~coreCatch
  BY DEF coreCatch
<1>12. CASE handler
  <2>1. frames' = frames
    BY <1>12 DEF handler
  <2>2. ~coreCatch \/ CopiesBacked'
    BY <1>12 DEF coreCatch, handler, CopiesBacked, Cause
  <2>. QED
    BY <1>5, <2>1, <2>2
<1>13. CASE userCode
  <2>1. pc = "run"
    BY <1>13 DEF userCode, opcode, breakOrContinue, return, throwError, enter, blockingCall, set
  <2>2. ASSUME NEW k \in Kinds, enter(k) PROVE CopiesBacked'
    <3>1. Len(frames) < MaxDepth /\ top.mf \in 1 .. MaxDepth /\ Len(frames) + 1 \in 1 .. MaxDepth
      BY <2>2, <1>1, DepthAssumption DEF enter, Frame, TypeOK
    <3>2. \A m \in 1 .. MaxDepth, b \in BOOLEAN :
              newFrame(k, m, b) \in Frame /\ ~Copy(newFrame(k, m, b))
      BY SkipValues, SkipDistinct DEF newFrame, Frame
    <3>3. \A i \in DOMAIN frames : frames[i].mf \in 1 .. MaxDepth
      <4>1. \A i \in DOMAIN frames : frames[i] \in Frame
        BY DEF TypeOK
      <4>. QED
        BY <4>1 DEF Frame
    <3>. QED
      BY <2>1, <2>2, <3>1, <3>2, <3>3, <1>7, <1>11 DEF enter
  <2>3. CASE \A k \in Kinds : ~enter(k)
    <3>1. frames' = frames
      BY <1>13, <2>3 DEF userCode, opcode, breakOrContinue, return, throwError, blockingCall, set
    <3>. QED
      BY <2>1, <3>1, <1>5, <1>11
  <2>. QED
    BY <2>2, <2>3
<1>14. ASSUME NEW d \in 1 .. MaxDepth, codeEnds(d) PROVE CopiesBacked'
  BY <1>5, <1>11, <1>14 DEF codeEnds, endOfCode
<1>15. CASE interpreter
  <2>1. CASE cycleAgain
    <3>. DEFINE f == [top EXCEPT !.kind = IF @ = "delim" THEN "dcycle" ELSE @]
    <3>1. f \in Frame
      BY <1>1 DEF Frame, Kinds
    <3>2. f.kind # "delim"
      BY <1>1 DEF Frame
    <3>3. frames' = swap(f) \/ frames' = frames
      BY <2>1 DEF cycleAgain
    <3>4. ~coreCatch
      BY <2>1, <1>11 DEF cycleAgain
    <3>. HIDE DEF f
    <3>. QED
      BY <3>1, <3>2, <3>3, <3>4, <1>5, <1>6
  <2>2. CASE leaveBody
    <3>. DEFINE f == [top EXCEPT !.kind = "delim", !.saved = fskip]
    <3>1. f \in Frame
      BY FrameExcept DEF TypeOK, Kinds
    <3>2. f.saved = fskip
      BY <1>1 DEF Frame
    <3>3. fskip = INTERRUPTED => Cause
      BY DEF Backed, Throwing, Cause, Aborting
    <3>4. frames' = swap(f) /\ ~coreCatch
      BY <2>2, <1>11 DEF leaveBody
    <3>. HIDE DEF f
    <3>. QED
      BY <3>1, <3>2, <3>3, <3>4, <1>6
  <2>3. CASE check_break
    <3>. DEFINE f == [top EXCEPT !.saved = NOTHING]
    <3>1. f \in Frame /\ f.saved = NOTHING
      BY <1>1, FrameExcept, SkipValues DEF Frame
    <3>2. frames' = swap(f)
      BY <2>3, Zenon DEF check_break
    <3>3. ~coreCatch
      BY <2>3, <1>11 DEF check_break
    <3>. HIDE DEF f
    <3>. QED
      BY <3>1, <3>2, <3>3, <1>6, SkipDistinct
  <2>4. CASE leaveTry
    BY <2>4, <1>5, <1>10, <1>11 DEF leaveTry
  <2>5. CASE caught
    BY <2>5, <1>5, <1>10, <1>11 DEF caught
  <2>6. CASE pop
    BY <2>6, <1>8, <1>11 DEF pop
  <2>7. CASE coreReturn
    BY <2>7, <1>5, <1>9, <1>11 DEF coreReturn
  <2>8. CASE unwindFrame
    <3>1. Len(frames) > 1 /\ frames' = below
      BY <2>8 DEF unwindFrame
    <3>2. Len(frames) # 1
      BY <3>1, <1>1
    <3>3. ~coreCatch
      BY <3>2 DEF coreCatch
    <3>. QED
      BY <3>1, <3>3, <1>8
  <2>9. CASE unwindToCatch
    <3>. DEFINE f == [top EXCEPT !.kind = "catch", !.saved = fskip]
    <3>1. f \in Frame
      BY FrameExcept DEF TypeOK, Kinds
    <3>2. f.kind = "catch"
      BY <1>1 DEF Frame
    <3>3. frames' = swap(f)
      BY <2>9 DEF unwindToCatch
    <3>4. CASE coreCatch
      BY <3>4, <2>9, <3>3 DEF coreCatch, unwindToCatch, goto, set_skip
    <3>. HIDE DEF f
    <3>. QED
      BY <3>1, <3>2, <3>3, <3>4, <1>6
  <2>10. CASE unwindTempSkip
    <3>1. CASE coreCatch
      BY <3>1, <1>9, <2>10 DEF coreCatch, unwindTempSkip, Temp_skip_dtor, goto, set_skip
    <3>. QED
      BY <2>10, <3>1, <1>5, <1>10 DEF unwindTempSkip
  <2>11. CASE coreCatch
    <3>1. CASE frames' = call
      BY <3>1, <1>9
    <3>2. CASE frames' = frames /\ pc' = "done"
      BY <3>2 DEF CopiesBacked, Cause
    <3>. QED
      BY <2>11, <3>1, <3>2 DEF coreCatch, goto
  <2>. QED
    BY <1>15, <1>5, <1>11, <2>1, <2>2, <2>3, <2>4, <2>5, <2>6, <2>7, <2>8, <2>9, <2>10, <2>11
       DEF interpreter, blockingReturn, set_skip_read, set_skip_write, check_skip,
           throw_interrupted, leaveMethod, leaveCode, leaveValue, check_skip_break, delimiter,
           get_processed, skipInParam, leaveCatchOrFinally, afterFinally
<1>16. CASE UNCHANGED vars
  BY <1>16 DEF vars, CopiesBacked, Cause, Aborting
<1>. QED
  BY <1>12, <1>13, <1>14, <1>15, <1>16 DEF Next, finished

\* Every step but the handler, the throw and core's own leaves the interruption
\* as it is: asked for or not, being thrown or not.
Quiet ==
    /\ finterrupted' = finterrupted /\ raised' = raised /\ thrown' = thrown
    /\ (pc' = "throw2" \/ ret' = "throw2") => (pc = "throw2" \/ ret = "throw2")
Unmoved ==
    /\ finterrupted' = finterrupted /\ phase' = phase
    /\ Aborting' <=> Aborting
    /\ pc' \in {"done", "killed"} <=> pc \in {"done", "killed"}

LEMMA QuietStep ==
    ASSUME SetterIdle, Unwinding, [Next]_vars,
           ~handler, ~throw_interrupted, ~coreReturn, ~coreCatch
    PROVE  Quiet /\ Unmoved
<1>. USE DEF Quiet, Unmoved, Aborting, SetterIdle, Unwinding, goto, set_skip, shared, timer
<1>1. CASE userCode
  <2>1. ASSUME NEW s \in {BREAK, CONTINUE}, breakOrContinue(s) PROVE Quiet /\ Unmoved
    BY <2>1 DEF breakOrContinue
  <2>2. ASSUME NEW k \in Kinds, enter(k) PROVE Quiet /\ Unmoved
    BY <2>2 DEF enter, setter
  <2>3. ASSUME NEW on \in BOOLEAN, set(on) PROVE Quiet /\ Unmoved
    BY <2>3 DEF set
  <2>4. CASE opcode \/ return \/ throwError \/ blockingCall
    BY <2>4 DEF opcode, return, throwError, blockingCall
  <2>. QED
    BY <1>1, <2>1, <2>2, <2>3, <2>4 DEF userCode
<1>2. ASSUME NEW d \in 1 .. MaxDepth, codeEnds(d) PROVE Quiet /\ Unmoved
  BY <1>2 DEF codeEnds, endOfCode
<1>3. CASE interpreter
  <2>1. CASE blockingReturn
    BY <2>1 DEF blockingReturn
  <2>2. CASE set_skip_read
    BY <2>2 DEF set_skip_read
  <2>3. CASE set_skip_write
    BY <2>3 DEF set_skip_write
  <2>4. CASE check_skip
    BY <2>4 DEF check_skip
  <2>5. CASE leaveMethod
    BY <2>5 DEF leaveMethod
  <2>6. CASE leaveCode
    BY <2>6 DEF leaveCode
  <2>7. CASE check_skip_break
    BY <2>7 DEF check_skip_break
  <2>8. CASE cycleAgain
    BY <2>8 DEF cycleAgain
  <2>9. CASE leaveBody
    BY <2>9 DEF leaveBody
  <2>10. CASE delimiter
    BY <2>10 DEF delimiter
  <2>11. CASE check_break
    BY <2>11 DEF check_break
  <2>12. CASE get_processed
    BY <2>12 DEF get_processed
  <2>13. CASE skipInParam
    BY <2>13 DEF skipInParam
  <2>14. CASE leaveTry
    BY <2>14 DEF leaveTry, runFinally
  <2>15. CASE leaveCatchOrFinally
    BY <2>15 DEF leaveCatchOrFinally, Temp_skip_dtor
  <2>16. CASE caught
    BY <2>16 DEF caught, runFinally
  <2>17. CASE afterFinally
    BY <2>17 DEF afterFinally
  <2>18. CASE pop
    BY <2>18 DEF pop
  <2>19. CASE unwindFrame
    BY <2>19 DEF unwindFrame
  <2>20. CASE unwindToCatch
    BY <2>20 DEF unwindToCatch
  <2>21. CASE unwindTempSkip
    BY <2>21 DEF unwindTempSkip, runFinally, Temp_skip_dtor
  <2>25. CASE leaveValue
    BY <2>25 DEF leaveValue
  <2>. QED
    BY <1>3, <2>1, <2>2, <2>3, <2>4, <2>5, <2>6, <2>7, <2>8, <2>9, <2>10, <2>11, <2>12, <2>13, <2>14, <2>15, <2>16, <2>17, <2>18, <2>19, <2>20, <2>21, <2>25 DEF interpreter
<1>4. CASE UNCHANGED vars
  BY <1>4 DEF vars
<1>. QED
  BY <1>1, <1>2, <1>3, <1>4 DEF Next, finished

\* core starts and ends a request without touching the interruption.
LEMMA CoreStep == coreReturn \/ coreCatch => Quiet
  BY DEF coreReturn, coreCatch, Quiet, goto, shared, timer

\* The balance of thrown, being thrown, asked for, and raised interruptions.
LEMMA Balance ==
    ASSUME NEW t \in Int, NEW w \in Int, NEW f \in Int, NEW r \in Int, t + w + f <= r
    PROVE  /\ \A w2 \in Int : w2 <= w => t + w2 + f <= r
           /\ f = 1 /\ w = 0 => t + 1 + 0 <= r
           /\ w = 1 => (t + 1) + 0 + f <= r
  OBVIOUS

\* Every step keeps the balance of interruptions asked for and thrown.
LEMMA CountStep ==
    IInv /\ [Next]_vars => ThrownOncePerInterrupt'
<1>. SUFFICES ASSUME IInv, [Next]_vars PROVE ThrownOncePerInterrupt'
  OBVIOUS
<1>. DEFINE W == IF pc = "throw2" \/ ret = "throw2" THEN 1 ELSE 0
            F == IF finterrupted THEN 1 ELSE 0
<1>1. /\ W \in {0, 1} /\ F \in {0, 1} /\ W' \in {0, 1} /\ F' \in {0, 1}
      /\ thrown \in Nat /\ raised \in Nat
  BY DEF IInv, TypeOK
<1>2. thrown + W + F <= raised
  BY DEF IInv, ThrownOncePerInterrupt
<1>3. ASSUME thrown' + W' + F' <= raised' PROVE ThrownOncePerInterrupt'
  BY <1>3 DEF ThrownOncePerInterrupt
<1>4. CASE handler
  <2>1. /\ W' = 1 => W = 1
        /\ thrown' = thrown
        /\ (raised' = raised /\ F' = F) \/ raised' = raised + 1
    BY <1>4 DEF handler, shared, setter
  <2>. HIDE DEF W, F
  <2>2. W' <= W
    BY <1>1, <2>1
  <2>. QED
    BY <1>1, <1>2, <1>3, <2>1, <2>2
<1>5. CASE throw_interrupted
  <2>1. SetterIdle /\ Backed
    BY DEF IInv
  <2>2. \/ F = 1 /\ F' = 0 /\ W = 0 /\ W' = 1 /\ thrown' = thrown
        \/ F' = F /\ W = 1 /\ W' = 0 /\ thrown' = thrown + 1
    BY <1>5, <2>1 DEF throw_interrupted, SetterIdle, Backed, set_skip, goto
  <2>3. raised' = raised
    BY <1>5 DEF throw_interrupted, timer
  <2>. HIDE DEF W, F
  <2>4. thrown' + W' + F' <= raised
    BY <1>1, <1>2, <2>2, Balance
  <2>. QED
    BY <1>3, <2>3, <2>4
<1>6. CASE ~handler /\ ~throw_interrupted
  <2>1. Quiet
    BY <1>6, QuietStep, CoreStep DEF IInv
  <2>2. /\ W' = 1 => W = 1
        /\ thrown' = thrown /\ raised' = raised /\ F' = F
    BY <2>1 DEF Quiet
  <2>. HIDE DEF W, F
  <2>3. W' <= W
    BY <1>1, <2>2
  <2>4. thrown + W' + F <= raised
    <3>1. thrown \in Int /\ W \in Int /\ W' \in Int /\ F \in Int /\ raised \in Int
      BY <1>1
    <3>2. \A w2 \in Int : w2 <= W => thrown + w2 + F <= raised
      BY <3>1, <1>2, Balance
    <3>. QED
      BY <3>1, <3>2, <2>3
  <2>5. thrown' + W' + F' <= raised'
    BY <2>2, <2>4
  <2>. QED
    BY <1>3, <2>5
<1>. QED
  BY <1>4, <1>5, <1>6
-----------------------------------------------------------------------------
(***************************************************************************)
(* The theorems.                                                           *)
(***************************************************************************)
\* The initial state satisfies the invariant.
LEMMA Initially == Init => IInv
<1>. SUFFICES ASSUME Init PROVE IInv
  OBVIOUS
<1>1. call \in Seq(Frame) /\ Len(call) = 1 /\ call[1].kind = "method"
  BY CallFrames
<1>2. DOMAIN frames = {1} /\ frames[1].kind = "method"
  <2>1. call \in Seq(Frame) /\ Len(call) = 1
    BY <1>1
  <2>2. DOMAIN call = 1 .. 1
    BY <2>1
  <2>. QED
    BY <1>1, <2>2 DEF Init
<1>3. TypeOK
  <2>1. frames \in Seq(Frame) /\ Len(frames) \in 1 .. MaxDepth /\ freturn \in 1 .. MaxDepth
    BY <1>1, DepthAssumption DEF Init
  <2>2. arg \in Skip /\ fskip \in Skip
    BY SkipValues DEF Init
  <2>3. raised \in Nat /\ thrown \in Nat /\ arms \in 0 .. MaxArms
    BY ArmsAssumption DEF Init
  <2>. QED
    BY <2>1, <2>2, <2>3 DEF Init, TypeOK, Pcs
<1>4. SetterIdle /\ Unwinding /\ Backed
  BY SkipDistinct DEF Init, SetterIdle, Unwinding, Backed
<1>5. CopiesBacked
  BY <1>2 DEF CopiesBacked
<1>6. ThrownOncePerInterrupt
  BY DEF Init, ThrownOncePerInterrupt
<1>. QED
  BY <1>3, <1>4, <1>5, <1>6 DEF IInv

\* Every step keeps it.
LEMMA Inductive == IInv /\ [Next]_vars => IInv'
<1>. SUFFICES ASSUME IInv, [Next]_vars PROVE IInv'
  OBVIOUS
<1>1. TypeOK'
  BY FramesStep, SetterStep, FieldsStep DEF IInv, TypeOK, FramesOK, SetterOK, FieldsOK, HistoryOK
<1>. QED
  BY <1>1, ControlStep, BackedStep, CopiesStep, CountStep DEF IInv

\* The invariant holds of the specification, for all depths and timers.
LEMMA Invariance == Spec => []IInv
  BY Initially, Inductive, PTL DEF Spec

\* Request's fields, the C++ frames and the timer have their types always.
THEOREM TypeCorrect == Spec => []TypeOK
<1>1. IInv => TypeOK
  BY DEF IInv
<1>. QED
  BY <1>1, Invariance, PTL

\* Request::interrupt() leads to at most one Interrupted exception, whatever the
\* program saves, restores and clears fskip, and wherever the signal comes.
THEOREM ThrownOnce == Spec => []ThrownOncePerInterrupt
<1>1. IInv => ThrownOncePerInterrupt
  BY DEF IInv
<1>. QED
  BY <1>1, Invariance, PTL

\* A step of the interpreter is a step of the interruption, or none.
LEMMA RefinementStep == IInv /\ [Next]_vars => [I!Next]_(I!ivars)
<1>. SUFFICES ASSUME SetterIdle, Unwinding, Backed, [Next]_vars PROVE [I!Next]_(I!ivars)
  BY DEF IInv
<1>. USE DEF I!Next, I!ivars, Aborting
<1>1. CASE handler
  BY <1>1 DEF handler, shared, setter, I!Ask, I!End
<1>2. CASE throw_interrupted
  BY <1>2 DEF throw_interrupted, SetterIdle, Unwinding, Backed, goto, set_skip, I!Take
<1>3. CASE coreReturn
  BY <1>3 DEF coreReturn, SetterIdle, Unwinding, goto, set_skip, shared, I!End
<1>4. CASE coreCatch
  BY <1>4 DEF coreCatch, SetterIdle, goto, set_skip, shared, I!End, I!Report
<1>5. CASE ~handler /\ ~throw_interrupted /\ ~coreReturn /\ ~coreCatch
  BY <1>5, QuietStep DEF Unmoved
<1>. QED
  BY <1>1, <1>2, <1>3, <1>4, <1>5

\* The interpreter with its skips and races implements Interruption: only an
\* interruption that was asked for is taken, and @unhandled_exception is the only
\* code that runs after it, once.
THEOREM Implements == Spec => ImplementsInterruption
<1>1. Init => I!Init
  BY DEF Init, I!Init, Aborting
<1>. QED
  BY <1>1, RefinementStep, Invariance, PTL DEF Spec, ImplementsInterruption, I!Spec
-----------------------------------------------------------------------------
(***************************************************************************)
(* Skips and their targets: what a pending skip, one that is about to be   *)
(* stored and one that a Temp_skip holds have left of the frames they are  *)
(* for.  A skip that an exception has unwound over (leak) and a ^return    *)
(* that another one has retargeted are out of it, as in the properties.    *)
(***************************************************************************)
Local == {CONTINUE, BREAK}                \* the skips of a cycle
Control == {CONTINUE, BREAK, RETURN}
Cycles == {"cycle", "dcycle", "delim"}
Busy == pc \in {"read", "write"}          \* inside set_skip()
Popping == pc \in {"pop", "unwind", "drop"}

\* The method that freturn means is still on the stack
Live == freturn <= Len(frames) /\ frames[freturn].kind = "method"

\* A pending exception: over a skip it is a leak
ExcHeld ==
    /\ pc \in {"unwind", "drop"} \/ ret = "drop" => exc # "none"
    /\ exc # "none" /\ fskip \in Control => leak

\* Whose frame is on top where an operator goes on after a set_skip()
TopKinds ==
    /\ pc \in {"caught", "recatch"} \/ ret \in {"caught", "recatch"} => top.kind = "catch"
    /\ pc = "after" \/ ret = "after" => top.kind = "finally"
    /\ ret = "pop" => top.kind \in {"method", "value"}
    /\ pc = "again" \/ ret = "again" => top.kind \in Cycles

\* The method frame of code is under it or is its own
MethodsBelow ==
    \A i \in DOMAIN frames : frames[i].mf <= i /\ frames[frames[i].mf].kind = "method"

\* A skip of a cycle that a Temp_skip holds has its cycle under the ^try ...
SavedLocal ==
    ~leak => \A i \in DOMAIN frames :
        frames[i].kind \in {"catch", "finally"} /\ frames[i].saved \in Local
            => \E j \in 1 .. i - 1 : frames[j].kind \in Cycles

\* ... and a return its method
SavedReturn ==
    Tidy => \A i \in DOMAIN frames :
        frames[i].saved = RETURN => freturn < i /\ frames[freturn].kind = "method"

\* What set_skip() is about to store, by who called it
ArgOK ==
    /\ ret \in {"delim", "block"} \/ (ret = "run" /\ Busy) => arg = NOTHING
    /\ ret = "again" => arg \notin Local /\ (~result => arg = NOTHING)
    /\ ret = "pop" /\ top.kind = "method" => arg = NOTHING
    /\ ~leak /\ arg \in Local => InCycle
    /\ Tidy /\ arg = RETURN => Live

\* Where no skip, or none of a cycle, or not the return of this method, is pending
FskipOK ==
    /\ Tidy /\ pc \in {"run", "block", "delim"} => fskip \notin Control
    /\ Tidy /\ pc = "again" /\ ~result => fskip \notin Control
    /\ ~leak /\ pc = "again" => fskip \notin Local
    /\ ~leak /\ pc = "pop" /\ top.kind \in Cycles => fskip \notin Local
    /\ Tidy /\ pc = "pop" /\ top.kind = "method" /\ fskip = RETURN => freturn # Len(frames)

SkipInv ==
    /\ IInv
    /\ ExcHeld /\ TopKinds /\ MethodsBelow /\ SavedLocal /\ SavedReturn
    /\ ArgOK /\ FskipOK /\ SkipHasTarget
-----------------------------------------------------------------------------
\* Leaks and retargeted returns are not forgotten, and a step that retargets a
\* return while a Temp_skip holds one is noticed.
LEMMA Noticed ==
    ASSUME TypeOK, [Next]_vars
    PROVE  /\ leak => leak'
           /\ Tidy' => Tidy
           /\ Tidy' /\ freturn' # freturn => \A i \in DOMAIN frames : frames[i].saved # RETURN
           /\ exc' # "none" /\ fskip' \in Control => leak' \/ UNCHANGED vars
<1>1. CASE history
  <2>1. (leak => leak') /\ (retargeted => retargeted')
    BY <1>1, Zenon DEF history
  <2>2. freturn' # freturn /\ (\E i \in DOMAIN frames : frames[i].saved = RETURN) => retargeted'
    BY <1>1, Zenon DEF history
  <2>3. \A s \in Control : s \notin {NOTHING, INTERRUPTED}
    BY DEF Control, NOTHING, CONTINUE, BREAK, RETURN, INTERRUPTED
  <2>4. exc' # "none" /\ fskip' \in Control => leak'
    BY <1>1, <2>3, Zenon DEF history
  <2>. QED
    BY <2>1, <2>2, <2>4, Zenon DEF Tidy
<1>2. CASE UNCHANGED vars
  BY <1>2 DEF vars, Tidy
<1>. QED
  BY <1>1, <1>2 DEF Next, finished, userCode, codeEnds, interpreter

\* The frame that takes the place of the top one: of a cycle as before, the code of
\* a method as before, with a skip saved that is pending or was saved.
Reshaped(f) ==
    /\ f \in Frame /\ f.mf = top.mf
    /\ f.kind \in Cycles <=> top.kind \in Cycles
    /\ f.kind = "method" <=> top.kind = "method"
    /\ f.saved = RETURN => top.saved = RETURN \/ (fskip = RETURN /\ f.kind # "method")
    /\ f.kind \in {"catch", "finally"} =>
           f.saved = fskip \/ (f.kind = top.kind /\ f.saved = top.saved)
    /\ f.kind \in {"catch", "finally"} => f.kind \notin Cycles

\* What a step does to the stack.
LEMMA StackCases ==
    ASSUME TypeOK, TopKinds, [Next]_vars
    PROVE  \/ frames' = frames
           \/ /\ freturn' = freturn
              /\ \/ \E f \in Frame : Reshaped(f) /\ frames' = swap(f)
                 \/ \E k \in Kinds, m \in 1 .. MaxDepth, fin \in BOOLEAN :
                        /\ frames' = push(newFrame(k, m, fin)) /\ Len(frames) < MaxDepth
                        /\ \/ m = Len(frames) + 1 /\ k = "method"
                           \/ k # "method" /\ \E i \in DOMAIN frames : m = frames[i].mf
                 \/ frames' = below /\ Len(frames) > 1 /\ Popping
                 \/ frames' = call /\ phase' # phase
<1>1. top \in Frame
  BY TopBelow
<1>2. fskip \in Skip /\ NOTHING \in Skip
  BY SkipValues DEF TypeOK
<1>3. top.kind \in Kinds /\ top.saved \in Skip
  BY <1>1 DEF Frame
<1>. DEFINE Goal == \/ frames' = frames
                    \/ /\ freturn' = freturn
                       /\ \/ \E f \in Frame : Reshaped(f) /\ frames' = swap(f)
                          \/ \E k \in Kinds, m \in 1 .. MaxDepth, fin \in BOOLEAN :
                                 /\ frames' = push(newFrame(k, m, fin)) /\ Len(frames) < MaxDepth
                                 /\ \/ m = Len(frames) + 1 /\ k = "method"
                                    \/ k # "method" /\ \E i \in DOMAIN frames : m = frames[i].mf
                          \/ frames' = below /\ Len(frames) > 1 /\ Popping
                          \/ frames' = call /\ phase' # phase
<1>4. ASSUME NEW e \in {"none", "error"}, runFinally(e), top.kind \in {"try", "catch"},
             freturn' = freturn
      PROVE  Goal
  <2>. DEFINE f == [top EXCEPT !.kind = "finally", !.saved = fskip, !.exc = e]
  <2>1. f \in Frame
    BY <1>2, FrameExcept DEF Kinds
  <2>2. f.mf = top.mf /\ f.kind = "finally" /\ f.saved = fskip
    BY <1>1 DEF Frame
  <2>3. Reshaped(f)
    <3>. HIDE DEF f
    <3>. QED BY <2>1, <2>2, <1>4 DEF Reshaped, Cycles
  <2>4. frames' = swap(f)
    BY <1>4 DEF runFinally
  <2>. QED
    BY <2>1, <2>3, <2>4, <1>4
<1>5. CASE userCode
  <2>1. ASSUME NEW k \in Kinds, enter(k) PROVE Goal
    <3>1. Len(frames) < MaxDepth /\ freturn' = freturn
      BY <2>1 DEF enter
    <3>2. Len(frames) \in DOMAIN frames /\ top = frames[Len(frames)] /\ Len(frames) + 1 \in 1 .. MaxDepth
      BY <3>1, DepthAssumption DEF TypeOK, top
    <3>3. \A i \in DOMAIN frames : frames[i].mf \in 1 .. MaxDepth
      <4>1. \A i \in DOMAIN frames : frames[i] \in Frame
        BY DEF TypeOK
      <4>. QED
        BY <4>1 DEF Frame
    <3>4. \E m \in 1 .. MaxDepth, fin \in BOOLEAN :
              /\ frames' = push(newFrame(k, m, fin))
              /\ \/ m = Len(frames) + 1 /\ k = "method"
                 \/ k # "method" /\ \E i \in DOMAIN frames : m = frames[i].mf
      BY <2>1, <3>2, <3>3 DEF enter
    <3>. QED
      BY <3>1, <3>4
  <2>. QED
    BY <1>5, <2>1 DEF userCode, opcode, breakOrContinue, return, throwError, blockingCall, set
<1>6. CASE interpreter
  <2>1. CASE cycleAgain
    <3>. DEFINE f == [top EXCEPT !.kind = IF @ = "delim" THEN "dcycle" ELSE @]
    <3>1. f \in Frame
      BY <1>1 DEF Frame, Kinds
    <3>2. f.mf = top.mf /\ f.saved = top.saved
          /\ f.kind = IF top.kind = "delim" THEN "dcycle" ELSE top.kind
      BY <1>1 DEF Frame
    <3>3. Reshaped(f)
      <4>. HIDE DEF f
      <4>. QED BY <3>1, <3>2 DEF Reshaped, Cycles
    <3>4. frames' = frames \/ (frames' = swap(f) /\ freturn' = freturn)
      BY <2>1 DEF cycleAgain
    <3>. QED
      BY <3>1, <3>3, <3>4
  <2>2. CASE leaveBody
    <3>. DEFINE f == [top EXCEPT !.kind = "delim", !.saved = fskip]
    <3>1. f \in Frame
      BY <1>2, FrameExcept DEF Kinds
    <3>2. f.mf = top.mf /\ f.saved = fskip /\ f.kind = "delim" /\ top.kind = "dcycle"
      BY <1>1, <2>2 DEF Frame, leaveBody
    <3>3. Reshaped(f)
      <4>. HIDE DEF f
      <4>. QED BY <3>1, <3>2 DEF Reshaped, Cycles
    <3>4. frames' = swap(f) /\ freturn' = freturn
      BY <2>2 DEF leaveBody
    <3>. QED
      BY <3>1, <3>3, <3>4
  <2>3. CASE check_break
    <3>. DEFINE f == [top EXCEPT !.saved = NOTHING]
    <3>1. f \in Frame
      BY <1>2, FrameExcept
    <3>2. f.mf = top.mf /\ f.saved = NOTHING /\ f.kind = top.kind /\ top.kind = "delim"
      BY <1>1, <2>3 DEF Frame, check_break
    <3>3. Reshaped(f)
      <4>. HIDE DEF f
      <4>. QED BY <3>1, <3>2 DEF Reshaped, Cycles, NOTHING, RETURN
    <3>4. frames' = swap(f) /\ freturn' = freturn
      BY <2>3, Zenon DEF check_break
    <3>. QED
      BY <3>1, <3>3, <3>4
  <2>4. CASE leaveTry
    BY <2>4, <1>4 DEF leaveTry
  <2>5. CASE caught
    BY <2>5, <1>4 DEF caught, TopKinds
  <2>6. CASE unwindToCatch
    <3>. DEFINE f == [top EXCEPT !.kind = "catch", !.saved = fskip]
    <3>1. f \in Frame
      BY <1>2, FrameExcept DEF Kinds
    <3>2. f.mf = top.mf /\ f.saved = fskip /\ f.kind = "catch" /\ top.kind = "try"
      BY <1>1, <2>6 DEF Frame, unwindToCatch
    <3>3. Reshaped(f)
      <4>. HIDE DEF f
      <4>. QED BY <3>1, <3>2 DEF Reshaped, Cycles
    <3>4. frames' = swap(f) /\ freturn' = freturn
      BY <2>6 DEF unwindToCatch
    <3>. QED
      BY <3>1, <3>3, <3>4
  <2>7. CASE unwindTempSkip
    BY <2>7, <1>4 DEF unwindTempSkip, TopKinds
  <2>8. CASE pop \/ unwindFrame
    BY <2>8 DEF pop, unwindFrame, Popping
  <2>9. CASE coreReturn \/ coreCatch
    BY <2>9 DEF coreReturn, coreCatch
  <2>. QED
    BY <1>6, <2>1, <2>2, <2>3, <2>4, <2>5, <2>6, <2>7, <2>8, <2>9
       DEF interpreter, blockingReturn, set_skip_read, set_skip_write, check_skip,
           throw_interrupted, leaveMethod, leaveCode, leaveValue, check_skip_break, delimiter,
           get_processed, skipInParam, leaveCatchOrFinally, afterFinally
<1>7. CASE handler \/ (\E d \in 1 .. MaxDepth : codeEnds(d)) \/ UNCHANGED vars
  BY <1>7 DEF handler, codeEnds, endOfCode, vars
<1>. QED
  BY <1>5, <1>6, <1>7 DEF Next, finished

\* The stack of a step, frame by frame.
FramesAt ==
    /\ Len(frames) \in Nat /\ Len(frames) >= 1
    /\ DOMAIN frames = 1 .. Len(frames) /\ top = frames[Len(frames)]
    /\ \A i \in 1 .. Len(frames) : frames[i] \in Frame
    /\ InCycle <=> \E i \in 1 .. Len(frames) : frames[i].kind \in Cycles
LEMMA StackAt == TypeOK => FramesAt
<1>. SUFFICES ASSUME TypeOK PROVE FramesAt
  OBVIOUS
<1>1. frames \in Seq(Frame) /\ Len(frames) \in Nat /\ Len(frames) >= 1
  BY DepthAssumption DEF TypeOK
<1>2. DOMAIN frames = 1 .. Len(frames) /\ \A i \in 1 .. Len(frames) : frames[i] \in Frame
  BY <1>1
<1>3. top = frames[Len(frames)]
  BY DEF top
<1>4. InCycle <=> \E i \in 1 .. Len(frames) : frames[i].kind \in Cycles
  BY <1>2 DEF InCycle, Cycles
<1>. QED
  BY <1>1, <1>2, <1>3, <1>4 DEF FramesAt

\* A swap, a push and a pop, as StackAt sees the next stack.
LEMMA SwapAt ==
    ASSUME TypeOK, TypeOK', NEW f \in Frame, frames' = swap(f)
    PROVE  /\ Len(frames') = Len(frames)
           /\ \A i \in 1 .. Len(frames) : i # Len(frames) => frames'[i] = frames[i]
           /\ frames'[Len(frames)] = f
<1>1. /\ Len(swap(f)) = Len(frames)
      /\ \A i \in 1 .. Len(frames) : swap(f)[i] = IF i = Len(frames) THEN f ELSE frames[i]
  BY SwapFrame
<1>2. Len(frames) \in 1 .. Len(frames)
  BY StackAt DEF FramesAt
<1>. QED
  BY <1>1, <1>2

LEMMA PushAt ==
    ASSUME TypeOK, TypeOK', NEW f \in Frame, Len(frames) < MaxDepth, frames' = push(f)
    PROVE  /\ Len(frames') = Len(frames) + 1
           /\ \A i \in 1 .. Len(frames) : frames'[i] = frames[i]
           /\ frames'[Len(frames) + 1] = f
<1>1. Len(frames) \in Nat
  BY StackAt DEF FramesAt
<1>2. /\ Len(push(f)) = Len(frames) + 1
      /\ \A i \in 1 .. Len(push(f)) : push(f)[i] = IF i = Len(frames) + 1 THEN f ELSE frames[i]
  BY PushFrame
<1>3. Len(frames) + 1 \in 1 .. Len(push(f))
  BY <1>1, <1>2
<1>4. \A i \in 1 .. Len(frames) : i \in 1 .. Len(push(f)) /\ i # Len(frames) + 1
  BY <1>1, <1>2
<1>. QED
  BY <1>2, <1>3, <1>4

LEMMA BelowAt ==
    ASSUME TypeOK, frames' = below
    PROVE  /\ Len(frames') = Len(frames) - 1
           /\ \A i \in 1 .. Len(frames) - 1 : frames'[i] = frames[i]
  BY TopBelow

\* Every step but core's keeps a cycle that is not popped, and the method freturn means.
LEMMA TargetsKept ==
    ASSUME TypeOK, TypeOK', TopKinds, MethodsBelow, [Next]_vars, phase' = phase
    PROVE  /\ InCycle /\ (Popping => top.kind \notin Cycles) => InCycle'
           /\ freturn' = freturn /\ Live /\ (Popping => freturn # Len(frames)) => Live'
<1>. DEFINE n == Len(frames)
            m == Len(frames')
            fr == freturn
<1>1. /\ n \in Nat /\ n >= 1 /\ top = frames[n] /\ fr \in 1 .. MaxDepth
      /\ InCycle <=> \E i \in 1 .. n : frames[i].kind \in Cycles
  BY StackAt DEF TypeOK, FramesAt
<1>2. InCycle' <=> \E i \in 1 .. m : frames'[i].kind \in Cycles
  <2>1. FramesAt'
    BY StackAt, PTL
  <2>. QED
    BY <2>1 DEF FramesAt
<1>3. CASE frames' = frames
  BY <1>3, <1>1, <1>2 DEF Live
<1>4. ASSUME NEW f \in Frame, Reshaped(f), frames' = swap(f), freturn' = freturn
      PROVE  (InCycle => InCycle') /\ (Live => Live')
  <2>1. m = n /\ (\A i \in 1 .. n : i # n => frames'[i] = frames[i]) /\ frames'[n] = f
    BY <1>4, SwapAt
  <2>2. (f.kind \in Cycles <=> top.kind \in Cycles) /\ (f.kind = "method" <=> top.kind = "method")
    BY <1>4 DEF Reshaped
  <2>. HIDE DEF n, m
  <2>3. ASSUME NEW i \in 1 .. n PROVE /\ frames'[i].kind \in Cycles <=> frames[i].kind \in Cycles
                                      /\ frames'[i].kind = "method" <=> frames[i].kind = "method"
    BY <1>1, <2>1, <2>2
  <2>4. InCycle => InCycle'
    BY <1>1, <1>2, <2>1, <2>3
  <2>5. Live => Live'
    <3>1. Live => freturn \in 1 .. n
      BY <1>1 DEF Live, n
    <3>2. m = n
      BY <2>1
    <3>. QED
      BY <1>4, <2>3, <3>1, <3>2 DEF Live, n, m
  <2>. QED
    BY <2>4, <2>5
<1>5. ASSUME NEW f \in Frame, n < MaxDepth, frames' = push(f), freturn' = freturn
      PROVE  (InCycle => InCycle') /\ (Live => Live')
  <2>1. m = n + 1 /\ (\A i \in 1 .. n : frames'[i] = frames[i])
    BY <1>5, PushAt
  <2>. HIDE DEF n, m
  <2>2. InCycle => InCycle'
    BY <1>1, <1>2, <2>1
  <2>3. Live => Live'
    <3>1. Live => freturn \in 1 .. n /\ frames[freturn].kind = "method"
      BY <1>1 DEF Live, n
    <3>2. Live' <=> freturn' <= m /\ frames'[freturn'].kind = "method"
      BY DEF Live, m
    <3>. QED
      BY <1>1, <1>5, <2>1, <3>1, <3>2
  <2>. QED
    BY <2>2, <2>3
<1>6. ASSUME frames' = below, freturn' = freturn
      PROVE  (InCycle /\ top.kind \notin Cycles => InCycle') /\ (Live /\ freturn # n => Live')
  <2>1. m = n - 1 /\ (\A i \in 1 .. n - 1 : frames'[i] = frames[i])
    BY <1>6, BelowAt
  <2>. HIDE DEF n, m
  <2>2. InCycle /\ top.kind \notin Cycles => InCycle'
    <3>1. \A i \in 1 .. n : i # n => i \in 1 .. n - 1
      BY <1>1
    <3>. QED
      BY <1>1, <1>2, <2>1, <3>1
  <2>3. Live /\ freturn # n => Live'
    <3>1. Live /\ freturn # n => freturn \in 1 .. n - 1 /\ frames[freturn].kind = "method"
      BY <1>1 DEF Live, n
    <3>2. Live' <=> freturn' <= m /\ frames'[freturn'].kind = "method"
      BY DEF Live, m
    <3>. QED
      BY <1>1, <1>6, <2>1, <3>1, <3>2
  <2>. QED
    BY <2>2, <2>3
<1>7. \A k \in Kinds, w \in 1 .. MaxDepth, fin \in BOOLEAN : newFrame(k, w, fin) \in Frame
  BY SkipValues DEF newFrame, Frame
<1>. QED
  BY <1>3, <1>4, <1>5, <1>6, <1>7, StackCases

\* The method under every code stays: only the top frame goes or changes.
LEMMA MethodsStep ==
    ASSUME TypeOK, TypeOK', TopKinds, MethodsBelow, [Next]_vars
    PROVE  MethodsBelow'
<1>. DEFINE n == Len(frames)
            m == Len(frames')
<1>1. /\ n \in Nat /\ n >= 1 /\ top = frames[n]
      /\ \A i \in 1 .. n : frames[i] \in Frame
  BY StackAt DEF FramesAt
<1>2. \A i \in 1 .. n : frames[i].mf \in 1 .. i /\ frames[frames[i].mf].kind = "method"
  <2>1. \A i \in 1 .. n : frames[i].mf \in 1 .. MaxDepth
    BY <1>1 DEF Frame
  <2>. QED
    BY <1>1, <2>1, StackAt, DepthAssumption DEF MethodsBelow, FramesAt
<1>3. DOMAIN frames' = 1 .. m /\ m \in Nat
  <2>1. FramesAt'
    BY StackAt, PTL
  <2>. QED
    BY <2>1 DEF FramesAt
<1>4. ASSUME \A i \in 1 .. m : frames'[i].mf \in 1 .. i /\ frames'[frames'[i].mf].kind = "method"
      PROVE  MethodsBelow'
  BY <1>3, <1>4 DEF MethodsBelow
<1>5. CASE frames' = frames
  BY <1>5, <1>2, <1>4
<1>6. ASSUME NEW f \in Frame, Reshaped(f), frames' = swap(f) PROVE MethodsBelow'
  <2>1. m = n /\ (\A i \in 1 .. n : i # n => frames'[i] = frames[i]) /\ frames'[n] = f
    BY <1>6, SwapAt
  <2>2. f.mf = frames[n].mf /\ (f.kind = "method" <=> frames[n].kind = "method")
    BY <1>1, <1>6 DEF Reshaped
  <2>. HIDE DEF n, m
  <2>3. ASSUME NEW i \in 1 .. n
        PROVE  frames'[i].mf = frames[i].mf /\ (frames'[i].kind = "method" <=> frames[i].kind = "method")
    BY <1>1, <2>1, <2>2
  <2>4. ASSUME NEW i \in 1 .. n PROVE frames[i].mf \in 1 .. n
    BY <1>1, <1>2
  <2>. QED
    BY <1>2, <1>4, <2>1, <2>3, <2>4
<1>7. ASSUME NEW k \in Kinds, NEW w \in 1 .. MaxDepth, NEW fin \in BOOLEAN,
             frames' = push(newFrame(k, w, fin)), n < MaxDepth,
             \/ w = n + 1 /\ k = "method"
             \/ k # "method" /\ \E i \in DOMAIN frames : w = frames[i].mf
      PROVE  MethodsBelow'
  <2>. DEFINE f == newFrame(k, w, fin)
  <2>1. f \in Frame /\ f.kind = k /\ f.mf = w
    BY SkipValues DEF newFrame, Frame
  <2>2. m = n + 1 /\ (\A i \in 1 .. n : frames'[i] = frames[i]) /\ frames'[n + 1] = f
    BY <1>7, <2>1, PushAt
  <2>3. \/ w = n + 1 /\ k = "method"
        \/ w \in 1 .. n /\ frames[w].kind = "method"
    <3>1. DOMAIN frames = 1 .. n
      BY StackAt DEF FramesAt
    <3>2. \A i \in 1 .. n : frames[i].mf \in 1 .. n
      BY <1>1, <1>2
    <3>. QED
      BY <1>7, <1>2, <3>1, <3>2
  <2>. HIDE DEF n, m, f
  <2>4. ASSUME NEW i \in 1 .. n + 1 PROVE frames'[i].mf \in 1 .. i /\ frames'[frames'[i].mf].kind = "method"
    <3>1. CASE i = n + 1
      BY <1>1, <2>1, <2>2, <2>3, <3>1
    <3>2. CASE i \in 1 .. n
      <4>1. frames[i].mf \in 1 .. n /\ frames[i].mf \in 1 .. i /\ frames[frames[i].mf].kind = "method"
        BY <1>1, <1>2, <3>2
      <4>. QED
        BY <2>2, <3>2, <4>1
    <3>. QED
      BY <1>1, <3>1, <3>2
  <2>. QED
    BY <1>4, <2>2, <2>4
<1>8. ASSUME frames' = below PROVE MethodsBelow'
  <2>1. m = n - 1 /\ (\A i \in 1 .. n - 1 : frames'[i] = frames[i])
    BY <1>8, BelowAt
  <2>. HIDE DEF n, m
  <2>2. ASSUME NEW i \in 1 .. n - 1 PROVE frames[i].mf \in 1 .. n - 1 /\ i \in 1 .. n
    BY <1>1, <1>2
  <2>. QED
    BY <1>2, <1>4, <2>1, <2>2
<1>9. ASSUME frames' = call PROVE MethodsBelow'
  BY <1>9, CallFrames, <1>4 DEF call, newFrame
<1>. QED
  BY <1>5, <1>6, <1>7, <1>8, <1>9, StackCases

\* What Temp_skip holds keeps its target: that is under the frame that holds it.
LEMMA SavedStep ==
    ASSUME TypeOK, TypeOK', TopKinds, MethodsBelow, SavedLocal, SavedReturn, SkipHasTarget,
           [Next]_vars
    PROVE  SavedLocal' /\ SavedReturn'
<1>. DEFINE n == Len(frames)
            m == Len(frames')
<1>1. /\ n \in Nat /\ n >= 1 /\ top = frames[n]
      /\ DOMAIN frames = 1 .. n
      /\ \A i \in 1 .. n : frames[i] \in Frame
      /\ InCycle <=> \E i \in 1 .. n : frames[i].kind \in Cycles
  BY StackAt DEF FramesAt
<1>2. DOMAIN frames' = 1 .. m /\ m \in Nat
  <2>1. FramesAt'
    BY StackAt, PTL
  <2>. QED
    BY <2>1 DEF FramesAt
<1>3. (~leak' => ~leak) /\ (Tidy' => Tidy)
  BY Noticed
<1>. DEFINE LocalAt(i) == frames[i].kind \in {"catch", "finally"} /\ frames[i].saved \in Local
                              => \E j \in 1 .. i - 1 : frames[j].kind \in Cycles
            ReturnAt(i) == frames[i].saved = RETURN => freturn < i /\ frames[freturn].kind = "method"
            LocalAt2(i) == frames'[i].kind \in {"catch", "finally"} /\ frames'[i].saved \in Local
                              => \E j \in 1 .. i - 1 : frames'[j].kind \in Cycles
            ReturnAt2(i) == frames'[i].saved = RETURN => freturn' < i /\ frames'[freturn'].kind = "method"
<1>4. /\ ~leak => \A i \in 1 .. n : LocalAt(i)
      /\ Tidy => \A i \in 1 .. n : ReturnAt(i)
  BY <1>1 DEF SavedLocal, SavedReturn
<1>5. ASSUME ~leak => \A i \in 1 .. m : LocalAt2(i), Tidy' => \A i \in 1 .. m : ReturnAt2(i)
      PROVE  SavedLocal' /\ SavedReturn'
  <2>1. SavedLocal'
    BY <1>2, <1>3, <1>5 DEF SavedLocal
  <2>2. SavedReturn'
    BY <1>2, <1>3, <1>5 DEF SavedReturn
  <2>. QED
    BY <2>1, <2>2
<1>6. CASE frames' = frames
  <2>1. Tidy' => \A i \in 1 .. m : ReturnAt2(i)
    <3>1. CASE freturn' = freturn
      BY <1>6, <1>3, <1>4, <3>1
    <3>2. CASE freturn' # freturn
      BY <1>6, <1>1, <3>2, Noticed
    <3>. QED
      BY <3>1, <3>2
  <2>. QED
    BY <1>4, <1>5, <1>6, <2>1
<1>7. freturn \in 1 .. MaxDepth
  BY DEF TypeOK
<1>8. ASSUME NEW f \in Frame, Reshaped(f), frames' = swap(f), freturn' = freturn
      PROVE  SavedLocal' /\ SavedReturn'
  <2>1. m = n /\ (\A i \in 1 .. n : i # n => frames'[i] = frames[i]) /\ frames'[n] = f
    BY <1>8, SwapAt
  <2>. HIDE DEF n, m
  <2>2. ASSUME ~leak, NEW i \in 1 .. n PROVE LocalAt2(i)
    <3>1. CASE i # n
      <4>1. \A j \in 1 .. i - 1 : frames'[j] = frames[j]
        BY <1>1, <2>1
      <4>. QED
        BY <1>4, <2>1, <2>2, <3>1, <4>1
    <3>2. CASE i = n
      <4>. SUFFICES ASSUME f.kind \in {"catch", "finally"}, f.saved \in Local
                    PROVE  \E j \in 1 .. n - 1 : frames'[j].kind \in Cycles
        BY <2>1, <3>2
      <4>1. \/ f.saved = fskip /\ top.kind \notin Cycles
            \/ f.kind = top.kind /\ f.saved = top.saved
        BY <1>8 DEF Reshaped
      <4>2. \E j \in 1 .. n - 1 : frames[j].kind \in Cycles
        <5>1. CASE f.saved = fskip /\ top.kind \notin Cycles
          <6>1. InCycle
            BY <2>2, <5>1 DEF SkipHasTarget, Local
          <6>2. \A j \in 1 .. n : j # n => j \in 1 .. n - 1
            BY <1>1
          <6>. QED
            BY <1>1, <5>1, <6>1, <6>2
        <5>2. CASE f.kind = top.kind /\ f.saved = top.saved
          BY <1>1, <1>4, <2>2, <3>2, <5>2
        <5>. QED
          BY <4>1, <5>1, <5>2
      <4>3. \A j \in 1 .. n - 1 : frames'[j] = frames[j]
        BY <1>1, <2>1
      <4>. QED
        BY <4>2, <4>3
    <3>. QED
      BY <3>1, <3>2
  <2>3. ASSUME Tidy', NEW i \in 1 .. n PROVE ReturnAt2(i)
    <3>. SUFFICES ASSUME frames'[i].saved = RETURN
                  PROVE  freturn < i /\ frames[freturn].kind = "method"
      <4>1. \A j \in 1 .. MaxDepth : j < i => j \in 1 .. n /\ j # n
        BY <1>1
      <4>. QED
        BY <1>7, <1>8, <2>1, <4>1
    <3>0. Tidy
      BY <1>3, <2>3
    <3>1. CASE frames[i].saved = RETURN
      BY <1>4, <3>0, <3>1
    <3>2. CASE frames[i].saved # RETURN
      <4>1. i = n /\ f.saved = RETURN /\ top.saved # RETURN
        BY <1>1, <2>1, <3>2
      <4>2. fskip = RETURN /\ top.kind # "method"
        BY <1>8, <4>1 DEF Reshaped
      <4>3. freturn <= n /\ frames[freturn].kind = "method"
        BY <3>0, <4>2 DEF SkipHasTarget, TargetLive, n
      <4>4. freturn # n
        BY <1>1, <4>2, <4>3
      <4>. QED
        BY <1>1, <1>7, <4>1, <4>3, <4>4, DepthAssumption
    <3>. QED
      BY <3>1, <3>2
  <2>. QED
    BY <1>5, <2>1, <2>2, <2>3
<1>9. ASSUME NEW f \in Frame, f.saved = NOTHING, n < MaxDepth, frames' = push(f), freturn' = freturn
      PROVE  SavedLocal' /\ SavedReturn'
  <2>1. m = n + 1 /\ (\A i \in 1 .. n : frames'[i] = frames[i]) /\ frames'[n + 1] = f
    BY <1>9, PushAt
  <2>2. f.saved # RETURN /\ f.saved \notin Local
    BY <1>9 DEF NOTHING, RETURN, Local, CONTINUE, BREAK
  <2>. HIDE DEF n, m
  <2>3. ASSUME ~leak, NEW i \in 1 .. n + 1 PROVE LocalAt2(i)
    <3>1. CASE i \in 1 .. n
      <4>1. \A j \in 1 .. i - 1 : frames'[j] = frames[j]
        BY <1>1, <2>1
      <4>. QED
        BY <1>4, <2>1, <2>3, <3>1, <4>1
    <3>2. CASE i = n + 1
      BY <2>1, <2>2, <3>2
    <3>. QED
      BY <1>1, <3>1, <3>2
  <2>4. ASSUME Tidy', NEW i \in 1 .. n + 1 PROVE ReturnAt2(i)
    <3>1. CASE i \in 1 .. n
      <4>1. \A j \in 1 .. MaxDepth : j < i => j \in 1 .. n
        BY <1>1, <3>1
      <4>. QED
        BY <1>3, <1>4, <1>7, <1>9, <2>1, <2>4, <3>1, <4>1
    <3>2. CASE i = n + 1
      BY <2>1, <2>2, <3>2
    <3>. QED
      BY <1>1, <3>1, <3>2
  <2>. QED
    BY <1>5, <2>1, <2>3, <2>4
<1>10. ASSUME frames' = below, freturn' = freturn PROVE SavedLocal' /\ SavedReturn'
  <2>1. m = n - 1 /\ (\A i \in 1 .. n - 1 : frames'[i] = frames[i])
    BY <1>10, BelowAt
  <2>. HIDE DEF n, m
  <2>2. ASSUME ~leak, NEW i \in 1 .. n - 1 PROVE LocalAt2(i)
    <3>1. \A j \in 1 .. i - 1 : frames'[j] = frames[j]
      BY <1>1, <2>1
    <3>2. i \in 1 .. n
      BY <1>1
    <3>. QED
      BY <1>4, <2>1, <2>2, <3>1, <3>2
  <2>3. ASSUME Tidy', NEW i \in 1 .. n - 1 PROVE ReturnAt2(i)
    <3>1. \A j \in 1 .. MaxDepth : j < i => j \in 1 .. n - 1
      BY <1>1
    <3>2. i \in 1 .. n
      BY <1>1
    <3>. QED
      BY <1>3, <1>4, <1>7, <1>10, <2>1, <2>3, <3>1, <3>2
  <2>. QED
    BY <1>5, <2>1, <2>2, <2>3
<1>11. ASSUME frames' = call PROVE SavedLocal' /\ SavedReturn'
  <2>1. m = 1 /\ frames'[1].saved = NOTHING
    BY <1>11, CallFrames DEF call, newFrame
  <2>2. NOTHING # RETURN /\ NOTHING \notin Local
    BY DEF NOTHING, RETURN, Local, CONTINUE, BREAK
  <2>. HIDE DEF m
  <2>. QED
    BY <1>5, <2>1, <2>2
<1>12. \A k \in Kinds, w \in 1 .. MaxDepth, fin \in BOOLEAN :
           newFrame(k, w, fin) \in Frame /\ newFrame(k, w, fin).saved = NOTHING
  BY SkipValues DEF newFrame, Frame
<1>. QED
  BY <1>6, <1>8, <1>9, <1>10, <1>11, <1>12, StackCases

\* An exception that meets a pending skip has leaked it, and an operator goes on
\* with its own frame.
LEMMA ExcStep ==
    ASSUME TypeOK, SetterIdle, ExcHeld, TopKinds, [Next]_vars
    PROVE  ExcHeld' /\ TopKinds'
<1>. DEFINE Special == {"unwind", "drop", "caught", "recatch", "after", "again", "pop"}
            Goal == /\ pc' \in {"unwind", "drop"} \/ ret' = "drop" => exc' # "none"
                    /\ TopKinds'
<1>1. SUFFICES Goal
  <2>1. exc' # "none" /\ fskip' \in Control => leak'
    <3>1. CASE UNCHANGED vars
      BY <3>1 DEF vars, ExcHeld
    <3>. QED
      BY <3>1, Noticed
  <2>. QED
    BY <2>1 DEF ExcHeld
<1>2. frames' = frames => top' = top
  BY DEF top
<1>3. ASSUME pc' \notin Special, ret' \notin Special PROVE Goal
  BY <1>3 DEF TopKinds
<1>. USE DEF goto, set_skip, ExcHeld, TopKinds
<1>4. CASE handler
  BY <1>4, <1>2 DEF handler, setter
<1>5. CASE userCode
  <2>1. ASSUME NEW k \in Kinds, enter(k) PROVE Goal
    <3>1. pc' = "run" /\ ret' = "run"
      BY <2>1 DEF enter, setter, SetterIdle
    <3>. QED
      BY <3>1, <1>3
  <2>2. CASE opcode \/ return \/ blockingCall \/ (\E on \in BOOLEAN : set(on))
    <3>1. pc' \in {"check", "read", "block"} /\ ret' \in {"run", "check"}
      BY <2>2 DEF opcode, return, blockingCall, set
    <3>. QED
      BY <3>1, <1>3
  <2>3. CASE throwError \/ (\E s \in {BREAK, CONTINUE} : breakOrContinue(s))
    <3>1. \/ pc' = "read" /\ ret' = "check"
          \/ pc' = "unwind" /\ ret' = "run" /\ exc' = "error"
      BY <2>3 DEF throwError, breakOrContinue
    <3>. QED
      BY <3>1
  <2>. QED
    BY <1>5, <2>1, <2>2, <2>3 DEF userCode
<1>6. ASSUME NEW d \in 1 .. MaxDepth, codeEnds(d) PROVE Goal
  BY <1>6, <1>3 DEF codeEnds, endOfCode
<1>7. CASE interpreter
  <2>1. CASE set_skip_read
    BY <2>1, <1>2 DEF set_skip_read
  <2>2. CASE set_skip_write
    <3>1. pc' = ret /\ ret' = "run" /\ frames' = frames /\ exc' = exc
      BY <2>2, Zenon DEF set_skip_write
    <3>2. ret # "unwind"
      BY DEF SetterIdle
    <3>. QED
      BY <3>1, <3>2, <1>2
  <2>3. CASE throw_interrupted
    BY <2>3, <1>2 DEF throw_interrupted
  <2>4. CASE leaveMethod \/ leaveCode \/ leaveValue
    BY <2>4, <1>2 DEF leaveMethod, leaveCode, leaveValue
  <2>5. CASE check_skip_break
    BY <2>5, <1>2 DEF check_skip_break, Cycles
  <2>6. CASE cycleAgain
    <3>1. pc' \in {"run", "pop"} /\ ret' = "run"
      BY <2>6 DEF cycleAgain
    <3>. QED
      BY <3>1
  <2>7. CASE check_break
    <3>. DEFINE f == [top EXCEPT !.saved = NOTHING]
    <3>1. pc' = "read" /\ ret' = "again" /\ frames' = swap(f) /\ top.kind = "delim"
      BY <2>7, Zenon DEF check_break
    <3>2. f \in Frame /\ f.kind = "delim"
      BY <3>1, TopBelow, FrameExcept, SkipValues DEF Frame
    <3>3. top' = f
      <4>1. Len(swap(f)) = Len(frames) /\ swap(f)[Len(frames)] = f
        BY <3>2, SwapFrame, StackAt DEF FramesAt
      <4>. QED
        BY <3>1, <4>1 DEF top
    <3>. QED
      BY <3>1, <3>2, <3>3 DEF Cycles
  <2>8. CASE get_processed \/ skipInParam
    BY <2>8, <1>2 DEF get_processed, skipInParam
  <2>9. CASE leaveTry
    BY <2>9, <1>2 DEF leaveTry, runFinally
  <2>10. CASE leaveCatchOrFinally
    BY <2>10, <1>2 DEF leaveCatchOrFinally, Temp_skip_dtor
  <2>11. CASE caught \/ afterFinally
    BY <2>11, <1>2 DEF caught, afterFinally, runFinally
  <2>12. CASE unwindFrame \/ unwindToCatch
    BY <2>12 DEF unwindFrame, unwindToCatch
  <2>13. CASE unwindTempSkip
    BY <2>13, <1>2 DEF unwindTempSkip, Temp_skip_dtor, runFinally
  <2>14. CASE coreReturn \/ coreCatch \/ pop
    BY <2>14 DEF coreReturn, coreCatch, pop
  <2>15. CASE blockingReturn \/ check_skip \/ leaveBody \/ delimiter
    BY <2>15, <1>3 DEF blockingReturn, check_skip, leaveBody, delimiter
  <2>. QED
    BY <1>7, <2>1, <2>2, <2>3, <2>4, <2>5, <2>6, <2>7, <2>8, <2>9, <2>10, <2>11, <2>12, <2>13,
       <2>14, <2>15 DEF interpreter
<1>8. CASE UNCHANGED vars
  BY <1>8 DEF vars, top
<1>. QED
  BY <1>4, <1>5, <1>6, <1>7, <1>8 DEF Next, finished

\* Skips, stored and about to be stored, keep their targets.
LEMMA TargetStep ==
    ASSUME SkipInv, TypeOK', [Next]_vars
    PROVE  ArgOK' /\ FskipOK' /\ SkipHasTarget'
<1>. USE DEF SkipInv, IInv
<1>. DEFINE n == Len(frames)
            Goal == ArgOK' /\ FskipOK' /\ SkipHasTarget'
<1>1. (~leak' => ~leak) /\ (Tidy' => Tidy)
  BY Noticed
<1>2. /\ n \in Nat /\ n >= 1 /\ top = frames[n] /\ freturn \in 1 .. MaxDepth
      /\ \A i \in 1 .. n : frames[i] \in Frame
      /\ InCycle <=> \E i \in 1 .. n : frames[i].kind \in Cycles
      /\ fskip \in Skip /\ top.saved \in Skip
  <2>1. top \in Frame
    BY TopBelow
  <2>. QED
    BY <2>1, StackAt DEF TypeOK, FramesAt, Frame
<1>3. phase' = phase => /\ InCycle /\ (Popping => top.kind \notin Cycles) => InCycle'
                        /\ freturn' = freturn /\ Live /\ (Popping => freturn # n) => Live'
  BY TargetsKept
<1>4. ASSUME frames' = frames
      PROVE  /\ top' = top /\ (InCycle' <=> InCycle)
             /\ freturn' = freturn => (Live' <=> Live)
  BY <1>4 DEF top, InCycle, Live
<1>5. top.mf <= n /\ frames[top.mf].kind = "method"
  <2>1. n \in DOMAIN frames
    BY StackAt DEF FramesAt
  <2>. QED
    BY <1>2, <2>1 DEF MethodsBelow
<1>6. /\ fskip \in Local /\ ~leak => InCycle
      /\ Tidy /\ fskip = RETURN => Live
  BY DEF SkipHasTarget, TargetLive, Live, Local
<1>7. top.kind \in {"catch", "finally"} =>
          /\ ~leak /\ top.saved \in Local => InCycle
          /\ Tidy /\ top.saved = RETURN => Live /\ freturn # n
  <2>1. n \in DOMAIN frames /\ n \in 1 .. n
    BY StackAt DEF FramesAt
  <2>2. ~leak /\ top.kind \in {"catch", "finally"} /\ top.saved \in Local => InCycle
    BY <1>2, <2>1 DEF SavedLocal
  <2>3. Tidy /\ top.saved = RETURN => freturn < n /\ frames[freturn].kind = "method"
    BY <1>2, <2>1 DEF SavedReturn
  <2>. QED
    BY <1>2, <2>2, <2>3 DEF Live
<1>. USE DEF Local, Control, NOTHING, CONTINUE, BREAK, RETURN, INTERRUPTED
\* The parts of the goal, by what the action does to each word
<1>8. ASSUME fskip' = fskip, freturn' = freturn, phase' = phase, ~Popping \/ frames' = frames
      PROVE  SkipHasTarget'
  <2>1. /\ fskip' \in Local /\ ~leak' => InCycle'
        /\ Tidy' /\ fskip' = RETURN => Live'
    BY <1>8, <1>1, <1>3, <1>4, <1>6
  <2>. QED
    BY <2>1 DEF SkipHasTarget, TargetLive, Live
<1>9. ASSUME NEW p, goto(p), p \notin {"read", "write"} PROVE ArgOK'
  BY <1>9 DEF goto, ArgOK, Busy
<1>10. ASSUME NEW p, set_skip(NOTHING, p) PROVE ArgOK'
  BY <1>10 DEF set_skip, ArgOK, Busy
<1>11. ASSUME pc' \notin {"run", "block", "delim", "again", "pop"} PROVE FskipOK'
  BY <1>11 DEF FskipOK
<1>12. \A p : goto(p) => pc' = p
  BY DEF goto
<1>13. \A a, p : set_skip(a, p) => pc' = "read" /\ arg' = a /\ ret' = p
  BY DEF set_skip
<1>. DEFINE Calm == fskip' = fskip /\ freturn' = freturn /\ phase' = phase
            Elsewhere == {"check", "leave", "throw", "throw2", "unwind", "drop", "done"}
<1>14. ASSUME NEW p \in Elsewhere, goto(p), Calm, ~Popping \/ frames' = frames PROVE Goal
  BY <1>8, <1>9, <1>11, <1>12, <1>14
<1>15. ASSUME NEW p, set_skip(NOTHING, p), Calm, ~Popping \/ frames' = frames PROVE Goal
  BY <1>8, <1>10, <1>11, <1>13, <1>15
<1>16. SUFFICES Goal
  OBVIOUS
<1>. HIDE DEF Goal
<1>17. CASE handler
  <2>1. /\ frames' = frames /\ arg' = arg /\ ret' = ret /\ result' = result
        /\ freturn' = freturn /\ phase' = phase
        /\ fskip' = fskip \/ fskip' = INTERRUPTED
        /\ pc' \in {"killed", "check", pc}
    BY <1>17 DEF handler, setter, shared
  <2>2. ArgOK'
    BY <2>1, <1>1, <1>4 DEF ArgOK, Busy
  <2>3. FskipOK'
    BY <2>1, <1>1, <1>4 DEF FskipOK
  <2>4. SkipHasTarget'
    <3>1. CASE fskip' = fskip
      BY <2>1, <3>1, <1>8
    <3>2. CASE fskip' = INTERRUPTED
      BY <3>2 DEF SkipHasTarget, TargetLive
    <3>. QED
      BY <2>1, <3>1, <3>2
  <2>. QED
    BY <2>2, <2>3, <2>4 DEF Goal
<1>18. CASE userCode
  <2>1. pc = "run" /\ ~Popping
    BY <1>18 DEF userCode, opcode, breakOrContinue, return, throwError, enter, blockingCall, set,
                 Popping
  <2>2. CASE opcode
    BY <2>1, <2>2, <1>14 DEF opcode, shared
  <2>3. ASSUME NEW s \in {BREAK, CONTINUE}, breakOrContinue(s) PROVE Goal
    <3>1. CASE InCycle
      <4>1. set_skip(s, "check") /\ Calm /\ frames' = frames
        BY <2>3, <3>1 DEF breakOrContinue, shared
      <4>2. ArgOK'
        BY <4>1, <3>1, <1>4, <1>13, <2>3 DEF ArgOK, Busy
      <4>. QED
        BY <4>1, <4>2, <1>8, <1>11, <1>13 DEF Goal
    <3>2. CASE ~InCycle
      BY <2>1, <2>3, <3>2, <1>14 DEF breakOrContinue, shared
    <3>. QED
      BY <3>1, <3>2
  <2>4. CASE return
    <3>1. /\ set_skip(RETURN, "check") /\ frames' = frames /\ fskip' = fskip
          /\ freturn' = top.mf
      BY <2>4 DEF return, shared
    <3>2. Live'
      BY <3>1, <1>5 DEF Live
    <3>3. ArgOK'
      BY <3>1, <3>2, <1>13 DEF ArgOK, Busy
    <3>4. SkipHasTarget'
      BY <3>1, <3>2, <1>1, <1>4, <1>6 DEF SkipHasTarget, TargetLive, Live
    <3>. QED
      BY <3>1, <3>3, <3>4, <1>11, <1>13 DEF Goal
  <2>5. CASE throwError
    BY <2>1, <2>5, <1>14 DEF throwError, shared
  <2>6. ASSUME NEW k \in Kinds, enter(k) PROVE Goal
    <3>1. pc' = pc /\ arg' = arg /\ ret' = ret /\ Calm
      BY <2>6 DEF enter, shared, setter
    <3>2. arg = NOTHING /\ ret = "run"
      BY <2>1 DEF SetterIdle
    <3>3. ArgOK'
      BY <3>1, <3>2, <2>1 DEF ArgOK, Busy
    <3>4. FskipOK'
      BY <3>1, <2>1, <1>1 DEF FskipOK
    <3>. QED
      BY <3>1, <3>3, <3>4, <2>1, <1>8 DEF Goal
  <2>7. CASE blockingCall
    <3>1. goto("block") /\ Calm /\ frames' = frames
      BY <2>7 DEF blockingCall, shared
    <3>2. FskipOK'
      BY <3>1, <2>1, <1>1, <1>12 DEF FskipOK
    <3>. QED
      BY <3>1, <3>2, <1>8, <1>9 DEF Goal
  <2>8. ASSUME NEW on \in BOOLEAN, set(on) PROVE Goal
    BY <2>1, <2>8, <1>14 DEF set, shared
  <2>. QED
    BY <1>18, <2>2, <2>3, <2>4, <2>5, <2>6, <2>7, <2>8 DEF userCode
<1>19. ASSUME NEW d \in 1 .. MaxDepth, codeEnds(d) PROVE Goal
  BY <1>19, <1>14 DEF codeEnds, endOfCode, shared
<1>20. CASE interpreter
  <2>1. CASE blockingReturn
    BY <2>1, <1>14 DEF blockingReturn, shared
  <2>2. CASE set_skip_read
    <3>1. /\ pc = "read" /\ pc' = "write" /\ arg' = arg /\ ret' = ret /\ result' = result
          /\ frames' = frames /\ Calm
      BY <2>2 DEF set_skip_read, shared
    <3>2. ArgOK'
      BY <3>1, <1>1, <1>4 DEF ArgOK, Busy
    <3>. QED
      BY <3>1, <3>2, <1>8, <1>11 DEF Goal
  <2>3. CASE set_skip_write
    <3>1. /\ pc = "write" /\ goto(ret) /\ frames' = frames /\ freturn' = freturn
          /\ result' = result /\ fskip' \in {INTERRUPTED, arg}
      BY <2>3, Zenon DEF set_skip_write
    <3>2. ArgOK'
      <4>1. ret \notin {"read", "write"}
        BY DEF SetterIdle
      <4>. QED
        BY <3>1, <4>1, <1>9
    <3>3. FskipOK'
      BY <3>1, <1>1, <1>4, <1>12 DEF FskipOK, ArgOK, Busy, TopKinds, Cycles
    <3>4. SkipHasTarget'
      <4>1. /\ fskip' \in Local /\ ~leak' => InCycle'
            /\ Tidy' /\ fskip' = RETURN => Live'
        BY <3>1, <1>1, <1>4 DEF ArgOK
      <4>. QED
        BY <4>1 DEF SkipHasTarget, TargetLive, Live
    <3>. QED
      BY <3>2, <3>3, <3>4 DEF Goal
  <2>4. CASE check_skip
    <3>1. /\ Calm /\ frames' = frames
          /\ \/ fskip = NOTHING /\ goto("run")
             \/ goto("throw") \/ goto("leave")
      BY <2>4, <1>2 DEF check_skip, shared, Skip
    <3>2. CASE fskip = NOTHING /\ goto("run")
      BY <3>1, <3>2, <1>8, <1>9, <1>12 DEF Goal, FskipOK
    <3>. QED
      BY <3>1, <3>2, <1>14
  <2>5. CASE throw_interrupted
    BY <2>5, <1>14, <1>15 DEF throw_interrupted, shared
  <2>6. CASE leaveMethod
    <3>1. /\ Calm /\ frames' = frames /\ top.kind = "method"
          /\ \/ set_skip(NOTHING, "pop")
             \/ goto("pop") /\ ~(fskip = RETURN /\ freturn = n)
      BY <2>6 DEF leaveMethod, shared
    <3>2. ASSUME goto("pop"), ~(fskip = RETURN /\ freturn = n) PROVE FskipOK'
      BY <3>1, <3>2, <1>4, <1>12 DEF FskipOK, Cycles
    <3>. QED
      BY <3>1, <3>2, <1>8, <1>9, <1>15 DEF Goal
  <2>7. CASE leaveCode
    <3>1. Calm /\ frames' = frames /\ top.kind = "code" /\ goto("pop")
      BY <2>7 DEF leaveCode, shared
    <3>2. FskipOK'
      BY <3>1, <1>4, <1>12 DEF FskipOK, Cycles
    <3>. QED
      BY <3>1, <3>2, <1>8, <1>9 DEF Goal
  <2>8. CASE leaveValue
    <3>1. /\ set_skip(RETURN, "pop") /\ frames' = frames /\ fskip' = fskip
          /\ freturn' = top.mf /\ top.kind = "value"
      BY <2>8 DEF leaveValue, shared
    <3>2. Live'
      BY <3>1, <1>5 DEF Live
    <3>3. ArgOK'
      BY <3>1, <3>2, <1>4, <1>13 DEF ArgOK, Busy
    <3>4. SkipHasTarget'
      BY <3>1, <3>2, <1>1, <1>4, <1>6 DEF SkipHasTarget, TargetLive, Live
    <3>. QED
      BY <3>1, <3>3, <3>4, <1>11, <1>13 DEF Goal
  <2>9. CASE check_skip_break
    <3>1. /\ Calm /\ frames' = frames /\ top.kind = "cycle"
          /\ \/ set_skip(NOTHING, "again")
             \/ goto("again") /\ fskip \in {RETURN, INTERRUPTED} /\ result'
      <4>1. /\ Calm /\ frames' = frames /\ top.kind = "cycle"
            /\ \/ set_skip(NOTHING, "again")
               \/ goto("again") /\ ~(fskip <= BREAK)
        BY <2>9 DEF check_skip_break, shared
      <4>2. fskip >= BREAK => result'
        BY <2>9, Zenon DEF check_skip_break
      <4>3. ~(fskip <= BREAK) => fskip \in {RETURN, INTERRUPTED} /\ fskip >= BREAK
        BY <1>2 DEF Skip
      <4>. QED
        BY <4>1, <4>2, <4>3, Zenon
    <3>2. ASSUME goto("again"), fskip \in {RETURN, INTERRUPTED}, result' PROVE FskipOK'
      BY <3>1, <3>2, <1>12 DEF FskipOK
    <3>. QED
      BY <3>1, <3>2, <1>8, <1>9, <1>15 DEF Goal
  <2>10. CASE cycleAgain
    <3>1. /\ Calm /\ pc = "again" /\ ~Popping
          /\ \/ ~result /\ goto("run")
             \/ goto("pop") /\ frames' = frames
      BY <2>10 DEF cycleAgain, shared, Popping
    <3>2. CASE ~result /\ goto("run")
      <4>1. FskipOK'
        BY <3>1, <3>2, <1>1, <1>12 DEF FskipOK
      <4>. QED
        BY <3>1, <3>2, <4>1, <1>8, <1>9 DEF Goal
    <3>3. CASE goto("pop") /\ frames' = frames
      <4>1. top.kind # "method"
        BY <3>1 DEF TopKinds, Cycles
      <4>2. FskipOK'
        BY <3>1, <3>3, <4>1, <1>1, <1>4, <1>12 DEF FskipOK
      <4>. QED
        BY <3>1, <3>3, <4>2, <1>8, <1>9 DEF Goal
    <3>. QED
      BY <3>1, <3>2, <3>3
  <2>11. CASE leaveBody
    BY <2>11, <1>15 DEF leaveBody, shared, Popping
  <2>12. CASE delimiter
    <3>1. /\ pc = "delim" /\ Calm /\ frames' = frames
          /\ goto("run") \/ goto("leave")
      BY <2>12 DEF delimiter, shared
    <3>2. FskipOK'
      BY <3>1, <1>1, <1>12 DEF FskipOK
    <3>. QED
      BY <3>1, <3>2, <1>8, <1>9 DEF Goal
  <2>13. CASE check_break
    <3>. DEFINE held == IF fskip # NOTHING THEN fskip ELSE top.saved
    <3>1. /\ pc = "leave" /\ top.kind = "delim" /\ Calm
          /\ set_skip(IF held <= BREAK THEN NOTHING ELSE held, "again")
          /\ result' = (held >= BREAK)
      BY <2>13, Zenon DEF check_break, shared
    <3>2. held \in Skip
      BY <1>2
    <3>3. held = RETURN /\ Tidy => Live
      <4>1. Tidy /\ top.saved = RETURN => Live
        <5>1. n \in DOMAIN frames
          BY StackAt DEF FramesAt
        <5>. QED
          BY <1>2, <5>1 DEF SavedReturn, Live
      <4>. QED
        BY <4>1, <1>6
    <3>. HIDE DEF held
    <3>4. ~Popping
      BY <3>1 DEF Popping
    <3>5. /\ arg' \in {NOTHING, RETURN, INTERRUPTED}
          /\ ~result' => arg' = NOTHING
          /\ arg' = RETURN => held = RETURN
      <4>1. arg' = IF held <= BREAK THEN NOTHING ELSE held
        BY <3>1, <1>13
      <4>2. held >= BREAK => result'
        BY <3>1, Zenon
      <4>3. ~(held >= BREAK) => arg' = NOTHING
        BY <3>2, <4>1 DEF Skip
      <4>4. arg' \in {NOTHING, RETURN, INTERRUPTED} /\ (arg' = RETURN => held = RETURN)
        BY <3>2, <4>1 DEF Skip
      <4>. QED
        BY <4>2, <4>3, <4>4, Zenon
    <3>6. ArgOK'
      <4>1. Tidy' /\ arg' = RETURN => Live'
        BY <3>1, <3>3, <3>4, <3>5, <1>1, <1>3
      <4>. QED
        BY <3>1, <3>5, <4>1, <1>13 DEF ArgOK, Busy
    <3>. QED
      BY <3>1, <3>4, <3>6, <1>8, <1>11, <1>13 DEF Goal
  <2>14. CASE get_processed
    <3>1. /\ Calm /\ frames' = frames /\ top.kind = "param"
          /\ goto("pop") \/ goto("throw") \/ set_skip(NOTHING, "badparam")
      BY <2>14 DEF get_processed, shared
    <3>2. ASSUME goto("pop") PROVE FskipOK'
      BY <3>1, <3>2, <1>4, <1>12 DEF FskipOK, Cycles
    <3>. QED
      BY <3>1, <3>2, <1>8, <1>9, <1>14, <1>15 DEF Goal
  <2>15. CASE skipInParam
    BY <2>15, <1>14 DEF skipInParam, shared
  <2>16. CASE leaveTry
    <3>1. /\ Calm /\ ~Popping /\ top.kind = "try"
          /\ \/ set_skip(NOTHING, "run")
             \/ goto("pop") /\ frames' = frames
      BY <2>16 DEF leaveTry, runFinally, shared, Popping
    <3>2. ASSUME goto("pop"), frames' = frames PROVE FskipOK'
      BY <3>1, <3>2, <1>4, <1>12 DEF FskipOK, Cycles
    <3>. QED
      BY <3>1, <3>2, <1>8, <1>9, <1>15 DEF Goal
  <2>17. CASE leaveCatchOrFinally \/ unwindTempSkip
    <3>1. ASSUME NEW p \in {"caught", "after", "recatch", "drop"}, set_skip(top.saved, p),
                 top.kind \in {"catch", "finally"}, Calm, frames' = frames
          PROVE  Goal
      <4>1. ArgOK'
        BY <3>1, <1>1, <1>4, <1>7, <1>13 DEF ArgOK, Busy
      <4>. QED
        BY <3>1, <4>1, <1>8, <1>11, <1>13 DEF Goal
    <3>2. ASSUME NEW p \in {"caught", "after", "recatch", "drop"}, goto(p), Calm, frames' = frames
          PROVE  Goal
      BY <3>2, <1>8, <1>9, <1>11, <1>12 DEF Goal
    <3>3. CASE unwindTempSkip /\ pc = "recatch"
      BY <3>3, <1>15 DEF unwindTempSkip, runFinally, shared, Popping
    <3>4. CASE leaveCatchOrFinally \/ (unwindTempSkip /\ pc = "unwind")
      <4>1. /\ top.kind \in {"catch", "finally"} /\ Calm /\ frames' = frames
            /\ \E p \in {"caught", "after", "recatch", "drop"} :
                   goto(p) \/ set_skip(top.saved, p)
        BY <3>4 DEF leaveCatchOrFinally, unwindTempSkip, Temp_skip_dtor, shared
      <4>. QED
        BY <4>1, <3>1, <3>2
    <3>. QED
      BY <2>17, <3>3, <3>4 DEF unwindTempSkip
  <2>18. CASE caught
    <3>1. /\ Calm /\ ~Popping /\ top.kind = "catch"
          /\ \/ set_skip(NOTHING, "run")
             \/ goto("pop") /\ frames' = frames
             \/ goto("drop")
      BY <2>18 DEF caught, runFinally, shared, Popping, TopKinds
    <3>2. ASSUME goto("pop"), frames' = frames PROVE FskipOK'
      BY <3>1, <3>2, <1>4, <1>12 DEF FskipOK, Cycles
    <3>. QED
      BY <3>1, <3>2, <1>8, <1>9, <1>14, <1>15 DEF Goal
  <2>19. CASE afterFinally
    <3>1. /\ Calm /\ frames' = frames /\ top.kind = "finally"
          /\ goto("pop") \/ goto("drop")
      BY <2>19 DEF afterFinally, shared, TopKinds
    <3>2. ASSUME goto("pop") PROVE FskipOK'
      BY <3>1, <3>2, <1>4, <1>12 DEF FskipOK, Cycles
    <3>. QED
      BY <3>1, <3>2, <1>8, <1>9, <1>14 DEF Goal
  <2>20. CASE pop
    <3>1. pc = "pop" /\ goto("check") /\ Calm
      BY <2>20 DEF pop, shared
    <3>2. fskip \in Local /\ ~leak => top.kind \notin Cycles
      BY <3>1 DEF FskipOK
    <3>3. Tidy /\ fskip = RETURN => freturn # n
      BY <3>1, <1>2, <1>6 DEF FskipOK, Live
    <3>4. /\ fskip' \in Local /\ ~leak' => InCycle'
          /\ Tidy' /\ fskip' = RETURN => Live'
      BY <3>1, <3>2, <3>3, <1>1, <1>3, <1>6
    <3>5. SkipHasTarget'
      BY <3>4 DEF SkipHasTarget, TargetLive, Live
    <3>. QED
      BY <3>1, <3>5, <1>9, <1>11, <1>12 DEF Goal
  <2>21. CASE coreReturn
    <3>1. pc = "pop" /\ n = 1 /\ fskip' = fskip /\ freturn' = freturn
      BY <2>21 DEF coreReturn, shared
    <3>2. top.kind = "method"
      <4>1. top.mf \in 1 .. MaxDepth
        BY <1>2, <3>1 DEF Frame
      <4>. QED
        BY <1>2, <1>5, <3>1, <4>1, DepthAssumption
    <3>3. ~InCycle
      BY <1>2, <3>1, <3>2 DEF Cycles
    <3>4. Tidy /\ fskip = RETURN => FALSE
      BY <3>1, <3>2, <1>2, <1>6 DEF FskipOK, Live
    <3>5. (fskip' \in Local => leak') /\ (Tidy' => fskip' \notin Control)
      BY <3>1, <3>3, <3>4, <1>1, <1>6 DEF Tidy
    <3>6. goto("run") \/ goto("done")
      BY <2>21 DEF coreReturn
    <3>. QED
      BY <3>5, <3>6, <1>9, <1>12 DEF Goal, FskipOK, SkipHasTarget, TargetLive
  <2>22. CASE unwindFrame \/ coreCatch
    <3>1. /\ pc \in {"unwind", "drop"} /\ fskip' = fskip
          /\ goto("unwind") \/ goto("run") \/ goto("done")
      BY <2>22 DEF unwindFrame, coreCatch, shared
    <3>2. fskip' \in Control => leak /\ leak'
      BY <3>1, <1>1 DEF ExcHeld
    <3>3. Tidy' => ~leak'
      BY DEF Tidy
    <3>. QED
      BY <3>1, <3>2, <3>3, <1>9, <1>12 DEF Goal, FskipOK, SkipHasTarget, TargetLive
  <2>23. CASE unwindToCatch
    <3>1. set_skip(NOTHING, "run") /\ Calm /\ top.kind = "try"
      BY <2>23 DEF unwindToCatch, shared
    <3>2. top.kind \notin Cycles /\ (Live => freturn # n)
      BY <3>1, <1>2 DEF Live, Cycles
    <3>3. SkipHasTarget'
      BY <3>1, <3>2, <1>1, <1>3, <1>6 DEF SkipHasTarget, TargetLive, Live
    <3>. QED
      BY <3>1, <3>3, <1>10, <1>11, <1>13 DEF Goal
  <2>. QED
    BY <1>20, <2>1, <2>2, <2>3, <2>4, <2>5, <2>6, <2>7, <2>8, <2>9, <2>10, <2>11, <2>12, <2>13, <2>14, <2>15, <2>16, <2>17, <2>18, <2>19, <2>20, <2>21, <2>22, <2>23
       DEF interpreter
<1>21. CASE UNCHANGED vars
  BY <1>21 DEF vars, Goal, ArgOK, FskipOK, SkipHasTarget, TargetLive, InCycle, Live, Tidy, Busy, top
<1>. QED
  BY <1>17, <1>18, <1>19, <1>20, <1>21 DEF Next, finished

\* The request starts with nothing pending and @main as its only frame.
LEMMA SkipInitially == Init => SkipInv
<1>. SUFFICES ASSUME Init PROVE SkipInv
  OBVIOUS
<1>1. frames = call /\ frames \in Seq(Frame) /\ Len(frames) = 1
  BY CallFrames DEF Init
<1>2. DOMAIN frames = {1} /\ top = frames[1]
  BY <1>1 DEF top
<1>3. frames[1].kind = "method" /\ frames[1].mf = 1 /\ frames[1].saved = NOTHING
  BY <1>1 DEF call, newFrame
<1>4. MethodsBelow /\ SavedLocal /\ SavedReturn
  BY <1>2, <1>3 DEF MethodsBelow, SavedLocal, SavedReturn, NOTHING, RETURN, Local, CONTINUE, BREAK
<1>5. ExcHeld /\ TopKinds /\ ArgOK /\ FskipOK /\ SkipHasTarget
  BY DEF Init, ExcHeld, TopKinds, ArgOK, FskipOK, SkipHasTarget, TargetLive, Busy,
         Local, Control, NOTHING, CONTINUE, BREAK, RETURN
<1>. QED
  BY <1>4, <1>5, Initially DEF SkipInv

LEMMA SkipInductive == SkipInv /\ [Next]_vars => SkipInv'
<1>. SUFFICES ASSUME SkipInv, [Next]_vars PROVE SkipInv'
  OBVIOUS
<1>1. IInv' /\ TypeOK /\ TypeOK' /\ SetterIdle
  BY Inductive DEF SkipInv, IInv
<1>2. ExcHeld' /\ TopKinds'
  BY <1>1, ExcStep DEF SkipInv
<1>3. MethodsBelow'
  BY <1>1, MethodsStep DEF SkipInv
<1>4. SavedLocal' /\ SavedReturn'
  BY <1>1, SavedStep DEF SkipInv
<1>5. ArgOK' /\ FskipOK' /\ SkipHasTarget'
  BY <1>1, TargetStep
<1>. QED
  BY <1>1, <1>2, <1>3, <1>4, <1>5 DEF SkipInv

LEMMA SkipInvariance == Spec => []SkipInv
  BY SkipInitially, SkipInductive, PTL DEF Spec

\* No opcode runs while a ^break, ^continue or ^return is pending, whatever
\* native operators, Temp_skips and timers are between it and its target
\* (check_skip after every opcode of execute()).
THEOREM NoOpcodeUnderSkip == Spec => []RunsClean
<1>1. SkipInv => RunsClean
  <2>. SUFFICES ASSUME SkipInv, pc = "run", Tidy PROVE fskip \in {NOTHING, INTERRUPTED}
    BY DEF RunsClean
  <2>1. fskip \in Skip /\ fskip \notin Control
    BY DEF SkipInv, IInv, TypeOK, FskipOK
  <2>. QED
    BY <2>1 DEF Skip, Control, NOTHING, CONTINUE, BREAK, RETURN, INTERRUPTED
<1>. QED
  BY <1>1, SkipInvariance, PTL

\* A pending ^break or ^continue has its cycle on the stack and a pending
\* ^return its method: no skip is lost on the way and none outlives its target
\* (check_skip_break, check_break, check_skip_return).
THEOREM SkipsReachTargets == Spec => []SkipHasTarget
<1>1. SkipInv => SkipHasTarget
  BY DEF SkipInv
<1>. QED
  BY <1>1, SkipInvariance, PTL
=============================================================================
