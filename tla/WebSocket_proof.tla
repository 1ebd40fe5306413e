--------------------------- MODULE WebSocket_proof ---------------------------
(***************************************************************************)
(* For any frames, any cuts of them into reads and any limits: what        *)
(* receive() has returned are the messages of the client, each whole; each *)
(* ping has its pong; and the handshake of closing is kept.                *)
(*                                                                         *)
(* Stream says that what waits in the buffer and on the wire is the end of *)
(* what the client has sent, so a frame that is taken is the next of those *)
(* and the pong written for it the next of the pongs.  Closing needs what  *)
(* the flags mean (Flags): close_sent is set before the frame is written,  *)
(* so when it is set the client was told, or the telling failed; and a     *)
(* connection that has asked to close, but is not closed, is in close() or *)
(* has been there.  Delivering says what msg_opcode and msg are: those of  *)
(* a message whose fragments have come but for the last ones, or there is  *)
(* none and a message may begin with the next frame.                       *)
(***************************************************************************)
EXTENDS WebSocket, SequenceTheorems, FiniteSetTheorems, TLAPS

\* After t frames of s come those of b and then those of w
Lies(s, b, w, t) ==
    /\ t \in Nat /\ Len(s) = t + Len(b) + Len(w)
    /\ \A i \in 1 .. Len(b) : b[i] = s[t + i]
    /\ \A i \in 1 .. Len(w) : w[i] = s[t + Len(b) + i]
\* What waits is the end of what was sent
Stream == Lies(sent, rbuf, wire, Taken)

HasClose == \E i \in DOMAIN out : out[i].op = "close"
\* The client got a Close, or nothing can be said to it
Told == HasClose \/ writeFailed \/ peer # "open"

Flags ==
    /\ started \/ (~accepted /\ rbuf = <<>> /\ pc \notin {"receive", "close"})
    /\ pc = "close" => asked /\ close_sent
    /\ pc = "receive" => ~closed /\ result = "none"
    /\ result # "none" => closed
    /\ close_sent => closed \/ asked \/ writeFailed \/ pc = "done"
    /\ closed \/ close_sent => Told
    /\ HasClose => close_sent

NetTypes ==
    /\ wire \in Seq(Frames) /\ rbuf \in Seq(Frames) /\ sent \in Seq(Frames)
    /\ peer \in {"open", "closed", "reset"}
OutTypes == out \in Seq(OutFrame) /\ writeFailed \in BOOLEAN
FlagTypes ==
    /\ accepted \in BOOLEAN /\ closed \in BOOLEAN /\ close_sent \in BOOLEAN
    /\ started \in BOOLEAN /\ eof \in BOOLEAN /\ asked \in BOOLEAN
MessageTypes ==
    /\ msg_opcode \in {"", "text", "binary"}
    /\ msg \in Seq(Byte) /\ Len(msg) <= max_message_size
RequestTypes ==
    /\ handler \in {"main", "closing", "unhandled"}
    /\ pc \in {"program", "receive", "close", "end", "done"}
    /\ result \in Code \cup {"none"} /\ sends \in 0 .. MaxSends
-----------------------------------------------------------------------------
\* One frame more is counted, or not.
LEMMA NthMore ==
    ASSUME NEW frames, NEW op, NEW n \in Nat
    PROVE  /\ Nth(frames, op, n) \in Nat
           /\ Nth(frames, op, n + 1) = Nth(frames, op, n) + (IF frames[n + 1].op = op THEN 1 ELSE 0)
<1>. DEFINE S == {i \in 1 .. n : frames[i].op = op}
            T == {i \in 1 .. n + 1 : frames[i].op = op}
<1>1. IsFiniteSet(1 .. n)
  BY FS_Interval
<1>2. IsFiniteSet(S) /\ Cardinality(S) \in Nat
  BY <1>1, FS_Subset, FS_CardinalityType
<1>3. n + 1 \notin S
  OBVIOUS
<1>4. CASE frames[n + 1].op = op
  <2>1. T = S \cup {n + 1}
    BY <1>4
  <2>2. Cardinality(T) = Cardinality(S) + 1
    BY <2>1, <1>2, <1>3, FS_AddElement
  <2>. QED
    BY <1>2, <1>4, <2>2 DEF Nth
<1>5. CASE frames[n + 1].op # op
  <2>1. T = S
    BY <1>5
  <2>2. Cardinality(T) = Cardinality(S)
    BY <2>1
  <2>3. Cardinality(S) = Cardinality(S) + 0
    BY <1>2
  <2>. QED
    BY <1>2, <1>5, <2>2, <2>3 DEF Nth
<1>. QED
  BY <1>4, <1>5

\* Earlier frames are counted no higher.
LEMMA NthEarlier ==
    ASSUME NEW frames, NEW op, NEW n \in Nat, NEW i \in 1 .. n
    PROVE  Nth(frames, op, i) \in Nat /\ Nth(frames, op, i) <= Nth(frames, op, n)
<1>. DEFINE S == {k \in 1 .. i : frames[k].op = op}
            T == {k \in 1 .. n : frames[k].op = op}
<1>1. IsFiniteSet(1 .. n)
  BY FS_Interval
<1>2. IsFiniteSet(T) /\ Cardinality(T) \in Nat
  BY <1>1, FS_Subset, FS_CardinalityType
<1>3. S \subseteq T
  OBVIOUS
<1>4. IsFiniteSet(S) /\ Cardinality(S) \in Nat /\ Cardinality(S) <= Cardinality(T)
  BY <1>2, <1>3, FS_Subset, FS_CardinalityType
<1>. QED
  BY <1>4 DEF Nth

\* Only the frames till there count.
LEMMA NthSame ==
    ASSUME NEW one, NEW other, NEW op, NEW n \in Nat, \A i \in 1 .. n : one[i] = other[i]
    PROVE  Nth(one, op, n) = Nth(other, op, n)
<1>1. {i \in 1 .. n : one[i].op = op} = {i \in 1 .. n : other[i].op = op}
  OBVIOUS
<1>. QED
  BY <1>1 DEF Nth

\* The client sends more, or what was not taken is lost.
LEMMA PongsKept ==
    ASSUME NEW theirs, NEW more, NEW n \in Nat, NEW ours \in Seq(OutFrame), PongsFor(theirs, n, ours),
           \A i \in 1 .. n : more[i] = theirs[i]
    PROVE  PongsFor(more, n, ours)
<1>1. \A j \in 0 .. n : Nth(more, "ping", j) = Nth(theirs, "ping", j)
  <2>. TAKE j \in 0 .. n
  <2>1. j \in Nat /\ \A i \in 1 .. j : more[i] = theirs[i]
    OBVIOUS
  <2>. QED
    BY <2>1, NthSame
<1>. QED
  BY <1>1 DEF PongsFor

\* The server takes a frame that is no ping.
LEMMA PongsTook ==
    ASSUME NEW theirs, NEW n \in Nat, NEW ours \in Seq(OutFrame), PongsFor(theirs, n, ours),
           theirs[n + 1].op # "ping"
    PROVE  PongsFor(theirs, n + 1, ours)
<1>1. Nth(theirs, "ping", n + 1) = Nth(theirs, "ping", n)
  <2>1. Nth(theirs, "ping", n) \in Nat /\ Nth(theirs, "ping", n + 1) = Nth(theirs, "ping", n) + 0
    BY NthMore
  <2>. QED
    BY <2>1
<1>. QED
  BY <1>1 DEF PongsFor

\* The server writes a frame that is no pong.
LEMMA PongsWrote ==
    ASSUME NEW theirs, NEW n \in Nat, NEW ours \in Seq(OutFrame), PongsFor(theirs, n, ours),
           NEW f \in OutFrame, f.op # "pong"
    PROVE  PongsFor(theirs, n, Append(ours, f))
<1>. DEFINE all == Append(ours, f)
            m == Len(ours)
<1>1. m \in Nat /\ Len(all) = m + 1 /\ all[m + 1] = f /\ \A i \in 1 .. m : all[i] = ours[i]
  BY AppendProperties, LenProperties
<1>. HIDE DEF all, m
<1>2. \A i \in 0 .. m : Nth(all, "pong", i) = Nth(ours, "pong", i)
  <2>. TAKE i \in 0 .. m
  <2>1. i \in Nat /\ \A k \in 1 .. i : k \in 1 .. m
    BY <1>1
  <2>2. \A k \in 1 .. i : all[k] = ours[k]
    BY <1>1, <2>1
  <2>. QED
    BY <2>1, <2>2, NthSame
<1>3. Nth(all, "pong", m + 1) = Nth(all, "pong", m)
  <2>1. Nth(all, "pong", m) \in Nat
        /\ Nth(all, "pong", m + 1) = Nth(all, "pong", m) + (IF all[m + 1].op = "pong" THEN 1 ELSE 0)
    <3>1. m \in Nat
      BY <1>1
    <3>. QED
      BY <3>1, NthMore
  <2>. QED
    BY <1>1, <2>1
<1>4. /\ Nth(ours, "pong", m) = Nth(theirs, "ping", n)
      /\ \A i \in 1 .. m, j \in 1 .. n :
            ours[i].op = "pong" /\ theirs[j].op = "ping" /\ Nth(ours, "pong", i) = Nth(theirs, "ping", j) =>
                ours[i].data = theirs[j].data
  BY DEF PongsFor, m
<1>5. Nth(all, "pong", Len(all)) = Nth(theirs, "ping", n)
  BY <1>1, <1>2, <1>3, <1>4
<1>6. ASSUME NEW i \in 1 .. Len(all), NEW j \in 1 .. n, all[i].op = "pong", theirs[j].op = "ping",
             Nth(all, "pong", i) = Nth(theirs, "ping", j)
      PROVE  all[i].data = theirs[j].data
  <2>1. i \in 1 .. m
    BY <1>1, <1>6
  <2>. QED
    BY <1>1, <1>2, <1>4, <1>6, <2>1
<1>. QED
  BY <1>5, <1>6 DEF PongsFor, all

\* A ping with its pong.
LEMMA PongsBoth ==
    ASSUME NEW theirs, NEW n \in Nat, NEW ours \in Seq(OutFrame), PongsFor(theirs, n, ours),
           NEW f \in OutFrame, f.op = "pong", theirs[n + 1].op = "ping", f.data = theirs[n + 1].data
    PROVE  PongsFor(theirs, n + 1, Append(ours, f))
<1>. DEFINE all == Append(ours, f)
            m == Len(ours)
            c == Nth(theirs, "ping", n)
<1>1. m \in Nat /\ Len(all) = m + 1 /\ all[m + 1] = f /\ \A i \in 1 .. m : all[i] = ours[i]
  OBVIOUS
<1>2. /\ Nth(ours, "pong", m) = c
      /\ \A i \in 1 .. m, j \in 1 .. n :
            ours[i].op = "pong" /\ theirs[j].op = "ping" /\ Nth(ours, "pong", i) = Nth(theirs, "ping", j) =>
                ours[i].data = theirs[j].data
  BY DEF PongsFor
<1>. HIDE DEF all, m
<1>3. \A i \in 0 .. m : Nth(all, "pong", i) = Nth(ours, "pong", i)
  <2>. TAKE i \in 0 .. m
  <2>1. i \in Nat /\ \A k \in 1 .. i : all[k] = ours[k]
    BY <1>1
  <2>. QED
    BY <2>1, NthSame
<1>4. c \in Nat /\ Nth(theirs, "ping", n + 1) = c + 1
  BY NthMore
<1>5. Nth(all, "pong", m + 1) = c + 1
  <2>1. Nth(all, "pong", m) \in Nat
        /\ Nth(all, "pong", m + 1) = Nth(all, "pong", m) + (IF all[m + 1].op = "pong" THEN 1 ELSE 0)
    BY <1>1, NthMore
  <2>2. Nth(all, "pong", m) = c
    BY <1>1, <1>2, <1>3
  <2>. QED
    BY <1>1, <2>1, <2>2
<1>6. \A i \in 1 .. m : Nth(all, "pong", i) \in Nat /\ Nth(all, "pong", i) <= c
  <2>. TAKE i \in 1 .. m
  <2>1. Nth(ours, "pong", i) \in Nat /\ Nth(ours, "pong", i) <= Nth(ours, "pong", m)
    BY <1>1, NthEarlier
  <2>. QED
    BY <1>2, <1>3, <2>1
<1>7. \A j \in 1 .. n : Nth(theirs, "ping", j) \in Nat /\ Nth(theirs, "ping", j) <= c
  BY NthEarlier
<1>. HIDE DEF c
<1>8. ASSUME NEW i \in 1 .. Len(all), NEW j \in 1 .. n + 1, all[i].op = "pong", theirs[j].op = "ping",
             Nth(all, "pong", i) = Nth(theirs, "ping", j)
      PROVE  all[i].data = theirs[j].data
  <2>1. CASE i = m + 1 /\ j = n + 1
    BY <1>1, <2>1
  <2>2. CASE i = m + 1 /\ j \in 1 .. n
    <3>1. Nth(theirs, "ping", j) = c + 1
      BY <1>5, <1>8, <2>2
    <3>. QED
      BY <1>4, <1>7, <2>2, <3>1
  <2>3. CASE i \in 1 .. m /\ j = n + 1
    <3>1. Nth(all, "pong", i) = c + 1
      BY <1>4, <1>8, <2>3
    <3>. QED
      BY <1>4, <1>6, <2>3, <3>1
  <2>4. CASE i \in 1 .. m /\ j \in 1 .. n
    BY <1>1, <1>2, <1>3, <1>8, <2>4
  <2>. QED
    BY <1>1, <2>1, <2>2, <2>3, <2>4
<1>. QED
  BY <1>1, <1>4, <1>5, <1>8 DEF PongsFor, all
-----------------------------------------------------------------------------
\* The shapes of the steps of the network
Grown(s, f, more) == more = Append(s, f)
Part(s, from, to, part) == part = SubSeq(s, from, to)

\* What waits, after each kind of step: the client sends,
LEMMA Sends ==
    ASSUME NEW s \in Seq(Frames), NEW b \in Seq(Frames), NEW w \in Seq(Frames), NEW t,
           Lies(s, b, w, t), NEW f \in Frames, NEW s2, NEW w2,
           Grown(s, f, s2), Grown(w, f, w2)
    PROVE  /\ s2 \in Seq(Frames) /\ w2 \in Seq(Frames) /\ Lies(s2, b, w2, t)
           /\ \A i \in 1 .. t : s2[i] = s[i]
<1>1. /\ t \in Nat /\ Len(s) \in Nat /\ Len(b) \in Nat /\ Len(w) \in Nat
      /\ Len(s) = t + Len(b) + Len(w)
      /\ \A i \in 1 .. Len(b) : b[i] = s[t + i]
      /\ \A i \in 1 .. Len(w) : w[i] = s[t + Len(b) + i]
  BY DEF Lies
<1>2. /\ s2 \in Seq(Frames) /\ Len(s2) = Len(s) + 1 /\ s2[Len(s) + 1] = f
      /\ \A i \in 1 .. Len(s) : s2[i] = s[i]
  BY DEF Grown
<1>3. /\ w2 \in Seq(Frames) /\ Len(w2) = Len(w) + 1 /\ w2[Len(w) + 1] = f
      /\ \A i \in 1 .. Len(w) : w2[i] = w[i]
  BY DEF Grown
<1>4. \A i \in 1 .. Len(b) : b[i] = s2[t + i]
  BY <1>1, <1>2
<1>5. \A i \in 1 .. Len(w2) : w2[i] = s2[t + Len(b) + i]
  <2>. TAKE i \in 1 .. Len(w2)
  <2>1. CASE i = Len(w) + 1
    <3>1. t + Len(b) + i = Len(s) + 1
      BY <1>1, <2>1
    <3>. QED
      BY <1>2, <1>3, <2>1, <3>1
  <2>2. CASE i \in 1 .. Len(w)
    <3>1. t + Len(b) + i \in 1 .. Len(s)
      BY <1>1, <2>2
    <3>. QED
      BY <1>1, <1>2, <1>3, <2>2, <3>1
  <2>. QED
    BY <1>1, <1>3, <2>1, <2>2
<1>6. Len(s2) = t + Len(b) + Len(w2) /\ \A i \in 1 .. t : s2[i] = s[i]
  BY <1>1, <1>2, <1>3
<1>7. Lies(s2, b, w2, t)
  BY <1>1, <1>4, <1>5, <1>6 DEF Lies
<1>. QED
  BY <1>2, <1>3, <1>6, <1>7

\* what was on the wire is lost,
LEMMA Drops ==
    ASSUME NEW s \in Seq(Frames), NEW b \in Seq(Frames), NEW w \in Seq(Frames), NEW t,
           Lies(s, b, w, t), NEW s2, NEW w2,
           Part(s, 1, Len(s) - Len(w), s2), w2 = <<>>
    PROVE  s2 \in Seq(Frames) /\ Lies(s2, b, w2, t) /\ \A i \in 1 .. t : s2[i] = s[i]
<1>. DEFINE n == Len(s) - Len(w)
<1>1. /\ t \in Nat /\ Len(s) \in Nat /\ Len(b) \in Nat /\ Len(w) \in Nat
      /\ Len(s) = t + Len(b) + Len(w)
      /\ \A i \in 1 .. Len(b) : b[i] = s[t + i]
  BY DEF Lies
<1>2. n \in 0 .. Len(s) /\ n = t + Len(b)
  BY <1>1
<1>. HIDE DEF n
<1>3. Part(s, 1, n, s2)
  BY DEF n
<1>4. s2 \in Seq(Frames) /\ Len(s2) = n /\ \A i \in 1 .. n : s2[i] = s[i]
  BY <1>2, <1>3, SubSeqProperties DEF Part
<1>5. \A i \in 1 .. Len(b) : b[i] = s2[t + i]
  BY <1>1, <1>2, <1>4
<1>6. Len(s2) = t + Len(b) + Len(w2) /\ \A i \in 1 .. Len(w2) : w2[i] = s2[t + Len(b) + i]
  BY <1>1, <1>2, <1>4
<1>7. Lies(s2, b, w2, t)
  BY <1>1, <1>5, <1>6 DEF Lies
<1>. QED
  BY <1>1, <1>2, <1>4, <1>7

\* some of it comes into the empty buffer,
LEMMA Comes ==
    ASSUME NEW s \in Seq(Frames), NEW w \in Seq(Frames), NEW t, Lies(s, <<>>, w, t),
           NEW n \in 0 .. Len(w), NEW b2, NEW w2,
           Part(w, 1, n, b2), Part(w, n + 1, Len(w), w2)
    PROVE  b2 \in Seq(Frames) /\ w2 \in Seq(Frames) /\ Lies(s, b2, w2, t)
<1>1. /\ t \in Nat /\ Len(s) \in Nat /\ Len(w) \in Nat /\ Len(s) = t + Len(w)
      /\ \A i \in 1 .. Len(w) : w[i] = s[t + i]
  <2>1. t \in Nat /\ Len(s) = t + Len(<<>>) + Len(w)
        /\ \A i \in 1 .. Len(w) : w[i] = s[t + Len(<<>>) + i]
    BY DEF Lies
  <2>. QED
    BY <2>1
<1>2. b2 \in Seq(Frames) /\ Len(b2) = n /\ \A i \in 1 .. n : b2[i] = w[i]
  BY <1>1, SubSeqProperties DEF Part
<1>3. w2 \in Seq(Frames) /\ Len(w2) = Len(w) - n /\ \A i \in 1 .. Len(w) - n : w2[i] = w[n + i]
  BY <1>1, SubSeqProperties DEF Part
<1>4. \A i \in 1 .. Len(b2) : b2[i] = s[t + i]
  BY <1>1, <1>2
<1>5. \A i \in 1 .. Len(w2) : w2[i] = s[t + Len(b2) + i]
  <2>. TAKE i \in 1 .. Len(w2)
  <2>1. i \in 1 .. Len(w) - n /\ n + i \in 1 .. Len(w) /\ t + (n + i) = t + Len(b2) + i
    BY <1>1, <1>2, <1>3
  <2>2. w2[i] = w[n + i] /\ w[n + i] = s[t + (n + i)]
    BY <1>1, <1>3, <2>1
  <2>. QED
    BY <2>1, <2>2
<1>6. Len(s) = t + Len(b2) + Len(w2)
  <2>1. n \in Nat /\ Len(b2) = n /\ Len(w2) = Len(w) - n
    BY <1>1, <1>2, <1>3
  <2>. QED
    BY <1>1, <2>1
<1>. QED
  BY <1>1, <1>2, <1>3, <1>4, <1>5, <1>6 DEF Lies

\* and the first frame of the buffer is taken.
LEMMA Takes ==
    ASSUME NEW s \in Seq(Frames), NEW b \in Seq(Frames), NEW w \in Seq(Frames), NEW t,
           Lies(s, b, w, t), b # <<>>, NEW b2, b2 = Tail(b)
    PROVE  /\ b2 \in Seq(Frames) /\ Lies(s, b2, w, t + 1)
           /\ Head(b) \in Frames /\ s[t + 1] = Head(b) /\ t + 1 \in 1 .. Len(s)
<1>1. /\ t \in Nat /\ Len(s) \in Nat /\ Len(b) \in Nat /\ Len(w) \in Nat
      /\ Len(s) = t + Len(b) + Len(w)
      /\ \A i \in 1 .. Len(b) : b[i] = s[t + i]
      /\ \A i \in 1 .. Len(w) : w[i] = s[t + Len(b) + i]
  BY DEF Lies
<1>2. Len(b) # 0
  BY EmptySeq
<1>3. /\ Head(b) \in Frames /\ Head(b) = b[1] /\ b2 \in Seq(Frames)
      /\ Len(b2) = Len(b) - 1 /\ \A i \in 1 .. Len(b) - 1 : b2[i] = b[i + 1]
  BY <1>1, <1>2, HeadTailProperties
<1>4. s[t + 1] = Head(b) /\ t + 1 \in 1 .. Len(s)
  BY <1>1, <1>2, <1>3
<1>5. \A i \in 1 .. Len(b2) : b2[i] = s[(t + 1) + i]
  <2>. TAKE i \in 1 .. Len(b2)
  <2>1. i \in 1 .. Len(b) - 1 /\ i + 1 \in 1 .. Len(b) /\ t + (i + 1) = (t + 1) + i
    BY <1>1, <1>2, <1>3
  <2>. QED
    BY <1>1, <1>3, <2>1
<1>6. \A i \in 1 .. Len(w) : w[i] = s[(t + 1) + Len(b2) + i]
  <2>. TAKE i \in 1 .. Len(w)
  <2>1. (t + 1) + Len(b2) + i = t + Len(b) + i
    BY <1>1, <1>2, <1>3
  <2>. QED
    BY <1>1, <2>1
<1>7. Len(s) = (t + 1) + Len(b2) + Len(w) /\ t + 1 \in Nat
  BY <1>1, <1>2, <1>3
<1>. QED
  BY <1>3, <1>4, <1>5, <1>6, <1>7 DEF Lies

\* The frames that have been taken are as they were, or one more has been taken.
Kept == Taken' = Taken /\ \A i \in 1 .. Taken : sent'[i] = sent[i]
Took == /\ sent' = sent /\ Taken' = Taken + 1
        /\ rbuf # <<>> /\ Head(rbuf) \in Frames /\ sent[Taken + 1] = Head(rbuf)

\* What is left of the client's frames is the number of those taken.
LEMMA TakenIs ==
    ASSUME NetTypes', NEW t, Lies(sent', rbuf', wire', t)
    PROVE  Taken' = t /\ Stream'
<1>1. /\ t \in Nat /\ Len(sent') = t + Len(rbuf') + Len(wire')
      /\ Len(rbuf') \in Nat /\ Len(wire') \in Nat
  BY DEF NetTypes, Lies
<1>2. Taken' = Len(sent') - Len(wire') - Len(rbuf')
  BY DEF Taken
<1>3. Taken' = t
  BY <1>1, <1>2
<1>. QED
  BY <1>3 DEF Stream

\* Nothing of it changes.
LEMMA NetWaits ==
    ASSUME NetTypes, Stream, sent' = sent, wire' = wire, rbuf' = rbuf, peer' \in {"open", "closed", "reset"}
    PROVE  NetTypes' /\ Stream' /\ Kept
  BY DEF NetTypes, Stream, Lies, Taken, Kept

\* The connection breaks.
LEMMA NetDrops ==
    ASSUME NetTypes, Stream, dropped, rbuf' = rbuf
    PROVE  NetTypes' /\ Stream' /\ Kept
<1>1. /\ sent \in Seq(Frames) /\ wire \in Seq(Frames) /\ rbuf \in Seq(Frames)
      /\ Lies(sent, rbuf, wire, Taken)
      /\ peer' = "reset" /\ wire' = <<>> /\ Part(sent, 1, Len(sent) - Len(wire), sent')
  BY DEF NetTypes, Stream, dropped, Part
<1>2. sent' \in Seq(Frames) /\ Lies(sent', rbuf, wire', Taken) /\ \A i \in 1 .. Taken : sent'[i] = sent[i]
  BY <1>1, Drops
<1>3. NetTypes'
  BY <1>1, <1>2 DEF NetTypes
<1>4. Lies(sent', rbuf', wire', Taken)
  BY <1>1, <1>2
<1>5. Taken' = Taken /\ Stream'
  BY <1>3, <1>4, TakenIs
<1>. QED
  BY <1>2, <1>3, <1>5 DEF Kept

\* Frames come.
LEMMA NetComes ==
    ASSUME NetTypes, Stream, rbuf = <<>>, NEW n \in 0 .. Len(wire), peer' = peer, sent' = sent,
           Part(wire, 1, n, rbuf'), Part(wire, n + 1, Len(wire), wire')
    PROVE  NetTypes' /\ Stream' /\ Kept
<1>1. sent \in Seq(Frames) /\ wire \in Seq(Frames) /\ Lies(sent, <<>>, wire, Taken)
  BY DEF NetTypes, Stream
<1>2. rbuf' \in Seq(Frames) /\ wire' \in Seq(Frames) /\ Lies(sent, rbuf', wire', Taken)
  BY <1>1, Comes
<1>3. NetTypes'
  BY <1>2 DEF NetTypes
<1>4. Taken' = Taken /\ Stream'
  BY <1>2, <1>3, TakenIs
<1>. QED
  BY <1>3, <1>4 DEF Kept

\* The client sends.
LEMMA NetSends ==
    ASSUME NetTypes, Stream, clientSends
    PROVE  NetTypes' /\ Stream' /\ Kept
<1>1. PICK f \in Frames : Grown(sent, f, sent') /\ Grown(wire, f, wire')
  BY DEF clientSends, Grown
<1>2. /\ sent \in Seq(Frames) /\ wire \in Seq(Frames) /\ rbuf \in Seq(Frames) /\ peer' = peer
      /\ Lies(sent, rbuf, wire, Taken) /\ rbuf' = rbuf
  BY DEF NetTypes, Stream, clientSends
<1>3. /\ sent' \in Seq(Frames) /\ wire' \in Seq(Frames) /\ Lies(sent', rbuf, wire', Taken)
      /\ \A i \in 1 .. Taken : sent'[i] = sent[i]
  BY <1>1, <1>2, Sends, SMTT(30)
<1>4. NetTypes'
  BY <1>2, <1>3 DEF NetTypes
<1>5. Lies(sent', rbuf', wire', Taken)
  BY <1>2, <1>3
<1>6. Taken' = Taken /\ Stream'
  BY <1>4, <1>5, TakenIs
<1>. QED
  BY <1>3, <1>4, <1>6 DEF Kept

\* A frame is taken.
LEMMA NetTakes ==
    ASSUME NetTypes, Stream, rbuf # <<>>, rbuf' = Tail(rbuf), UNCHANGED net
    PROVE  NetTypes' /\ Stream' /\ Took
<1>1. /\ sent \in Seq(Frames) /\ wire \in Seq(Frames) /\ rbuf \in Seq(Frames)
      /\ Lies(sent, rbuf, wire, Taken) /\ sent' = sent /\ wire' = wire /\ peer' = peer
  BY DEF NetTypes, Stream, net
<1>2. /\ rbuf' \in Seq(Frames) /\ Lies(sent, rbuf', wire, Taken + 1)
      /\ Head(rbuf) \in Frames /\ sent[Taken + 1] = Head(rbuf)
  BY <1>1, Takes
<1>3. NetTypes'
  BY <1>1, <1>2 DEF NetTypes
<1>4. Lies(sent', rbuf', wire', Taken + 1)
  BY <1>1, <1>2
<1>5. Taken' = Taken + 1 /\ Stream'
  BY <1>3, <1>4, TakenIs
<1>. QED
  BY <1>1, <1>2, <1>3, <1>5 DEF Took

\* The steps that take no frame
keeping == \/ clientSends \/ clientCloses \/ clientResets \/ fillData \/ fillEof \/ fillTimeout
           \/ fillError \/ closeInterrupted \/ program
\* those that do: of receive()
receiving == receivePing \/ receivePong \/ receiveClose \/ receiveRefused \/ receiveFragment \/ receiveMessage
\* and of close()
ignoring == closeIgnores \/ closeEnds

\* Steps that take no frame change nothing of those that were taken.
LEMMA NetKept ==
    ASSUME NetTypes, Stream, Flags, keeping
    PROVE  NetTypes' /\ Stream' /\ Kept
<1>1. CASE clientSends
  BY <1>1, NetSends
<1>2. CASE clientResets \/ acceptFails \/ fillError
  <2>1. dropped /\ rbuf' = rbuf
    BY <1>2 DEF clientResets, acceptFails, fillError
  <2>. QED
    BY <2>1, NetDrops
<1>3. CASE accept \/ fillData
  <2>1. rbuf = <<>> /\ peer' = peer /\ sent' = sent
    BY <1>3 DEF accept, fillData, Flags
  <2>2. PICK n \in 0 .. Len(wire) : rbuf' = SubSeq(wire, 1, n) /\ wire' = SubSeq(wire, n + 1, Len(wire))
    <3>1. CASE accept
      BY <3>1 DEF accept
    <3>2. CASE fillData
      <4>1. PICK n \in 1 .. Len(wire) : rbuf' = SubSeq(wire, 1, n) /\ wire' = SubSeq(wire, n + 1, Len(wire))
        BY <3>2 DEF fillData
      <4>2. n \in 0 .. Len(wire)
        BY DEF NetTypes
      <4>. QED
        BY <4>1, <4>2
    <3>. QED
      BY <1>3, <3>1, <3>2
  <2>3. Part(wire, 1, n, rbuf') /\ Part(wire, n + 1, Len(wire), wire')
    BY <2>2 DEF Part
  <2>. QED
    BY <2>1, <2>3, NetComes
<1>4. CASE \/ clientCloses \/ fillEof \/ fillTimeout \/ closeInterrupted
           \/ enterReceive \/ send \/ programCloses \/ mainReturns \/ requestFails \/ dtor
  <2>1. sent' = sent /\ wire' = wire /\ rbuf' = rbuf /\ (peer' = peer \/ peer' = "closed")
    BY <1>4 DEF clientCloses, fillEof, fillTimeout, fillTimeoutIn, closeInterrupted, enterReceive, send,
                programCloses, mainReturns, close, requestFails, dtor, net
  <2>. QED
    BY <2>1, NetWaits DEF NetTypes
<1>. QED
  BY <1>1, <1>2, <1>3, <1>4 DEF keeping, program

\* A frame that is taken is the next of the client's.
LEMMA NetTook ==
    ASSUME NetTypes, Stream, receiving \/ ignoring
    PROVE  NetTypes' /\ Stream' /\ Took
<1>1. rbuf # <<>> /\ rbuf' = Tail(rbuf) /\ UNCHANGED net
  BY DEF receiving, ignoring, receivePing, receivePong, receiveClose, receiveRefused, receiveFragment,
         receiveMessage, closeIgnores, closeEnds, parsed
<1>. QED
  BY <1>1, NetTakes
-----------------------------------------------------------------------------
\* The frames the server writes: their types and fields.
LEMMA FrameIs ==
    ASSUME NEW op \in {"text", "pong", "close"}, NEW code \in Code \cup {""}, NEW data \in Seq(Byte)
    PROVE  frame(op, code, data) \in OutFrame /\ frame(op, code, data).op = op /\ frame(op, code, data).data = data
  BY DEF frame, OutFrame

\* A Close,
LEMMA CloseIs ==
    ASSUME NEW code \in Code
    PROVE  frame("close", code, <<>>) \in OutFrame /\ frame("close", code, <<>>).op = "close"
<1>1. <<>> \in Seq(Byte)
  OBVIOUS
<1>. QED
  BY <1>1, FrameIs

\* the pong to a ping, with its data,
LEMMA PongIs ==
    ASSUME NEW f \in Frames
    PROVE  pong(f) \in OutFrame /\ pong(f).op = "pong" /\ pong(f).data = f.data
<1>1. f.data \in Seq(Byte)
  BY FramesAssumption
<1>. QED
  BY <1>1, FrameIs DEF pong

\* and a message of the program.
LEMMA TextIs == frame("text", "", <<"a">>) \in OutFrame /\ frame("text", "", <<"a">>).op = "text"
<1>1. <<"a">> \in Seq(Byte)
  BY DEF Byte
<1>. QED
  BY <1>1, FrameIs

\* What the client gets
Says(f) == out' = Append(out, f)

\* Nothing is written.
LEMMA Silent ==
    ASSUME out' = out
    PROVE  (HasClose' <=> HasClose) /\ (NoDataAfterClose' <=> NoDataAfterClose)
  BY DEF HasClose, NoDataAfterClose

\* A frame is written.
LEMMA SaysIs ==
    ASSUME out \in Seq(OutFrame), NEW f \in OutFrame, Says(f)
    PROVE  /\ out' \in Seq(OutFrame) /\ out' # <<>> /\ Last(out') = f
           /\ HasClose' <=> HasClose \/ f.op = "close"
           /\ NoDataAfterClose /\ (f.op = "text" => ~HasClose) => NoDataAfterClose'
<1>1. /\ out' \in Seq(OutFrame) /\ Len(out) \in Nat /\ Len(out') = Len(out) + 1
      /\ out'[Len(out) + 1] = f /\ \A i \in 1 .. Len(out) : out'[i] = out[i]
      /\ DOMAIN out = 1 .. Len(out) /\ DOMAIN out' = 1 .. Len(out')
  BY DEF Says
<1>2. out' # <<>> /\ Last(out') = f
  BY <1>1 DEF Last
<1>3. HasClose' <=> HasClose \/ f.op = "close"
  <2>1. HasClose' <=> \E i \in 1 .. Len(out) + 1 : out'[i].op = "close"
    BY <1>1 DEF HasClose
  <2>2. HasClose <=> \E i \in 1 .. Len(out) : out[i].op = "close"
    BY <1>1 DEF HasClose
  <2>. QED
    BY <1>1, <2>1, <2>2
<1>4. ASSUME NoDataAfterClose, f.op = "text" => ~HasClose, NEW i \in DOMAIN out', NEW j \in DOMAIN out',
             i < j, out'[i].op = "close"
      PROVE  out'[j].op # "text"
  <2>1. i \in 1 .. Len(out) /\ out[i].op = "close"
    BY <1>1, <1>4
  <2>2. CASE j = Len(out) + 1
    BY <1>1, <1>4, <2>1, <2>2 DEF HasClose
  <2>3. CASE j \in 1 .. Len(out)
    BY <1>1, <1>4, <2>1, <2>3 DEF NoDataAfterClose
  <2>. QED
    BY <1>1, <2>2, <2>3
<1>. QED
  BY <1>1, <1>2, <1>3, <1>4 DEF NoDataAfterClose
-----------------------------------------------------------------------------
\* Nothing that is forgotten: neither that close() was called nor that writing has failed
Remembers == (asked => asked') /\ (writeFailed => writeFailed')
\* What is written, but for pongs
SaysOther == \/ out' = out
             \/ \E f \in OutFrame : f.op # "pong" /\ Says(f)

\* Pings stay answered if none is taken,
LEMMA PingsKept ==
    ASSUME OutTypes, Stream, PingsAnswered, Kept, Remembers, SaysOther
    PROVE  PingsAnswered'
<1>1. SUFFICES ASSUME ~asked', ~writeFailed' PROVE PongsFor(sent', Taken', out')
  BY DEF PingsAnswered
<1>2. PongsFor(sent, Taken, out) /\ Taken \in Nat /\ out \in Seq(OutFrame)
  BY <1>1 DEF PingsAnswered, Remembers, Stream, Lies, OutTypes
<1>3. PongsFor(sent', Taken, out)
  BY <1>2, PongsKept DEF Kept
<1>4. CASE out' = out
  BY <1>3, <1>4 DEF Kept
<1>5. ASSUME NEW f \in OutFrame, f.op # "pong", Says(f) PROVE PongsFor(sent', Taken', out')
  BY <1>2, <1>3, <1>5, PongsWrote DEF Says, Kept
<1>. QED
  BY <1>4, <1>5 DEF SaysOther

\* if what is taken is no ping,
LEMMA PingsTook ==
    ASSUME OutTypes, Stream, PingsAnswered, Took, Head(rbuf).op # "ping", Remembers, SaysOther
    PROVE  PingsAnswered'
<1>1. SUFFICES ASSUME ~asked', ~writeFailed' PROVE PongsFor(sent', Taken', out')
  BY DEF PingsAnswered
<1>2. PongsFor(sent, Taken, out) /\ Taken \in Nat /\ out \in Seq(OutFrame)
  BY <1>1 DEF PingsAnswered, Remembers, Stream, Lies, OutTypes
<1>3. PongsFor(sent, Taken + 1, out)
  BY <1>2, PongsTook DEF Took
<1>4. CASE out' = out
  BY <1>3, <1>4 DEF Took
<1>5. ASSUME NEW f \in OutFrame, f.op # "pong", Says(f) PROVE PongsFor(sent', Taken', out')
  <2>1. Taken + 1 \in Nat /\ out' = Append(out, f) /\ sent' = sent /\ Taken' = Taken + 1
    BY <1>2, <1>5 DEF Says, Took
  <2>2. PongsFor(sent, Taken + 1, Append(out, f))
    BY <1>2, <1>3, <1>5, <2>1, PongsWrote
  <2>. QED
    BY <2>1, <2>2
<1>. QED
  BY <1>4, <1>5 DEF SaysOther

\* and if the pong is written or cannot be.
LEMMA PingsBoth ==
    ASSUME OutTypes, Stream, PingsAnswered, Took, Head(rbuf).op = "ping", Remembers,
           Says(pong(Head(rbuf))) \/ writeFailed'
    PROVE  PingsAnswered'
<1>1. SUFFICES ASSUME ~asked', ~writeFailed' PROVE PongsFor(sent', Taken', out')
  BY DEF PingsAnswered
<1>2. PongsFor(sent, Taken, out) /\ Taken \in Nat /\ out \in Seq(OutFrame)
  BY <1>1 DEF PingsAnswered, Remembers, Stream, Lies, OutTypes
<1>3. PICK f \in OutFrame : f = pong(Head(rbuf)) /\ f.op = "pong" /\ f.data = sent[Taken + 1].data
  BY PongIs DEF Took
<1>4. sent[Taken + 1].op = "ping" /\ out' = Append(out, f) /\ sent' = sent /\ Taken' = Taken + 1
  BY <1>1, <1>3 DEF Took, Says
<1>5. PongsFor(sent, Taken + 1, Append(out, f))
  BY <1>2, <1>3, <1>4, PongsBoth
<1>. QED
  BY <1>4, <1>5
-----------------------------------------------------------------------------
\* What a step writes: nothing, or a frame f, or it fails to
Writes(f) == (Says(f) /\ peer # "reset" /\ writeFailed' = writeFailed) \/ (out' = out /\ writeFailed')

\* Such a frame that is no pong is what a step may write besides pongs.
LEMMA WritesSaysOther ==
    ASSUME NEW f \in OutFrame, f.op # "pong", Writes(f)
    PROVE  SaysOther /\ (writeFailed => writeFailed')
  BY DEF Writes, SaysOther

\* Every step but the taking of a ping writes no pong and forgets nothing.
LEMMA StepSays ==
    ASSUME NetTypes, keeping \/ (receiving /\ ~receivePing) \/ ignoring
    PROVE  Remembers /\ SaysOther
<1>1. CASE \/ clientSends \/ clientCloses \/ clientResets \/ fillData \/ fillEof \/ fillTimeout
           \/ fillError \/ closeInterrupted \/ accept \/ acceptFails \/ enterReceive \/ requestFails
           \/ receivePong \/ ignoring
  <2>1. CASE clientSends \/ clientCloses \/ clientResets \/ fillData \/ accept \/ acceptFails \/ receivePong
    BY <2>1 DEF clientSends, clientCloses, clientResets, fillData, accept, acceptFails, receivePong, written,
                request, Remembers, SaysOther
  <2>2. CASE fillTimeout \/ fillError \/ closeInterrupted \/ enterReceive \/ requestFails
    BY <2>2 DEF fillTimeout, fillTimeoutIn, fillError, closeInterrupted, enterReceive, requestFails,
                written, request, Remembers, SaysOther
  <2>4. CASE fillEof
    <3>1. UNCHANGED written /\ asked' = asked
      BY <2>4, Zenon DEF fillEof, failed
    <3>. QED
      BY <3>1 DEF written, Remembers, SaysOther
  <2>3. CASE ignoring
    BY <2>3 DEF ignoring, closeIgnores, closeEnds, written, request, Remembers, SaysOther
  <2>. QED
    BY <1>1, <2>1, <2>2, <2>3, <2>4
<1>2. CASE send
  <2>1. Writes(frame("text", "", <<"a">>)) /\ asked' = asked
    BY <1>2 DEF send, wrote, writeFails, Writes, Says
  <2>. QED
    BY <2>1, TextIs, WritesSaysOther DEF Remembers
<1>3. CASE programCloses \/ mainReturns
  <2>1. asked' /\ (UNCHANGED written \/ Writes(frame("close", "NORMAL", <<>>)))
    BY <1>3 DEF programCloses, mainReturns, close, written, wrote, writeFails, Writes, Says
  <2>2. "NORMAL" \in Code
    BY DEF Code
  <2>. QED
    BY <2>1, <2>2, CloseIs, WritesSaysOther DEF Remembers, written, SaysOther
<1>4. CASE dtor
  <2>1. asked' = asked /\ (UNCHANGED written \/ Writes(frame("close", "INTERNAL_ERROR", <<>>)))
    BY <1>4 DEF dtor, send_close, written, wrote, writeFails, Writes, Says
  <2>2. "INTERNAL_ERROR" \in Code
    BY DEF Code
  <2>. QED
    BY <2>1, <2>2, CloseIs, WritesSaysOther DEF Remembers, written, SaysOther
<1>5. CASE receiveClose
  <2>1. asked' = asked /\ (UNCHANGED written \/ Writes(answer(Head(rbuf))))
    BY <1>5 DEF receiveClose, written, wrote, writeFails, Writes, Says
  <2>2. Head(rbuf).code \in Code
    BY <1>5, FramesAssumption DEF receiveClose, parsed, NetTypes
  <2>. QED
    BY <2>1, <2>2, CloseIs, WritesSaysOther DEF Remembers, written, SaysOther, answer
<1>6. CASE receiveRefused \/ receiveFragment \/ receiveMessage
  <2>1. asked' = asked /\ (UNCHANGED written \/ \E code \in Code : Writes(frame("close", code, <<>>)))
    <3>1. Head(rbuf).code \in Code
      <4>1. rbuf # <<>> /\ rbuf \in Seq(Frames)
        BY <1>6 DEF receiveRefused, receiveFragment, receiveMessage, parsed, NetTypes
      <4>. QED
        BY <4>1, FramesAssumption
    <3>2. asked' = asked
      BY <1>6 DEF receiveRefused, receiveFragment, receiveMessage
    <3>3. CASE receiveRefused
      BY <3>1, <3>2, <3>3 DEF receiveRefused, failed, send_close, wrote, writeFails, Writes, Says, Code
    <3>4. CASE receiveFragment
      BY <3>2, <3>4 DEF receiveFragment, failed, send_close, wrote, writeFails, Writes, Says, Code, written
    <3>5. CASE receiveMessage
      BY <3>2, <3>5 DEF receiveMessage, failed, deliver, send_close, wrote, writeFails, Writes, Says, Code, written
    <3>. QED
      BY <1>6, <3>3, <3>4, <3>5
  <2>. QED
    BY <2>1, CloseIs, WritesSaysOther DEF Remembers, written, SaysOther
<1>. QED
  BY <1>1, <1>2, <1>3, <1>4, <1>5, <1>6 DEF keeping, receiving, program

\* Every step keeps the pings answered.
LEMMA PingsStep ==
    ASSUME NetTypes, OutTypes, Stream, Flags, PingsAnswered, [Next]_vars
    PROVE  NetTypes' /\ Stream' /\ PingsAnswered'
<1>1. CASE keeping
  BY <1>1, NetKept, StepSays, PingsKept
<1>2. CASE receivePing
  <2>1. NetTypes' /\ Stream' /\ Took
    BY <1>2, NetTook DEF receiving
  <2>2. Head(rbuf).op = "ping" /\ Remembers /\ (Says(pong(Head(rbuf))) \/ writeFailed')
    BY <1>2 DEF receivePing, parsed, wrote, writeFails, Says, Remembers
  <2>. QED
    BY <2>1, <2>2, PingsBoth
<1>3. CASE receiving /\ ~receivePing
  <2>1. Head(rbuf).op # "ping"
    BY <1>3 DEF receiving, receivePong, receiveClose, receiveRefused, receiveFragment, receiveMessage, parsed, Data
  <2>. QED
    BY <1>3, <2>1, NetTook, StepSays, PingsTook
<1>4. CASE ignoring
  <2>1. asked /\ NetTypes' /\ Stream' /\ Remembers
    BY <1>4, NetTook, StepSays DEF ignoring, closeIgnores, closeEnds, Flags
  <2>. QED
    BY <2>1 DEF Remembers, PingsAnswered
<1>5. CASE done \/ UNCHANGED vars
  <2>1. /\ sent' = sent /\ wire' = wire /\ rbuf' = rbuf /\ peer' = peer /\ out' = out
        /\ asked' = asked /\ writeFailed' = writeFailed
    BY <1>5 DEF done, vars, net, written, request
  <2>2. NetTypes' /\ Stream' /\ Kept
    BY <2>1, NetWaits DEF NetTypes
  <2>. QED
    BY <2>1, <2>2, PingsKept DEF Remembers, SaysOther
<1>. QED
  BY <1>1, <1>2, <1>3, <1>4, <1>5 DEF Next, inCall, keeping, receiving, ignoring
-----------------------------------------------------------------------------
\* What the flags mean, and the handshake of closing
Ended == pc = "done" /\ accepted => Told
Closing == OutTypes /\ FlagTypes /\ RequestTypes /\ Flags /\ NoDataAfterClose /\ ToldAlike /\ Ended

\* The steps that write nothing keep it.
LEMMA SilentClosing ==
    ASSUME Closing, rbuf \in Seq(Frames),
           \/ clientSends \/ clientCloses \/ clientResets \/ accept \/ acceptFails \/ enterReceive
           \/ fillData \/ fillTimeout \/ fillError \/ closeInterrupted \/ requestFails
           \/ receivePong \/ closeIgnores \/ closeEnds \/ done \/ UNCHANGED vars
    PROVE  Closing'
<1>. USE DEF Closing, OutTypes, FlagTypes, RequestTypes, Flags, ToldAlike, Ended, Told,
             net, written, flags, message, request
<1>1. CASE clientSends
  <2>1. out' = out
    BY <1>1 DEF clientSends
  <2>. QED
    BY <1>1, <2>1, Silent DEF clientSends
<1>2. CASE clientCloses
  <2>1. out' = out
    BY <1>2 DEF clientCloses
  <2>. QED
    BY <1>2, <2>1, Silent DEF clientCloses
<1>3. CASE clientResets
  <2>1. out' = out
    BY <1>3 DEF clientResets, dropped
  <2>. QED
    BY <1>3, <2>1, Silent DEF clientResets, dropped
<1>4. CASE accept
  <2>1. out' = out
    BY <1>4 DEF accept
  <2>. QED
    BY <1>4, <2>1, Silent DEF accept
<1>5. CASE acceptFails
  <2>1. out' = out
    BY <1>5 DEF acceptFails, dropped
  <2>. QED
    BY <1>5, <2>1, Silent DEF acceptFails, dropped
<1>6. CASE enterReceive
  <2>1. out' = out
    BY <1>6 DEF enterReceive
  <2>. QED
    BY <1>6, <2>1, Silent DEF enterReceive
<1>7. CASE fillData
  <2>1. out' = out
    BY <1>7 DEF fillData
  <2>. QED
    BY <1>7, <2>1, Silent DEF fillData
<1>8. CASE fillTimeout
  <2>1. out' = out
    BY <1>8 DEF fillTimeout, fillTimeoutIn, afterClose
  <2>. QED
    BY <1>8, <2>1, Silent DEF fillTimeout, fillTimeoutIn, afterClose
<1>9. CASE fillError
  <2>1. out' = out
    BY <1>9 DEF fillError, dropped
  <2>. QED
    BY <1>9, <2>1, Silent DEF fillError, dropped
<1>10. CASE closeInterrupted
  <2>1. out' = out
    BY <1>10 DEF closeInterrupted
  <2>. QED
    BY <1>10, <2>1, Silent DEF closeInterrupted
<1>11. CASE requestFails
  <2>1. out' = out
    BY <1>11 DEF requestFails
  <2>. QED
    BY <1>11, <2>1, Silent DEF requestFails
<1>12. CASE receivePong
  <2>1. out' = out
    BY <1>12 DEF receivePong, parsed
  <2>. QED
    BY <1>12, <2>1, Silent DEF receivePong, parsed
<1>13. CASE closeIgnores
  <2>1. out' = out
    BY <1>13 DEF closeIgnores
  <2>. QED
    BY <1>13, <2>1, Silent DEF closeIgnores
<1>14. CASE closeEnds
  <2>1. out' = out
    BY <1>14 DEF closeEnds, afterClose
  <2>. QED
    BY <1>14, <2>1, Silent DEF closeEnds, afterClose
<1>15. CASE done \/ UNCHANGED vars
  BY <1>15, Silent DEF done, vars
<1>. QED
  BY <1>1, <1>2, <1>3, <1>4, <1>5, <1>6, <1>7, <1>8, <1>9, <1>10, <1>11, <1>12, <1>13, <1>14, <1>15

\* What is known after a frame is written, or is not
Known(f) ==
    /\ OutTypes' /\ NoDataAfterClose' /\ (HasClose => HasClose')
    /\ (f.op # "close" => (HasClose' <=> HasClose)) /\ (writeFailed => writeFailed')
    /\ writeFailed' \/ (out' # <<>> /\ Last(out') = f /\ (f.op = "close" => HasClose'))

\* A message goes only before the Close; everything else may go.
LEMMA WritesKnown ==
    ASSUME Closing, NEW f \in OutFrame, Writes(f), f.op = "text" => ~HasClose
    PROVE  Known(f)
<1>1. out \in Seq(OutFrame) /\ writeFailed \in BOOLEAN /\ NoDataAfterClose
  BY DEF Closing, OutTypes
<1>2. CASE Says(f) /\ writeFailed' = writeFailed
  <2>1. /\ out' \in Seq(OutFrame) /\ out' # <<>> /\ Last(out') = f
        /\ HasClose' <=> HasClose \/ f.op = "close"
        /\ NoDataAfterClose'
    BY <1>1, <1>2, SaysIs
  <2>. QED
    BY <1>1, <1>2, <2>1 DEF Known, OutTypes
<1>3. CASE out' = out /\ writeFailed'
  BY <1>1, <1>3, Silent DEF Known, OutTypes
<1>. QED
  BY <1>2, <1>3 DEF Writes

\* receive() refuses a frame and tells the client.
LEMMA FailedClosing ==
    ASSUME Closing, NEW code \in Code, failed(code, TRUE), pc = "receive",
           UNCHANGED <<net, accepted, started, eof, handler, asked, sends>>
    PROVE  Closing'
<1>. DEFINE f == frame("close", code, <<>>)
<1>1. f \in OutFrame /\ f.op = "close"
  BY CloseIs
<1>2. /\ closed' = TRUE /\ close_sent' = TRUE /\ pc' = "program" /\ result' = code /\ Writes(f)
  BY DEF failed, send_close, wrote, writeFails, Writes, Says
<1>3. Known(f)
  BY <1>1, <1>2, WritesKnown
<1>. HIDE DEF f
<1>4. ToldAlike'
  BY <1>2, <1>3 DEF ToldAlike, Known, f
<1>. QED
  BY <1>1, <1>2, <1>3, <1>4 DEF Known, Closing, FlagTypes, RequestTypes, Flags, Ended, Told, net

\* A ping is answered, or the answer fails and the exception leaves receive().
LEMMA receivePingClosing ==
    ASSUME Closing, receivePing, Head(rbuf) \in Frames
    PROVE  Closing'
<1>1. PICK f \in OutFrame : f = pong(Head(rbuf)) /\ f.op = "pong"
  BY PongIs
<1>2. Writes(f) /\ (UNCHANGED pc \/ pc' = "program")
  BY <1>1 DEF receivePing, wrote, writeFails, Writes, Says
<1>3. Known(f)
  BY <1>1, <1>2, WritesKnown
<1>. QED
  BY <1>1, <1>2, <1>3 DEF Known, Closing, FlagTypes, RequestTypes, Flags, Ended, Told, ToldAlike,
                          net, flags, receivePing, parsed

\* The client closes: it gets its answer unless the server has asked first.
LEMMA receiveCloseClosing ==
    ASSUME Closing, receiveClose, Head(rbuf) \in Frames
    PROVE  Closing'
<1>1. Head(rbuf).code \in Code /\ pc = "receive" /\ ~closed /\ pc' = "program"
  BY FramesAssumption DEF receiveClose, parsed, Closing, Flags
<1>2. CASE close_sent
  <2>1. closed' = TRUE /\ close_sent' = close_sent /\ out' = out /\ writeFailed' = writeFailed
    BY <1>2 DEF receiveClose, written
  <2>2. asked \/ writeFailed
    BY <1>1, <1>2 DEF Closing, Flags
  <2>. QED
    BY <1>1, <1>2, <2>1, <2>2, Silent
       DEF Closing, OutTypes, FlagTypes, RequestTypes, Flags, Ended, Told, ToldAlike, net, receiveClose
<1>3. CASE ~close_sent
  <2>1. PICK f \in OutFrame : f = answer(Head(rbuf)) /\ f.op = "close"
    BY <1>1, CloseIs DEF answer
  <2>2. close_sent' = TRUE /\ Writes(f) /\ (closed' = TRUE \/ (closed' = closed /\ writeFailed'))
    BY <1>3, <2>1 DEF receiveClose, wrote, writeFails, Writes, Says
  <2>3. Known(f)
    BY <2>1, <2>2, WritesKnown
  <2>4. ToldAlike'
    BY <1>1, <2>1, <2>2, <2>3 DEF ToldAlike, Known, answer, receiveClose
  <2>. QED
    BY <1>1, <2>1, <2>2, <2>3, <2>4
       DEF Known, Closing, FlagTypes, RequestTypes, Flags, Ended, Told, net, receiveClose
<1>. QED
  BY <1>2, <1>3

\* A frame is refused by parse() or by the CLOSE case.
LEMMA receiveRefusedClosing ==
    ASSUME Closing, receiveRefused, Head(rbuf) \in Frames
    PROVE  Closing'
<1>. DEFINE code == CASE Head(rbuf).op = "invalid" -> Head(rbuf).code
                      [] Head(rbuf).op = "badreason" -> "INVALID_DATA"
                      [] OTHER -> "PROTOCOL_ERROR"
<1>1. code \in Code
  BY FramesAssumption DEF Code
<1>2. failed(code, TRUE) /\ pc = "receive"
  BY DEF receiveRefused, parsed
<1>. QED
  BY <1>1, <1>2, FailedClosing DEF receiveRefused

\* A fragment is kept, or is too much.
LEMMA receiveFragmentClosing ==
    ASSUME Closing, receiveFragment
    PROVE  Closing'
<1>1. /\ pc = "receive"
      /\ UNCHANGED <<net, accepted, started, eof, handler, asked, sends>>
  BY DEF receiveFragment, parsed
<1>2. CASE failed("TOO_BIG", TRUE)
  BY <1>1, <1>2, FailedClosing DEF Code
<1>3. CASE UNCHANGED <<closed, close_sent, written, pc, result, delivered>>
  <2>1. out' = out
    BY <1>3 DEF written
  <2>. QED
    BY <1>1, <1>3, <2>1, Silent
       DEF Closing, OutTypes, FlagTypes, RequestTypes, Flags, Ended, Told, ToldAlike, net, written
<1>. QED
  BY <1>2, <1>3 DEF receiveFragment

\* A message is whole: it is delivered, or refused.
LEMMA receiveMessageClosing ==
    ASSUME Closing, receiveMessage
    PROVE  Closing'
<1>1. /\ pc = "receive"
      /\ UNCHANGED <<net, accepted, started, eof, handler, asked, sends>>
  BY DEF receiveMessage, parsed
<1>2. CASE \E code \in Code : failed(code, TRUE)
  BY <1>1, <1>2, FailedClosing
<1>3. CASE pc' = "program" /\ UNCHANGED <<result, closed, close_sent, written>>
  <2>1. out' = out
    BY <1>3 DEF written
  <2>. QED
    BY <1>1, <1>3, <2>1, Silent
       DEF Closing, OutTypes, FlagTypes, RequestTypes, Flags, Ended, Told, ToldAlike, net, written
<1>4. {"TOO_BIG", "PROTOCOL_ERROR", "INVALID_DATA"} \subseteq Code
  BY DEF Code
<1>5. \/ failed("TOO_BIG", TRUE) \/ failed("PROTOCOL_ERROR", TRUE) \/ failed("INVALID_DATA", TRUE)
      \/ deliver(opcodeOf(Head(rbuf)), joined(Head(rbuf)))
  BY Zenon DEF receiveMessage
<1>. QED
  BY <1>2, <1>3, <1>4, <1>5 DEF deliver

\* The data has ended: nobody is left to tell.
LEMMA fillEofClosing ==
    ASSUME Closing, fillEof
    PROVE  Closing'
<1>1. /\ pc \in {"receive", "close"} /\ peer # "open" /\ eof' = TRUE /\ closed' = TRUE
      /\ UNCHANGED <<close_sent, out, writeFailed>>
      /\ UNCHANGED <<net, accepted, started, rbuf, handler, asked, sends>>
      /\ \/ pc' = "program" /\ result' = "ABNORMAL"
         \/ pc = "close" /\ pc' = afterClose /\ result' = result
  BY Zenon DEF fillEof, failed, written
<1>2. "ABNORMAL" \in Code
  BY DEF Code
<1>. QED
  BY <1>1, <1>2, Silent
     DEF Closing, OutTypes, FlagTypes, RequestTypes, Flags, Ended, Told, ToldAlike, net, afterClose

\* ^websocket:send[] and ^websocket:ping[] check closed and close_sent first.
LEMMA sendClosing ==
    ASSUME Closing, send
    PROVE  Closing'
<1>1. PICK f \in OutFrame : f = frame("text", "", <<"a">>) /\ f.op = "text"
  BY TextIs
<1>2. Writes(f) /\ ~closed /\ ~close_sent /\ sends < MaxSends /\ sends' = sends + 1 /\ pc = "program"
  BY <1>1 DEF send, maySend, wrote, writeFails, Writes, Says
<1>3. Known(f)
  BY <1>1, <1>2, WritesKnown DEF Closing, Flags
<1>4. sends' \in 0 .. MaxSends
  BY <1>2, BoundsAssumption DEF Closing, RequestTypes
<1>5. /\ UNCHANGED <<peer, accepted, closed, close_sent, started, rbuf, eof, handler, pc, result, asked>>
  BY DEF send, net, flags
<1>. QED
  BY <1>1, <1>2, <1>3, <1>4, <1>5 DEF Known, Closing, FlagTypes, RequestTypes, Flags, Ended, Told, ToldAlike

\* close(), from wherever it is called.
LEMMA closeClosing ==
    ASSUME Closing, NEW from \in {"main", "closing", "unhandled"}, close(from), pc = "program", started
    PROVE  Closing'
<1>1. /\ asked' = TRUE /\ result' = "none"
      /\ UNCHANGED <<peer, accepted, closed, started, rbuf, eof, sends>>
  BY DEF close, net
<1>2. CASE closed \/ close_sent
  <2>1. /\ out' = out /\ writeFailed' = writeFailed /\ close_sent' = close_sent /\ handler' = from
        /\ pc' \in {"end", "program"} \/ (close_sent /\ pc' = "close")
    BY <1>2 DEF close, written, Closing, FlagTypes
  <2>. QED
    BY <1>1, <1>2, <2>1, Silent
       DEF Closing, OutTypes, FlagTypes, RequestTypes, Flags, Ended, Told, ToldAlike
<1>3. CASE ~closed /\ ~close_sent
  <2>1. PICK f \in OutFrame : f = frame("close", "NORMAL", <<>>) /\ f.op = "close"
    BY CloseIs DEF Code
  <2>2. /\ close_sent' = TRUE /\ Writes(f) /\ handler' \in {"main", "closing", "unhandled"}
        /\ pc' \in {"close", "program"}
    BY <1>3, <2>1 DEF close, wrote, writeFails, Writes, Says
  <2>3. Known(f)
    BY <2>1, <2>2, WritesKnown
  <2>. QED
    BY <1>1, <2>1, <2>2, <2>3
       DEF Known, Closing, FlagTypes, RequestTypes, Flags, Ended, Told, ToldAlike
<1>. QED
  BY <1>2, <1>3

\* The destructor tells a client that was told nothing.
LEMMA dtorClosing ==
    ASSUME Closing, dtor
    PROVE  Closing'
<1>1. /\ pc = "end" /\ pc' = "done"
      /\ UNCHANGED <<peer, accepted, closed, started, rbuf, eof, handler, result, asked, sends>>
  BY DEF dtor, net
<1>2. CASE leftOpen
  <2>1. PICK f \in OutFrame : f = frame("close", "INTERNAL_ERROR", <<>>) /\ f.op = "close"
    BY CloseIs DEF Code
  <2>2. close_sent' = TRUE /\ Writes(f) /\ ~closed
    BY <1>2, <2>1 DEF dtor, leftOpen, send_close, wrote, writeFails, Writes, Says
  <2>3. Known(f)
    BY <2>1, <2>2, WritesKnown
  <2>. QED
    BY <1>1, <2>1, <2>2, <2>3
       DEF Known, Closing, FlagTypes, RequestTypes, Flags, Ended, Told, ToldAlike
<1>3. CASE ~leftOpen
  <2>1. out' = out /\ writeFailed' = writeFailed /\ close_sent' = close_sent
    BY <1>3 DEF dtor, written
  <2>. QED
    BY <1>1, <1>3, <2>1, Silent
       DEF leftOpen, Closing, OutTypes, FlagTypes, RequestTypes, Flags, Ended, Told, ToldAlike
<1>. QED
  BY <1>2, <1>3

\* Every step keeps it.
LEMMA ClosingStep ==
    ASSUME Closing, NetTypes, [Next]_vars
    PROVE  Closing'
<1>1. CASE receiving
  <2>1. Head(rbuf) \in Frames
    <3>1. rbuf # <<>> /\ rbuf \in Seq(Frames)
      BY <1>1 DEF receiving, receivePing, receivePong, receiveClose, receiveRefused, receiveFragment,
                  receiveMessage, parsed, NetTypes
    <3>. QED
      BY <3>1
  <2>. QED
    BY <1>1, <2>1, SilentClosing, receivePingClosing, receiveCloseClosing, receiveRefusedClosing,
       receiveFragmentClosing, receiveMessageClosing DEF receiving, NetTypes
<1>2. CASE programCloses \/ mainReturns
  <2>1. pc = "program" /\ started
    BY <1>2 DEF programCloses, mainReturns, Closing, Flags
  <2>2. close(handler) \/ close("closing")
    BY <1>2 DEF programCloses, mainReturns
  <2>3. handler \in {"main", "closing", "unhandled"}
    BY DEF Closing, RequestTypes
  <2>. QED
    BY <2>1, <2>2, <2>3, closeClosing
<1>3. CASE fillEof \/ send \/ dtor
  BY <1>3, fillEofClosing, sendClosing, dtorClosing
<1>4. CASE \/ clientSends \/ clientCloses \/ clientResets \/ accept \/ acceptFails \/ enterReceive
           \/ fillData \/ fillTimeout \/ fillError \/ closeInterrupted \/ requestFails
           \/ closeIgnores \/ closeEnds \/ done \/ UNCHANGED vars
  BY <1>4, SilentClosing DEF NetTypes
<1>. QED
  BY <1>1, <1>2, <1>3, <1>4 DEF Next, inCall, program, receiving
-----------------------------------------------------------------------------
\* The message being put together stays within the limit.
LEMMA MessageStep ==
    ASSUME NetTypes, MessageTypes, [Next]_vars
    PROVE  MessageTypes'
<1>1. CASE receiveFragment \/ receiveMessage
  <2>1. rbuf # <<>> /\ rbuf \in Seq(Frames) /\ Head(rbuf).op \in Data
    BY <1>1 DEF receiveFragment, receiveMessage, parsed, NetTypes
  <2>2. PICK f \in Frames : f = Head(rbuf)
    BY <2>1
  <2>3. f.op \in Data /\ f.data \in Seq(Byte) /\ joined(f) \in Seq(Byte)
    <3>1. f.data \in Seq(Byte) /\ msg \in Seq(Byte)
      BY FramesAssumption DEF MessageTypes
    <3>2. msg \o f.data \in Seq(Byte)
      BY <3>1
    <3>. QED
      BY <2>1, <2>2, <3>1, <3>2 DEF joined
  <2>4. Len(joined(f)) \in Nat /\ max_message_size \in Nat
    BY <2>3, BoundsAssumption
  <2>5. \/ msg_opcode' = "" /\ msg' = <<>>
        \/ msg_opcode' = opcodeOf(f) /\ ~outOfPlace(f) /\ msg' = joined(f) /\ ~tooBig(joined(f))
        \/ msg_opcode' = "" /\ msg' = joined(f) /\ ~tooBig(joined(f))
        \/ msg_opcode' = "" /\ msg' = msg
    <3>1. CASE receiveFragment
      BY <2>2, <3>1, Zenon DEF receiveFragment, failed
    <3>2. CASE receiveMessage
      BY <2>2, <3>2, Zenon DEF receiveMessage, failed
    <3>. QED
      BY <1>1, <3>1, <3>2
  <2>6. opcodeOf(f) \in {"", "text", "binary"}
    BY <2>3 DEF opcodeOf, MessageTypes, Data
  <2>7. <<>> \in Seq(Byte) /\ Len(<<>>) <= max_message_size
    BY <2>4
  <2>8. ~tooBig(joined(f)) => Len(joined(f)) <= max_message_size
    BY <2>4 DEF tooBig
  <2>. QED
    BY <2>3, <2>5, <2>6, <2>7, <2>8 DEF MessageTypes
<1>2. CASE receiveRefused \/ fillEof
  <2>1. (msg_opcode' = "" /\ msg' = <<>>) \/ UNCHANGED message
    BY <1>2, Zenon DEF receiveRefused, fillEof, failed
  <2>2. <<>> \in Seq(Byte) /\ Len(<<>>) <= max_message_size
    BY BoundsAssumption
  <2>. QED
    BY <2>1, <2>2 DEF MessageTypes, message
<1>3. CASE ~(receiveFragment \/ receiveMessage \/ receiveRefused \/ fillEof)
  <2>1. UNCHANGED message
    BY <1>3 DEF Next, inCall, program, clientSends, clientCloses, clientResets, receivePing, receivePong,
                receiveClose, fillData, fillTimeout, fillTimeoutIn, closeIgnores, closeEnds, fillError,
                closeInterrupted, accept, acceptFails, enterReceive, send, programCloses, mainReturns,
                close, requestFails, dtor, done, vars
  <2>. QED
    BY <2>1 DEF MessageTypes, message
<1>. QED
  BY <1>1, <1>2, <1>3
-----------------------------------------------------------------------------
\* The messages of the client.  The bytes frames bring,
pieces(d, i, j) ==
    {b \in (i .. j) \X (1 .. max_message_size) : isData(d[b[1]]) /\ b[2] <= Len(d[b[1]].data)}
brings(f) == IF isData(f) THEN Len(f.data) ELSE 0

LEMMA SizeIs == \A d, i, j : sizeOf(d, i, j) = Cardinality(pieces(d, i, j))
  BY DEF sizeOf, pieces

\* Frames bring finitely many bytes, none before the first
LEMMA PiecesFinite ==
    ASSUME NEW d, NEW i \in Nat, NEW j \in Nat
    PROVE  IsFiniteSet(pieces(d, i, j)) /\ sizeOf(d, i, j) \in Nat /\ (j < i => sizeOf(d, i, j) = 0)
<1>1. IsFiniteSet(i .. j) /\ IsFiniteSet(1 .. max_message_size)
  BY BoundsAssumption, FS_Interval
<1>2. IsFiniteSet((i .. j) \X (1 .. max_message_size))
  BY <1>1, FS_Product
<1>3. pieces(d, i, j) \subseteq (i .. j) \X (1 .. max_message_size)
  BY DEF pieces
<1>4. IsFiniteSet(pieces(d, i, j))
  BY <1>2, <1>3, FS_Subset
<1>5. j < i => pieces(d, i, j) = {}
  BY <1>3
<1>. QED
  BY <1>4, <1>5, FS_CardinalityType, FS_EmptySet, SizeIs

\* one more its own,
LEMMA SizeMore ==
    ASSUME NEW d, NEW i \in Nat, NEW j \in Nat, i <= j + 1, d[j + 1] \in Frames
    PROVE  sizeOf(d, i, j + 1) = sizeOf(d, i, j) + brings(d[j + 1])
<1>. DEFINE L == brings(d[j + 1])
            P == {j + 1} \X (1 .. L)
<1>1. L \in Nat /\ L <= max_message_size /\ max_message_size \in Nat
  BY BoundsAssumption, FramesAssumption DEF brings
<1>2. \A b \in 1 .. max_message_size : isData(d[j + 1]) /\ b <= Len(d[j + 1].data) <=> b \in 1 .. L
  BY <1>1, FramesAssumption DEF brings
<1>. HIDE DEF L
<1>3. IsFiniteSet(P) /\ Cardinality(P) = L
  <2>1. IsFiniteSet({j + 1}) /\ Cardinality({j + 1}) = 1
    BY FS_Singleton
  <2>2. IsFiniteSet(1 .. L) /\ Cardinality(1 .. L) = L
    BY <1>1, FS_Interval
  <2>3. IsFiniteSet(P) /\ Cardinality(P) = Cardinality({j + 1}) * Cardinality(1 .. L)
    BY <2>1, <2>2, FS_Product
  <2>4. 1 * L = L
    BY <1>1
  <2>. QED
    BY <2>1, <2>2, <2>3, <2>4
<1>4. pieces(d, i, j + 1) = pieces(d, i, j) \cup P
  <2>1. ASSUME NEW b \in pieces(d, i, j + 1) PROVE b \in pieces(d, i, j) \cup P
    <3>1. PICK k \in i .. j + 1, x \in 1 .. max_message_size : b = <<k, x>>
      BY DEF pieces
    <3>2. isData(d[k]) /\ x <= Len(d[k].data)
      BY <3>1 DEF pieces
    <3>3. CASE k = j + 1
      BY <1>2, <3>1, <3>2, <3>3
    <3>4. CASE k \in i .. j
      BY <3>1, <3>2, <3>4 DEF pieces
    <3>. QED
      BY <3>1, <3>3, <3>4
  <2>2. ASSUME NEW b \in pieces(d, i, j) PROVE b \in pieces(d, i, j + 1)
    BY DEF pieces
  <2>3. ASSUME NEW b \in P PROVE b \in pieces(d, i, j + 1)
    <3>1. PICK x \in 1 .. L : b = <<j + 1, x>>
      OBVIOUS
    <3>2. x \in 1 .. max_message_size /\ j + 1 \in i .. j + 1
      BY <1>1, <3>1
    <3>3. isData(d[j + 1]) /\ x <= Len(d[j + 1].data)
      BY <1>2, <3>1, <3>2
    <3>. QED
      BY <3>1, <3>2, <3>3 DEF pieces
  <2>. QED
    BY <2>1, <2>2, <2>3
<1>5. pieces(d, i, j) \cap P = {}
  BY DEF pieces
<1>. HIDE DEF P
<1>6. IsFiniteSet(pieces(d, i, j)) /\ Cardinality(pieces(d, i, j)) \in Nat
  BY PiecesFinite, SizeIs
<1>7. Cardinality(pieces(d, i, j) \cup P) = Cardinality(pieces(d, i, j)) + L - 0
  BY <1>3, <1>5, <1>6, FS_Union, FS_EmptySet
<1>8. sizeOf(d, i, j + 1) = Cardinality(pieces(d, i, j)) + L - 0
  BY <1>4, <1>7, SizeIs
<1>9. sizeOf(d, i, j + 1) = Cardinality(pieces(d, i, j)) + L
  BY <1>1, <1>6, <1>8
<1>10. sizeOf(d, i, j) = Cardinality(pieces(d, i, j))
  BY SizeIs
<1>. QED
  BY <1>9, <1>10 DEF L

\* and those before no more.
LEMMA SizeBefore ==
    ASSUME NEW d, NEW i \in Nat, NEW j \in Nat, NEW k \in Nat, k <= j
    PROVE  sizeOf(d, i, k) <= sizeOf(d, i, j)
<1>1. pieces(d, i, k) \subseteq pieces(d, i, j)
  BY DEF pieces
<1>2. IsFiniteSet(pieces(d, i, j))
  BY PiecesFinite
<1>. QED
  BY <1>1, <1>2, FS_Subset, SizeIs

joinedTo(d, i, j, f) == IF isData(f) THEN bytesOf(d, i, j) \o f.data ELSE bytesOf(d, i, j)
\* The bytes of one frame more come after those before.
LEMMA BytesMore ==
    ASSUME NEW d, NEW i \in Nat \ {0}, NEW j \in Nat, i <= j + 1, d[j + 1] \in Frames
    PROVE  bytesOf(d, i, j + 1) = joinedTo(d, i, j, d[j + 1])
<1>. DEFINE n == sizeOf(d, i, j)
            m == sizeOf(d, i, j + 1)
            f == d[j + 1]
            in(l, x) == {k \in i .. l : sizeOf(d, i, k - 1) < x /\ x <= sizeOf(d, i, k)}
            at(k, x) == d[k].data[x - sizeOf(d, i, k - 1)]
<1>1. n \in Nat /\ m \in Nat /\ m = n + brings(f) /\ brings(f) \in Nat
  <2>1. i \in Nat /\ j + 1 \in Nat
    OBVIOUS
  <2>2. n \in Nat /\ m \in Nat
    BY <2>1, PiecesFinite
  <2>3. brings(f) \in Nat
    BY FramesAssumption DEF brings
  <2>. QED
    BY <2>1, <2>2, <2>3, SizeMore
<1>2. \A x \in 1 .. n : in(j + 1, x) = in(j, x)
  <2>1. ASSUME NEW x \in 1 .. n, NEW k \in i .. j + 1, sizeOf(d, i, k - 1) < x PROVE k \in i .. j
    <3>1. k # j + 1
      <4>1. SUFFICES ASSUME k = j + 1 PROVE FALSE
        OBVIOUS
      <4>2. k - 1 = j
        BY <4>1
      <4>. QED
        BY <1>1, <2>1, <4>2
    <3>. QED
      BY <3>1
  <2>2. i .. j \subseteq i .. j + 1
    OBVIOUS
  <2>. QED
    BY <2>1, <2>2
<1>3. \A x \in n + 1 .. m : in(j + 1, x) = {j + 1}
  <2>. TAKE x \in n + 1 .. m
  <2>1. ASSUME NEW k \in i .. j PROVE ~(x <= sizeOf(d, i, k))
    <3>1. k \in Nat /\ k <= j
      OBVIOUS
    <3>2. sizeOf(d, i, k) \in Nat /\ sizeOf(d, i, k) <= n
      BY <3>1, PiecesFinite, SizeBefore
    <3>. QED
      BY <1>1, <3>2
  <2>2. j + 1 \in i .. j + 1 /\ (j + 1) - 1 = j /\ \A k \in i .. j + 1 : k = j + 1 \/ k \in i .. j
    OBVIOUS
  <2>3. n < x /\ x <= m
    BY <1>1
  <2>. QED
    BY <2>1, <2>2, <2>3
<1>4. bytesOf(d, i, j) = [x \in 1 .. n |-> CHOOSE byte \in {at(k, x) : k \in in(j, x)} : TRUE]
  BY DEF bytesOf, placed
<1>5. bytesOf(d, i, j + 1) = [x \in 1 .. m |-> CHOOSE byte \in {at(k, x) : k \in in(j + 1, x)} : TRUE]
  BY DEF bytesOf, placed
<1>6. \A x \in n + 1 .. m : (CHOOSE byte \in {at(k, x) : k \in in(j + 1, x)} : TRUE) = f.data[x - n]
  <2>. TAKE x \in n + 1 .. m
  <2>1. at(j + 1, x) = f.data[x - n]
    OBVIOUS
  <2>. HIDE DEF at, n, m, f, in
  <2>2. {at(k, x) : k \in in(j + 1, x)} = {f.data[x - n]}
    BY <1>3, <2>1
  <2>. QED
    BY <2>2
<1>7. \A x \in 1 .. n : (CHOOSE byte \in {at(k, x) : k \in in(j + 1, x)} : TRUE)
                         = (CHOOSE byte \in {at(k, x) : k \in in(j, x)} : TRUE)
  <2>. HIDE DEF at, n, m, f, in
  <2>. QED
    BY <1>2
<1>. HIDE DEF at, n, m, in
<1>8. CASE ~isData(f)
  <2>1. m = n
    BY <1>1, <1>8 DEF brings
  <2>2. bytesOf(d, i, j + 1) = bytesOf(d, i, j)
    BY <1>4, <1>5, <1>7, <2>1
  <2>. QED
    BY <1>8, <2>2 DEF joinedTo
<1>9. CASE isData(f)
  <2>. DEFINE s == bytesOf(d, i, j)
  <2>1. m = n + Len(f.data) /\ Len(f.data) \in Nat
    BY <1>1, <1>9, FramesAssumption DEF brings
  <2>2. bytesOf(d, i, j + 1) = [x \in 1 .. m |-> IF x <= n THEN s[x] ELSE f.data[x - n]]
    <3>1. \A x \in 1 .. m : x \in 1 .. n \/ x \in n + 1 .. m
      BY <1>1
    <3>2. \A x \in 1 .. m : (CHOOSE byte \in {at(k, x) : k \in in(j + 1, x)} : TRUE)
                             = IF x <= n THEN s[x] ELSE f.data[x - n]
      BY <1>1, <1>4, <1>6, <1>7, <3>1
    <3>. QED
      BY <1>5, <3>2
  <2>3. Len(s) = n
    BY <1>1, <1>4
  <2>4. s \o f.data = [x \in 1 .. Len(s) + Len(f.data) |-> IF x <= Len(s) THEN s[x] ELSE f.data[x - Len(s)]]
    OBVIOUS
  <2>. QED
    BY <1>9, <2>1, <2>2, <2>3, <2>4 DEF joinedTo
<1>. QED
  BY <1>8, <1>9

\* Frames that come later change nothing.
LEMMA Later ==
    ASSUME NEW d, NEW e, NEW n \in Nat, \A k \in 1 .. n : d[k] = e[k],
           NEW i \in 1 .. n, NEW j \in 1 .. n
    PROVE  /\ sizeOf(d, i, j) = sizeOf(e, i, j) /\ bytesOf(d, i, j) = bytesOf(e, i, j)
           /\ Message(d, i, j) = Message(e, i, j) /\ (IsMessage(d, i, j) <=> IsMessage(e, i, j))
<1>1. \A k \in 0 .. n : pieces(d, i, k) = pieces(e, i, k)
  <2>. TAKE k \in 0 .. n
  <2>1. \A l \in i .. k : d[l] = e[l]
    OBVIOUS
  <2>. QED
    BY <2>1 DEF pieces
<1>2. \A k \in 0 .. n : sizeOf(d, i, k) = sizeOf(e, i, k)
  BY <1>1, SizeIs
<1>3. \A x : placed(d, i, j, x) = placed(e, i, j, x)
  <2>. TAKE x
  <2>1. \A k \in i .. j : d[k] = e[k] /\ sizeOf(d, i, k) = sizeOf(e, i, k)
                          /\ sizeOf(d, i, k - 1) = sizeOf(e, i, k - 1)
    BY <1>2
  <2>. QED
    BY <2>1 DEF placed
<1>4. sizeOf(d, i, j) = sizeOf(e, i, j) /\ bytesOf(d, i, j) = bytesOf(e, i, j)
  BY <1>2, <1>3 DEF bytesOf
<1>5. Message(d, i, j) = Message(e, i, j)
  BY <1>4 DEF Message
<1>6. \A k \in 1 .. i - 1 : k \in 1 .. n /\ \A l \in k + 1 .. i - 1 : l \in 1 .. n
  OBVIOUS
<1>7. mayBegin(d, i) <=> mayBegin(e, i)
  BY <1>6 DEF mayBegin
<1>8. \A k \in i .. j : d[k] = e[k]
  OBVIOUS
<1>9. IsMessage(d, i, j) <=> IsMessage(e, i, j)
  BY <1>4, <1>7, <1>8 DEF IsMessage
<1>. QED
  BY <1>4, <1>5, <1>9

\* Nor do they change which messages there are.
LEMMA AllLater ==
    ASSUME NEW d, NEW e, NEW n \in Nat, \A k \in 1 .. n : d[k] = e[k], NEW ms
    PROVE  /\ \A j \in 0 .. n : Ends(d, j) = Ends(e, j)
           /\ AllOf(d, n, ms) => AllOf(e, n, ms)
           /\ mayBegin(d, n + 1) => mayBegin(e, n + 1)
<1>1. \A j \in 1 .. n : \A i \in 1 .. j : i \in 1 .. n
  OBVIOUS
<1>2. \A j \in 1 .. n : \A i \in 1 .. j : IsMessage(d, i, j) <=> IsMessage(e, i, j)
  BY <1>1, Later
<1>3. \A j \in 1 .. n : \A i \in 1 .. j : Message(d, i, j) = Message(e, i, j)
  BY <1>1, Later
<1>4. \A j \in 0 .. n : Ends(d, j) = Ends(e, j)
  BY <1>2 DEF Ends
<1>5. AllOf(d, n, ms) => AllOf(e, n, ms)
  <2>1. \A j \in Ends(d, n) : j \in 1 .. n
    BY DEF Ends
  <2>2. n \in 0 .. n /\ \A j \in 1 .. n : j \in 0 .. n
    OBVIOUS
  <2>. QED
    BY <1>2, <1>3, <1>4, <2>1, <2>2 DEF AllOf
<1>6. mayBegin(d, n + 1) => mayBegin(e, n + 1)
  <2>1. \A k \in 1 .. (n + 1) - 1 : k \in 1 .. n /\ \A l \in k + 1 .. (n + 1) - 1 : l \in 1 .. n
    OBVIOUS
  <2>. QED
    BY <2>1 DEF mayBegin
<1>. QED
  BY <1>4, <1>5, <1>6

\* A frame ends no message, or one.
LEMMA NoneEnds ==
    ASSUME NEW d, NEW n \in Nat, NEW ms, AllOf(d, n, ms), \A i \in 1 .. n + 1 : ~IsMessage(d, i, n + 1)
    PROVE  AllOf(d, n + 1, ms)
<1>1. Ends(d, n + 1) = Ends(d, n)
  BY DEF Ends
<1>. QED
  BY <1>1 DEF AllOf

\* If it ends one, that message is the next of them.
LEMMA OneEnds ==
    ASSUME NEW d, NEW n \in Nat, NEW X, NEW ms \in Seq(X), AllOf(d, n, ms),
           NEW s \in 1 .. n + 1, IsMessage(d, s, n + 1), Message(d, s, n + 1) \in X,
           \A i \in 1 .. n + 1 : IsMessage(d, i, n + 1) => i = s
    PROVE  AllOf(d, n + 1, Append(ms, Message(d, s, n + 1)))
<1>. DEFINE E == Ends(d, n)
            M == Message(d, s, n + 1)
            all == Append(ms, M)
            c == Cardinality(E)
<1>1. Ends(d, n + 1) = E \cup {n + 1} /\ n + 1 \notin E
  <2>1. n + 1 \in Ends(d, n + 1)
    BY DEF Ends
  <2>2. \A j \in 1 .. n + 1 : j \in 1 .. n \/ j = n + 1
    OBVIOUS
  <2>3. \A j \in Ends(d, n + 1) : j \in E \/ j = n + 1
    BY <2>2 DEF Ends
  <2>4. \A j \in E : j \in Ends(d, n + 1) /\ j # n + 1
    BY DEF Ends
  <2>. QED
    BY <2>1, <2>3, <2>4
<1>2. IsFiniteSet(E) /\ c \in Nat
  <2>1. IsFiniteSet(1 .. n) /\ E \subseteq 1 .. n
    BY FS_Interval DEF Ends
  <2>. QED
    BY <2>1, FS_Subset, FS_CardinalityType
<1>3. Cardinality(Ends(d, n + 1)) = c + 1
  BY <1>1, <1>2, FS_AddElement
<1>4. /\ Len(ms) = c
      /\ \A j \in E : \A i \in 1 .. j : IsMessage(d, i, j) => ms[Cardinality(Ends(d, j))] = Message(d, i, j)
  BY DEF AllOf
<1>5. Len(all) = c + 1 /\ all[c + 1] = M /\ \A k \in 1 .. c : all[k] = ms[k]
  BY <1>2, <1>4
<1>6. ASSUME NEW j \in E PROVE Cardinality(Ends(d, j)) \in 1 .. c
  <2>1. j \in 1 .. n /\ \E i \in 1 .. j : IsMessage(d, i, j)
    BY DEF Ends
  <2>2. j \in Ends(d, j)
    BY <2>1 DEF Ends
  <2>3. Ends(d, j) \subseteq E
    BY <2>1 DEF Ends
  <2>4. IsFiniteSet(Ends(d, j)) /\ Cardinality(Ends(d, j)) <= c /\ Cardinality(Ends(d, j)) \in Nat
    BY <1>2, <2>3, FS_Subset, FS_CardinalityType
  <2>5. Cardinality(Ends(d, j)) # 0
    BY <2>2, <2>4, FS_EmptySet
  <2>. HIDE DEF E, c
  <2>. QED
    BY <1>2, <2>4, <2>5
<1>. HIDE DEF E, M, all, c
<1>7. ASSUME NEW j \in Ends(d, n + 1), NEW i \in 1 .. j, IsMessage(d, i, j)
      PROVE  all[Cardinality(Ends(d, j))] = Message(d, i, j)
  <2>1. CASE j = n + 1
    BY <1>3, <1>5, <1>7, <2>1 DEF M
  <2>2. CASE j \in E
    BY <1>4, <1>5, <1>6, <1>7, <2>2
  <2>. QED
    BY <1>1, <2>1, <2>2
<1>. QED
  BY <1>3, <1>5, <1>7 DEF AllOf, all, M

\* The fragments from s to n are of a message that is not finished, m so far.
Unfinished(d, s, n, opcode, m) ==
    /\ d[s].op = opcode /\ opcode \in {"text", "binary"} /\ mayBegin(d, s)
    /\ \A k \in s .. n : isData(d[k]) => ~d[k].fin /\ (d[k].op = "cont" <=> k # s)
    /\ m = bytesOf(d, s, n)
\* What was received after n frames: all messages, and the fragments of one more
Received(d, n, opcode, m, ms) ==
    AllOf(d, n, ms) /\ (opcode # "" => \E s \in 1 .. n : Unfinished(d, s, n, opcode, m))

\* It stays so when the client sends more,
LEMMA ReceivedKept ==
    ASSUME NEW d, NEW e, NEW n \in Nat, \A k \in 1 .. n : e[k] = d[k],
           NEW o, NEW m, NEW ms, Received(d, n, o, m, ms)
    PROVE  /\ Received(e, n, o, m, ms) /\ \A m2 : Received(e, n, "", m2, ms)
           /\ mayBegin(d, n + 1) => mayBegin(e, n + 1)
<1>1. \A k \in 1 .. n : d[k] = e[k]
  OBVIOUS
<1>2. AllOf(e, n, ms) /\ (mayBegin(d, n + 1) => mayBegin(e, n + 1))
  BY <1>1, AllLater DEF Received
<1>3. ASSUME o # "" PROVE \E s \in 1 .. n : Unfinished(e, s, n, o, m)
  <2>2. PICK s \in 1 .. n : Unfinished(d, s, n, o, m)
    BY <1>3 DEF Received
  <2>3. bytesOf(d, s, n) = bytesOf(e, s, n)
    <3>1. n \in 1 .. n
      OBVIOUS
    <3>. QED
      BY <1>1, <3>1, Later
  <2>4. mayBegin(d, s) => mayBegin(e, s)
    <3>1. \A k \in 1 .. s - 1 : k \in 1 .. n /\ \A l \in k + 1 .. s - 1 : l \in 1 .. n
      OBVIOUS
    <3>. QED
      BY <1>1, <3>1 DEF mayBegin
  <2>5. \A k \in s .. n : d[k] = e[k]
    OBVIOUS
  <2>6. s \in s .. n
    OBVIOUS
  <2>7. Unfinished(e, s, n, o, m)
    BY <2>2, <2>3, <2>4, <2>5, <2>6 DEF Unfinished
  <2>. QED
    BY <2>7
<1>. QED
  BY <1>2, <1>3 DEF Received

\* when a control frame is taken,
LEMMA ReceivedControl ==
    ASSUME NEW d, NEW n \in Nat, d[n + 1] \in Frames, ~isData(d[n + 1]),
           NEW o, NEW m, NEW ms, Received(d, n, o, m, ms)
    PROVE  /\ Received(d, n + 1, o, m, ms) /\ \A m2 : Received(d, n + 1, "", m2, ms)
           /\ mayBegin(d, n + 1) => mayBegin(d, (n + 1) + 1)
<1>1. AllOf(d, n + 1, ms)
  <2>1. \A i \in 1 .. n + 1 : ~IsMessage(d, i, n + 1)
    BY DEF IsMessage
  <2>. QED
    BY <2>1, NoneEnds DEF Received
<1>2. ASSUME o # "" PROVE \E s \in 1 .. n + 1 : Unfinished(d, s, n + 1, o, m)
  <2>2. PICK s \in 1 .. n : Unfinished(d, s, n, o, m)
    BY <1>2 DEF Received
  <2>3. bytesOf(d, s, n + 1) = bytesOf(d, s, n)
    <3>1. s \in Nat \ {0} /\ s <= n + 1
      OBVIOUS
    <3>2. bytesOf(d, s, n + 1) = joinedTo(d, s, n, d[n + 1])
      BY <3>1, BytesMore
    <3>. QED
      BY <3>2 DEF joinedTo
  <2>4. \A k \in s .. n + 1 : isData(d[k]) => k \in s .. n
    OBVIOUS
  <2>5. Unfinished(d, s, n + 1, o, m)
    BY <2>2, <2>3, <2>4 DEF Unfinished
  <2>6. s \in 1 .. n + 1
    OBVIOUS
  <2>. QED
    BY <2>5, <2>6
<1>3. ASSUME mayBegin(d, n + 1) PROVE mayBegin(d, (n + 1) + 1)
  <2>2. \A k \in 1 .. ((n + 1) + 1) - 1 : isData(d[k]) => k \in 1 .. (n + 1) - 1
    OBVIOUS
  <2>3. \A k \in 1 .. n : k + 1 .. (n + 1) - 1 \subseteq k + 1 .. ((n + 1) + 1) - 1
    OBVIOUS
  <2>. QED
    BY <1>3, <2>2, <2>3 DEF mayBegin
<1>. QED
  BY <1>1, <1>2, <1>3 DEF Received

\* when a fragment is taken that is of no message: it continues none, or begins one
\* before the other has ended,
Misplaced(f, o) == (f.op = "cont" /\ o = "") \/ (f.op # "cont" /\ o # "")
\* When no fragment is kept a message may begin.
Ready(d, n, o) == o = "" => mayBegin(d, n + 1)
LEMMA MisplacedEndsNone ==
    ASSUME NEW d, NEW n \in Nat, NEW o, NEW m, NEW ms, Received(d, n, o, m, ms), Ready(d, n, o),
           Misplaced(d[n + 1], o), NEW i \in 1 .. n + 1, IsMessage(d, i, n + 1)
    PROVE  FALSE
<1>1. /\ isData(d[i]) /\ isData(d[n + 1]) /\ mayBegin(d, i)
      /\ \A k \in i .. n + 1 : isData(d[k]) => (d[k].fin <=> k = n + 1) /\ (d[k].op = "cont" <=> k # i)
  BY DEF IsMessage
<1>2. n + 1 \in i .. n + 1 /\ i \in i .. n + 1
  OBVIOUS
<1>3. CASE d[n + 1].op = "cont"
  <2>1. i # n + 1 /\ i \in 1 .. (n + 1) - 1 /\ ~d[i].fin
    BY <1>1, <1>2, <1>3
  <2>2. mayBegin(d, n + 1)
    BY <1>3 DEF Misplaced, Ready
  <2>3. PICK l \in i + 1 .. (n + 1) - 1 : isData(d[l]) /\ d[l].fin
    BY <1>1, <2>1, <2>2 DEF mayBegin
  <2>4. l \in i .. n + 1 /\ l # n + 1
    OBVIOUS
  <2>. QED
    BY <1>1, <2>3, <2>4
<1>4. CASE d[n + 1].op # "cont"
  <2>1. i = n + 1
    BY <1>1, <1>2, <1>4
  <2>2. PICK s \in 1 .. n : Unfinished(d, s, n, o, m)
    BY <1>4 DEF Received, Misplaced
  <2>3. isData(d[s]) /\ s \in s .. n
    BY <2>2 DEF Unfinished, isData, Data
  <2>4. ~d[s].fin /\ s \in 1 .. i - 1
    BY <2>1, <2>2, <2>3 DEF Unfinished
  <2>5. PICK l \in s + 1 .. i - 1 : isData(d[l]) /\ d[l].fin
    BY <1>1, <2>3, <2>4 DEF mayBegin
  <2>6. l \in s .. n
    BY <2>1
  <2>. QED
    BY <2>2, <2>5, <2>6 DEF Unfinished
<1>. QED
  BY <1>3, <1>4

\* and when one is that belongs to the message from s on, of opcode o2, b with it.
Assembles(d, s, n, o2, b) ==
    /\ d[s].op = o2 /\ o2 \in {"text", "binary"} /\ mayBegin(d, s)
    /\ \A k \in s .. n : isData(d[k]) => (d[k].fin => k = n) /\ (d[k].op = "cont" <=> k # s)
    /\ b = bytesOf(d, s, n) /\ Len(b) = sizeOf(d, s, n)
    /\ \A i \in 1 .. n : IsMessage(d, i, n) => i = s
InPlace(f, o) == (f.op = "cont" /\ o # "") \/ (f.op # "cont" /\ o = "")
with(m, f) == IF f.op = "cont" THEN m \o f.data ELSE f.data
LEMMA PlacedAssembles ==
    ASSUME NEW d, NEW n \in Nat, NEW o, NEW m, NEW ms, Received(d, n, o, m, ms),
           Ready(d, n, o),
           d[n + 1] \in Frames, isData(d[n + 1]), InPlace(d[n + 1], o)
    PROVE  \E s \in 1 .. n + 1 :
              Assembles(d, s, n + 1, IF d[n + 1].op = "cont" THEN o ELSE d[n + 1].op, with(m, d[n + 1]))
<1>. DEFINE f == d[n + 1]
<1>1. ASSUME NEW s \in 1 .. n + 1 PROVE Len(bytesOf(d, s, n + 1)) = sizeOf(d, s, n + 1)
  <2>1. s \in Nat /\ n + 1 \in Nat
    OBVIOUS
  <2>2. sizeOf(d, s, n + 1) \in Nat
    BY <2>1, PiecesFinite
  <2>. QED
    BY <2>2 DEF bytesOf
<1>2. ASSUME NEW i \in 1 .. n + 1, IsMessage(d, i, n + 1)
      PROVE  /\ isData(d[i]) /\ i \in i .. n + 1 /\ n + 1 \in i .. n + 1
             /\ \A k \in i .. n + 1 : isData(d[k]) => (d[k].fin <=> k = n + 1) /\ (d[k].op = "cont" <=> k # i)
  BY <1>2 DEF IsMessage
<1>3. CASE f.op = "cont"
  <2>1. PICK s \in 1 .. n : Unfinished(d, s, n, o, m)
    BY <1>3 DEF Received, InPlace
  <2>2. bytesOf(d, s, n + 1) = m \o f.data
    <3>1. s \in Nat \ {0} /\ s <= n + 1
      OBVIOUS
    <3>2. bytesOf(d, s, n + 1) = joinedTo(d, s, n, d[n + 1])
      BY <3>1, BytesMore
    <3>. QED
      BY <2>1, <3>2 DEF joinedTo, Unfinished
  <2>3. isData(d[s]) /\ s \in 1 .. n + 1
    BY <2>1 DEF Unfinished, isData, Data
  <2>4. ASSUME NEW k \in s .. n + 1, isData(d[k])
        PROVE  (d[k].fin => k = n + 1) /\ (d[k].op = "cont" <=> k # s)
    <3>1. CASE k = n + 1
      BY <1>3, <3>1
    <3>2. CASE k # n + 1
      <4>1. k \in s .. n
        BY <3>2
      <4>. QED
        BY <2>1, <2>4, <4>1 DEF Unfinished
    <3>. QED
      BY <3>1, <3>2
  <2>5. ASSUME NEW i \in 1 .. n + 1, IsMessage(d, i, n + 1) PROVE i = s
    <3>1. i # n + 1
      BY <1>2, <1>3, <2>5
    <3>2. CASE i < s
      <4>1. s \in i .. n + 1 /\ d[s].op # "cont" /\ s # i
        BY <2>1, <3>2 DEF Unfinished
      <4>. QED
        BY <1>2, <2>3, <2>5, <4>1
    <3>3. CASE s < i
      <4>1. i \in s .. n /\ i # s
        BY <3>1, <3>3
      <4>2. d[i].op = "cont"
        BY <1>2, <2>1, <2>5, <4>1 DEF Unfinished
      <4>. QED
        BY <1>2, <2>5, <4>2
    <3>. QED
      BY <3>2, <3>3
  <2>6. Assembles(d, s, n + 1, o, m \o f.data)
    BY <1>1, <2>1, <2>2, <2>3, <2>4, <2>5 DEF Assembles, Unfinished
  <2>. QED
    BY <1>3, <2>3, <2>6 DEF with
<1>4. CASE f.op # "cont"
  <2>. DEFINE s == n + 1
  <2>1. o = "" /\ mayBegin(d, s) /\ f.op \in {"text", "binary"}
    BY <1>4 DEF Ready, InPlace, isData, Data
  <2>2. bytesOf(d, s, s) = f.data
    <3>1. s \in Nat \ {0} /\ s <= n + 1
      OBVIOUS
    <3>2. bytesOf(d, s, n + 1) = joinedTo(d, s, n, d[n + 1])
      BY <3>1, BytesMore
    <3>3. sizeOf(d, s, n) = 0
      BY <3>1, PiecesFinite
    <3>4. bytesOf(d, s, n) = <<>>
      BY <3>3 DEF bytesOf
    <3>5. f.data \in Seq(Byte)
      BY FramesAssumption
    <3>6. <<>> \o f.data = f.data
      BY <3>5
    <3>. QED
      BY <3>2, <3>4, <3>6 DEF joinedTo
  <2>3. s \in 1 .. n + 1 /\ \A k \in s .. s : k = s
    OBVIOUS
  <2>4. ASSUME NEW i \in 1 .. s, IsMessage(d, i, s) PROVE i = s
    BY <1>2, <1>4, <2>4
  <2>5. Assembles(d, s, s, f.op, f.data)
    BY <1>1, <1>4, <2>1, <2>2, <2>3, <2>4 DEF Assembles
  <2>. QED
    BY <1>4, <2>3, <2>5 DEF with
<1>. QED
  BY <1>3, <1>4

\* Whether the message may be given to the program
Fine(o2, b) == Len(b) <= max_message_size /\ (o2 = "text" => valid_utf8(b))
\* Nothing is left of it
Rests(d, n, ms) == \A m2 : Received(d, n, "", m2, ms)
\* Taken are a fragment that is not the last,
LEMMA FragmentTaken ==
    ASSUME NEW d, NEW n \in Nat, NEW ms, AllOf(d, n, ms), NEW s \in 1 .. n + 1, NEW o2, NEW b,
           Assembles(d, s, n + 1, o2, b), isData(d[n + 1]), ~d[n + 1].fin
    PROVE  Received(d, n + 1, o2, b, ms) /\ Rests(d, n + 1, ms) /\ Ready(d, n + 1, o2)
<1>1. \A i \in 1 .. n + 1 : ~IsMessage(d, i, n + 1)
  <2>1. ASSUME NEW i \in 1 .. n + 1, IsMessage(d, i, n + 1) PROVE FALSE
    <3>1. n + 1 \in i .. n + 1
      OBVIOUS
    <3>. QED
      BY <2>1, <3>1 DEF IsMessage
  <2>. QED
    BY <2>1
<1>2. AllOf(d, n + 1, ms)
  BY <1>1, NoneEnds
<1>3. Unfinished(d, s, n + 1, o2, b)
  BY DEF Assembles, Unfinished
<1>4. o2 # ""
  BY DEF Assembles
<1>. QED
  BY <1>2, <1>3, <1>4 DEF Received, Rests, Ready

\* (after the last another message may begin)
LEMMA NextMayBegin ==
    ASSUME NEW d, NEW n \in Nat, isData(d[n + 1]), d[n + 1].fin
    PROVE  \A o2 : Ready(d, n + 1, o2)
<1>1. \A k \in 1 .. ((n + 1) + 1) - 1 : k = n + 1 \/ n + 1 \in k + 1 .. ((n + 1) + 1) - 1
  OBVIOUS
<1>2. mayBegin(d, (n + 1) + 1)
  BY <1>1 DEF mayBegin
<1>. QED
  BY <1>2 DEF Ready

\* the last one of a message that is fine,
LEMMA MessageTaken ==
    ASSUME NEW d, NEW n \in Nat, NEW X, NEW ms \in Seq(X), AllOf(d, n, ms), NEW s \in 1 .. n + 1, NEW o2, NEW b,
           Assembles(d, s, n + 1, o2, b), isData(d[n + 1]), d[n + 1].fin,
           [op |-> o2, data |-> b] \in X, Fine(o2, b)
    PROVE  Rests(d, n + 1, Append(ms, [op |-> o2, data |-> b]))
<1>1. /\ mayBegin(d, s) /\ isData(d[s]) /\ d[s].op = o2 /\ n + 1 \in s .. n + 1
      /\ b = bytesOf(d, s, n + 1) /\ Len(b) = sizeOf(d, s, n + 1)
      /\ \A i \in 1 .. n + 1 : IsMessage(d, i, n + 1) => i = s
  BY DEF Assembles, isData, Data
<1>2. \A k \in s .. n + 1 : isData(d[k]) => (d[k].fin <=> k = n + 1) /\ (d[k].op = "cont" <=> k # s)
  BY DEF Assembles
<1>3. IsMessage(d, s, n + 1)
  BY <1>1, <1>2 DEF IsMessage, Fine
<1>4. Message(d, s, n + 1) = [op |-> o2, data |-> b]
  BY <1>1 DEF Message
<1>5. Message(d, s, n + 1) \in X
  BY <1>4
<1>6. AllOf(d, n + 1, Append(ms, Message(d, s, n + 1)))
  BY <1>1, <1>3, <1>5, OneEnds
<1>. QED
  BY <1>4, <1>6 DEF Received, Rests

\* or of one that is not,
LEMMA MessageRefused ==
    ASSUME NEW d, NEW n \in Nat, NEW ms, AllOf(d, n, ms), NEW s \in 1 .. n + 1, NEW o2, NEW b,
           Assembles(d, s, n + 1, o2, b), ~Fine(o2, b)
    PROVE  Rests(d, n + 1, ms)
<1>1. ASSUME NEW i \in 1 .. n + 1, IsMessage(d, i, n + 1) PROVE FALSE
  <2>1. i = s
    BY <1>1 DEF Assembles
  <2>2. Fine(o2, b)
    BY <1>1, <2>1 DEF IsMessage, Fine, Assembles
  <2>. QED
    BY <2>2
<1>2. AllOf(d, n + 1, ms)
  BY <1>1, NoneEnds
<1>. QED
  BY <1>2 DEF Received, Rests

\* or one out of place.
LEMMA MisplacedTaken ==
    ASSUME NEW d, NEW n \in Nat, NEW o, NEW m, NEW ms, Received(d, n, o, m, ms), Ready(d, n, o),
           Misplaced(d[n + 1], o)
    PROVE  Rests(d, n + 1, ms)
<1>1. \A i \in 1 .. n + 1 : ~IsMessage(d, i, n + 1)
  BY MisplacedEndsNone
<1>2. AllOf(d, n + 1, ms)
  BY <1>1, NoneEnds DEF Received
<1>. QED
  BY <1>2 DEF Received, Rests
-----------------------------------------------------------------------------
\* What receive() has returned and keeps, as long as close() takes no frames
Delivery == [op : {"text", "binary"}, data : Seq(Byte)]
DeliveredTypes == delivered \in Seq(Delivery)
Delivering ==
    ~asked => /\ Received(sent, Taken, msg_opcode, msg, delivered)
              /\ ~closed => Ready(sent, Taken, msg_opcode)

\* Nothing is returned, and what is kept stays or is dropped for good.
Waits == /\ delivered' = delivered /\ (asked => asked') /\ (closed => closed')
         /\ UNCHANGED message \/ (msg_opcode' = "" /\ closed')

\* as when nothing of it changes
LEMMA Idles ==
    ASSUME asked' = asked, closed' = closed, delivered' = delivered, UNCHANGED message
    PROVE  Waits
  BY Zenon DEF Waits

\* That keeps it when no frame is taken
LEMMA DeliveringKept ==
    ASSUME Stream, Delivering, Kept, Waits
    PROVE  Delivering'
<1>. SUFFICES ASSUME ~asked'
              PROVE  /\ Received(sent, Taken, msg_opcode, msg, delivered)'
                     /\ ~closed' => Ready(sent, Taken, msg_opcode)'
  BY DEF Delivering
<1>1. /\ Taken \in Nat /\ \A k \in 1 .. Taken : sent'[k] = sent[k]
      /\ Received(sent, Taken, msg_opcode, msg, delivered)
  BY DEF Stream, Lies, Kept, Delivering, Waits
<1>2. /\ Received(sent', Taken, msg_opcode, msg, delivered)
      /\ \A m2 : Received(sent', Taken, "", m2, delivered)
      /\ mayBegin(sent, Taken + 1) => mayBegin(sent', Taken + 1)
  BY <1>1, ReceivedKept
<1>3. Ready(sent, Taken, msg_opcode) => Ready(sent', Taken, msg_opcode)
  BY <1>2 DEF Ready
<1>4. Taken' = Taken /\ delivered' = delivered
  BY DEF Kept, Waits
<1>5. CASE UNCHANGED message
  <2>1. ~closed' => Ready(sent, Taken, msg_opcode)
    BY DEF Delivering, Waits
  <2>. QED
    BY <1>2, <1>3, <1>4, <1>5, <2>1 DEF message
<1>6. CASE msg_opcode' = "" /\ closed'
  BY <1>2, <1>4, <1>6
<1>. QED
  BY <1>5, <1>6 DEF Waits

\* and when a control frame is.
LEMMA DeliveringTook ==
    ASSUME Stream, Delivering, Took, ~isData(Head(rbuf)), Waits
    PROVE  Delivering'
<1>. SUFFICES ASSUME ~asked'
              PROVE  /\ Received(sent, Taken, msg_opcode, msg, delivered)'
                     /\ ~closed' => Ready(sent, Taken, msg_opcode)'
  BY DEF Delivering
<1>1. /\ Taken \in Nat /\ sent[Taken + 1] \in Frames /\ ~isData(sent[Taken + 1])
      /\ Received(sent, Taken, msg_opcode, msg, delivered)
  BY DEF Stream, Lies, Took, Delivering, Waits
<1>2. /\ Received(sent, Taken + 1, msg_opcode, msg, delivered)
      /\ \A m2 : Received(sent, Taken + 1, "", m2, delivered)
      /\ mayBegin(sent, Taken + 1) => mayBegin(sent, (Taken + 1) + 1)
  BY <1>1, ReceivedControl
<1>3. Ready(sent, Taken, msg_opcode) => Ready(sent, Taken + 1, msg_opcode)
  BY <1>2 DEF Ready
<1>4. Taken' = Taken + 1 /\ delivered' = delivered /\ sent' = sent
  BY DEF Took, Waits
<1>5. CASE UNCHANGED message
  <2>1. ~closed' => Ready(sent, Taken, msg_opcode)
    BY DEF Delivering, Waits
  <2>. QED
    BY <1>2, <1>3, <1>4, <1>5, <2>1 DEF message
<1>6. CASE msg_opcode' = "" /\ closed'
  BY <1>2, <1>4, <1>6
<1>. QED
  BY <1>5, <1>6 DEF Waits

\* What follows from a fragment that is taken
Stops == msg_opcode' = "" /\ delivered' = delivered /\ closed'
Joins(o, b) == msg_opcode' = o /\ msg' = b /\ delivered' = delivered /\ closed' = closed
Returns(o, b) ==
    msg_opcode' = "" /\ delivered' = Append(delivered, [op |-> o, data |-> b]) /\ closed' = closed

\* A fragment out of place stops the connection;
LEMMA PlaceIs ==
    ASSUME NEW f
    PROVE  /\ outOfPlace(f) => Misplaced(f, msg_opcode)
           /\ ~outOfPlace(f) => InPlace(f, msg_opcode)
<1>1. CASE f.op = "cont"
  BY <1>1, Zenon DEF outOfPlace, Misplaced, InPlace
<1>2. CASE f.op # "cont"
  BY <1>2, Zenon DEF outOfPlace, Misplaced, InPlace
<1>. QED
  BY <1>1, <1>2

\* one that is not the last is kept unless there is too much of it,
LEMMA FragmentEffects ==
    ASSUME receiveFragment
    PROVE  /\ ~outOfPlace(Head(rbuf)) /\ ~Head(rbuf).fin
           /\ Stops \/ Joins(opcodeOf(Head(rbuf)), joined(Head(rbuf)))
  BY Zenon DEF receiveFragment, failed, Stops, Joins

\* and with the last the message is returned if it is fine.
LEMMA MessageEffects ==
    ASSUME receiveMessage, Len(joined(Head(rbuf))) \in Nat
    PROVE  \/ outOfPlace(Head(rbuf)) /\ Stops
           \/ /\ ~outOfPlace(Head(rbuf)) /\ Head(rbuf).fin
              /\ \/ ~Fine(opcodeOf(Head(rbuf)), joined(Head(rbuf))) /\ Stops
                 \/ Fine(opcodeOf(Head(rbuf)), joined(Head(rbuf)))
                    /\ Returns(opcodeOf(Head(rbuf)), joined(Head(rbuf)))
<1>. DEFINE f == Head(rbuf)
<1>1. tooBig(joined(f)) => ~(Len(joined(f)) <= max_message_size)
  BY BoundsAssumption DEF tooBig
<1>2. ~tooBig(joined(f)) => Len(joined(f)) <= max_message_size
  BY BoundsAssumption DEF tooBig
<1>3. \A code : failed(code, TRUE) => Stops
  BY Zenon DEF failed, Stops
<1>4. CASE outOfPlace(f)
  BY <1>3, <1>4, Zenon DEF receiveMessage
<1>5. CASE ~outOfPlace(f) /\ tooBig(joined(f))
  BY <1>1, <1>3, <1>5, Zenon DEF receiveMessage, Fine
<1>6. CASE ~outOfPlace(f) /\ ~tooBig(joined(f)) /\ opcodeOf(f) = "text" /\ ~valid_utf8(joined(f))
  BY <1>3, <1>6, Zenon DEF receiveMessage, Fine
<1>7. CASE ~outOfPlace(f) /\ ~tooBig(joined(f)) /\ ~(opcodeOf(f) = "text" /\ ~valid_utf8(joined(f)))
  <2>1. f.fin /\ deliver(opcodeOf(f), joined(f)) /\ msg_opcode' = ""
    BY <1>7, Zenon DEF receiveMessage
  <2>2. Returns(opcodeOf(f), joined(f))
    BY <2>1 DEF deliver, Returns
  <2>3. Fine(opcodeOf(f), joined(f))
    BY <1>2, <1>7, Zenon DEF Fine
  <2>. QED
    BY <1>7, <2>1, <2>2, <2>3, Zenon
<1>. QED
  BY <1>4, <1>5, <1>6, <1>7, Zenon

\* A frame of a message is taken: what there is to know of it
Fragment(f, n) ==
    /\ n \in Nat /\ Taken = n /\ Taken' = n + 1 /\ sent' = sent /\ sent[n + 1] = f
    /\ f = Head(rbuf) /\ f \in Frames /\ f.op \in Data
    /\ ~closed /\ asked' = asked
    /\ joined(f) \in Seq(Byte) /\ Len(joined(f)) \in Nat
    /\ ~outOfPlace(f) => opcodeOf(f) \in {"text", "binary"} /\ InPlace(f, msg_opcode)
    /\ outOfPlace(f) => Misplaced(f, msg_opcode)

LEMMA FragmentIs ==
    ASSUME NetTypes, Stream, MessageTypes, Flags, Took, receiveFragment \/ receiveMessage
    PROVE  Fragment(Head(rbuf), Taken)
<1>. DEFINE f == Head(rbuf)
            n == Taken
<1>1. n \in Nat /\ Taken' = n + 1 /\ sent' = sent /\ sent[n + 1] = f /\ f \in Frames
  BY DEF Stream, Lies, Took
<1>2. pc = "receive" /\ f.op \in Data /\ asked' = asked
  BY DEF receiveFragment, receiveMessage, parsed
<1>3. ~closed
  BY <1>2 DEF Flags
<1>4. joined(f) \in Seq(Byte) /\ Len(joined(f)) \in Nat
  <2>1. f.data \in Seq(Byte) /\ msg \in Seq(Byte)
    BY <1>1, FramesAssumption DEF MessageTypes
  <2>2. msg \o f.data \in Seq(Byte)
    BY <2>1
  <2>3. joined(f) \in Seq(Byte)
    BY <2>1, <2>2 DEF joined
  <2>. QED
    BY <2>3
<1>5. ~outOfPlace(f) => opcodeOf(f) \in {"text", "binary"}
  BY <1>2 DEF outOfPlace, opcodeOf, MessageTypes, Data
<1>. QED
  BY <1>1, <1>2, <1>3, <1>4, <1>5, PlaceIs DEF Fragment

\* What is returned is a message.
LEMMA DeliveredTyped ==
    ASSUME DeliveredTypes, Fragment(Head(rbuf), Taken), receiveFragment \/ receiveMessage
    PROVE  DeliveredTypes'
<1>. DEFINE f == Head(rbuf)
<1>1. CASE Stops \/ Joins(opcodeOf(f), joined(f))
  BY <1>1 DEF Stops, Joins, DeliveredTypes
<1>2. CASE ~outOfPlace(f) /\ Returns(opcodeOf(f), joined(f))
  <2>1. [op |-> opcodeOf(f), data |-> joined(f)] \in Delivery
    BY <1>2 DEF Fragment, Delivery
  <2>. QED
    <3>1. PICK m \in Delivery : m = [op |-> opcodeOf(f), data |-> joined(f)]
      BY <2>1
    <3>2. delivered' = Append(delivered, m)
      BY <1>2, <3>1 DEF Returns
    <3>. QED
      BY <3>2 DEF DeliveredTypes
<1>3. Len(joined(f)) \in Nat
  BY DEF Fragment
<1>. QED
  BY <1>1, <1>2, <1>3, FragmentEffects, MessageEffects

\* It belongs to no message,
LEMMA DeliveringMisplaced ==
    ASSUME Delivering, ~asked, Fragment(Head(rbuf), Taken), outOfPlace(Head(rbuf)), Stops
    PROVE  Delivering'
<1>1. /\ Taken \in Nat /\ Received(sent, Taken, msg_opcode, msg, delivered) /\ Ready(sent, Taken, msg_opcode)
      /\ Misplaced(sent[Taken + 1], msg_opcode)
  BY DEF Delivering, Fragment
<1>2. Rests(sent, Taken + 1, delivered)
  BY <1>1, MisplacedTaken
<1>3. Received(sent, Taken, msg_opcode, msg, delivered)' /\ closed'
  BY <1>2 DEF Rests, Stops, Fragment
<1>. QED
  BY <1>3 DEF Delivering

\* or to the one that begins with frame s.
LEMMA DeliveringAssembles ==
    ASSUME Delivering, ~asked, Fragment(Head(rbuf), Taken), ~outOfPlace(Head(rbuf))
    PROVE  /\ AllOf(sent, Taken, delivered) /\ isData(sent[Taken + 1])
           /\ \E s \in 1 .. Taken + 1 : Assembles(sent, s, Taken + 1, opcodeOf(Head(rbuf)), joined(Head(rbuf)))
<1>. DEFINE f == Head(rbuf)
<1>1. /\ Taken \in Nat /\ Received(sent, Taken, msg_opcode, msg, delivered) /\ Ready(sent, Taken, msg_opcode)
      /\ InPlace(sent[Taken + 1], msg_opcode) /\ sent[Taken + 1] \in Frames /\ isData(sent[Taken + 1])
      /\ sent[Taken + 1] = f
  BY DEF Delivering, Fragment, isData
<1>2. \E s \in 1 .. Taken + 1 :
         Assembles(sent, s, Taken + 1, IF sent[Taken + 1].op = "cont" THEN msg_opcode ELSE sent[Taken + 1].op,
                   with(msg, sent[Taken + 1]))
  BY <1>1, PlacedAssembles
<1>3. opcodeOf(f) = IF f.op = "cont" THEN msg_opcode ELSE f.op
  BY DEF opcodeOf
<1>4. joined(f) = with(msg, f)
  BY DEF joined, with
<1>. QED
  BY <1>1, <1>2, <1>3, <1>4 DEF Received

\* It is not the last one:
LEMMA DeliveringFragment ==
    ASSUME Delivering, ~asked, Fragment(Head(rbuf), Taken), receiveFragment
    PROVE  Delivering'
<1>. DEFINE o == opcodeOf(Head(rbuf))
            b == joined(Head(rbuf))
<1>1. ~outOfPlace(Head(rbuf)) /\ ~Head(rbuf).fin /\ (Stops \/ Joins(o, b))
  BY FragmentEffects
<1>2. Taken \in Nat /\ Taken' = Taken + 1 /\ sent' = sent /\ ~sent[Taken + 1].fin
  BY <1>1 DEF Fragment
<1>. HIDE DEF o, b
<1>3. AllOf(sent, Taken, delivered) /\ isData(sent[Taken + 1])
  BY <1>1, DeliveringAssembles
<1>4. PICK s \in 1 .. Taken + 1 : Assembles(sent, s, Taken + 1, o, b)
  BY <1>1, DeliveringAssembles DEF o, b
<1>5. /\ Received(sent, Taken + 1, o, b, delivered) /\ Rests(sent, Taken + 1, delivered)
      /\ Ready(sent, Taken + 1, o)
  BY <1>2, <1>3, <1>4, FragmentTaken
<1>6. CASE Stops
  <2>1. Received(sent, Taken, msg_opcode, msg, delivered)' /\ closed'
    BY <1>2, <1>5, <1>6 DEF Rests, Stops
  <2>. QED
    BY <2>1 DEF Delivering
<1>7. CASE Joins(o, b)
  <2>1. Received(sent, Taken, msg_opcode, msg, delivered)' /\ Ready(sent, Taken, msg_opcode)'
    BY <1>2, <1>5, <1>7 DEF Joins
  <2>. QED
    BY <2>1 DEF Delivering
<1>. QED
  BY <1>1, <1>6, <1>7

\* it is, and the message is returned or refused.
LEMMA DeliveringMessage ==
    ASSUME Delivering, DeliveredTypes, ~asked, Fragment(Head(rbuf), Taken), receiveMessage
    PROVE  Delivering'
<1>. DEFINE f == Head(rbuf)
            o == opcodeOf(Head(rbuf))
            b == joined(Head(rbuf))
<1>1. CASE outOfPlace(f) /\ Stops
  BY <1>1, DeliveringMisplaced
<1>2. CASE /\ ~outOfPlace(f) /\ f.fin
           /\ (~Fine(o, b) /\ Stops) \/ (Fine(o, b) /\ Returns(o, b))
  <2>1. Taken \in Nat /\ Taken' = Taken + 1 /\ sent' = sent /\ sent[Taken + 1].fin
    BY <1>2 DEF Fragment
  <2>2. [op |-> o, data |-> b] \in Delivery
    BY <1>2 DEF Fragment, Delivery
  <2>. HIDE DEF o, b
  <2>3. AllOf(sent, Taken, delivered) /\ isData(sent[Taken + 1])
    BY <1>2, DeliveringAssembles
  <2>4. PICK s \in 1 .. Taken + 1 : Assembles(sent, s, Taken + 1, o, b)
    BY <1>2, DeliveringAssembles DEF o, b
  <2>5. \A o2 : Ready(sent, Taken + 1, o2)
    BY <2>1, <2>3, NextMayBegin
  <2>6. CASE ~Fine(o, b) /\ Stops
    <3>1. Rests(sent, Taken + 1, delivered)
      BY <2>1, <2>3, <2>4, <2>6, MessageRefused
    <3>2. Received(sent, Taken, msg_opcode, msg, delivered)' /\ closed'
      BY <2>1, <2>6, <3>1 DEF Rests, Stops
    <3>. QED
      BY <3>2 DEF Delivering
  <2>7. CASE Fine(o, b) /\ Returns(o, b)
    <3>1. delivered \in Seq(Delivery)
      BY DEF DeliveredTypes
    <3>2. Rests(sent, Taken + 1, Append(delivered, [op |-> o, data |-> b]))
      BY <2>1, <2>2, <2>3, <2>4, <2>7, <3>1, MessageTaken
    <3>3. Received(sent, Taken, msg_opcode, msg, delivered)' /\ Ready(sent, Taken, msg_opcode)'
      BY <2>1, <2>5, <2>7, <3>2 DEF Rests, Returns
    <3>. QED
      BY <3>3 DEF Delivering
  <2>. QED
    BY <1>2, <2>6, <2>7
<1>3. Len(b) \in Nat
  BY DEF Fragment
<1>. QED
  BY <1>1, <1>2, <1>3, MessageEffects

\* Every step keeps the messages whole.
LEMMA DeliveringStep ==
    ASSUME NetTypes, Stream, MessageTypes, Flags, Delivering, DeliveredTypes, [Next]_vars
    PROVE  Delivering' /\ DeliveredTypes'
<1>1. CASE receiveFragment \/ receiveMessage
  <2>1. Took
    BY <1>1, NetTook DEF receiving
  <2>2. Fragment(Head(rbuf), Taken)
    BY <1>1, <2>1, FragmentIs
  <2>3. CASE asked
    <3>1. asked'
      BY <2>2, <2>3 DEF Fragment
    <3>. QED
      BY <1>1, <2>2, <3>1, DeliveredTyped DEF Delivering
  <2>4. CASE ~asked
    BY <1>1, <2>2, <2>4, DeliveredTyped, DeliveringFragment, DeliveringMessage
  <2>. QED
    BY <2>3, <2>4
<1>2. CASE receivePing \/ receivePong \/ receiveClose \/ receiveRefused
  <2>1. Took
    BY <1>2, NetTook DEF receiving
  <2>2. ~isData(Head(rbuf))
    BY <1>2 DEF receivePing, receivePong, receiveClose, receiveRefused, parsed, isData, Data
  <2>3. Waits
    <3>1. CASE receivePing \/ receivePong
      <4>1. asked' = asked /\ closed' = closed /\ delivered' = delivered /\ UNCHANGED message
        BY <3>1 DEF receivePing, receivePong, flags, request
      <4>. QED
        BY <4>1, Idles
    <3>2. CASE receiveClose
      BY <3>2 DEF receiveClose, Waits
    <3>3. CASE receiveRefused
      BY <3>3, Zenon DEF receiveRefused, failed, Waits
    <3>. QED
      BY <1>2, <3>1, <3>2, <3>3
  <2>. QED
    BY <2>1, <2>2, <2>3, DeliveringTook DEF Waits, DeliveredTypes
<1>3. CASE ignoring
  <2>1. asked' /\ delivered' = delivered
    BY <1>3 DEF ignoring, closeIgnores, closeEnds, request, Flags
  <2>. QED
    BY <2>1 DEF Delivering, DeliveredTypes
<1>4. CASE programCloses \/ mainReturns
  <2>1. asked' /\ delivered' = delivered
    BY <1>4 DEF programCloses, mainReturns, close
  <2>. QED
    BY <2>1 DEF Delivering, DeliveredTypes
<1>5. CASE keeping /\ ~programCloses /\ ~mainReturns
  <2>1. Kept
    BY <1>5, NetKept
  <2>2. Waits
    <3>1. CASE fillEof
      BY <3>1, Zenon DEF fillEof, failed, message, Waits
    <3>2. CASE fillTimeout
      BY <3>2 DEF fillTimeout, fillTimeoutIn, message, Waits
    <3>3. CASE clientSends \/ clientCloses \/ clientResets \/ fillData \/ accept \/ acceptFails
      <4>1. asked' = asked /\ closed' = closed /\ delivered' = delivered /\ UNCHANGED message
        BY <3>3 DEF clientSends, clientCloses, clientResets, fillData, accept, acceptFails, flags, request, message
      <4>. QED
        BY <4>1, Idles
    <3>4. CASE fillError \/ closeInterrupted \/ enterReceive \/ send \/ requestFails \/ dtor
      <4>1. asked' = asked /\ closed' = closed /\ delivered' = delivered /\ UNCHANGED message
        BY <3>4 DEF fillError, closeInterrupted, enterReceive, send, requestFails, dtor, flags, request, message
      <4>. QED
        BY <4>1, Idles
    <3>. QED
      BY <1>5, <3>1, <3>2, <3>3, <3>4 DEF keeping, program
  <2>. QED
    BY <2>1, <2>2, DeliveringKept DEF Waits, DeliveredTypes
<1>6. CASE done \/ UNCHANGED vars
  <2>1. asked' = asked /\ closed' = closed /\ delivered' = delivered /\ UNCHANGED message
    BY <1>6 DEF done, vars, flags, request, message
  <2>2. sent' = sent /\ wire' = wire /\ rbuf' = rbuf /\ peer' = peer /\ Waits
    BY <1>6, <2>1, Idles DEF done, vars, net
  <2>3. Kept
    BY <2>2, NetWaits DEF NetTypes
  <2>. QED
    BY <2>2, <2>3, DeliveringKept DEF Waits, DeliveredTypes
<1>. QED
  BY <1>1, <1>2, <1>3, <1>4, <1>5, <1>6 DEF Next, inCall, keeping, receiving, ignoring
-----------------------------------------------------------------------------
\* Before the handshake nothing has come and nothing was written.
LEMMA Initially ==
    Init => NetTypes /\ Stream /\ MessageTypes /\ Closing /\ PingsAnswered /\ Delivering /\ DeliveredTypes
<1>. SUFFICES ASSUME Init
              PROVE  NetTypes /\ Stream /\ MessageTypes /\ Closing /\ PingsAnswered /\ Delivering /\ DeliveredTypes
  OBVIOUS
<1>2. sent = <<>> /\ wire = <<>> /\ rbuf = <<>> /\ out = <<>>
  BY DEF Init
<1>1. Len(sent) = 0 /\ Len(wire) = 0 /\ Len(rbuf) = 0 /\ Len(out) = 0
  BY <1>2
<1>3. Taken = 0
  BY <1>1 DEF Taken
<1>4. NetTypes
  <2>1. <<>> \in Seq(Frames)
    OBVIOUS
  <2>. QED
    BY <1>2, <2>1 DEF Init, NetTypes
<1>5. Stream
  BY <1>2, <1>3 DEF Stream, Lies
<1>6. MessageTypes
  <2>1. <<>> \in Seq(Byte) /\ Len(<<>>) = 0
    OBVIOUS
  <2>2. max_message_size \in Nat /\ msg = <<>> /\ msg_opcode = ""
    BY BoundsAssumption DEF Init
  <2>3. Len(msg) <= max_message_size
    <3>1. Len(msg) = 0
      BY <2>1, <2>2
    <3>2. \A n \in Nat : 0 <= n
      OBVIOUS
    <3>. QED
      BY <2>2, <3>1, <3>2
  <2>. QED
    BY <2>1, <2>2, <2>3 DEF MessageTypes
<1>7. Nth(out, "pong", 0) = Nth(sent, "ping", 0)
  <2>1. {i \in 1 .. 0 : out[i].op = "pong"} = {i \in 1 .. 0 : sent[i].op = "ping"}
    OBVIOUS
  <2>. QED
    BY <2>1 DEF Nth
<1>8. PingsAnswered
  BY <1>2, <1>3, <1>7 DEF PingsAnswered, PongsFor
<1>9. ~HasClose /\ NoDataAfterClose
  BY <1>2 DEF HasClose, NoDataAfterClose
<1>10. Closing
  <2>1. <<>> \in Seq(OutFrame)
    OBVIOUS
  <2>2. OutTypes
    BY <1>2, <2>1 DEF Init, OutTypes
  <2>3. RequestTypes
    <3>1. MaxSends \in Nat
      BY BoundsAssumption
    <3>2. 0 \in 0 .. MaxSends
      BY <3>1
    <3>. QED
      BY <3>2 DEF Init, RequestTypes
  <2>4. FlagTypes /\ Flags /\ Ended
    BY <1>9 DEF Init, FlagTypes, Flags, Ended
  <2>5. ToldAlike
    BY DEF Init, ToldAlike
  <2>. QED
    BY <1>9, <2>2, <2>3, <2>4, <2>5 DEF Closing
<1>11. Delivering /\ DeliveredTypes
  <2>1. delivered = <<>> /\ msg_opcode = ""
    BY DEF Init
  <2>2. Len(<<>>) = 0 /\ <<>> \in Seq(Delivery) /\ 0 + 1 = 1
    OBVIOUS
  <2>3. Ends(sent, 0) = {}
    BY DEF Ends
  <2>4. AllOf(sent, 0, <<>>)
    BY <2>2, <2>3, FS_EmptySet DEF AllOf
  <2>5. mayBegin(sent, 1)
    BY DEF mayBegin
  <2>6. Received(sent, 0, msg_opcode, msg, <<>>) /\ Ready(sent, 0, msg_opcode)
    BY <2>1, <2>2, <2>4, <2>5 DEF Received, Ready
  <2>. QED
    BY <1>3, <2>1, <2>2, <2>6 DEF Delivering, DeliveredTypes
<1>. QED
  BY <1>4, <1>5, <1>6, <1>8, <1>10, <1>11

IInv == NetTypes /\ Stream /\ MessageTypes /\ Closing /\ PingsAnswered /\ Delivering /\ DeliveredTypes

\* The inductive invariant.
LEMMA Always == Spec => []IInv
<1>1. Init => IInv
  BY Initially DEF IInv
<1>2. IInv /\ [Next]_vars => IInv'
  <2>1. SUFFICES ASSUME IInv, [Next]_vars PROVE IInv'
    OBVIOUS
  <2>2. NetTypes /\ Stream /\ MessageTypes /\ Closing /\ PingsAnswered /\ OutTypes /\ Flags
    BY <2>1 DEF IInv, Closing
  <2>3. NetTypes' /\ Stream' /\ PingsAnswered'
    BY <2>1, <2>2, PingsStep
  <2>4. Closing' /\ MessageTypes'
    BY <2>1, <2>2, ClosingStep, MessageStep
  <2>5. Delivering' /\ DeliveredTypes'
    BY <2>1, <2>2, DeliveringStep DEF IInv
  <2>. QED
    BY <2>3, <2>4, <2>5 DEF IInv
<1>. QED
  BY <1>1, <1>2, PTL DEF Spec

\* Each variable keeps its type, whatever the client sends and however it is cut.
THEOREM TypeCorrect == Spec => []TypeOK
<1>1. IInv => TypeOK
  BY DEF IInv, TypeOK, Closing, NetTypes, OutTypes, FlagTypes, MessageTypes, RequestTypes
<1>. QED
  BY <1>1, Always, PTL

\* Each ping that receive() has taken is answered by a pong with its data, in the
\* order of the pings; after its Close the server sends no message; the program
\* gets the code the client was told; and a client that is there at the end got
\* a Close, from receive(), close() or the destructor.
THEOREM PeerIsAnswered == Spec => []PeerAnswered
<1>1. IInv => PeerAnswered
  <2>1. Closing => EndsWithClose
    BY DEF Closing, Ended, Told, HasClose, EndsWithClose
  <2>. QED
    BY <2>1 DEF IInv, Closing, PeerAnswered, ClosesOnce
<1>. QED
  BY <1>1, Always, PTL

\* What ^websocket:receive() has returned are the messages the client has sent,
\* each whole, in the order they end in and with none missing, for any frames and
\* any cuts of them into reads: fragments are joined over the control frames
\* between them, the first of them starts the message anew, and a message that is
\* too big, is no UTF-8 or whose fragments are out of place is not returned.
THEOREM MessagesAreWhole == Spec => []DeliveredWhole
<1>1. IInv => DeliveredWhole
  BY DEF IInv, Delivering, Received, DeliveredWhole
<1>. QED
  BY <1>1, Always, PTL
=============================================================================
