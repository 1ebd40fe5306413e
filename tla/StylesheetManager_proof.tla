----------------------- MODULE StylesheetManager_proof -----------------------
(***************************************************************************)
(* What is proved of the cache of stylesheets, for any number of           *)
(* connections, seconds, edits and nested transformations.                 *)
(*                                                                         *)
(* GInv is about the thread: which connections are in use (Apart), and     *)
(* that a load that still has its list of files has every file it read in  *)
(* it (Collected), so the list a connection keeps is complete (Known).     *)
(* FInv relates what was compiled to the disk: a file that is not as it    *)
(* was compiled was edited when the load began or later (Sheets, Loads),   *)
(* and a connection that has a stylesheet lists such a file, so the next   *)
(* comparison of times sees it (Lists); Fresh is what a transformation     *)
(* knows of its stylesheet since its call began.                           *)
(***************************************************************************)
EXTENDS StylesheetManager, SequenceTheorems, FiniteSetTheorems, TLAPS

Compiled == [of : [XslFile -> Nat], ext : BOOLEAN, at : Nat]
Loaded == [disk_time : Nat, todo : SUBSET (XslFile \cup {External, Method}),
           of : [XslFile -> Nat], bad : BOOLEAN, ext : BOOLEAN, at : Nat]
Frame == [conn : Conn,
          pc : {"stylesheet", "load", "method", "transform", "failed", "no dependency"},
          loaded : BOOLEAN, load : Loaded, since : [XslFile -> Nat]]

\* What the constants have to be
Parameters ==
    /\ Main # Part /\ XslFile \cap {External, Method} = {} /\ External # Method
    /\ None \notin Compiled /\ Ref \subseteq {Part, External, Method}
    /\ MaxDepth \in Nat /\ IsFiniteSet(Conn) /\ Cardinality(Conn) >= MaxDepth

Types ==
    /\ now \in Nat /\ refs \subseteq Ref
    /\ file \in [XslFile -> [ver : Nat, mtime : Nat, is : {"good", "bad", "missing"}]]
    /\ cache \in Seq(Conn) /\ call \in Seq(Frame)
    /\ sheet \in [Conn -> Compiled \cup {None}]
    /\ deps \in [Conn -> (SUBSET XslFile) \cup {None}]
    /\ disk_time \in [Conn -> Nat]
    /\ xml_dependencies \in (SUBSET XslFile) \cup {None}
-----------------------------------------------------------------------------
\* The stack of transformations

LEMMA Fields ==
    ASSUME NEW r \in Frame
    PROVE  /\ r.conn \in Conn /\ r.loaded \in BOOLEAN /\ r.load \in Loaded
           /\ r.since \in [XslFile -> Nat]
  BY DEF Frame

LEMMA LoadFields ==
    ASSUME NEW l \in Loaded
    PROVE  /\ l.disk_time \in Nat /\ l.at \in Nat /\ l.bad \in BOOLEAN /\ l.ext \in BOOLEAN
           /\ l.of \in [XslFile -> Nat]
           /\ l.todo \in SUBSET (XslFile \cup {External, Method})
  BY DEF Loaded

LEMMA Top ==
    ASSUME call \in Seq(Frame), call # <<>>
    PROVE  Len(call) \in Nat /\ Len(call) \in 1 .. Len(call) /\ top \in Frame /\ c \in Conn
<1>1. Len(call) \in Nat /\ Len(call) # 0
  BY EmptySeq
<1>2. Len(call) \in 1 .. Len(call)
  BY <1>1
<1>3. top \in Frame
  BY <1>2, ElementOfSeq DEF top
<1>4. c \in Conn
  BY <1>3, Fields DEF c
<1>. QED
  BY <1>1, <1>2, <1>3, <1>4

LEMMA Replaced ==
    ASSUME call \in Seq(Frame), call # <<>>, NEW r \in Frame, update(r)
    PROVE  /\ call' \in Seq(Frame) /\ Len(call') = Len(call) /\ call'[Len(call)] = r
           /\ \A i \in 1 .. Len(call) : i # Len(call) => call'[i] = call[i]
  BY Top, ExceptSeq DEF update

LEMMA Pushed ==
    ASSUME call \in Seq(Frame), NEW r \in Frame, call' = Append(call, r)
    PROVE  /\ call' \in Seq(Frame) /\ Len(call') = Len(call) + 1 /\ call'[Len(call) + 1] = r
           /\ \A i \in 1 .. Len(call) : call'[i] = call[i]
  BY AppendProperties

LEMMA Popped ==
    ASSUME call \in Seq(Frame), call # <<>>, call' = SubSeq(call, 1, Len(call) - 1)
    PROVE  /\ call' \in Seq(Frame) /\ Len(call') = Len(call) - 1
           /\ \A i \in 1 .. Len(call) - 1 : call'[i] = call[i]
<1>1. Len(call) \in Nat /\ Len(call) # 0
  BY EmptySeq
<1>2. Len(call) - 1 \in 0 .. Len(call)
  BY <1>1
<1>3. Len(call) - 1 = (Len(call) - 1) - 1 + 1 /\ Len(call) - 1 \in Nat
  BY <1>1
<1>. QED
  BY <1>1, <1>2, <1>3, SubSeqProperties

\* The latest time of some files
LEMMA LatestIs ==
    ASSUME Types, NEW S \in SUBSET XslFile
    PROVE  /\ Latest(S) \in Nat /\ \A f \in S : file[f].mtime <= Latest(S)
           /\ Latest(S) = 0 \/ \E f \in S : Latest(S) = file[f].mtime
<1>. DEFINE T == {0} \cup {file[f].mtime : f \in S}
<1>1. \A f \in S : file[f].mtime \in Nat
  BY DEF Types
<1>2. T \subseteq Nat
  BY <1>1
<1>3. \E t \in T : \A u \in T : t >= u
  <2>1. CASE S = {}
    <3>1. 0 \in T /\ \A u \in T : 0 >= u
      BY <2>1
    <3>. QED
      BY <3>1
  <2>2. CASE \E f \in S : S = {f}
    <3>1. PICK f \in S : S = {f}
      BY <2>2
    <3>2. T = {0, file[f].mtime} /\ file[f].mtime \in Nat
      BY <3>1, <1>1
    <3>3. file[f].mtime \in T /\ \A u \in T : file[f].mtime >= u
      BY <3>2
    <3>. QED
      BY <3>3
  <2>3. CASE S = XslFile
    <3>1. T = {0, file[Main].mtime, file[Part].mtime} /\ file[Main].mtime \in Nat /\ file[Part].mtime \in Nat
      BY <2>3, <1>1 DEF XslFile
    <3>2. CASE file[Main].mtime >= file[Part].mtime
      <4>1. file[Main].mtime \in T /\ \A u \in T : file[Main].mtime >= u
        BY <3>1, <3>2
      <4>. QED
        BY <4>1
    <3>3. CASE file[Part].mtime >= file[Main].mtime
      <4>1. file[Part].mtime \in T /\ \A u \in T : file[Part].mtime >= u
        BY <3>1, <3>3
      <4>. QED
        BY <4>1
    <3>4. file[Main].mtime >= file[Part].mtime \/ file[Part].mtime >= file[Main].mtime
      BY <3>1
    <3>. QED
      BY <3>2, <3>3, <3>4
  <2>. QED
    BY <2>1, <2>2, <2>3 DEF XslFile
<1>4. Max(T) \in T /\ \A u \in T : Max(T) >= u
  BY <1>3 DEF Max
<1>5. Latest(S) = Max(T)
  BY DEF Latest
<1>6. /\ \A f \in S : file[f].mtime \in T
      /\ \A t \in T : t = 0 \/ \E f \in S : t = file[f].mtime
  OBVIOUS
<1>. HIDE DEF T
<1>. QED
  BY <1>1, <1>2, <1>4, <1>5, <1>6
-----------------------------------------------------------------------------
\* What the steps of the transformation in progress do to its frame

\* Other frames stay
Only(r) ==
    /\ call' \in Seq(Frame) /\ Len(call') = Len(call) /\ call'[Len(call)] = r
    /\ \A i \in 1 .. Len(call) : i # Len(call) => call'[i] = call[i]
Same(r) == r.conn = c /\ r.since = top.since /\ r.loaded = top.loaded

LEMMA StylesheetDoes ==
    ASSUME Types, stylesheet
    PROVE  \E r \in Frame :
              /\ Only(r) /\ Same(r)
              /\ \/ /\ r.pc = "no dependency" /\ r.load = top.load
                    /\ UNCHANGED <<xml_dependencies, deps>>
                 \/ /\ Reload /\ r.pc = "load" /\ xml_dependencies' = {} /\ deps' = [deps EXCEPT ![c] = {}]
                    /\ r.load = [top.load EXCEPT !.disk_time = get_disk_time, !.todo = {Main}, !.at = now]
                 \/ /\ ~Reload /\ r.pc = "transform" /\ r.load = top.load
                    /\ UNCHANGED <<xml_dependencies, deps>>
<1>1. call \in Seq(Frame) /\ call # <<>> /\ top \in Frame /\ c \in Conn /\ top.load \in Loaded
  BY Top, Fields DEF Types, stylesheet, at
<1>2. get_disk_time \in Nat /\ now \in Nat
  BY <1>1, LatestIs DEF get_disk_time, Types
<1>3. ASSUME NEW r \in Frame, update(r)
      PROVE  Only(r)
  BY <1>1, <1>3, Replaced DEF Only
<1>4. CASE get_disk_time_fails
  <2>. DEFINE r == [top EXCEPT !.pc = "no dependency"]
  <2>1. r \in Frame /\ Same(r) /\ r.pc = "no dependency" /\ r.load = top.load
    BY <1>1 DEF Frame, Same, c
  <2>2. update(r) /\ UNCHANGED <<xml_dependencies, deps>>
    BY <1>4 DEF stylesheet
  <2>. QED
    BY <2>1, <2>2, <1>3
<1>5. CASE ~get_disk_time_fails /\ Reload
  <2>. DEFINE l == [top.load EXCEPT !.disk_time = get_disk_time, !.todo = {Main}, !.at = now]
              r == [top EXCEPT !.pc = "load", !.load = l]
  <2>1. l \in Loaded
    BY <1>1, <1>2 DEF Loaded, XslFile
  <2>2. r \in Frame /\ Same(r) /\ r.pc = "load" /\ r.load = l
    BY <1>1, <2>1 DEF Frame, Same, c
  <2>3. [top EXCEPT !.pc = "load", !.load.disk_time = get_disk_time, !.load.todo = {Main},
                    !.load.at = now] = r
    BY <1>1 DEF Frame, Loaded
  <2>4. update(r) /\ xml_dependencies' = {} /\ deps' = [deps EXCEPT ![c] = {}]
    BY <1>5, <2>3 DEF stylesheet
  <2>. QED
    BY <2>2, <2>4, <1>3, <1>5
<1>6. CASE ~get_disk_time_fails /\ ~Reload
  <2>. DEFINE r == [top EXCEPT !.pc = "transform"]
  <2>1. r \in Frame /\ Same(r) /\ r.pc = "transform" /\ r.load = top.load
    BY <1>1 DEF Frame, Same, c
  <2>2. update(r) /\ UNCHANGED <<xml_dependencies, deps>>
    BY <1>6 DEF stylesheet
  <2>. QED
    BY <2>1, <2>2, <1>3, <1>6
<1>. QED
  BY <1>4, <1>5, <1>6

\* What a load has read
LEMMA ReadsIs ==
    ASSUME top \in Frame, NEW x, NEW more \in SUBSET (XslFile \cup {External, Method}),
           NEW bad \in BOOLEAN
    PROVE  LET l == reads(x, more, bad) IN
           /\ l \in Loaded /\ l.at = top.load.at /\ l.disk_time = top.load.disk_time
           /\ l.of = top.load.of /\ l.ext = top.load.ext
           /\ l.todo = (top.load.todo \ {x}) \cup more /\ (l.bad <=> (top.load.bad \/ bad))
<1>1. top.load \in Loaded
  BY Fields
<1>2. (top.load.bad \/ bad) \in BOOLEAN
  BY <1>1, LoadFields, Zenon
<1>3. (top.load.todo \ {x}) \cup more \in SUBSET (XslFile \cup {External, Method})
  BY <1>1, LoadFields
<1>. DEFINE m == top.load.bad \/ bad
            d == (top.load.todo \ {x}) \cup more
<1>4. [top.load EXCEPT !.todo = d, !.bad = m] \in Loaded
  BY <1>1, <1>2, <1>3 DEF Loaded
<1>5. reads(x, more, bad) = [top.load EXCEPT !.todo = d, !.bad = m]
  BY DEF reads
<1>. QED
  BY <1>1, <1>4, <1>5 DEF Loaded

LEMMA OpenDoes ==
    ASSUME Types, Parameters, NEW f \in XslFile, open(f)
    PROVE  \E r \in Frame :
              /\ Only(r) /\ Same(r) /\ top.pc = "load" /\ r.pc = "load"
              /\ f \in top.load.todo
              /\ r.load.at = top.load.at /\ r.load.disk_time = top.load.disk_time
              /\ r.load.of = [top.load.of EXCEPT ![f] = file[f].ver]
              /\ r.load.ext = top.load.ext
              /\ r.load.todo = (top.load.todo \ {f})
                                    \cup (IF f = Main /\ file[f].is = "good" THEN refs ELSE {})
              /\ r.load.bad <=> (top.load.bad \/ file[f].is # "good")
<1>1. /\ call \in Seq(Frame) /\ call # <<>> /\ top \in Frame /\ c \in Conn /\ top.load \in Loaded
      /\ top.pc = "load" /\ f \in top.load.todo
  BY Top, Fields DEF Types, open, at
<1>. DEFINE more == IF f = Main /\ file[f].is = "good" THEN refs ELSE {}
            bad == file[f].is # "good"
            l == reads(f, more, bad)
            m == [l EXCEPT !.of = [l.of EXCEPT ![f] = file[f].ver]]
            r == [top EXCEPT !.load = m]
<1>2. more \in SUBSET (XslFile \cup {External, Method}) /\ bad \in BOOLEAN
  BY DEF Types, Parameters, XslFile
<1>. HIDE DEF more, bad
<1>3. /\ l \in Loaded /\ l.at = top.load.at /\ l.disk_time = top.load.disk_time
      /\ l.of = top.load.of /\ l.ext = top.load.ext
      /\ l.todo = (top.load.todo \ {f}) \cup more /\ (l.bad <=> (top.load.bad \/ bad))
  BY <1>1, <1>2, ReadsIs
<1>4. file[f].ver \in Nat
  BY DEF Types
<1>5. update([top EXCEPT !.load = [l EXCEPT !.of[f] = file[f].ver]])
  BY DEF open, more, bad
<1>. HIDE DEF l
<1>6. m \in Loaded /\ [l EXCEPT !.of[f] = file[f].ver] = m
  BY <1>3, <1>4 DEF Loaded
<1>7. r \in Frame /\ Same(r) /\ r.pc = "load" /\ r.load = m
  BY <1>1, <1>6 DEF Frame, Same, c
<1>8. update(r)
  BY <1>5, <1>6
<1>9. Only(r)
  BY <1>1, <1>7, <1>8, Replaced DEF Only
<1>10. /\ m.at = l.at /\ m.disk_time = l.disk_time /\ m.ext = l.ext /\ m.todo = l.todo
       /\ m.bad = l.bad /\ m.of = [l.of EXCEPT ![f] = file[f].ver]
  BY <1>3 DEF Loaded
<1>. HIDE DEF m
<1>11. r.load.bad <=> (top.load.bad \/ bad)
  BY <1>3, <1>7, <1>10
<1>. HIDE DEF r
<1>12. /\ r.load.at = top.load.at /\ r.load.disk_time = top.load.disk_time
       /\ r.load.of = [top.load.of EXCEPT ![f] = file[f].ver]
       /\ r.load.ext = top.load.ext /\ r.load.todo = (top.load.todo \ {f}) \cup more
  BY <1>3, <1>7, <1>10
<1>. QED
  BY <1>1, <1>7, <1>9, <1>11, <1>12 DEF more, bad

LEMMA OpenExternalDoes ==
    ASSUME Types, openExternal
    PROVE  \E r \in Frame :
              /\ Only(r) /\ Same(r) /\ top.pc = "load" /\ r.pc = "load"
              /\ External \in top.load.todo
              /\ r.load.at = top.load.at /\ r.load.disk_time = top.load.disk_time
              /\ r.load.of = top.load.of /\ r.load.todo = top.load.todo \ {External}
              /\ top.load.bad => r.load.bad
<1>1. /\ call \in Seq(Frame) /\ call # <<>> /\ top \in Frame /\ c \in Conn /\ top.load \in Loaded
      /\ top.pc = "load" /\ External \in top.load.todo
  BY Top, Fields DEF Types, openExternal, at
<1>2. PICK bad \in BOOLEAN : update([top EXCEPT !.load = [reads(External, {}, bad) EXCEPT !.ext = TRUE]])
  BY DEF openExternal
<1>. DEFINE l == reads(External, {}, bad)
            m == [l EXCEPT !.ext = TRUE]
            r == [top EXCEPT !.load = m]
<1>3. /\ l \in Loaded /\ l.at = top.load.at /\ l.disk_time = top.load.disk_time
      /\ l.of = top.load.of /\ l.todo = top.load.todo \ {External} /\ (top.load.bad => l.bad)
  <2>1. PICK more \in SUBSET (XslFile \cup {External, Method}) : more = {}
    OBVIOUS
  <2>2. LET k == reads(External, more, bad) IN
        /\ k \in Loaded /\ k.at = top.load.at /\ k.disk_time = top.load.disk_time
        /\ k.of = top.load.of /\ k.ext = top.load.ext /\ k.todo = (top.load.todo \ {External}) \cup more
        /\ (top.load.bad => k.bad)
    BY <1>1, ReadsIs
  <2>. QED
    BY <2>1, <2>2
<1>. HIDE DEF l
<1>4. m \in Loaded /\ m.at = l.at /\ m.disk_time = l.disk_time /\ m.of = l.of /\ m.todo = l.todo
      /\ m.bad = l.bad
  BY <1>3 DEF Loaded
<1>5. r \in Frame /\ Same(r) /\ r.pc = "load" /\ r.load = m
  BY <1>1, <1>4 DEF Frame, Same, c
<1>6. update(r)
  BY <1>2 DEF l
<1>7. Only(r)
  BY <1>1, <1>5, <1>6, Replaced DEF Only
<1>. HIDE DEF m, r
<1>. QED
  BY <1>1, <1>3, <1>4, <1>5, <1>7

LEMMA OpenMethodDoes ==
    ASSUME Types, openMethod
    PROVE  \E r \in Frame :
              /\ Only(r) /\ Same(r) /\ top.pc = "load" /\ r.pc = "method"
              /\ Method \in top.load.todo
              /\ r.load.of = top.load.of /\ r.load.ext = top.load.ext
<1>1. /\ call \in Seq(Frame) /\ call # <<>> /\ top \in Frame /\ c \in Conn /\ top.load \in Loaded
      /\ top.pc = "load" /\ Method \in top.load.todo
  BY Top, Fields DEF Types, openMethod, at
<1>2. PICK bad \in BOOLEAN : update([top EXCEPT !.pc = "method", !.load = reads(Method, {}, bad)])
  BY DEF openMethod
<1>. DEFINE l == reads(Method, {}, bad)
            r == [top EXCEPT !.pc = "method", !.load = l]
<1>3. l \in Loaded /\ l.of = top.load.of /\ l.ext = top.load.ext
  <2>1. PICK more \in SUBSET (XslFile \cup {External, Method}) : more = {}
    OBVIOUS
  <2>2. LET k == reads(Method, more, bad) IN
        /\ k \in Loaded /\ k.at = top.load.at /\ k.disk_time = top.load.disk_time
        /\ k.of = top.load.of /\ k.ext = top.load.ext /\ k.todo = (top.load.todo \ {Method}) \cup more
    BY <1>1, ReadsIs
  <2>. QED
    BY <2>1, <2>2
<1>4. update(r)
  BY <1>2
<1>. HIDE DEF l
<1>5. r \in Frame /\ Same(r) /\ r.pc = "method" /\ r.load = l
  BY <1>1, <1>3 DEF Frame, Same, c
<1>6. Only(r)
  BY <1>1, <1>4, <1>5, Replaced DEF Only
<1>. HIDE DEF r
<1>. QED
  BY <1>1, <1>3, <1>5, <1>6

LEMMA MethodReturnsDoes ==
    ASSUME Types, methodReturns
    PROVE  \E r \in Frame :
              /\ Only(r) /\ Same(r) /\ top.pc = "method" /\ r.pc = "load" /\ r.load = top.load
<1>1. call \in Seq(Frame) /\ call # <<>> /\ top \in Frame /\ c \in Conn /\ top.pc = "method"
  BY Top DEF Types, methodReturns, at
<1>. DEFINE r == [top EXCEPT !.pc = "load"]
<1>2. r \in Frame /\ Same(r) /\ r.pc = "load" /\ r.load = top.load
  BY <1>1 DEF Frame, Same, c
<1>3. update(r)
  BY DEF methodReturns
<1>4. Only(r)
  BY <1>1, <1>2, <1>3, Replaced DEF Only
<1>. HIDE DEF r
<1>. QED
  BY <1>1, <1>2, <1>4

NewSheet == [of |-> top.load.of, ext |-> top.load.ext, at |-> top.load.at]
LEMMA LoadDoes ==
    ASSUME Types, load
    PROVE  /\ top \in Frame /\ NewSheet \in Compiled
           /\ \E r \in Frame :
                 /\ Only(r) /\ r.conn = c /\ r.since = top.since /\ r.loaded
                 /\ top.pc = "load"
                 /\ r.pc = (IF top.load.bad THEN "failed" ELSE "transform")
<1>1. /\ call \in Seq(Frame) /\ call # <<>> /\ top \in Frame /\ c \in Conn /\ top.load \in Loaded
      /\ top.pc = "load"
  BY Top, Fields DEF Types, load, at
<1>. DEFINE p == IF top.load.bad THEN "failed" ELSE "transform"
            r == [top EXCEPT !.pc = p, !.loaded = TRUE, !.load = NoLoad]
<1>2. NoLoad \in Loaded
  BY DEF NoLoad, Loaded
<1>3. p \in {"failed", "transform"}
  OBVIOUS
<1>4. update(r)
  BY DEF load
<1>. HIDE DEF p
<1>5. r \in Frame /\ r.conn = c /\ r.since = top.since /\ r.loaded /\ r.pc = p
  BY <1>1, <1>2, <1>3 DEF Frame, c
<1>6. Only(r)
  BY <1>1, <1>4, <1>5, Replaced DEF Only
<1>7. NewSheet \in Compiled
  BY <1>1, LoadFields DEF NewSheet, Compiled
<1>. HIDE DEF r
<1>. QED
  BY <1>1, <1>5, <1>6, <1>7 DEF p

\* There is a connection that no transformation uses
LEMMA OneIsFree ==
    ASSUME Parameters, call \in Seq(Frame), Len(call) < MaxDepth
    PROVE  \E k \in Conn : k \notin Busy
<1>1. Len(call) \in Nat /\ DOMAIN call = 1 .. Len(call) /\ \A i \in 1 .. Len(call) : call[i] \in Frame
  BY LenProperties, ElementOfSeq
<1>. DEFINE S == 1 .. Len(call)
            f == [i \in S |-> call[i].conn]
<1>2. f \in Surjection(S, Busy)
  BY <1>1 DEF Surjection, Busy
<1>3. IsFiniteSet(S) /\ Cardinality(S) = Len(call)
  <2>1. 1 \in Int /\ Len(call) \in Int
    BY <1>1
  <2>2. IsFiniteSet(S) /\ Cardinality(S) = IF 1 > Len(call) THEN 0 ELSE Len(call) - 1 + 1
    BY <2>1, FS_Interval
  <2>. QED
    BY <1>1, <2>2
<1>4. Cardinality(Busy) <= Cardinality(S)
  BY <1>2, <1>3, FS_Surjection
<1>5. Cardinality(Busy) # Cardinality(Conn)
  <2>1. IsFiniteSet(Busy)
    BY <1>2, <1>3, FS_Surjection
  <2>2. Cardinality(Busy) \in Nat /\ Cardinality(Conn) \in Nat /\ MaxDepth \in Nat
    BY <2>1, FS_CardinalityType DEF Parameters
  <2>. QED
    BY <1>1, <1>3, <1>4, <2>2 DEF Parameters
<1>6. \A i \in S : call[i].conn \in Conn
  BY <1>1, Fields
<1>7. Busy \subseteq Conn
  BY <1>1, <1>6 DEF Busy
<1>8. Busy # Conn
  BY <1>5
<1>. QED
  BY <1>7, <1>8

LEMMA GetConnectionDoes ==
    ASSUME Types, Parameters, get_connection
    PROVE  \E r \in Frame :
              /\ call' = Append(call, r)
              /\ r.pc = "stylesheet" /\ ~r.loaded /\ r.load = NoLoad
              /\ \A f \in XslFile : r.since[f] = file[f].ver
              /\ \/ /\ cache' = <<>> /\ r.conn \notin Busy
                    /\ sheet' = [sheet EXCEPT ![r.conn] = None]
                    /\ deps' = [deps EXCEPT ![r.conn] = None]
                    /\ disk_time' = [disk_time EXCEPT ![r.conn] = 0]
                 \/ /\ \E i \in 1 .. Len(cache) : cache' = SubSeq(cache, 1, i - 1) /\ r.conn = cache[i]
                    /\ sheet[r.conn] # None /\ UNCHANGED <<sheet, deps, disk_time>>
<1>. DEFINE live == {i \in DOMAIN cache : sheet[cache[i]] # None}
            since == [f \in XslFile |-> file[f].ver]
            r(k) == [conn |-> k, pc |-> "stylesheet", loaded |-> FALSE, load |-> NoLoad,
                     since |-> since]
<1>1. \A f \in XslFile : file[f].ver \in Nat
  BY DEF Types
<1>2. NoLoad \in Loaded /\ since \in [XslFile -> Nat]
  BY <1>1 DEF NoLoad, Loaded
<1>3. ASSUME NEW k \in Conn
      PROVE  /\ r(k) \in Frame /\ r(k).conn = k /\ r(k).pc = "stylesheet" /\ ~r(k).loaded
             /\ r(k).load = NoLoad /\ \A f \in XslFile : r(k).since[f] = file[f].ver
  BY <1>2 DEF Frame
<1>4. call \in Seq(Frame) /\ cache \in Seq(Conn) /\ DOMAIN cache = 1 .. Len(cache)
  BY LenProperties DEF Types
<1>5. CASE live = {} /\ cache' = <<>>
              /\ LET k == CHOOSE k \in Conn : k \notin Busy
                 IN  /\ call' = Append(call, r(k))
                     /\ sheet' = [sheet EXCEPT ![k] = None] /\ deps' = [deps EXCEPT ![k] = None]
                     /\ disk_time' = [disk_time EXCEPT ![k] = 0]
  <2>. DEFINE k == CHOOSE k \in Conn : k \notin Busy
  <2>1. k \in Conn /\ k \notin Busy
    BY <1>4, OneIsFree DEF get_connection
  <2>2. /\ call' = Append(call, r(k)) /\ cache' = <<>>
        /\ sheet' = [sheet EXCEPT ![k] = None] /\ deps' = [deps EXCEPT ![k] = None]
        /\ disk_time' = [disk_time EXCEPT ![k] = 0]
    BY <1>5
  <2>. HIDE DEF k
  <2>. DEFINE q == r(k)
  <2>4. /\ q \in Frame /\ q.conn = k /\ q.pc = "stylesheet" /\ ~q.loaded /\ q.load = NoLoad
        /\ \A f \in XslFile : q.since[f] = file[f].ver
    BY <2>1, <1>3
  <2>5. call' = Append(call, q)
    BY <2>2
  <2>. HIDE DEF q
  <2>. QED
    BY <2>1, <2>2, <2>4, <2>5
<1>6. CASE \E i \in live : /\ cache' = SubSeq(cache, 1, i - 1) /\ call' = Append(call, r(cache[i]))
                           /\ UNCHANGED <<sheet, deps, disk_time>>
  <2>1. PICK i \in live : /\ cache' = SubSeq(cache, 1, i - 1) /\ call' = Append(call, r(cache[i]))
                          /\ UNCHANGED <<sheet, deps, disk_time>>
    BY <1>6
  <2>2. i \in 1 .. Len(cache) /\ sheet[cache[i]] # None
    BY <1>4
  <2>3. cache[i] \in Conn
    BY <1>4, <2>2, ElementOfSeq
  <2>. DEFINE q == r(cache[i])
  <2>4. /\ q \in Frame /\ q.conn = cache[i] /\ q.pc = "stylesheet" /\ ~q.loaded
        /\ q.load = NoLoad /\ \A f \in XslFile : q.since[f] = file[f].ver
    BY <2>3, <1>3
  <2>5. call' = Append(call, q)
    BY <2>1
  <2>. HIDE DEF q
  <2>. QED
    BY <2>1, <2>2, <2>4, <2>5
<1>. QED
  BY <1>5, <1>6 DEF get_connection

LEMMA UnuseDoes ==
    ASSUME Types, unuse
    PROVE  /\ call # <<>> /\ c \in Conn /\ top.pc \in {"transform", "failed", "no dependency"}
           /\ call' \in Seq(Frame) /\ Len(call') = Len(call) - 1
           /\ \A i \in 1 .. Len(call) - 1 : call'[i] = call[i]
           /\ cache' = Append(cache, c)
<1>1. call # <<>> /\ call \in Seq(Frame) /\ call' = SubSeq(call, 1, Len(call) - 1)
  BY DEF unuse, at, Types
<1>. QED
  BY <1>1, Popped, Top DEF unuse, at
-----------------------------------------------------------------------------
\* Types hold always

LEMMA TypesOfLists ==
    ASSUME Types
    PROVE  /\ Len(call) \in Nat /\ DOMAIN call = 1 .. Len(call)
           /\ Len(cache) \in Nat /\ DOMAIN cache = 1 .. Len(cache)
           /\ \A i \in 1 .. Len(call) : call[i] \in Frame /\ call[i].conn \in Conn
           /\ \A i \in 1 .. Len(cache) : cache[i] \in Conn
<1>1. call \in Seq(Frame) /\ cache \in Seq(Conn)
  BY DEF Types
<1>2. \A i \in 1 .. Len(call) : call[i] \in Frame
  BY <1>1, ElementOfSeq
<1>3. \A i \in 1 .. Len(cache) : cache[i] \in Conn
  BY <1>1, ElementOfSeq
<1>. QED
  BY <1>1, <1>2, <1>3, Fields, LenProperties

LEMMA TypesInit == Parameters /\ Init => Types
<1>. SUFFICES ASSUME Parameters, Init PROVE Types
  OBVIOUS
<1>1. <<>> \in Seq(Frame) /\ <<>> \in Seq(Conn)
  BY EmptySeq
<1>2. /\ now \in Nat /\ refs \subseteq Ref /\ cache \in Seq(Conn) /\ call \in Seq(Frame)
      /\ xml_dependencies \in (SUBSET XslFile) \cup {None}
      /\ sheet \in [Conn -> Compiled \cup {None}] /\ disk_time \in [Conn -> Nat]
      /\ deps \in [Conn -> (SUBSET XslFile) \cup {None}]
  BY <1>1 DEF Init
<1>3. file \in [XslFile -> [ver : Nat, mtime : Nat, is : {"good", "bad", "missing"}]]
  BY DEF Init
<1>. QED
  BY <1>2, <1>3 DEF Types

LEMMA TypesEdit == ASSUME Types, NEW f \in XslFile, edit(f) PROVE Types'
<1>1. PICK is \in {"good", "bad", "missing"} :
         file' = [file EXCEPT ![f] = [ver |-> file[f].ver + 1, mtime |-> now, is |-> is]]
  BY DEF edit
<1>2. file[f].ver \in Nat /\ now \in Nat
  BY DEF Types
<1>3. [ver |-> file[f].ver + 1, mtime |-> now, is |-> is]
         \in [ver : Nat, mtime : Nat, is : {"good", "bad", "missing"}]
  BY <1>2
<1>4. file' \in [XslFile -> [ver : Nat, mtime : Nat, is : {"good", "bad", "missing"}]]
  BY <1>1, <1>3 DEF Types
<1>5. refs' \subseteq Ref
  BY DEF edit, Types
<1>. QED
  BY <1>4, <1>5 DEF edit, conns, Types

LEMMA TypesStep == ASSUME Types, Parameters, [Next]_vars PROVE Types'
<1>1. CASE tick
  BY <1>1 DEF tick, disk, conns, Types
<1>2. ASSUME NEW f \in XslFile, edit(f) PROVE Types'
  BY <1>2, TypesEdit
<1>3. ASSUME NEW f \in XslFile, open(f) PROVE Types'
  <2>1. call' \in Seq(Frame)
    BY <1>3, OpenDoes DEF Only
  <2>2. xml_dependencies' \in (SUBSET XslFile) \cup {None}
    BY <1>3 DEF open, add_dependency, Types
  <2>. QED
    BY <1>3, <2>1, <2>2 DEF open, disk, conns, Types
<1>4. CASE maybe_expire_cache
  <2>1. sheet' \in [Conn -> Compiled \cup {None}]
    BY <1>4 DEF maybe_expire_cache, Types
  <2>. QED
    BY <1>4, <2>1 DEF maybe_expire_cache, disk, conns, Types
<1>5. CASE get_connection
  <2>1. PICK r \in Frame :
              /\ call' = Append(call, r)
              /\ \/ /\ cache' = <<>>
                    /\ sheet' = [sheet EXCEPT ![r.conn] = None]
                    /\ deps' = [deps EXCEPT ![r.conn] = None]
                    /\ disk_time' = [disk_time EXCEPT ![r.conn] = 0]
                 \/ /\ \E i \in 1 .. Len(cache) : cache' = SubSeq(cache, 1, i - 1)
                    /\ UNCHANGED <<sheet, deps, disk_time>>
    BY <1>5, GetConnectionDoes
  <2>2. call' \in Seq(Frame)
    BY <2>1, Pushed DEF Types
  <2>3. sheet' \in [Conn -> Compiled \cup {None}] /\ deps' \in [Conn -> (SUBSET XslFile) \cup {None}]
        /\ disk_time' \in [Conn -> Nat]
    <3>1. /\ sheet \in [Conn -> Compiled \cup {None}] /\ disk_time \in [Conn -> Nat]
          /\ deps \in [Conn -> (SUBSET XslFile) \cup {None}]
      BY DEF Types
    <3>2. CASE /\ sheet' = [sheet EXCEPT ![r.conn] = None] /\ deps' = [deps EXCEPT ![r.conn] = None]
               /\ disk_time' = [disk_time EXCEPT ![r.conn] = 0]
      BY <3>1, <3>2
    <3>. QED
      BY <2>1, <3>1, <3>2
  <2>4. cache' \in Seq(Conn)
    <3>1. <<>> \in Seq(Conn)
      BY EmptySeq
    <3>2. ASSUME NEW i \in 1 .. Len(cache) PROVE SubSeq(cache, 1, i - 1) \in Seq(Conn)
      <4>1. Len(cache) \in Nat /\ \A j \in 1 .. i - 1 : cache[j] \in Conn
        BY TypesOfLists
      <4>. QED
        BY <4>1, SubSeqProperties
    <3>. QED
      BY <2>1, <3>1, <3>2
  <2>. QED
    BY <1>5, <2>2, <2>3, <2>4 DEF get_connection, disk, Types
<1>6. CASE stylesheet
  <2>1. call' \in Seq(Frame) /\ c \in Conn
    BY <1>6, StylesheetDoes, Top DEF Only, Types, stylesheet, at
  <2>2. /\ xml_dependencies' = {} \/ UNCHANGED xml_dependencies
        /\ deps' = [deps EXCEPT ![c] = {}] \/ UNCHANGED deps
    BY <1>6, StylesheetDoes
  <2>3. xml_dependencies' \in (SUBSET XslFile) \cup {None} /\ deps' \in [Conn -> (SUBSET XslFile) \cup {None}]
    BY <2>2 DEF Types
  <2>. QED
    BY <1>6, <2>1, <2>3 DEF stylesheet, disk, Types
<1>7. CASE openExternal
  <2>1. call' \in Seq(Frame)
    BY <1>7, OpenExternalDoes DEF Only
  <2>. QED
    BY <1>7, <2>1 DEF openExternal, disk, conns, Types
<1>8. CASE openMethod
  <2>1. call' \in Seq(Frame)
    BY <1>8, OpenMethodDoes DEF Only
  <2>. QED
    BY <1>8, <2>1 DEF openMethod, disk, conns, Types
<1>9. CASE methodReturns
  <2>1. call' \in Seq(Frame)
    BY <1>9, MethodReturnsDoes DEF Only
  <2>. QED
    BY <1>9, <2>1 DEF methodReturns, disk, conns, Types
<1>10. CASE load
  <2>1. call' \in Seq(Frame) /\ NewSheet \in Compiled
    BY <1>10, LoadDoes DEF Only
  <2>2. top.load.disk_time \in Nat
    BY <1>10, LoadDoes, Fields, LoadFields
  <2>3. /\ sheet' = sheet \/ sheet' = [sheet EXCEPT ![c] = NewSheet]
        /\ disk_time' = disk_time \/ disk_time' = [disk_time EXCEPT ![c] = top.load.disk_time]
        /\ deps' = [deps EXCEPT ![c] = xml_dependencies] /\ xml_dependencies' = None
    BY <1>10 DEF load, NewSheet
  <2>4. sheet' \in [Conn -> Compiled \cup {None}] /\ disk_time' \in [Conn -> Nat]
        /\ deps' \in [Conn -> (SUBSET XslFile) \cup {None}]
    BY <2>1, <2>2, <2>3 DEF Types
  <2>. QED
    BY <1>10, <2>1, <2>3, <2>4 DEF load, disk, Types
<1>11. CASE unuse
  <2>1. cache' \in Seq(Conn)
    <3>1. c \in Conn /\ cache \in Seq(Conn) /\ cache' = Append(cache, c)
      BY <1>11, UnuseDoes DEF Types
    <3>. QED
      BY <3>1, AppendProperties
  <2>2. call' \in Seq(Frame)
    BY <1>11, UnuseDoes
  <2>. QED
    BY <1>11, <2>1, <2>2 DEF unuse, disk, conns, Types
<1>12. CASE UNCHANGED vars
  BY <1>12 DEF vars, Types
<1>. QED
  BY <1>1, <1>2, <1>3, <1>4, <1>5, <1>6, <1>7, <1>8, <1>9, <1>10, <1>11, <1>12 DEF Next
-----------------------------------------------------------------------------
\* A connection has one user, and a stylesheet its list of files, whatever nests

Fits == Len(call) <= MaxDepth
Loading(i) == call[i].pc \in {"load", "method"}
\* The innermost load has in the thread's list all it has read, if monitoring goes on
Collected ==
    \A i \in 1 .. Len(call) :
        /\ Loading(i) /\ xml_dependencies # None
        /\ \A j \in 1 .. Len(call) : Loading(j) => j <= i
        => /\ \A f \in XslFile : call[i].load.of[f] # 0 => f \in xml_dependencies
           /\ ~call[i].load.ext
\* A transformation that has not got its stylesheet has read nothing
Asked ==
    \A i \in 1 .. Len(call) : call[i].pc = "stylesheet" => call[i].load = NoLoad /\ ~call[i].loaded
\* DependenciesComplete, for each transformation
Known ==
    \A i \in 1 .. Len(call) :
        LET k == call[i].conn IN
        call[i].pc = "transform" /\ call[i].loaded /\ deps[k] # None =>
            /\ \A f \in XslFile : sheet[k].of[f] # 0 => f \in deps[k]
            /\ ~sheet[k].ext

GInv == Types /\ Fits /\ ExclusiveUse /\ Asked /\ Collected /\ Known

\* ExclusiveUse, place by place
Apart ==
    /\ \A i, j \in 1 .. Len(call) : call[i].conn = call[j].conn => i = j
    /\ \A i \in 1 .. Len(call), j \in 1 .. Len(cache) : call[i].conn # cache[j]
    /\ \A i, j \in 1 .. Len(cache) : cache[i] = cache[j] => i = j

LEMMA ApartIs == Types => (ExclusiveUse <=> Apart)
<1>. SUFFICES ASSUME Types PROVE ExclusiveUse <=> Apart
  OBVIOUS
<1>1. DOMAIN call = 1 .. Len(call) /\ DOMAIN cache = 1 .. Len(cache)
  BY TypesOfLists
<1>2. \A k : k \in Range(cache) <=> \E j \in 1 .. Len(cache) : k = cache[j]
  BY <1>1 DEF Range
<1>3. IsInjective(cache) <=> \A i, j \in 1 .. Len(cache) : cache[i] = cache[j] => i = j
  BY <1>1 DEF IsInjective
<1>. QED
  BY <1>1, <1>2, <1>3 DEF ExclusiveUse, Apart

\* The steps that leave the places of connections
LEMMA PlacesStay ==
    ASSUME Types, Fits, Apart, UNCHANGED cache, Len(call') = Len(call),
           \A i \in 1 .. Len(call) : call'[i].conn = call[i].conn
    PROVE  Fits' /\ Apart'
  BY DEF Fits, Apart

\* A frame of the transformation in progress changes, and nothing of the others
LEMMA FrameChanges ==
    ASSUME Types, Fits, Apart, UNCHANGED cache, call # <<>>, NEW r, r.conn = c, Only(r)
    PROVE  Fits' /\ Apart'
<1>1. \A i \in 1 .. Len(call) : call'[i].conn = call[i].conn
  BY DEF Only, c, top
<1>2. Len(call') = Len(call)
  BY DEF Only
<1>. QED
  BY <1>1, <1>2, PlacesStay

LEMMA ApartStep == ASSUME Types, Parameters, Fits, Apart, [Next]_vars PROVE Fits' /\ Apart'
<1>1. CASE UNCHANGED <<call, cache>>
  BY <1>1 DEF Fits, Apart
<1>2. ASSUME NEW f \in XslFile, open(f) PROVE Fits' /\ Apart'
  <2>1. UNCHANGED cache /\ call # <<>>
    BY <1>2 DEF open, at
  <2>. QED
    BY <1>2, <2>1, OpenDoes, FrameChanges DEF Same
<1>3. CASE stylesheet
  <2>1. UNCHANGED cache /\ call # <<>>
    BY <1>3 DEF stylesheet, at
  <2>. QED
    BY <1>3, <2>1, StylesheetDoes, FrameChanges DEF Same
<1>4. CASE openExternal
  <2>1. UNCHANGED cache /\ call # <<>>
    BY <1>4 DEF openExternal, at
  <2>. QED
    BY <1>4, <2>1, OpenExternalDoes, FrameChanges DEF Same
<1>5. CASE openMethod
  <2>1. UNCHANGED cache /\ call # <<>>
    BY <1>5 DEF openMethod, at
  <2>. QED
    BY <1>5, <2>1, OpenMethodDoes, FrameChanges DEF Same
<1>6. CASE methodReturns
  <2>1. UNCHANGED cache /\ call # <<>>
    BY <1>6 DEF methodReturns, at
  <2>. QED
    BY <1>6, <2>1, MethodReturnsDoes, FrameChanges DEF Same
<1>7. CASE load
  <2>1. UNCHANGED cache /\ call # <<>>
    BY <1>7 DEF load, at
  <2>. QED
    BY <1>7, <2>1, LoadDoes, FrameChanges
<1>8. CASE get_connection
  <2>1. PICK r \in Frame :
              /\ call' = Append(call, r)
              /\ \/ cache' = <<>> /\ r.conn \notin Busy
                 \/ \E i \in 1 .. Len(cache) : cache' = SubSeq(cache, 1, i - 1) /\ r.conn = cache[i]
    BY <1>8, GetConnectionDoes
  <2>2. /\ Len(call') = Len(call) + 1 /\ call'[Len(call) + 1] = r
        /\ \A i \in 1 .. Len(call) : call'[i] = call[i]
    BY <2>1, Pushed DEF Types
  <2>3. /\ Len(call) \in Nat /\ Len(call) < MaxDepth /\ MaxDepth \in Nat
        /\ DOMAIN call = 1 .. Len(call) /\ Len(cache) \in Nat
    BY <1>8, TypesOfLists DEF get_connection, Parameters
  <2>4. Fits'
    BY <2>2, <2>3 DEF Fits
  <2>5. CASE cache' = <<>> /\ r.conn \notin Busy
    <3>1. \A i \in 1 .. Len(call) : call[i].conn # r.conn
      BY <2>3, <2>5 DEF Busy
    <3>2. Len(cache') = 0
      BY <2>5, EmptySeq
    <3>. QED
      BY <2>2, <2>3, <2>4, <3>1, <3>2 DEF Apart
  <2>6. ASSUME NEW i \in 1 .. Len(cache), cache' = SubSeq(cache, 1, i - 1), r.conn = cache[i]
        PROVE  Apart'
    <3>1. Len(cache') = i - 1 /\ \A j \in 1 .. i - 1 : cache'[j] = cache[j]
      <4>1. i - 1 \in Int /\ 1 \in Int /\ \A j \in 1 .. i - 1 : cache[j] \in Conn
        BY <2>3, TypesOfLists
      <4>2. /\ Len(cache') = IF 1 <= i - 1 THEN i - 1 - 1 + 1 ELSE 0
            /\ \A j \in 1 .. i - 1 - 1 + 1 : cache'[j] = cache[1 + j - 1]
        BY <2>6, <4>1, SubSeqProperties
      <4>. QED
        BY <2>3, <4>2
    <3>2. \A j \in 1 .. Len(call) : call[j].conn # r.conn
      BY <2>6 DEF Apart
    <3>3. \A j \in 1 .. i - 1 : cache[j] # r.conn
      BY <2>3, <2>6 DEF Apart
    <3>4. \A p, q \in 1 .. Len(call') : call'[p].conn = call'[q].conn => p = q
      BY <2>2, <2>3, <3>2 DEF Apart
    <3>5. \A p \in 1 .. Len(call'), q \in 1 .. Len(cache') : call'[p].conn # cache'[q]
      <4>1. \A q \in 1 .. Len(cache') : q \in 1 .. Len(cache) /\ q \in 1 .. i - 1 /\ cache'[q] = cache[q]
        BY <2>3, <3>1
      <4>2. \A p \in 1 .. Len(call') : p \in 1 .. Len(call) \/ p = Len(call) + 1
        BY <2>2, <2>3
      <4>3. ASSUME NEW p \in 1 .. Len(call), NEW q \in 1 .. Len(cache') PROVE call'[p].conn # cache'[q]
        <5>1. call'[p] = call[p] /\ q \in 1 .. Len(cache) /\ cache'[q] = cache[q]
          BY <2>2, <4>1
        <5>2. call[p].conn # cache[q]
          BY <5>1 DEF Apart
        <5>. QED
          BY <5>1, <5>2
      <4>4. ASSUME NEW q \in 1 .. Len(cache') PROVE call'[Len(call) + 1].conn # cache'[q]
        BY <2>2, <3>3, <4>1
      <4>. QED
        BY <4>2, <4>3, <4>4
    <3>6. \A p, q \in 1 .. Len(cache') : cache'[p] = cache'[q] => p = q
      BY <2>3, <3>1 DEF Apart
    <3>. QED
      BY <3>4, <3>5, <3>6 DEF Apart
  <2>. QED
    BY <2>1, <2>4, <2>5, <2>6
<1>9. CASE unuse
  <2>1. /\ call # <<>> /\ Len(call') = Len(call) - 1
        /\ \A i \in 1 .. Len(call) - 1 : call'[i] = call[i]
        /\ c \in Conn /\ cache' = Append(cache, c)
    BY <1>9, UnuseDoes
  <2>2. Len(call) \in Nat /\ Len(call) \in 1 .. Len(call) /\ Len(cache) \in Nat
    BY <2>1, Top, TypesOfLists DEF Types
  <2>3. /\ Len(cache') = Len(cache) + 1 /\ cache'[Len(cache) + 1] = c
        /\ \A j \in 1 .. Len(cache) : cache'[j] = cache[j]
    BY <2>1, AppendProperties DEF Types
  <2>4. c = call[Len(call)].conn
    BY DEF c, top
  <2>5. Fits'
    BY <2>1, <2>2 DEF Fits, Parameters
  <2>. QED
    BY <2>1, <2>2, <2>3, <2>4, <2>5 DEF Apart
<1>. QED
  BY <1>1, <1>2, <1>3, <1>4, <1>5, <1>6, <1>7, <1>8, <1>9
     DEF Next, tick, edit, maybe_expire_cache, vars

\* The facts about frames when only the last one changes
LEMMA FrameFacts ==
    ASSUME Types, call # <<>>, NEW r, Only(r)
    PROVE  /\ Len(call) \in Nat /\ Len(call) \in 1 .. Len(call) /\ top = call[Len(call)]
           /\ Len(call') = Len(call) /\ call'[Len(call)] = r
           /\ \A i \in 1 .. Len(call) : i = Len(call) \/ (i < Len(call) /\ call'[i] = call[i])
<1>1. Len(call) \in Nat /\ Len(call) \in 1 .. Len(call)
  BY Top DEF Types
<1>. QED
  BY <1>1 DEF Only, top

LEMMA AskedStep == ASSUME Types, Parameters, Asked, [Next]_vars PROVE Asked'
<1>1. CASE UNCHANGED call
  BY <1>1 DEF Asked
<1>2. ASSUME call # <<>>, NEW r, Only(r), r.pc # "stylesheet" PROVE Asked'
  BY <1>2, FrameFacts DEF Asked
<1>3. ASSUME NEW f \in XslFile, open(f) PROVE Asked'
  BY <1>2, <1>3, OpenDoes DEF open, at
<1>4. CASE stylesheet
  BY <1>2, <1>4, StylesheetDoes DEF stylesheet, at
<1>5. CASE openExternal
  BY <1>2, <1>5, OpenExternalDoes DEF openExternal, at
<1>6. CASE openMethod
  BY <1>2, <1>6, OpenMethodDoes DEF openMethod, at
<1>7. CASE methodReturns
  BY <1>2, <1>7, MethodReturnsDoes DEF methodReturns, at
<1>8. CASE load
  BY <1>2, <1>8, LoadDoes DEF load, at
<1>9. CASE get_connection
  <2>1. PICK r \in Frame : call' = Append(call, r) /\ r.load = NoLoad /\ ~r.loaded
    BY <1>9, GetConnectionDoes
  <2>. QED
    BY <2>1, Pushed, TypesOfLists DEF Asked, Types
<1>10. CASE unuse
  <2>1. /\ Len(call') = Len(call) - 1 /\ \A i \in 1 .. Len(call) - 1 : call'[i] = call[i]
        /\ Len(call) \in Nat
    BY <1>10, UnuseDoes, TypesOfLists
  <2>2. \A i \in 1 .. Len(call') : i \in 1 .. Len(call) /\ call'[i] = call[i]
    BY <2>1
  <2>. QED
    BY <2>2 DEF Asked
<1>. QED
  BY <1>1, <1>3, <1>4, <1>5, <1>6, <1>7, <1>8, <1>9, <1>10
     DEF Next, tick, edit, maybe_expire_cache, vars

LEMMA CollectedStep ==
    ASSUME Types, Parameters, Asked, Collected, [Next]_vars PROVE Collected'
<1>1. CASE UNCHANGED <<call, xml_dependencies>>
  BY <1>1 DEF Collected, Loading
<1>2. CASE xml_dependencies' = None
  BY <1>2 DEF Collected
\* a load begins or goes on
<1>3. ASSUME call # <<>>, NEW r, Only(r), r.pc \in {"load", "method"},
             xml_dependencies' # None =>
                 /\ \A f \in XslFile : r.load.of[f] # 0 => f \in xml_dependencies'
                 /\ ~r.load.ext
      PROVE  Collected'
  <2>1. Loading(Len(call))' /\ Len(call') = Len(call)
    BY <1>3, FrameFacts DEF Loading
  <2>. QED
    BY <1>3, <2>1, FrameFacts DEF Collected, Loading
\* what the last frame has read, while it loads
<1>4. ASSUME call # <<>>, top.pc \in {"load", "method"}, xml_dependencies # None
      PROVE  /\ \A f \in XslFile : top.load.of[f] # 0 => f \in xml_dependencies
             /\ ~top.load.ext
  <2>1. /\ Len(call) \in 1 .. Len(call) /\ top = call[Len(call)]
        /\ \A j \in 1 .. Len(call) : j <= Len(call)
    BY <1>4, Top DEF Types, top
  <2>. QED
    BY <1>4, <2>1 DEF Collected, Loading
<1>5. ASSUME NEW f \in XslFile, open(f) PROVE Collected'
  <2>1. PICK r \in Frame : /\ Only(r) /\ top.pc = "load" /\ r.pc = "load"
                           /\ r.load.of = [top.load.of EXCEPT ![f] = file[f].ver]
                           /\ r.load.ext = top.load.ext
    BY <1>5, OpenDoes
  <2>2. call # <<>> /\ add_dependency(f)
    BY <1>5 DEF open, at
  <2>3. top.load.of \in [XslFile -> Nat]
    BY <2>2, Top, Fields, LoadFields DEF Types
  <2>4. ASSUME xml_dependencies' # None
        PROVE  /\ \A g \in XslFile : r.load.of[g] # 0 => g \in xml_dependencies'
               /\ ~r.load.ext
    <3>1. xml_dependencies # None /\ xml_dependencies' = xml_dependencies \cup {f}
      BY <2>2, <2>4 DEF add_dependency
    <3>2. (\A g \in XslFile : top.load.of[g] # 0 => g \in xml_dependencies) /\ ~top.load.ext
      BY <1>4, <2>1, <2>2, <3>1
    <3>. QED
      BY <2>1, <2>3, <3>1, <3>2
  <2>. QED
    BY <1>3, <2>1, <2>2, <2>4
<1>6. CASE stylesheet
  <2>1. call # <<>> /\ top.pc = "stylesheet" /\ top.load \in Loaded
    BY <1>6, Top, Fields DEF stylesheet, at, Types
  <2>2. top.load = NoLoad
    BY <2>1, Top DEF Asked, Types, top
  <2>3. PICK r \in Frame :
              /\ Only(r)
              /\ \/ r.pc = "no dependency" /\ UNCHANGED xml_dependencies
                 \/ /\ r.pc = "load" /\ xml_dependencies' = {}
                    /\ r.load = [top.load EXCEPT !.disk_time = get_disk_time, !.todo = {Main}, !.at = now]
                 \/ r.pc = "transform" /\ UNCHANGED xml_dependencies
    BY <1>6, StylesheetDoes
  <2>4. CASE /\ r.pc = "load"
             /\ r.load = [top.load EXCEPT !.disk_time = get_disk_time, !.todo = {Main}, !.at = now]
    <3>1. r.load.of = NoLoad.of /\ r.load.ext = NoLoad.ext
      BY <2>1, <2>2, <2>4 DEF Loaded
    <3>2. (\A f \in XslFile : r.load.of[f] = 0) /\ ~r.load.ext
      BY <3>1 DEF NoLoad
    <3>. QED
      BY <1>3, <2>1, <2>3, <2>4, <3>2
  <2>5. CASE r.pc \in {"no dependency", "transform"} /\ UNCHANGED xml_dependencies
    <3>1. ~Loading(Len(call)) /\ ~Loading(Len(call))'
      BY <2>1, <2>3, <2>5, FrameFacts DEF Loading
    <3>. QED
      BY <2>1, <2>3, <2>5, <3>1, FrameFacts DEF Collected, Loading
  <2>. QED
    BY <2>3, <2>4, <2>5
<1>7. CASE openExternal
  BY <1>2, <1>7 DEF openExternal
<1>8. CASE openMethod
  <2>1. PICK r \in Frame : /\ Only(r) /\ top.pc = "load" /\ r.pc = "method"
                           /\ r.load.of = top.load.of /\ r.load.ext = top.load.ext
    BY <1>8, OpenMethodDoes
  <2>2. call # <<>> /\ UNCHANGED xml_dependencies
    BY <1>8 DEF openMethod, at
  <2>. QED
    BY <1>3, <1>4, <2>1, <2>2
<1>9. CASE methodReturns
  <2>1. PICK r \in Frame : Only(r) /\ top.pc = "method" /\ r.pc = "load" /\ r.load = top.load
    BY <1>9, MethodReturnsDoes
  <2>2. call # <<>> /\ UNCHANGED xml_dependencies
    BY <1>9 DEF methodReturns, at
  <2>. QED
    BY <1>3, <1>4, <2>1, <2>2
<1>10. CASE load
  BY <1>2, <1>10 DEF load
<1>11. CASE get_connection
  <2>1. PICK r \in Frame : call' = Append(call, r) /\ r.pc = "stylesheet"
    BY <1>11, GetConnectionDoes
  <2>2. /\ Len(call') = Len(call) + 1 /\ call'[Len(call) + 1] = r
        /\ \A i \in 1 .. Len(call) : call'[i] = call[i]
    BY <2>1, Pushed DEF Types
  <2>3. Len(call) \in Nat /\ UNCHANGED xml_dependencies
    BY <1>11, TypesOfLists DEF get_connection
  <2>. QED
    BY <2>1, <2>2, <2>3 DEF Collected, Loading
<1>12. CASE unuse
  <2>1. /\ call # <<>> /\ Len(call') = Len(call) - 1
        /\ \A i \in 1 .. Len(call) - 1 : call'[i] = call[i]
        /\ top.pc \in {"transform", "failed", "no dependency"} /\ UNCHANGED xml_dependencies
    BY <1>12, UnuseDoes DEF unuse
  <2>2. Len(call) \in Nat /\ Len(call) \in 1 .. Len(call) /\ ~Loading(Len(call))
    BY <2>1, Top DEF Types, Loading, top
  <2>3. \A i \in 1 .. Len(call') : i \in 1 .. Len(call) /\ call'[i] = call[i]
    <3>1. /\ Len(call') = Len(call) - 1 /\ \A i \in 1 .. Len(call) - 1 : call'[i] = call[i]
          /\ Len(call) \in Nat
      BY <2>1, <2>2
    <3>. QED
      BY <3>1
  <2>4. \A j \in 1 .. Len(call) : Loading(j) => j \in 1 .. Len(call')
    <3>1. \A j \in 1 .. Len(call) : Loading(j) => j # Len(call)
      BY <2>2
    <3>2. \A j \in 1 .. Len(call) : j # Len(call) => j \in 1 .. Len(call')
      <4>1. Len(call') = Len(call) - 1 /\ Len(call) \in Nat
        BY <2>1, <2>2
      <4>. QED
        BY <4>1
    <3>. QED
      BY <3>1, <3>2
  <2>5. ASSUME NEW i \in 1 .. Len(call'), Loading(i)', xml_dependencies # None,
               \A j \in 1 .. Len(call') : Loading(j)' => j <= i
        PROVE  (\A f \in XslFile : call[i].load.of[f] # 0 => f \in xml_dependencies) /\ ~call[i].load.ext
    <3>1. i \in 1 .. Len(call) /\ Loading(i)
      BY <2>3, <2>5 DEF Loading
    <3>2. \A j \in 1 .. Len(call) : Loading(j) => j <= i
      BY <2>3, <2>4, <2>5 DEF Loading
    <3>. QED
      BY <2>5, <3>1, <3>2 DEF Collected
  <2>. QED
    BY <2>1, <2>3, <2>5 DEF Collected
<1>. QED
  BY <1>1, <1>5, <1>6, <1>7, <1>8, <1>9, <1>10, <1>11, <1>12
     DEF Next, tick, edit, maybe_expire_cache, vars

LEMMA KnownStep ==
    ASSUME Types, Parameters, Apart, Asked, Collected, Known, [Next]_vars PROVE Known'
<1>1. CASE UNCHANGED <<call, sheet, deps>>
  BY <1>1 DEF Known
\* the last frame is not one that compiled its stylesheet
<1>2. ASSUME call # <<>>, NEW r, Only(r), ~(r.pc = "transform" /\ r.loaded), UNCHANGED sheet,
             \A k \in Conn : k # c => deps'[k] = deps[k]
      PROVE  Known'
  <2>1. \A i \in 1 .. Len(call) : i # Len(call) => call[i].conn \in Conn /\ call[i].conn # c
    BY <1>2, TypesOfLists, FrameFacts DEF Apart, c
  <2>. QED
    BY <1>2, <2>1, FrameFacts DEF Known
<1>3. ASSUME NEW f \in XslFile, open(f) PROVE Known'
  BY <1>2, <1>3, OpenDoes DEF open, at, conns
<1>4. CASE stylesheet
  <2>1. call # <<>> /\ top.pc = "stylesheet" /\ UNCHANGED sheet
    BY <1>4 DEF stylesheet, at
  <2>2. ~top.loaded
    BY <2>1, Top DEF Asked, Types, top
  <2>3. PICK r \in Frame : Only(r) /\ Same(r) /\ (UNCHANGED deps \/ deps' = [deps EXCEPT ![c] = {}])
    BY <1>4, StylesheetDoes
  <2>4. ~r.loaded /\ \A k \in Conn : k # c => deps'[k] = deps[k]
    BY <2>2, <2>3 DEF Same, Types
  <2>. QED
    BY <1>2, <2>1, <2>3, <2>4
<1>5. CASE openExternal
  BY <1>2, <1>5, OpenExternalDoes DEF openExternal, at, conns
<1>6. CASE openMethod
  BY <1>2, <1>6, OpenMethodDoes DEF openMethod, at, conns
<1>7. CASE methodReturns
  BY <1>2, <1>7, MethodReturnsDoes DEF methodReturns, at, conns
<1>8. CASE load
  <2>1. PICK r \in Frame : /\ Only(r) /\ r.conn = c /\ top.pc = "load"
                           /\ r.pc = (IF top.load.bad THEN "failed" ELSE "transform")
    BY <1>8, LoadDoes
  <2>2. /\ call # <<>> /\ deps' = [deps EXCEPT ![c] = xml_dependencies]
        /\ IF top.load.bad THEN UNCHANGED sheet ELSE sheet' = [sheet EXCEPT ![c] = NewSheet]
    BY <1>8 DEF load, at, NewSheet
  <2>3. c \in Conn /\ Len(call) \in 1 .. Len(call) /\ top = call[Len(call)]
    BY <2>2, Top DEF Types, top
  <2>4. deps'[c] = xml_dependencies /\ \A k \in Conn : k # c => deps'[k] = deps[k] /\ sheet'[k] = sheet[k]
    BY <2>2, <2>3 DEF Types
  <2>5. CASE top.load.bad
    BY <1>2, <2>1, <2>2, <2>4, <2>5
  <2>6. CASE ~top.load.bad
    <3>1. sheet'[c] = NewSheet
      BY <2>2, <2>3, <2>6 DEF Types
    <3>2. xml_dependencies # None => /\ \A f \in XslFile : NewSheet.of[f] # 0 => f \in xml_dependencies
                                     /\ ~NewSheet.ext
      BY <2>1, <2>3 DEF Collected, Loading, NewSheet
    <3>3. \A i \in 1 .. Len(call) : i # Len(call) => call[i].conn \in Conn /\ call[i].conn # c
      BY <2>3, TypesOfLists DEF Apart, c
    <3>. QED
      BY <2>1, <2>2, <2>4, <3>1, <3>2, <3>3, FrameFacts DEF Known
  <2>. QED
    BY <2>5, <2>6
<1>9. CASE get_connection
  <2>1. PICK r \in Frame :
              /\ call' = Append(call, r) /\ r.pc = "stylesheet"
              /\ \/ /\ r.conn \notin Busy
                    /\ sheet' = [sheet EXCEPT ![r.conn] = None]
                    /\ deps' = [deps EXCEPT ![r.conn] = None]
                 \/ UNCHANGED <<sheet, deps>>
    BY <1>9, GetConnectionDoes
  <2>2. /\ Len(call') = Len(call) + 1 /\ call'[Len(call) + 1] = r
        /\ \A i \in 1 .. Len(call) : call'[i] = call[i]
    BY <2>1, Pushed DEF Types
  <2>3. /\ Len(call) \in Nat /\ \A i \in 1 .. Len(call) : call[i].conn \in Conn /\ call[i].conn \in Busy
    BY TypesOfLists DEF Busy
  <2>4. \A i \in 1 .. Len(call) : /\ sheet'[call[i].conn] = sheet[call[i].conn]
                                  /\ deps'[call[i].conn] = deps[call[i].conn]
    BY <2>1, <2>3 DEF Types
  <2>. QED
    BY <2>1, <2>2, <2>3, <2>4 DEF Known
<1>10. CASE unuse
  <2>1. /\ Len(call') = Len(call) - 1 /\ \A i \in 1 .. Len(call) - 1 : call'[i] = call[i]
        /\ UNCHANGED <<sheet, deps>>
    BY <1>10, UnuseDoes DEF unuse, conns
  <2>. QED
    BY <2>1, TypesOfLists DEF Known
<1>11. CASE maybe_expire_cache
  <2>1. Len(call') = 0
    BY <1>11, EmptySeq DEF maybe_expire_cache
  <2>. QED
    BY <2>1 DEF Known
<1>. QED
  BY <1>1, <1>3, <1>4, <1>5, <1>6, <1>7, <1>8, <1>9, <1>10, <1>11
     DEF Next, tick, edit, vars, conns

LEMMA GeneralInit == Parameters /\ Init => GInv
<1>. SUFFICES ASSUME Parameters, Init PROVE GInv
  OBVIOUS
<1>1. Types
  BY TypesInit
<1>2. Len(call) = 0 /\ Len(cache) = 0
  BY EmptySeq DEF Init
<1>3. Fits /\ Apart /\ Asked /\ Collected /\ Known
  BY <1>2 DEF Fits, Apart, Asked, Collected, Known, Parameters
<1>. QED
  BY <1>1, <1>3, ApartIs DEF GInv

LEMMA GeneralStep == Parameters /\ GInv /\ [Next]_vars => GInv'
<1>. SUFFICES ASSUME Parameters, GInv, [Next]_vars PROVE GInv'
  OBVIOUS
<1>1. Types /\ Fits /\ Apart /\ Asked /\ Collected /\ Known
  BY ApartIs DEF GInv
<1>2. Types'
  BY <1>1, TypesStep
<1>3. Fits' /\ Apart'
  BY <1>1, ApartStep
<1>4. Asked' /\ Collected' /\ Known'
  BY <1>1, AskedStep, CollectedStep, KnownStep
<1>5. (Types => (ExclusiveUse <=> Apart))'
  BY ApartIs, PTL
<1>. QED
  BY <1>2, <1>3, <1>4, <1>5 DEF GInv

LEMMA KnownComplete == GInv => DependenciesComplete
<1>. SUFFICES ASSUME GInv, at({"transform"}), top.loaded, deps[c] # None
     PROVE  {f \in XslFile : sheet[c].of[f] # 0} \subseteq deps[c] /\ ~sheet[c].ext
  BY DEF DependenciesComplete
<1>1. Len(call) \in 1 .. Len(call) /\ top = call[Len(call)]
  BY Top DEF GInv, Types, at, top
<1>. QED
  BY <1>1 DEF GInv, Known, c, at

\* A compiled stylesheet is used by one transformation, whatever the methods it
\* calls transform: Stylesheet_manager::get_connection takes a connection out of
\* the cache, close() puts it back.
THEOREM OneTransformation == Parameters => (Spec => []ExclusiveUse)
<1>. SUFFICES ASSUME Parameters PROVE Spec => []ExclusiveUse
  OBVIOUS
<1>1. Init => GInv
  BY GeneralInit
<1>2. GInv /\ [Next]_vars => GInv'
  BY GeneralStep
<1>3. GInv => ExclusiveUse
  BY DEF GInv
<1>. QED
  BY <1>1, <1>2, <1>3, PTL DEF Spec

\* After a load the connection knows every file it was compiled from, or that it
\* cannot know: Stylesheet_connection::load with the list of the thread.
THEOREM FilesAreKnown == Parameters => (Spec => []DependenciesComplete)
<1>. SUFFICES ASSUME Parameters PROVE Spec => []DependenciesComplete
  OBVIOUS
<1>1. Init => GInv
  BY GeneralInit
<1>2. GInv /\ [Next]_vars => GInv'
  BY GeneralStep
<1>3. GInv => DependenciesComplete
  BY KnownComplete
<1>. QED
  BY <1>1, <1>2, <1>3, PTL DEF Spec
-----------------------------------------------------------------------------
\* A kept stylesheet is fresh, when no method takes part

\* The disk: no file is of the future
Disk == \A f \in XslFile : file[f].mtime <= now /\ file[f].ver > 0
\* The file f, of which the stylesheet of k was compiled, has been edited since
Changed(k, f) == sheet[k].of[f] \notin {0, file[f].ver} /\ file[f].mtime >= sheet[k].at
\* A stylesheet is of versions that were good, and of all Main includes; the time
\* it is compared with is not later than its load
SheetOk(k) ==
    /\ sheet[k].at <= now /\ disk_time[k] <= sheet[k].at /\ sheet[k].of[Main] # 0
    /\ \A f \in XslFile :
          /\ sheet[k].of[f] <= file[f].ver
          /\ sheet[k].of[f] \notin {0, file[f].ver} => file[f].mtime >= sheet[k].at
          /\ sheet[k].of[f] = file[f].ver => file[f].is = "good"
    /\ sheet[k].of[Main] = file[Main].ver /\ Part \in refs => sheet[k].of[Part] # 0
Sheets == \A k \in Conn : sheet[k] # None => SheetOk(k)
\* The list of files: none, or all of them, or one that shows the next use that
\* it has to load, as after a load that has failed
Listed(k, S) ==
    \/ S = None
    \/ ~sheet[k].ext /\ \A f \in XslFile : sheet[k].of[f] # 0 => f \in S
    \/ \E f \in XslFile : f \in S /\ Changed(k, f)
Idle(k) == \A i \in 1 .. Len(call) : call[i].conn = k => call[i].pc # "load"
Lists == \A k \in Conn : sheet[k] # None /\ Idle(k) => Listed(k, deps[k])
\* The transformations in progress
FrameOk(r) ==
    /\ r.pc # "method"
    /\ r.pc = "stylesheet" => sheet[r.conn] # None \/ deps[r.conn] = None
    /\ r.pc = "transform" => sheet[r.conn] # None
    /\ r.pc = "load" => ~r.loaded
    /\ \A f \in XslFile : r.since[f] <= file[f].ver
    /\ sheet[r.conn] # None /\ ~r.loaded => \A f \in XslFile : sheet[r.conn].of[f] <= r.since[f]
Frames ==
    \A i \in 1 .. Len(call) : FrameOk(call[i]) /\ (i # Len(call) => call[i].pc = "transform")
\* FreshStylesheet, for a transformation
FreshOk(r) ==
    LET s == sheet[r.conn] IN
    r.pc = "transform" =>
        IF r.loaded
        THEN \A f \in XslFile : s.of[f] # 0 => r.since[f] <= s.of[f]
        ELSE \/ \E f \in XslFile : file[f].ver # r.since[f]
             \/ \E f \in XslFile : s.of[f] \notin {0, file[f].ver} /\ file[f].mtime = s.at
             \/ ~s.ext /\ \A f \in XslFile : s.of[f] \in {0, file[f].ver}
Fresh == \A i \in 1 .. Len(call) : FreshOk(call[i])
\* A load: what it has read, what it is going to read, and why it fails
LoadOk(r) ==
    LET l == r.load IN
    /\ l.at <= now /\ l.disk_time <= l.at /\ Method \notin l.todo
    /\ Main \in l.todo => l.todo = {Main} /\ ~l.bad
    /\ Main \notin l.todo => l.of[Main] # 0
    /\ \A f \in XslFile : l.of[f] # 0 =>
          /\ r.since[f] <= l.of[f] /\ l.of[f] <= file[f].ver
          /\ l.of[f] # file[f].ver => file[f].mtime >= l.at
          /\ l.of[f] = file[f].ver /\ ~l.bad => file[f].is = "good"
    /\ l.of[Main] = file[Main].ver =>
          /\ Part \in l.todo => Part \in refs
          /\ Part \in refs /\ ~l.bad => Part \in l.todo \/ l.of[Part] # 0
    /\ l.bad /\ xml_dependencies # None /\ sheet[r.conn] # None =>
          \E f \in XslFile : f \in xml_dependencies /\ Changed(r.conn, f)
Loads == \A i \in 1 .. Len(call) : call[i].pc = "load" => LoadOk(call[i])

FInv == Disk /\ Sheets /\ Lists /\ Frames /\ Fresh /\ Loads

\* What a connection has compiled
LEMMA SheetType ==
    ASSUME Types, NEW k \in Conn, sheet[k] # None
    PROVE  /\ sheet[k].of \in [XslFile -> Nat] /\ sheet[k].ext \in BOOLEAN /\ sheet[k].at \in Nat
           /\ disk_time[k] \in Nat
<1>1. sheet[k] \in Compiled /\ disk_time[k] \in Nat
  BY DEF Types
<1>. QED
  BY <1>1 DEF Compiled

LEMMA FileType ==
    ASSUME Types
    PROVE  now \in Nat /\ \A f \in XslFile : file[f].ver \in Nat /\ file[f].mtime \in Nat
  BY DEF Types

\* An edit: the version grows, the time is now
LEMMA EditDoes ==
    ASSUME Types, Disk, NEW f \in XslFile, edit(f)
    PROVE  /\ file'[f].ver = file[f].ver + 1 /\ file'[f].mtime = now
           /\ \A g \in XslFile : g # f => file'[g] = file[g]
           /\ \A g \in XslFile : /\ file'[g].ver >= file[g].ver /\ file'[g].mtime >= file[g].mtime
                                 /\ file'[g].ver \in Nat /\ file'[g].mtime \in Nat
           /\ f # Main => refs' = refs
           /\ UNCHANGED <<now, cache, prev_pass, sheet, deps, disk_time, used, xml_dependencies, call>>
<1>1. /\ file'[f].ver = file[f].ver + 1 /\ file'[f].mtime = now
      /\ \A g \in XslFile : g # f => file'[g] = file[g]
  <2>1. PICK is \in {"good", "bad", "missing"} :
           file' = [file EXCEPT ![f] = [ver |-> file[f].ver + 1, mtime |-> now, is |-> is]]
    BY DEF edit
  <2>. QED
    BY <2>1 DEF Types
<1>2. \A g \in XslFile : file[g].mtime <= now
  BY DEF Disk
<1>3. f # Main => refs' = refs
  BY DEF edit
<1>. QED
  BY <1>1, <1>2, <1>3, FileType DEF edit, conns

LEMMA DiskStep == ASSUME Types, Parameters, Disk, [Next]_vars PROVE Disk'
<1>1. CASE tick
  BY <1>1, FileType DEF tick, disk, Disk
<1>2. ASSUME NEW f \in XslFile, edit(f) PROVE Disk'
  <2>1. \A g \in XslFile : file'[g].mtime <= now' /\ file'[g].ver > 0
    BY <1>2, EditDoes, FileType DEF Disk
  <2>. QED
    BY <2>1 DEF Disk
<1>3. CASE UNCHANGED <<now, file>>
  BY <1>3 DEF Disk
<1>. QED
  BY <1>1, <1>2, <1>3
     DEF Next, vars, disk, open, maybe_expire_cache, get_connection, stylesheet, openExternal,
         openMethod, methodReturns, load, unuse

\* The frame of the transformation in progress
LEMMA TopIs ==
    ASSUME Types, call # <<>>
    PROVE  /\ Len(call) \in Nat /\ Len(call) \in 1 .. Len(call) /\ top = call[Len(call)]
           /\ top \in Frame /\ c \in Conn /\ c = top.conn
           /\ top.load \in Loaded /\ top.load.of \in [XslFile -> Nat] /\ top.load.at \in Nat
           /\ top.load.disk_time \in Nat /\ top.since \in [XslFile -> Nat]
           /\ c \in Busy
<1>1. Len(call) \in Nat /\ Len(call) \in 1 .. Len(call) /\ top = call[Len(call)] /\ top \in Frame /\ c \in Conn
  BY Top DEF Types, top
<1>2. DOMAIN call = 1 .. Len(call)
  BY TypesOfLists
<1>. QED
  BY <1>1, <1>2, Fields, LoadFields DEF c, Busy, top

\* What a load compiles
LEMMA NewSheetOk ==
    ASSUME Types, Parameters, Disk, Loads, load, ~top.load.bad
    PROVE  /\ sheet'[c] = NewSheet /\ disk_time'[c] = top.load.disk_time
           /\ \A k \in Conn : k = c => SheetOk(k)'
<1>1. call # <<>> /\ top.pc = "load" /\ top.load.todo = {}
  BY DEF load, at
<1>2. LoadOk(top)
  BY <1>1, TopIs DEF Loads
<1>3. /\ sheet'[c] = NewSheet /\ disk_time'[c] = top.load.disk_time
      /\ UNCHANGED <<now, file, refs>>
  BY <1>1, TopIs DEF load, NewSheet, Types, disk
<1>4. /\ NewSheet.of = top.load.of /\ NewSheet.ext = top.load.ext /\ NewSheet.at = top.load.at
  BY DEF NewSheet
<1>5. Main \in XslFile /\ Part \in XslFile
  BY DEF XslFile
<1>6. /\ top.load.at <= now /\ top.load.disk_time <= top.load.at /\ top.load.of[Main] # 0
      /\ top.load.of[Main] = file[Main].ver /\ Part \in refs => top.load.of[Part] # 0
  BY <1>1, <1>2 DEF LoadOk
<1>7. ASSUME NEW f \in XslFile
      PROVE  /\ top.load.of[f] <= file[f].ver
             /\ top.load.of[f] \notin {0, file[f].ver} => file[f].mtime >= top.load.at
             /\ top.load.of[f] = file[f].ver => file[f].is = "good"
  BY <1>1, <1>2, TopIs, FileType DEF LoadOk, Disk
<1>8. ASSUME NEW k \in Conn, k = c
      PROVE  SheetOk(k)'
  <2>1. /\ sheet'[k].of = top.load.of /\ sheet'[k].at = top.load.at
        /\ disk_time'[k] = top.load.disk_time
    BY <1>3, <1>4, <1>8
  <2>. QED
    BY <1>3, <1>6, <1>7, <2>1 DEF SheetOk
<1>. QED
  BY <1>3, <1>8

LEMMA SheetsStep ==
    ASSUME Types, Parameters, Disk, Sheets, Loads, [Next]_vars PROVE Sheets'
<1>1. CASE UNCHANGED <<now, file, refs, sheet, disk_time>>
  BY <1>1 DEF Sheets, SheetOk
<1>2. CASE tick
  <2>1. \A k \in Conn : sheet[k] # None => SheetOk(k)'
    BY <1>2, FileType, SheetType DEF tick, disk, conns, Sheets, SheetOk
  <2>. QED
    BY <1>2, <2>1 DEF Sheets, tick, conns
<1>3. ASSUME NEW f \in XslFile, edit(f) PROVE Sheets'
  <2>1. ASSUME NEW k \in Conn, sheet[k] # None PROVE SheetOk(k)'
    <3>1. SheetOk(k) /\ sheet[k].of \in [XslFile -> Nat] /\ sheet[k].at \in Nat
      BY <2>1, SheetType DEF Sheets
    <3>2. UNCHANGED <<now, sheet, disk_time>>
      BY <1>3, EditDoes
    <3>3. Main \in XslFile
      BY DEF XslFile
    <3>4. sheet[k].of[Main] = file'[Main].ver /\ Part \in refs' => sheet[k].of[Part] # 0
      BY <1>3, <3>1, <3>3, EditDoes, FileType DEF SheetOk
    <3>5. ASSUME NEW g \in XslFile
          PROVE  /\ sheet[k].of[g] <= file'[g].ver
                 /\ sheet[k].of[g] \notin {0, file'[g].ver} => file'[g].mtime >= sheet[k].at
                 /\ sheet[k].of[g] = file'[g].ver => file'[g].is = "good"
      <4>1. CASE g = f
        BY <1>3, <3>1, <4>1, EditDoes, FileType DEF SheetOk
      <4>2. CASE g # f
        BY <1>3, <3>1, <4>2, EditDoes, FileType DEF SheetOk
      <4>. QED
        BY <4>1, <4>2
    <3>. QED
      BY <3>1, <3>2, <3>4, <3>5 DEF SheetOk
  <2>. QED
    BY <1>3, <2>1, EditDoes DEF Sheets
<1>4. CASE maybe_expire_cache
  <2>1. /\ UNCHANGED <<now, file, refs, disk_time>>
        /\ \A k \in Conn : sheet'[k] # None => sheet'[k] = sheet[k]
    BY <1>4 DEF maybe_expire_cache, disk
  <2>. QED
    BY <2>1 DEF Sheets, SheetOk
<1>5. CASE get_connection
  <2>1. PICK r \in Frame : \/ /\ sheet' = [sheet EXCEPT ![r.conn] = None]
                              /\ disk_time' = [disk_time EXCEPT ![r.conn] = 0]
                           \/ UNCHANGED <<sheet, disk_time>>
    BY <1>5, GetConnectionDoes
  <2>2. \A k \in Conn : sheet'[k] # None => sheet'[k] = sheet[k] /\ disk_time'[k] = disk_time[k]
    BY <2>1 DEF Types
  <2>3. UNCHANGED <<now, file, refs>>
    BY <1>5 DEF get_connection, disk
  <2>. QED
    BY <2>2, <2>3 DEF Sheets, SheetOk
<1>6. CASE load
  <2>1. call # <<>> /\ UNCHANGED <<now, file, refs>>
    BY <1>6 DEF load, at, disk
  <2>2. CASE top.load.bad
    BY <1>1, <1>6, <2>1, <2>2 DEF load
  <2>3. CASE ~top.load.bad
    <3>1. \A k \in Conn : k # c => sheet'[k] = sheet[k] /\ disk_time'[k] = disk_time[k]
      BY <1>6, <2>3 DEF load, Types
    <3>2. \A k \in Conn : k # c /\ sheet'[k] # None => SheetOk(k)'
      BY <2>1, <3>1 DEF Sheets, SheetOk
    <3>3. \A k \in Conn : k = c => SheetOk(k)'
      BY <1>6, <2>3, NewSheetOk
    <3>. QED
      BY <3>2, <3>3 DEF Sheets
  <2>. QED
    BY <2>2, <2>3
<1>. QED
  BY <1>1, <1>2, <1>3, <1>4, <1>5, <1>6
     DEF Next, vars, disk, conns, open, stylesheet, openExternal, openMethod, methodReturns, unuse

LEMMA ListsStep ==
    ASSUME Types, Parameters, Apart, Collected, Disk, Sheets, Lists, Loads, [Next]_vars
    PROVE  Lists'
<1>. SUFFICES ASSUME NEW k \in Conn, sheet'[k] # None, Idle(k)' PROVE Listed(k, deps[k])'
  BY DEF Lists
<1>1. ASSUME sheet'[k] = sheet[k], deps'[k] = deps[k], UNCHANGED file, Idle(k)
      PROVE  Listed(k, deps[k])'
  <2>1. Listed(k, deps[k])
    BY <1>1 DEF Lists
  <2>. QED
    BY <1>1, <2>1 DEF Listed, Changed
\* a transformation that loads another stylesheet, or that has not begun to load
<1>2. ASSUME call # <<>>, NEW r, Only(r), r.conn = c,
             k # c \/ top.pc \notin {"load"}
      PROVE  Idle(k)
  <2>1. ASSUME NEW i \in 1 .. Len(call), call[i].conn = k PROVE call[i].pc # "load"
    <3>1. CASE i = Len(call)
      BY <1>2, <2>1, <3>1, TopIs
    <3>2. CASE i # Len(call)
      <4>1. call'[i] = call[i] /\ i \in 1 .. Len(call')
        BY <1>2, <3>2, FrameFacts
      <4>. QED
        BY <2>1, <4>1 DEF Idle
    <3>. QED
      BY <3>1, <3>2
  <2>. QED
    BY <2>1 DEF Idle
\* the connection of a load is not idle
<1>3. ASSUME call # <<>>, NEW r, Only(r), r.conn = c, r.pc = "load" PROVE k # c
  <2>1. call'[Len(call)] = r /\ Len(call) \in 1 .. Len(call')
    BY <1>3, FrameFacts
  <2>. QED
    BY <1>3, <2>1 DEF Idle
<1>4. CASE UNCHANGED <<file, sheet, deps, call>>
  BY <1>1, <1>4 DEF Idle
<1>5. ASSUME NEW f \in XslFile, edit(f) PROVE Listed(k, deps[k])'
  <2>1. UNCHANGED <<sheet, deps, call>>
    BY <1>5, EditDoes
  <2>2. Idle(k) /\ Listed(k, deps[k]) /\ SheetOk(k)
    BY <2>1 DEF Idle, Lists, Sheets
  <2>3. sheet[k].of \in [XslFile -> Nat] /\ sheet[k].at \in Nat
    BY <2>1, SheetType
  <2>4. \A g \in XslFile : Changed(k, g) => Changed(k, g)'
    <3>1. ASSUME NEW g \in XslFile, Changed(k, g) PROVE Changed(k, g)'
      <4>1. sheet[k].of[g] \in Nat /\ sheet[k].of[g] # 0 /\ sheet[k].of[g] < file[g].ver
            /\ file[g].mtime >= sheet[k].at
        BY <2>2, <2>3, <3>1, FileType DEF Changed, SheetOk
      <4>2. file'[g].ver >= file[g].ver /\ file'[g].mtime >= file[g].mtime
            /\ file'[g].ver \in Nat /\ file'[g].mtime \in Nat
        BY <1>5, EditDoes
      <4>3. sheet[k].of[g] # file'[g].ver /\ file'[g].mtime >= sheet[k].at
        BY <2>3, <4>1, <4>2, FileType
      <4>. QED
        BY <2>1, <4>1, <4>3 DEF Changed
    <3>. QED
      BY <3>1
  <2>. QED
    BY <2>1, <2>2, <2>4 DEF Listed
<1>6. ASSUME NEW f \in XslFile, open(f) PROVE Listed(k, deps[k])'
  <2>1. call # <<>> /\ UNCHANGED <<file, sheet, deps>>
    BY <1>6 DEF open, at, disk, conns
  <2>2. PICK r \in Frame : Only(r) /\ r.conn = c /\ r.pc = "load"
    BY <1>6, OpenDoes DEF Same
  <2>. QED
    BY <1>1, <1>2, <1>3, <2>1, <2>2
<1>7. CASE openExternal
  <2>1. call # <<>> /\ UNCHANGED <<file, sheet, deps>>
    BY <1>7 DEF openExternal, at, disk, conns
  <2>2. PICK r \in Frame : Only(r) /\ r.conn = c /\ r.pc = "load"
    BY <1>7, OpenExternalDoes DEF Same
  <2>. QED
    BY <1>1, <1>2, <1>3, <2>1, <2>2
<1>8. CASE openMethod
  <2>1. call # <<>> /\ top.pc = "load" /\ Method \in top.load.todo
    BY <1>8 DEF openMethod, at
  <2>. QED
    BY <2>1, TopIs DEF Loads, LoadOk
<1>9. CASE methodReturns
  <2>1. call # <<>> /\ top.pc = "method" /\ UNCHANGED <<file, sheet, deps>>
    BY <1>9 DEF methodReturns, at, disk, conns
  <2>2. PICK r \in Frame : Only(r) /\ r.conn = c
    BY <1>9, MethodReturnsDoes DEF Same
  <2>. QED
    BY <1>1, <1>2, <2>1, <2>2
<1>10. CASE maybe_expire_cache
  <2>1. UNCHANGED <<file, deps, call>> /\ sheet'[k] = sheet[k]
    BY <1>10 DEF maybe_expire_cache, disk
  <2>. QED
    BY <1>1, <2>1 DEF Idle
<1>11. CASE get_connection
  <2>1. PICK r \in Frame :
              /\ call' = Append(call, r)
              /\ \/ /\ sheet' = [sheet EXCEPT ![r.conn] = None]
                    /\ deps' = [deps EXCEPT ![r.conn] = None]
                 \/ UNCHANGED <<sheet, deps>>
    BY <1>11, GetConnectionDoes
  <2>2. sheet'[k] = sheet[k] /\ deps'[k] = deps[k]
    BY <2>1 DEF Types
  <2>3. Idle(k)
    <3>1. /\ Len(call') = Len(call) + 1 /\ \A i \in 1 .. Len(call) : call'[i] = call[i]
          /\ Len(call) \in Nat
      BY <2>1, Pushed, TypesOfLists DEF Types
    <3>2. \A i \in 1 .. Len(call) : i \in 1 .. Len(call') /\ call'[i] = call[i]
      BY <3>1
    <3>. QED
      BY <3>2 DEF Idle
  <2>. QED
    BY <1>1, <1>11, <2>2, <2>3 DEF get_connection, disk
<1>12. CASE stylesheet
  <2>1. call # <<>> /\ top.pc = "stylesheet" /\ UNCHANGED <<file, sheet>>
    BY <1>12 DEF stylesheet, at, disk
  <2>2. PICK r \in Frame : /\ Only(r) /\ Same(r)
                           /\ UNCHANGED deps \/ (r.pc = "load" /\ deps' = [deps EXCEPT ![c] = {}])
    BY <1>12, StylesheetDoes
  <2>3. Idle(k)
    BY <1>2, <2>1, <2>2 DEF Same
  <2>4. deps'[k] = deps[k]
    <3>1. CASE UNCHANGED deps
      BY <3>1
    <3>2. CASE r.pc = "load" /\ deps' = [deps EXCEPT ![c] = {}]
      <4>1. k # c
        BY <1>3, <2>1, <2>2, <3>2 DEF Same
      <4>. QED
        BY <3>2, <4>1 DEF Types
    <3>. QED
      BY <2>2, <3>1, <3>2
  <2>. QED
    BY <1>1, <2>1, <2>3, <2>4
<1>13. CASE load
  <2>1. call # <<>> /\ top.pc = "load" /\ UNCHANGED file /\ deps' = [deps EXCEPT ![c] = xml_dependencies]
    BY <1>13 DEF load, at, disk
  <2>2. PICK r \in Frame : Only(r) /\ r.conn = c
    BY <1>13, LoadDoes
  <2>3. CASE k # c
    <3>1. deps'[k] = deps[k] /\ sheet'[k] = sheet[k]
      BY <1>13, <2>1, <2>3 DEF load, Types
    <3>. QED
      BY <1>1, <1>2, <2>1, <2>2, <2>3, <3>1
  <2>4. CASE k = c
    <3>1. deps'[k] = xml_dependencies
      BY <2>1, <2>4 DEF Types
    <3>2. CASE top.load.bad
      <4>1. sheet' = sheet
        BY <1>13, <3>2 DEF load
      <4>2. LoadOk(top) /\ top.conn = k
        BY <2>1, <2>4, TopIs DEF Loads
      <4>3. xml_dependencies # None => \E f \in XslFile : f \in xml_dependencies /\ Changed(k, f)
        BY <3>2, <4>1, <4>2 DEF LoadOk
      <4>. QED
        BY <2>1, <3>1, <4>1, <4>3 DEF Listed, Changed
    <3>3. CASE ~top.load.bad
      <4>1. sheet'[k] = NewSheet
        BY <1>13, <2>4, <3>3, NewSheetOk
      <4>2. xml_dependencies # None => /\ \A f \in XslFile : NewSheet.of[f] # 0 => f \in xml_dependencies
                                       /\ ~NewSheet.ext
        <5>1. /\ Len(call) \in 1 .. Len(call) /\ top = call[Len(call)] /\ Loading(Len(call))
              /\ \A j \in 1 .. Len(call) : j <= Len(call)
          BY <2>1, TopIs DEF Loading
        <5>. QED
          BY <5>1 DEF Collected, NewSheet
      <4>. QED
        BY <3>1, <4>1, <4>2 DEF Listed
    <3>. QED
      BY <3>2, <3>3
  <2>. QED
    BY <2>3, <2>4
<1>14. CASE unuse
  <2>1. /\ call # <<>> /\ top.pc # "load" /\ Len(call') = Len(call) - 1
        /\ \A i \in 1 .. Len(call) - 1 : call'[i] = call[i]
        /\ UNCHANGED <<file, sheet, deps>>
    BY <1>14, UnuseDoes DEF unuse, disk, conns
  <2>2. Idle(k)
    <3>1. ASSUME NEW i \in 1 .. Len(call), call[i].conn = k PROVE call[i].pc # "load"
      <4>1. CASE i = Len(call)
        BY <2>1, <4>1, TopIs
      <4>2. CASE i # Len(call)
        <5>1. i \in 1 .. Len(call') /\ call'[i] = call[i]
          BY <2>1, <4>2, TopIs
        <5>. QED
          BY <3>1, <5>1 DEF Idle
      <4>. QED
        BY <4>1, <4>2
    <3>. QED
      BY <3>1 DEF Idle
  <2>. QED
    BY <1>1, <2>1, <2>2
<1>15. CASE tick
  BY <1>4, <1>15 DEF tick, disk, conns
<1>16. CASE UNCHANGED vars
  BY <1>4, <1>16 DEF vars
<1>. QED
  BY <1>5, <1>6, <1>7, <1>8, <1>9, <1>10, <1>11, <1>12, <1>13, <1>14, <1>15, <1>16 DEF Next

\* The transformations that are not in progress stay as they are, with their
\* stylesheets: the steps of the last one
LEMMA OthersStay ==
    ASSUME Types, Apart, call # <<>>, NEW r, Only(r), UNCHANGED file,
           \A k \in Conn : k # c => sheet'[k] = sheet[k] /\ deps'[k] = deps[k]
    PROVE  \A i \in 1 .. Len(call) : i # Len(call) =>
              /\ call'[i] = call[i] /\ call[i].conn \in Conn
              /\ sheet'[call[i].conn] = sheet[call[i].conn] /\ deps'[call[i].conn] = deps[call[i].conn]
<1>1. \A i \in 1 .. Len(call) : i # Len(call) => call[i].conn \in Conn /\ call[i].conn # c
  BY TypesOfLists, TopIs DEF Apart
<1>. QED
  BY <1>1, FrameFacts

\* Frames, from the frame that changes
LEMMA FramesChange ==
    ASSUME Types, Apart, call # <<>>, NEW r, Only(r), UNCHANGED file,
           \A k \in Conn : k # c => sheet'[k] = sheet[k] /\ deps'[k] = deps[k],
           Frames, FrameOk(r)'
    PROVE  Frames'
<1>1. ASSUME NEW i \in 1 .. Len(call), i # Len(call)
      PROVE  FrameOk(call[i])' /\ call'[i].pc = "transform"
  <2>1. /\ call'[i] = call[i] /\ sheet'[call[i].conn] = sheet[call[i].conn]
        /\ deps'[call[i].conn] = deps[call[i].conn]
    BY <1>1, OthersStay
  <2>2. FrameOk(call[i]) /\ call[i].pc = "transform"
    BY <1>1 DEF Frames
  <2>. QED
    BY <2>1, <2>2 DEF FrameOk
<1>2. Len(call') = Len(call) /\ call'[Len(call)] = r
  BY FrameFacts
<1>3. FrameOk(call[Len(call)])'
  BY <1>2, FrameFacts DEF FrameOk
<1>4. ASSUME NEW i \in 1 .. Len(call')
      PROVE  FrameOk(call[i])' /\ (i # Len(call') => call'[i].pc = "transform")
  BY <1>1, <1>2, <1>3, <1>4
<1>. QED
  BY <1>4 DEF Frames

LEMMA FramesStep ==
    ASSUME Types, Parameters, Fits', Apart, Asked, Disk, Sheets, Frames, Loads, [Next]_vars
    PROVE  Frames'
<1>1. CASE UNCHANGED <<file, sheet, deps, call>>
  BY <1>1 DEF Frames, FrameOk
<1>2. ASSUME call # <<>>
      PROVE  FrameOk(top) /\ (top.pc = "load" => LoadOk(top))
  BY <1>2, TopIs DEF Frames, Loads
<1>3. ASSUME NEW f \in XslFile, edit(f) PROVE Frames'
  <2>1. UNCHANGED <<sheet, deps, call>>
    BY <1>3, EditDoes
  <2>2. ASSUME NEW i \in 1 .. Len(call), NEW g \in XslFile PROVE call[i].since[g] <= file'[g].ver
    <3>1. call[i].since \in [XslFile -> Nat] /\ call[i].since[g] <= file[g].ver
      BY TypesOfLists, Fields DEF Frames, FrameOk
    <3>2. file'[g].ver >= file[g].ver /\ file'[g].ver \in Nat
      BY <1>3, EditDoes
    <3>. QED
      BY <3>1, <3>2, FileType
  <2>. QED
    BY <2>1, <2>2 DEF Frames, FrameOk
<1>4. ASSUME NEW f \in XslFile, open(f) PROVE Frames'
  <2>1. call # <<>> /\ UNCHANGED <<file, sheet, deps>>
    BY <1>4 DEF open, at, disk, conns
  <2>2. PICK r \in Frame : Only(r) /\ Same(r) /\ top.pc = "load" /\ r.pc = "load"
    BY <1>4, OpenDoes
  <2>3. FrameOk(r)'
    BY <1>2, <2>1, <2>2, TopIs DEF FrameOk, Same
  <2>. QED
    BY <2>1, <2>2, <2>3, FramesChange
<1>5. CASE openExternal
  <2>1. call # <<>> /\ UNCHANGED <<file, sheet, deps>>
    BY <1>5 DEF openExternal, at, disk, conns
  <2>2. PICK r \in Frame : Only(r) /\ Same(r) /\ top.pc = "load" /\ r.pc = "load"
    BY <1>5, OpenExternalDoes
  <2>3. FrameOk(r)'
    BY <1>2, <2>1, <2>2, TopIs DEF FrameOk, Same
  <2>. QED
    BY <2>1, <2>2, <2>3, FramesChange
<1>6. CASE openMethod
  <2>1. call # <<>> /\ top.pc = "load" /\ Method \in top.load.todo
    BY <1>6 DEF openMethod, at
  <2>. QED
    BY <1>2, <2>1 DEF LoadOk
<1>7. CASE methodReturns
  <2>1. call # <<>> /\ top.pc = "method"
    BY <1>7 DEF methodReturns, at
  <2>. QED
    BY <1>2, <2>1 DEF FrameOk
<1>8. CASE maybe_expire_cache
  <2>1. Len(call') = 0
    BY <1>8, EmptySeq DEF maybe_expire_cache
  <2>. QED
    BY <2>1 DEF Frames
<1>9. CASE get_connection
  <2>1. PICK r \in Frame :
              /\ call' = Append(call, r) /\ r.pc = "stylesheet" /\ ~r.loaded
              /\ \A f \in XslFile : r.since[f] = file[f].ver
              /\ \/ /\ r.conn \notin Busy
                    /\ sheet' = [sheet EXCEPT ![r.conn] = None]
                    /\ deps' = [deps EXCEPT ![r.conn] = None]
                 \/ sheet[r.conn] # None /\ UNCHANGED <<sheet, deps>>
    BY <1>9, GetConnectionDoes
  <2>2. UNCHANGED file /\ (call = <<>> \/ top.pc \in {"method", "transform"})
    BY <1>9 DEF get_connection, disk, at
  <2>3. /\ Len(call') = Len(call) + 1 /\ call'[Len(call) + 1] = r
        /\ \A i \in 1 .. Len(call) : call'[i] = call[i]
        /\ Len(call) \in Nat /\ r.conn \in Conn
    BY <2>1, Pushed, TypesOfLists, Fields DEF Types
  <2>4. \A i \in 1 .. Len(call) : call[i].pc = "transform"
    <3>1. CASE call = <<>>
      BY <3>1, EmptySeq
    <3>2. CASE call # <<>>
      <4>1. top.pc = "transform"
        BY <1>2, <2>2, <3>2 DEF FrameOk
      <4>. QED
        BY <3>2, <4>1, TopIs DEF Frames
    <3>. QED
      BY <3>1, <3>2
  <2>5. ASSUME NEW i \in 1 .. Len(call) PROVE FrameOk(call[i])'
    <3>1. call'[i] = call[i] /\ call[i].conn \in Conn /\ call[i].conn \in Busy
      BY <2>3, TypesOfLists DEF Busy
    <3>2. /\ sheet'[call[i].conn] = sheet[call[i].conn] /\ deps'[call[i].conn] = deps[call[i].conn]
      BY <2>1, <3>1 DEF Types
    <3>. QED
      BY <2>2, <3>1, <3>2 DEF Frames, FrameOk
  <2>6. FrameOk(r)'
    <3>1. \A f \in XslFile : r.since[f] <= file[f].ver
      BY <2>1, FileType
    <3>2. sheet'[r.conn] # None \/ deps'[r.conn] = None
      BY <2>1, <2>3 DEF Types
    <3>3. sheet'[r.conn] # None => \A f \in XslFile : sheet'[r.conn].of[f] <= r.since[f]
      BY <2>1, <2>3 DEF Types, Sheets, SheetOk
    <3>. QED
      BY <2>1, <2>2, <3>1, <3>2, <3>3 DEF FrameOk
  <2>7. ASSUME NEW i \in 1 .. Len(call'), i = Len(call) + 1 PROVE FrameOk(call[i])'
    <3>1. call'[i] = r
      BY <2>3, <2>7
    <3>. QED
      BY <2>6, <3>1 DEF FrameOk
  <2>8. ASSUME NEW i \in 1 .. Len(call')
        PROVE  FrameOk(call[i])' /\ (i # Len(call') => call'[i].pc = "transform")
    <3>1. CASE i = Len(call) + 1
      BY <2>3, <2>7, <3>1
    <3>2. CASE i # Len(call) + 1
      <4>1. i \in 1 .. Len(call)
        BY <2>3, <3>2
      <4>. QED
        BY <2>3, <2>4, <2>5, <4>1
    <3>. QED
      BY <3>1, <3>2
  <2>. QED
    BY <2>8 DEF Frames
<1>10. CASE stylesheet
  <2>1. call # <<>> /\ top.pc = "stylesheet" /\ UNCHANGED <<file, sheet>>
    BY <1>10 DEF stylesheet, at, disk
  <2>2. PICK r \in Frame :
              /\ Only(r) /\ Same(r)
              /\ \/ r.pc = "no dependency" /\ UNCHANGED deps
                 \/ r.pc = "load" /\ deps' = [deps EXCEPT ![c] = {}]
                 \/ ~Reload /\ r.pc = "transform" /\ UNCHANGED deps
    BY <1>10, StylesheetDoes
  <2>3. ~top.loaded
    BY <2>1, TopIs DEF Asked
  <2>4. r.pc = "transform" => sheet[c] # None
    BY <1>2, <2>1, <2>2, TopIs DEF FrameOk, Reload
  <2>5. FrameOk(r)'
    BY <1>2, <2>1, <2>2, <2>3, <2>4, TopIs DEF FrameOk, Same
  <2>6. \A k \in Conn : k # c => sheet'[k] = sheet[k] /\ deps'[k] = deps[k]
    BY <2>1, <2>2 DEF Types
  <2>. QED
    BY <2>1, <2>2, <2>5, <2>6, FramesChange
<1>11. CASE load
  <2>1. /\ call # <<>> /\ UNCHANGED file /\ deps' = [deps EXCEPT ![c] = xml_dependencies]
        /\ sheet' = sheet \/ sheet' = [sheet EXCEPT ![c] = NewSheet]
    BY <1>11 DEF load, at, disk, NewSheet
  <2>2. PICK r \in Frame :
              /\ Only(r) /\ r.conn = c /\ r.since = top.since /\ r.loaded /\ top.pc = "load"
              /\ r.pc = (IF top.load.bad THEN "failed" ELSE "transform")
    BY <1>11, LoadDoes
  <2>3. r.pc = "transform" => sheet'[c] # None
    <3>1. ~top.load.bad => sheet'[c] = NewSheet /\ NewSheet \in Compiled
      BY <1>11, NewSheetOk, LoadDoes
    <3>. QED
      BY <2>2, <3>1 DEF Parameters
  <2>4. FrameOk(r)'
    BY <1>2, <2>1, <2>2, <2>3 DEF FrameOk
  <2>5. \A k \in Conn : k # c => sheet'[k] = sheet[k] /\ deps'[k] = deps[k]
    BY <2>1 DEF Types
  <2>. QED
    BY <2>1, <2>2, <2>4, <2>5, FramesChange
<1>12. CASE unuse
  <2>1. /\ Len(call') = Len(call) - 1 /\ \A i \in 1 .. Len(call) - 1 : call'[i] = call[i]
        /\ UNCHANGED <<file, sheet, deps>>
    BY <1>12, UnuseDoes DEF unuse, disk, conns
  <2>2. \A i \in 1 .. Len(call') : i \in 1 .. Len(call) /\ i # Len(call) /\ call'[i] = call[i]
    BY <2>1, TypesOfLists
  <2>. QED
    BY <2>1, <2>2 DEF Frames, FrameOk
<1>. QED
  BY <1>1, <1>3, <1>4, <1>5, <1>6, <1>7, <1>8, <1>9, <1>10, <1>11, <1>12
     DEF Next, tick, vars, disk, conns

\* A stylesheet that was kept, at the moment it is chosen
LEMMA KeptIsFresh ==
    ASSUME Types, Disk, Sheets, Lists, call # <<>>, Idle(c), sheet[c] # None, ~Reload
    PROVE  \/ \E f \in XslFile : /\ sheet[c].of[f] \notin {0, file[f].ver}
                                 /\ file[f].mtime = sheet[c].at
           \/ ~sheet[c].ext /\ \A f \in XslFile : sheet[c].of[f] \in {0, file[f].ver}
<1>1. c \in Conn
  BY TopIs
<1>2. deps[c] # None /\ deps[c] \in SUBSET XslFile
  BY <1>1 DEF Reload, Types
<1>3. Latest(deps[c]) <= disk_time[c] /\ \A f \in deps[c] : file[f].mtime <= Latest(deps[c])
  BY <1>1, <1>2, LatestIs, SheetType DEF Reload, get_disk_time
<1>4. SheetOk(c) /\ Listed(c, deps[c])
  BY <1>1 DEF Sheets, Lists
<1>5. \A f \in XslFile : f \in deps[c] => file[f].mtime <= sheet[c].at
  BY <1>1, <1>2, <1>3, <1>4, SheetType, FileType, LatestIs DEF SheetOk
\* a file of the list that is not as it was
<1>6. ASSUME NEW f \in XslFile, f \in deps[c], sheet[c].of[f] \notin {0, file[f].ver}
      PROVE  file[f].mtime = sheet[c].at
  BY <1>1, <1>4, <1>5, <1>6, SheetType, FileType DEF SheetOk
<1>7. CASE ~sheet[c].ext /\ \A f \in XslFile : sheet[c].of[f] # 0 => f \in deps[c]
  BY <1>6, <1>7
<1>8. CASE \E f \in XslFile : f \in deps[c] /\ Changed(c, f)
  BY <1>6, <1>8 DEF Changed
<1>. QED
  BY <1>2, <1>4, <1>7, <1>8 DEF Listed

\* Fresh, from the frame that changes
LEMMA FreshChanges ==
    ASSUME Types, Apart, call # <<>>, NEW r, Only(r), UNCHANGED file,
           \A k \in Conn : k # c => sheet'[k] = sheet[k] /\ deps'[k] = deps[k],
           Fresh, FreshOk(r)'
    PROVE  Fresh'
<1>1. ASSUME NEW i \in 1 .. Len(call), i # Len(call) PROVE FreshOk(call[i])'
  <2>1. call'[i] = call[i] /\ sheet'[call[i].conn] = sheet[call[i].conn]
    BY <1>1, OthersStay
  <2>. QED
    BY <2>1 DEF Fresh, FreshOk
<1>2. Len(call') = Len(call) /\ call'[Len(call)] = r
  BY FrameFacts
<1>3. ASSUME NEW i \in 1 .. Len(call'), i = Len(call) PROVE FreshOk(call[i])'
  BY <1>2, <1>3 DEF FreshOk
<1>. QED
  BY <1>1, <1>2, <1>3 DEF Fresh

LEMMA FreshStep ==
    ASSUME Types, Parameters, Apart, Asked, Disk, Sheets, Lists, Frames, Fresh, Loads,
           [Next]_vars
    PROVE  Fresh'
<1>1. CASE UNCHANGED <<file, sheet, call>>
  BY <1>1 DEF Fresh, FreshOk
<1>2. ASSUME call # <<>>
      PROVE  FrameOk(top) /\ (top.pc = "load" => LoadOk(top))
  BY <1>2, TopIs DEF Frames, Loads
\* the last transformation does not go on to transform
<1>3. ASSUME call # <<>>, NEW r, Only(r), r.pc # "transform", UNCHANGED <<file, sheet, deps>>
      PROVE  Fresh'
  <2>1. FreshOk(r)'
    BY <1>3 DEF FreshOk
  <2>. QED
    BY <1>3, <2>1, FreshChanges
<1>4. ASSUME NEW f \in XslFile, edit(f) PROVE Fresh'
  <2>1. UNCHANGED <<sheet, deps, call>> /\ file'[f].ver = file[f].ver + 1
    BY <1>4, EditDoes
  <2>2. ASSUME NEW i \in 1 .. Len(call) PROVE FreshOk(call[i])'
    <3>1. call[i].since \in [XslFile -> Nat] /\ call[i].since[f] <= file[f].ver
      BY TypesOfLists, Fields DEF Frames, FrameOk
    <3>2. file'[f].ver # call[i].since[f]
      BY <2>1, <3>1, FileType
    <3>. QED
      BY <2>1, <3>2 DEF Fresh, FreshOk
  <2>. QED
    BY <2>1, <2>2 DEF Fresh
<1>5. ASSUME NEW f \in XslFile, open(f) PROVE Fresh'
  <2>1. call # <<>> /\ UNCHANGED <<file, sheet, deps>>
    BY <1>5 DEF open, at, disk, conns
  <2>2. PICK r \in Frame : Only(r) /\ r.pc = "load"
    BY <1>5, OpenDoes
  <2>. QED
    BY <1>3, <2>1, <2>2
<1>6. CASE openExternal
  <2>1. call # <<>> /\ UNCHANGED <<file, sheet, deps>>
    BY <1>6 DEF openExternal, at, disk, conns
  <2>2. PICK r \in Frame : Only(r) /\ r.pc = "load"
    BY <1>6, OpenExternalDoes
  <2>. QED
    BY <1>3, <2>1, <2>2
<1>7. CASE openMethod
  <2>1. call # <<>> /\ top.pc = "load" /\ Method \in top.load.todo
    BY <1>7 DEF openMethod, at
  <2>. QED
    BY <1>2, <2>1 DEF LoadOk
<1>8. CASE methodReturns
  <2>1. call # <<>> /\ top.pc = "method"
    BY <1>8 DEF methodReturns, at
  <2>. QED
    BY <1>2, <2>1 DEF FrameOk
<1>9. CASE maybe_expire_cache
  <2>1. Len(call') = 0
    BY <1>9, EmptySeq DEF maybe_expire_cache
  <2>. QED
    BY <2>1 DEF Fresh
<1>10. CASE get_connection
  <2>1. PICK r \in Frame :
              /\ call' = Append(call, r) /\ r.pc = "stylesheet"
              /\ \/ r.conn \notin Busy /\ sheet' = [sheet EXCEPT ![r.conn] = None]
                 \/ UNCHANGED sheet
    BY <1>10, GetConnectionDoes
  <2>2. /\ Len(call') = Len(call) + 1 /\ call'[Len(call) + 1] = r
        /\ \A i \in 1 .. Len(call) : call'[i] = call[i]
        /\ Len(call) \in Nat /\ r.conn \in Conn /\ UNCHANGED file
    BY <1>10, <2>1, Pushed, TypesOfLists, Fields DEF Types, get_connection, disk
  <2>3. ASSUME NEW i \in 1 .. Len(call') PROVE FreshOk(call[i])'
    <3>1. CASE i = Len(call) + 1
      BY <2>1, <2>2, <3>1 DEF FreshOk
    <3>2. CASE i # Len(call) + 1
      <4>1. i \in 1 .. Len(call)
        BY <2>2, <3>2
      <4>2. call'[i] = call[i] /\ call[i].conn \in Conn /\ call[i].conn \in Busy
        BY <2>2, <4>1, TypesOfLists DEF Busy
      <4>3. sheet'[call[i].conn] = sheet[call[i].conn]
        BY <2>1, <4>2 DEF Types
      <4>. QED
        BY <2>2, <4>1, <4>2, <4>3 DEF Fresh, FreshOk
    <3>. QED
      BY <3>1, <3>2
  <2>. QED
    BY <2>3 DEF Fresh
<1>11. CASE stylesheet
  <2>1. call # <<>> /\ top.pc = "stylesheet" /\ UNCHANGED <<file, sheet>>
    BY <1>11 DEF stylesheet, at, disk
  <2>2. PICK r \in Frame :
              /\ Only(r) /\ Same(r)
              /\ \/ r.pc = "no dependency" /\ UNCHANGED deps
                 \/ r.pc = "load" /\ deps' = [deps EXCEPT ![c] = {}]
                 \/ ~Reload /\ r.pc = "transform" /\ UNCHANGED deps
    BY <1>11, StylesheetDoes
  <2>3. \A k \in Conn : k # c => sheet'[k] = sheet[k] /\ deps'[k] = deps[k]
    BY <2>1, <2>2 DEF Types
  <2>4. FreshOk(r)'
    <3>1. CASE r.pc # "transform"
      BY <3>1 DEF FreshOk
    <3>2. CASE r.pc = "transform"
      <4>1. ~Reload
        BY <2>2, <3>2
      <4>2. ~r.loaded /\ r.conn = c
        BY <2>1, <2>2, TopIs DEF Asked, Same
      <4>3. sheet[c] # None
        BY <1>2, <2>1, <4>1, TopIs DEF FrameOk, Reload
      <4>4. Idle(c)
        <5>1. ASSUME NEW i \in 1 .. Len(call), call[i].conn = c PROVE i = Len(call)
          BY <2>1, <5>1, TopIs DEF Apart
        <5>. QED
          BY <2>1, <5>1, TopIs DEF Idle
      <4>5. \/ \E f \in XslFile : /\ sheet[c].of[f] \notin {0, file[f].ver}
                                  /\ file[f].mtime = sheet[c].at
            \/ ~sheet[c].ext /\ \A f \in XslFile : sheet[c].of[f] \in {0, file[f].ver}
        BY <2>1, <4>1, <4>3, <4>4, KeptIsFresh
      <4>6. sheet'[r.conn] = sheet[c]
        BY <2>1, <4>2
      <4>. QED
        BY <2>1, <4>2, <4>5, <4>6 DEF FreshOk
    <3>. QED
      BY <3>1, <3>2
  <2>. QED
    BY <2>1, <2>2, <2>3, <2>4, FreshChanges
<1>12. CASE load
  <2>1. /\ call # <<>> /\ UNCHANGED file /\ deps' = [deps EXCEPT ![c] = xml_dependencies]
        /\ sheet' = sheet \/ sheet' = [sheet EXCEPT ![c] = NewSheet]
    BY <1>12 DEF load, at, disk, NewSheet
  <2>2. PICK r \in Frame :
              /\ Only(r) /\ r.conn = c /\ r.since = top.since /\ r.loaded /\ top.pc = "load"
              /\ r.pc = (IF top.load.bad THEN "failed" ELSE "transform")
    BY <1>12, LoadDoes
  <2>3. \A k \in Conn : k # c => sheet'[k] = sheet[k] /\ deps'[k] = deps[k]
    BY <2>1 DEF Types
  <2>4. FreshOk(r)'
    <3>1. CASE top.load.bad
      BY <2>2, <3>1 DEF FreshOk
    <3>2. CASE ~top.load.bad
      <4>1. sheet'[r.conn].of = top.load.of
        BY <1>12, <2>2, <3>2, NewSheetOk DEF NewSheet
      <4>2. \A f \in XslFile : top.load.of[f] # 0 => top.since[f] <= top.load.of[f]
        BY <1>2, <2>1, <2>2 DEF LoadOk
      <4>. QED
        BY <2>2, <4>1, <4>2 DEF FreshOk
    <3>. QED
      BY <3>1, <3>2
  <2>. QED
    BY <2>1, <2>2, <2>3, <2>4, FreshChanges
<1>13. CASE unuse
  <2>1. /\ Len(call') = Len(call) - 1 /\ \A i \in 1 .. Len(call) - 1 : call'[i] = call[i]
        /\ UNCHANGED <<file, sheet>>
    BY <1>13, UnuseDoes DEF unuse, disk, conns
  <2>2. \A i \in 1 .. Len(call') : i \in 1 .. Len(call) /\ call'[i] = call[i]
    BY <2>1, TypesOfLists
  <2>. QED
    BY <2>1, <2>2 DEF Fresh, FreshOk
<1>. QED
  BY <1>1, <1>4, <1>5, <1>6, <1>7, <1>8, <1>9, <1>10, <1>11, <1>12, <1>13
     DEF Next, tick, vars, disk, conns

\* Loads, from the frame that changes: the other transformations have loaded
LEMMA LoadsChange ==
    ASSUME Types, call # <<>>, NEW r, Only(r), Frames, r.pc = "load" => LoadOk(r)'
    PROVE  Loads'
<1>1. ASSUME NEW i \in 1 .. Len(call), i # Len(call) PROVE call'[i].pc # "load"
  BY <1>1, FrameFacts DEF Frames
<1>2. Len(call') = Len(call) /\ call'[Len(call)] = r
  BY FrameFacts
<1>3. ASSUME NEW i \in 1 .. Len(call'), i = Len(call), call'[i].pc = "load" PROVE LoadOk(call[i])'
  <2>1. call'[i] = r
    BY <1>2, <1>3
  <2>. QED
    BY <1>3, <2>1 DEF LoadOk
<1>. QED
  BY <1>1, <1>2, <1>3 DEF Loads

\* The reading of a file
LEMMA LoadsOpen ==
    ASSUME Types, Parameters, Method \notin Ref, Collected, Disk, Sheets, Frames, Loads,
           NEW f \in XslFile, open(f)
    PROVE  Loads'
<1>1. call # <<>> /\ add_dependency(f) /\ UNCHANGED <<now, file, refs, sheet>>
  BY DEF open, at, disk, conns
<1>2. PICK r \in Frame :
              /\ Only(r) /\ Same(r) /\ top.pc = "load" /\ r.pc = "load"
              /\ f \in top.load.todo
              /\ r.load.at = top.load.at /\ r.load.disk_time = top.load.disk_time
              /\ r.load.of = [top.load.of EXCEPT ![f] = file[f].ver]
              /\ r.load.todo = (top.load.todo \ {f})
                                    \cup (IF f = Main /\ file[f].is = "good" THEN refs ELSE {})
              /\ r.load.bad <=> (top.load.bad \/ file[f].is # "good")
  BY OpenDoes
<1>3. LoadOk(top) /\ FrameOk(top)
  BY <1>1, <1>2, TopIs DEF Loads, Frames
<1>4. /\ Main \in XslFile /\ Part \in XslFile /\ Main # Part
      /\ f = Main \/ f = Part
      /\ refs \subseteq {Part, External} /\ Main \notin refs /\ Method \notin refs
  BY DEF XslFile, Parameters, Types
<1>5. /\ r.load.of[f] = file[f].ver /\ file[f].ver # 0
      /\ \A g \in XslFile : g # f => r.load.of[g] = top.load.of[g]
  BY <1>1, <1>2, TopIs, FileType DEF Disk
<1>6. f = Main \/ Main \notin top.load.todo
  BY <1>2, <1>3 DEF LoadOk
<1>7. r.load.at <= now /\ r.load.disk_time <= r.load.at /\ Method \notin r.load.todo
  BY <1>2, <1>3, <1>4 DEF LoadOk
<1>8. Main \notin r.load.todo /\ r.load.of[Main] # 0
  BY <1>2, <1>3, <1>4, <1>5, <1>6 DEF LoadOk
<1>9. ASSUME NEW g \in XslFile, r.load.of[g] # 0
      PROVE  /\ r.since[g] <= r.load.of[g] /\ r.load.of[g] <= file[g].ver
             /\ r.load.of[g] # file[g].ver => file[g].mtime >= r.load.at
             /\ r.load.of[g] = file[g].ver /\ ~r.load.bad => file[g].is = "good"
  <2>1. CASE g = f
    BY <1>2, <1>3, <1>5, <2>1, FileType DEF FrameOk, Same
  <2>2. CASE g # f
    BY <1>2, <1>3, <1>5, <1>9, <2>2 DEF LoadOk, Same
  <2>. QED
    BY <2>1, <2>2
<1>10. ASSUME r.load.of[Main] = file[Main].ver
       PROVE  /\ Part \in r.load.todo => Part \in refs
              /\ Part \in refs /\ ~r.load.bad => Part \in r.load.todo \/ r.load.of[Part] # 0
  <2>1. CASE f = Main
    <3>1. top.load.todo = {Main}
      BY <1>2, <1>3, <2>1 DEF LoadOk
    <3>. QED
      BY <1>2, <1>4, <2>1, <3>1
  <2>2. CASE f = Part
    BY <1>2, <1>4, <1>5, <2>2
  <2>. QED
    BY <1>4, <2>1, <2>2
<1>11. ASSUME r.load.bad, xml_dependencies' # None, sheet[r.conn] # None
       PROVE  \E g \in XslFile : g \in xml_dependencies' /\ Changed(r.conn, g)
  <2>1. xml_dependencies # None /\ xml_dependencies' = xml_dependencies \cup {f}
    BY <1>1, <1>11 DEF add_dependency
  <2>2. r.conn = c /\ c \in Conn /\ c = top.conn
    BY <1>1, <1>2, TopIs DEF Same
  <2>3. CASE top.load.bad
    BY <1>3, <1>11, <2>1, <2>2, <2>3 DEF LoadOk
  <2>4. CASE ~top.load.bad /\ file[f].is # "good"
    <3>1. SheetOk(c) /\ sheet[c].of \in [XslFile -> Nat]
      BY <1>11, <2>2, SheetType DEF Sheets
    <3>2. sheet[c].of[f] # file[f].ver
      BY <2>4, <3>1 DEF SheetOk
    <3>3. \A g \in XslFile : sheet[c].of[g] \notin {0, file[g].ver} => Changed(c, g)
      BY <3>1 DEF SheetOk, Changed
    <3>4. CASE f = Main
      BY <2>1, <2>2, <3>1, <3>2, <3>3, <3>4 DEF SheetOk
    <3>5. CASE f = Part
      <4>1. Main \notin top.load.todo /\ top.load.of[Main] # 0
        BY <1>3, <1>4, <1>6, <3>5 DEF LoadOk
      <4>2. Main \in xml_dependencies
        <5>1. /\ Len(call) \in 1 .. Len(call) /\ top = call[Len(call)] /\ Loading(Len(call))
              /\ \A j \in 1 .. Len(call) : j <= Len(call)
          BY <1>1, <1>2, TopIs DEF Loading
        <5>. QED
          BY <1>4, <2>1, <4>1, <5>1 DEF Collected
      <4>3. CASE sheet[c].of[Main] # file[Main].ver
        BY <1>4, <2>1, <2>2, <3>1, <3>3, <4>2, <4>3 DEF SheetOk
      <4>4. CASE sheet[c].of[Main] = file[Main].ver
        <5>1. sheet[c].of[Main] <= top.since[Main] /\ top.since[Main] <= top.load.of[Main]
              /\ top.load.of[Main] <= file[Main].ver
          BY <1>2, <1>3, <1>4, <1>11, <2>2, <4>1 DEF FrameOk, LoadOk
        <5>2. top.load.of[Main] = file[Main].ver
          BY <1>1, <1>4, <4>4, <5>1, TopIs, FileType
        <5>3. Part \in refs
          BY <1>2, <1>3, <3>5, <5>2 DEF LoadOk
        <5>4. sheet[c].of[Part] # 0
          BY <3>1, <4>4, <5>3 DEF SheetOk
        <5>. QED
          BY <1>4, <2>1, <2>2, <3>2, <3>3, <3>5, <5>4
      <4>. QED
        BY <4>3, <4>4
    <3>. QED
      BY <1>4, <3>4, <3>5
  <2>. QED
    BY <1>2, <1>11, <2>3, <2>4
<1>12. LoadOk(r)'
  BY <1>1, <1>7, <1>8, <1>9, <1>10, <1>11 DEF LoadOk, Changed
<1>. QED
  BY <1>1, <1>2, <1>12, LoadsChange

LEMMA LoadsExternal ==
    ASSUME Types, Frames, Loads, Parameters, openExternal
    PROVE  Loads'
<1>1. call # <<>> /\ xml_dependencies' = None /\ UNCHANGED <<now, file, refs, sheet>>
  BY DEF openExternal, at, disk, conns
<1>2. PICK r \in Frame :
              /\ Only(r) /\ Same(r) /\ top.pc = "load" /\ r.pc = "load"
              /\ External \in top.load.todo
              /\ r.load.at = top.load.at /\ r.load.disk_time = top.load.disk_time
              /\ r.load.of = top.load.of /\ r.load.todo = top.load.todo \ {External}
              /\ top.load.bad => r.load.bad
  BY OpenExternalDoes
<1>3. LoadOk(top)
  BY <1>1, <1>2, TopIs DEF Loads
<1>4. Main # External /\ Part # External
  BY DEF Parameters, XslFile
<1>5. Main \notin r.load.todo /\ r.load.of[Main] # 0
  BY <1>2, <1>3, <1>4 DEF LoadOk
<1>6. LoadOk(r)'
  BY <1>1, <1>2, <1>3, <1>4, <1>5 DEF LoadOk, Same
<1>. QED
  BY <1>1, <1>2, <1>6, LoadsChange

\* The beginning of a load
LEMMA LoadsStylesheet ==
    ASSUME Types, Parameters, Asked, Disk, Frames, Loads, stylesheet
    PROVE  Loads'
<1>1. call # <<>> /\ top.pc = "stylesheet" /\ UNCHANGED <<now, file, refs, sheet>>
  BY DEF stylesheet, at, disk
<1>2. PICK r \in Frame :
              /\ Only(r) /\ Same(r)
              /\ \/ r.pc = "no dependency"
                 \/ /\ r.pc = "load"
                    /\ r.load = [top.load EXCEPT !.disk_time = get_disk_time, !.todo = {Main}, !.at = now]
                 \/ r.pc = "transform"
  BY StylesheetDoes
<1>3. CASE r.pc # "load"
  BY <1>1, <1>2, <1>3, LoadsChange
<1>4. CASE r.pc = "load"
  <2>1. top.load = NoLoad /\ top.load \in Loaded
    BY <1>1, TopIs DEF Asked
  <2>2. /\ r.load.disk_time = get_disk_time /\ r.load.todo = {Main} /\ r.load.at = now
        /\ r.load.of = NoLoad.of /\ r.load.bad = NoLoad.bad
    BY <1>2, <1>4, <2>1 DEF Loaded
  <2>3. ~r.load.bad /\ \A f \in XslFile : r.load.of[f] = 0
    BY <2>2 DEF NoLoad
  <2>4. get_disk_time <= now
    <3>1. c \in Conn
      BY <1>1, TopIs
    <3>2. CASE deps[c] = None
      BY <3>2, FileType DEF get_disk_time
    <3>3. CASE deps[c] # None
      <4>1. deps[c] \in SUBSET XslFile
        BY <3>1, <3>3 DEF Types
      <4>2. Latest(deps[c]) = 0 \/ \E f \in deps[c] : Latest(deps[c]) = file[f].mtime
        BY <4>1, LatestIs
      <4>. QED
        BY <3>3, <4>1, <4>2, FileType DEF get_disk_time, Disk
    <3>. QED
      BY <3>2, <3>3
  <2>5. Main \in XslFile /\ file[Main].ver # 0 /\ Method # Main
    <3>1. Main \in XslFile /\ Method # Main
      BY DEF XslFile, Parameters
    <3>. QED
      BY <3>1, FileType DEF Disk
  <2>6. LoadOk(r)'
    BY <1>1, <2>2, <2>3, <2>4, <2>5, FileType DEF LoadOk
  <2>. QED
    BY <1>1, <1>2, <2>6, LoadsChange
<1>. QED
  BY <1>3, <1>4

LEMMA LoadsEdit ==
    ASSUME Types, Disk, Sheets, Loads, NEW f \in XslFile, edit(f)
    PROVE  Loads'
<1>1. UNCHANGED <<now, sheet, call, xml_dependencies>>
  BY EditDoes
<1>. SUFFICES ASSUME NEW i \in 1 .. Len(call), call[i].pc = "load" PROVE LoadOk(call[i])'
  BY <1>1 DEF Loads
<1>. DEFINE l == call[i].load
            k == call[i].conn
<1>2. /\ l \in Loaded /\ l.of \in [XslFile -> Nat] /\ l.at \in Nat /\ k \in Conn
      /\ call[i].since \in [XslFile -> Nat]
  BY TypesOfLists, Fields, LoadFields
<1>3. LoadOk(call[i])
  BY DEF Loads
<1>4. Main \in XslFile
  BY DEF XslFile
<1>5. ASSUME NEW g \in XslFile, l.of[g] # 0
      PROVE  /\ l.of[g] <= file'[g].ver
             /\ l.of[g] # file'[g].ver => file'[g].mtime >= l.at
             /\ l.of[g] = file'[g].ver /\ ~l.bad => file'[g].is = "good"
  <2>0. /\ l.of[g] <= file[g].ver
        /\ l.of[g] # file[g].ver => file[g].mtime >= l.at
        /\ l.of[g] = file[g].ver /\ ~l.bad => file[g].is = "good"
        /\ l.at <= now /\ l.of[g] \in Nat /\ file[g].ver \in Nat
    BY <1>2, <1>3, <1>5, FileType DEF LoadOk
  <2>1. CASE g = f
    <3>1. file'[g].ver = file[g].ver + 1 /\ file'[g].mtime = now
      BY <2>1, EditDoes
    <3>. QED
      BY <1>2, <2>0, <3>1, FileType
  <2>2. CASE g # f
    <3>1. file'[g] = file[g]
      BY <2>2, EditDoes
    <3>. QED
      BY <2>0, <3>1
  <2>. QED
    BY <2>1, <2>2
<1>6. l.of[Main] = file'[Main].ver => l.of[Main] = file[Main].ver /\ refs' = refs
  <2>1. CASE f = Main
    <3>1. l.of[Main] # 0 => l.of[Main] <= file[Main].ver
      BY <1>3, <1>4 DEF LoadOk
    <3>. QED
      BY <1>2, <1>4, <2>1, <3>1, EditDoes, FileType
  <2>2. CASE f # Main
    BY <1>4, <2>2, EditDoes
  <2>. QED
    BY <2>1, <2>2
<1>7. ASSUME NEW g \in XslFile, sheet[k] # None, Changed(k, g) PROVE Changed(k, g)'
  <2>1. sheet[k].of \in [XslFile -> Nat] /\ sheet[k].at \in Nat /\ SheetOk(k)
    BY <1>2, <1>7, SheetType DEF Sheets
  <2>2. /\ sheet[k].of[g] \in Nat /\ sheet[k].of[g] # 0 /\ sheet[k].of[g] < file[g].ver
        /\ file[g].mtime >= sheet[k].at
    BY <1>7, <2>1, FileType DEF Changed, SheetOk
  <2>3. sheet[k].of[g] # file'[g].ver /\ file'[g].mtime >= sheet[k].at
    BY <2>1, <2>2, EditDoes, FileType
  <2>4. sheet'[k] = sheet[k]
    BY <1>1
  <2>. QED
    BY <2>2, <2>3, <1>1 DEF Changed
<1>. QED
  BY <1>1, <1>3, <1>5, <1>6, <1>7 DEF LoadOk

LEMMA LoadsStep ==
    ASSUME Types, Parameters, Method \notin Ref, Collected, Asked, Disk, Sheets, Frames,
           Loads, [Next]_vars
    PROVE  Loads'
<1>1. CASE UNCHANGED <<now, file, refs, sheet, call, xml_dependencies>>
  BY <1>1 DEF Loads, LoadOk, Changed
<1>2. CASE tick
  <2>1. UNCHANGED <<file, refs, sheet, call, xml_dependencies>> /\ now' = now + 1
    BY <1>2 DEF tick, disk, conns
  <2>2. ASSUME NEW i \in 1 .. Len(call), call[i].pc = "load" PROVE LoadOk(call[i])'
    <3>1. call[i].load.at \in Nat /\ LoadOk(call[i])
      BY <2>2, TypesOfLists, Fields, LoadFields DEF Loads
    <3>2. call[i].load.at <= now'
      BY <2>1, <3>1, FileType DEF LoadOk
    <3>. QED
      BY <2>1, <3>1, <3>2 DEF LoadOk, Changed
  <2>. QED
    BY <2>1, <2>2 DEF Loads
<1>3. CASE maybe_expire_cache
  <2>1. Len(call') = 0
    BY <1>3, EmptySeq DEF maybe_expire_cache
  <2>. QED
    BY <2>1 DEF Loads
\* there is no load when a transformation begins or ends
<1>4. CASE get_connection
  <2>1. PICK r \in Frame : call' = Append(call, r) /\ r.pc = "stylesheet"
    BY <1>4, GetConnectionDoes
  <2>2. /\ Len(call') = Len(call) + 1 /\ call'[Len(call) + 1] = r
        /\ \A i \in 1 .. Len(call) : call'[i] = call[i]
        /\ Len(call) \in Nat
    BY <2>1, Pushed, TypesOfLists DEF Types
  <2>3. \A i \in 1 .. Len(call) : call[i].pc # "load"
    <3>1. CASE call = <<>>
      BY <3>1, EmptySeq
    <3>2. CASE call # <<>>
      <4>1. top.pc # "load"
        BY <1>4, <3>2 DEF get_connection, at
      <4>. QED
        BY <3>2, <4>1, TopIs DEF Frames
    <3>. QED
      BY <3>1, <3>2
  <2>. QED
    BY <2>1, <2>2, <2>3 DEF Loads
<1>5. CASE unuse
  <2>1. /\ Len(call') = Len(call) - 1 /\ \A i \in 1 .. Len(call) - 1 : call'[i] = call[i]
    BY <1>5, UnuseDoes
  <2>2. \A i \in 1 .. Len(call') : i \in 1 .. Len(call) /\ i # Len(call) /\ call'[i] = call[i]
    BY <2>1, TypesOfLists
  <2>. QED
    BY <2>2 DEF Loads, Frames
<1>6. CASE load
  <2>1. PICK r \in Frame : Only(r) /\ r.pc = (IF top.load.bad THEN "failed" ELSE "transform")
    BY <1>6, LoadDoes
  <2>2. call # <<>> /\ r.pc # "load"
    BY <1>6, <2>1 DEF load, at
  <2>. QED
    BY <2>1, <2>2, LoadsChange
<1>7. CASE openMethod
  <2>1. call # <<>> /\ top.pc = "load" /\ Method \in top.load.todo
    BY <1>7 DEF openMethod, at
  <2>. QED
    BY <2>1, TopIs DEF Loads, LoadOk
<1>8. CASE methodReturns
  <2>1. call # <<>> /\ top.pc = "method"
    BY <1>8 DEF methodReturns, at
  <2>. QED
    BY <2>1, TopIs DEF Frames, FrameOk
<1>9. CASE UNCHANGED vars
  BY <1>1, <1>9 DEF vars
<1>. QED
  BY <1>2, <1>3, <1>4, <1>5, <1>6, <1>7, <1>8, <1>9, LoadsOpen, LoadsExternal, LoadsStylesheet,
     LoadsEdit DEF Next
-----------------------------------------------------------------------------
LEMMA FreshInit == Parameters /\ Init => FInv
<1>. SUFFICES ASSUME Parameters, Init PROVE FInv
  OBVIOUS
<1>1. Len(call) = 0
  BY EmptySeq DEF Init
<1>2. \A k \in Conn : sheet[k] = None
  BY DEF Init
<1>3. Disk
  BY DEF Init, Disk
<1>. QED
  BY <1>1, <1>2, <1>3 DEF FInv, Sheets, Lists, Frames, Fresh, Loads

LEMMA FreshKeeps ==
    Parameters /\ Method \notin Ref /\ GInv /\ FInv /\ [Next]_vars => GInv' /\ FInv'
<1>. SUFFICES ASSUME Parameters, Method \notin Ref, GInv, FInv, [Next]_vars PROVE GInv' /\ FInv'
  OBVIOUS
<1>1. GInv'
  BY GeneralStep
<1>2. Types /\ Fits' /\ Apart /\ Asked /\ Collected
  BY <1>1, ApartIs DEF GInv
<1>3. Disk /\ Sheets /\ Lists /\ Frames /\ Fresh /\ Loads
  BY DEF FInv
<1>4. Disk' /\ Sheets' /\ Lists'
  BY <1>2, <1>3, DiskStep, SheetsStep, ListsStep
<1>5. Frames' /\ Fresh' /\ Loads'
  BY <1>2, <1>3, FramesStep, FreshStep, LoadsStep
<1>. QED
  BY <1>1, <1>4, <1>5 DEF FInv

LEMMA FreshIs == GInv /\ FInv => FreshStylesheet
<1>. SUFFICES ASSUME GInv, FInv, at({"transform"}) PROVE FreshStylesheet
  BY DEF FreshStylesheet
<1>1. Types /\ call # <<>> /\ top.pc = "transform"
  BY DEF GInv, at
<1>2. FreshOk(top) /\ FrameOk(top)
  BY <1>1, TopIs DEF FInv, Fresh, Frames
<1>3. sheet[c] # None /\ SheetOk(c)
  BY <1>1, <1>2, TopIs DEF FrameOk, FInv, Sheets
<1>4. CASE top.loaded
  <2>1. ASSUME NEW f \in XslFile, file[f].ver = top.since[f] PROVE sheet[c].of[f] \in {0, file[f].ver}
    <3>1. sheet[c].of[f] \in Nat
      BY <1>1, <1>3, TopIs, SheetType
    <3>2. sheet[c].of[f] # 0 => top.since[f] <= sheet[c].of[f]
      BY <1>1, <1>2, <1>4, TopIs DEF FreshOk
    <3>. QED
      BY <1>1, <1>3, <2>1, <3>1, <3>2, FileType DEF SheetOk
  <2>. QED
    BY <1>4, <2>1 DEF FreshStylesheet, Touched
<1>5. CASE ~top.loaded
  BY <1>1, <1>2, <1>5, TopIs DEF FreshOk, FreshStylesheet, Touched, EditedAtOnce
<1>. QED
  BY <1>4, <1>5

\* The stylesheet a transformation gets is of the files as they are:
\* Stylesheet_connection::stylesheet compares times, load() remembers them.  With
\* methods among the parts it may not be, see README.md.
THEOREM StylesheetIsFresh == Parameters /\ Method \notin Ref => (Spec => []FreshStylesheet)
<1>. SUFFICES ASSUME Parameters, Method \notin Ref PROVE Spec => []FreshStylesheet
  OBVIOUS
<1>1. Init => GInv /\ FInv
  BY GeneralInit, FreshInit
<1>2. GInv /\ FInv /\ [Next]_vars => GInv' /\ FInv'
  BY FreshKeeps
<1>3. GInv /\ FInv => FreshStylesheet
  BY FreshIs
<1>. QED
  BY <1>1, <1>2, <1>3, PTL DEF Spec
=============================================================================
