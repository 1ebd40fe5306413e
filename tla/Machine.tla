------------------------------- MODULE Machine -------------------------------
\* Request::execute of src/main/execute.C: one stack of operands for all nested code, a
\* method frame, what names are read from (rcontext) and what is written to (wcontext,
\* src/types/pa_wcontext.h, pa_wwrapper.h). The machine m is one record:
\*   stack           operands
\*   context         the frames and wrappers made so far, by number; one is dead when its code is over
\*   method_frame, rcontext, wcontext   numbers of contexts
\*   heap            fields of the main class (the first) and of hashes
\*   mode            Method::result_optimization of the method of the page
\*   fskip, error    what ends the code before its end
\*   wild            an operand was taken that other code had left, or code ran without its frame
EXTENDS Bytecode, FiniteSets

CONSTANTS LoopLimit,      \* pa_loop_limit
          RecursionLimit  \* pa_execute_recoursion_limit

None == Value("none", <<>>)
Void == Value("void", <<>>)
Bool(b) == Value("bool", <<b>>)
Num(of) == Value("num", of)
Self == Value("self", <<>>)
Ref(is, n) == Value(is, <<n>>)

Operators == {<<"if">>, <<"while">>, <<"break">>, <<"rem">>}
UserMethod == <<"m">>
Methods == Operators \cup {UserMethod}
HashMethods == {<<"b">>} \* a method of hashes, the name of an element too

\* Kinds of context: frames of the page ("main"), of the method ("parser") and of an operator
\* in an expression ("native"); "string" (WWrapper), "object" (WObjectPoolWrapper), "code" (VCodeFrame)
Context(kind, parent, my) ==
    [kind |-> kind, parent |-> parent, live |-> TRUE, fstring |-> None, fvalue |-> None, fstate |-> "none",
     my |-> my, my_result |-> None]

Push(m, v) == [m EXCEPT !.stack = Append(@, v)]
Top(m) == IF m.stack = <<>> THEN Void ELSE Last(m.stack)
Pop(m) == IF Len(m.stack) <= m.floor THEN [m EXCEPT !.wild = TRUE, !.error = "wild"] ELSE [m EXCEPT !.stack = Front(@)]
Throw(m, error) == IF m.error = "" THEN [m EXCEPT !.error = error] ELSE m
Skips(m) == m.error # "" \/ m.fskip # "nothing"

\* get_string: None when there is no string representation
Text(v) == IF v.is \in {"str", "num", "void"} THEN Str(v.of) ELSE None
AsText(v) == Text(v).of
Numeric(v) == \/ v.is \in {"num", "bool", "hash", "array", "void"}
              \/ v.is = "str" /\ \A i \in DOMAIN v.of : v.of[i] \in Digits
Zero == {<<>>, <<"0">>}
AsBool(m, v) == CASE v.is = "bool" -> v.of[1]
                  [] v.is \in {"num", "str", "void"} -> v.of \notin Zero
                  [] v.is = "hash" -> m.heap[v.of[1]] # <<>>
                  [] v.is = "array" -> v.of # <<>>
                  [] OTHER -> FALSE
\* as_expr_result: what an expression makes of a value; a number of elements is 0 or 1
Result(m, v) == CASE v.is \in {"str", "void"} -> Num(IF v.of = <<>> THEN <<"0">> ELSE v.of)
                  [] v.is \in {"hash", "array"} -> Num(IF AsBool(m, v) THEN <<"1">> ELSE <<"0">>)
                  [] v.is \in {"code", "method"} -> Bool(FALSE)
                  [] OTHER -> v
\* as_bool and as_expr_result are of the same values: numbers, and code and methods, which are false
HasResult(v) == Numeric(v) \/ v.is \in {"code", "method"}
-----------------------------------------------------------------------------
\* WContext::write of a string and of a value; a method that uses $result ignores strings
writeText(m, c, text) ==
    IF m.context[c].kind = "parser" /\ m.mode = "result" THEN m
    ELSE [m EXCEPT !.context[c].fstring = Str(@.of \o text)]
writeValue(m, c, v) ==
    IF m.context[c].fvalue # None THEN Throw(m, "overwritten") ELSE [m EXCEPT !.context[c].fvalue = v]
writePlain(m, c, v) == IF Text(v) # None THEN writeText(m, c, AsText(v)) ELSE writeValue(m, c, v)

flush(m, c) == IF m.context[c].fstate = "keep"
               THEN writeText([m EXCEPT !.context[c].fvalue = None], c, AsText(m.context[c].fvalue)) ELSE m
transparent(m, c) == [flush(m, c) EXCEPT !.context[c].fstate = "transparent"]

\* write_as_string: the only string of an object pool is kept as the value it is
write(m, v) ==
    LET c == m.wcontext
        x == m.context[c]
    IN  CASE x.kind = "object" /\ x.fstate = "none" /\ v.is \in {"str", "void"} ->
                [m EXCEPT !.context[c].fvalue = v, !.context[c].fstate = "keep"]
          [] x.kind = "object" /\ ~(x.fstate = "none" /\ v.is \in {"str", "void"}) -> writePlain(transparent(m, c), c, v)
          [] x.kind = "native" /\ v.is \notin {"str", "void"} -> writeValue(m, c, v)
          [] OTHER -> writePlain(m, c, v)
writeString(m, text) ==
    IF m.context[m.wcontext].kind = "object" THEN writeText(transparent(m, m.wcontext), m.wcontext, text)
    ELSE writeText(m, m.wcontext, text)

\* result() of a context: $result, or the value, or the text. The first call of a method
\* that ends without $result decides that later ones write to their caller's context.
ContextResult(x) == IF x.fvalue # None THEN x.fvalue ELSE IF x.fstring # None THEN x.fstring ELSE Str(<<>>)
result(m, c) ==
    LET x == m.context[c]
    IN  IF x.my_result # None THEN x.my_result
        ELSE IF x.kind = "parser" /\ m.mode = "result" THEN Void ELSE ContextResult(x)
decided(m, c) == IF m.context[c].kind = "parser" /\ m.context[c].my_result = None /\ m.mode # "result"
                 THEN [m EXCEPT !.mode = "wcontext"] ELSE m

\* A context that is over: code that was to write to it writes to its parent (reattach)
Over(m, c) == [m EXCEPT !.context[c].live = FALSE]
RECURSIVE Attached(_, _)
Attached(m, c) == IF m.context[c].live \/ m.context[c].parent = 0 THEN c ELSE Attached(m, m.context[c].parent)
-----------------------------------------------------------------------------
\* get_element and get_element4call before what they find is processed; None when
\* elements of the value cannot be had
Field(m, n, name) == IF name \in DOMAIN m.heap[n] THEN m.heap[n][name] ELSE None
OfMain(m, name) == IF Field(m, 1, name) # None THEN Field(m, 1, name)
                   ELSE IF name \in Methods THEN Ref("method", name) ELSE Void

RECURSIVE Element(_, _, _, _)
Element(m, v, name, forCall) ==
    CASE v.is = "frame" ->
            LET x == m.context[v.of[1]]
            IN  IF x.kind = "native" THEN None
                ELSE CASE name = <<"result">> -> IF x.my_result = None THEN Void ELSE x.my_result
                       [] name = <<"self">>   -> Self
                       [] name \in DOMAIN x.my /\ name \notin {<<"result">>, <<"self">>} -> x.my[name]
                       [] OTHER -> OfMain(m, name)
      [] v.is = "self" -> IF forCall /\ OfMain(m, name) = Void THEN None ELSE OfMain(m, name)
      [] v.is = "hash" ->
            LET field == Field(m, v.of[1], name)
                method == IF name \in HashMethods THEN Ref("method", name) ELSE None
                first == IF forCall THEN method ELSE field
                second == IF forCall THEN field ELSE method
            IN  CASE first # None -> first
                  [] first = None /\ second # None -> second
                  [] OTHER -> IF forCall THEN None ELSE Void
      [] v.is = "wrap" -> LET x == m.context[v.of[1]] IN IF x.fvalue = None THEN None ELSE Element(m, x.fvalue, name, forCall)
      [] v.is \in {"str", "void"} -> IF v.of = <<>> /\ ~forCall THEN Void ELSE None
      [] OTHER -> None

\* put_element: where an assignment goes, None when elements cannot be stored
AsValue(m, c) == Ref(IF m.context[c].kind \in {"main", "parser", "native"} THEN "frame" ELSE "wrap", c)
RECURSIVE put_element(_, _, _, _)
put_element(m, c, name, v) ==
    LET n == IF c.of = <<>> THEN 0 ELSE c.of[1]
        kept == IF m.context[n].fstate = "keep" THEN None ELSE m.context[n].fvalue
        new == Ref("hash", Len(m.heap) + 1)
    IN  CASE c.is = "frame" /\ m.context[n].kind = "native" -> Throw(m, "cannot store")
          [] c.is = "frame" /\ m.context[n].kind # "native" /\ name = <<"result">> ->
                [m EXCEPT !.context[n].my_result = v,
                          !.mode = IF @ = "unknown" /\ m.context[n].kind = "parser" THEN "result" ELSE @]
          [] c.is = "frame" /\ m.context[n].kind # "native" /\ name # <<"result">> /\ name \in DOMAIN m.context[n].my ->
                [m EXCEPT !.context[n].my[name] = v]
          [] c.is = "self" \/ (c.is = "frame" /\ m.context[n].kind # "native" /\ name # <<"result">> /\ name \notin DOMAIN m.context[n].my) ->
                [m EXCEPT !.heap[1] = [x \in DOMAIN @ \cup {name} |-> IF x = name THEN v ELSE @[x]]]
          [] c.is = "hash" -> [m EXCEPT !.heap[n] = [x \in DOMAIN @ \cup {name} |-> IF x = name THEN v ELSE @[x]]]
          [] c.is = "wrap" /\ m.context[n].kind = "code" ->
                LET up == m.context[n].parent
                IN  put_element(m, AsValue(m, up), name, v)
          [] c.is = "wrap" /\ m.context[n].kind # "code" /\ kept = None ->
                [m EXCEPT !.context[n].fvalue = new, !.context[n].fstate = "transparent", !.heap = Append(@, (name :> v))]
          [] c.is = "wrap" /\ m.context[n].kind # "code" /\ kept # None ->
                put_element([m EXCEPT !.context[n].fstate = "transparent"], kept, name, v)
          [] OTHER -> Throw(m, "cannot store")
-----------------------------------------------------------------------------
RECURSIVE Execute(_, _), Process(_, _), If(_, _, _), While(_, _, _)

\* recursion_checked_execute
Deeper(m) == IF m.recursion + 1 >= RecursionLimit THEN Throw(m, "endless recursion") ELSE [m EXCEPT !.recursion = @ + 1]
Back(m, end) == [end EXCEPT !.recursion = m.recursion]
Checked(m, code) == Back(m, Execute(Deeper(m), code))

\* The frame and the contexts of m again
Returned(m, done) == [done EXCEPT !.wcontext = m.wcontext, !.method_frame = m.method_frame, !.rcontext = m.rcontext]

\* Runs code in a new context of a kind, with the frame and rcontext of f; its result is pushed
Within(m, kind, parent, f, code) ==
    LET c == Len(m.context) + 1
        begun == [m EXCEPT !.context = Append(@, Context(kind, parent, <<>>)), !.wcontext = c,
                           !.method_frame = f.method_frame, !.rcontext = f.rcontext]
        Ended(done) == [machine |-> Over(Returned(m, done), c), context |-> done.context[c]]
    IN  Ended(Execute(begun, code))

\* A junction with code: what it runs in, and how
Junction(m, v) == [code |-> v.of[1], method_frame |-> v.of[2], rcontext |-> v.of[3],
                   wcontext |-> IF v.of[4] = 0 THEN 0 ELSE Attached(m, v.of[4])]
Usable(m, v) ==
    LET j == Junction(m, v)
    IN  IF j.wcontext # 0 /\ ~m.context[j.wcontext].live THEN Throw(m, "outside")
        ELSE IF ~m.context[j.method_frame].live THEN Throw([m EXCEPT !.wild = TRUE], "wild") ELSE m
NewJunction(m, code, wcontext) == Value("code", <<code, m.method_frame, m.rcontext, wcontext>>)

\* {} writes to where it was written down, () and [] to nothing
Processed(m, j) ==
    LET own == j.wcontext # 0
    IN  [Within(Deeper(m), IF own THEN "code" ELSE "string", IF own THEN j.wcontext ELSE m.wcontext, j, j.code)
            EXCEPT !.machine = Back(m, @)]
Pushed(done) == IF done.machine.error # "" THEN done.machine ELSE Push(done.machine, ContextResult(done.context))

Process(m, v) ==
    IF v.is # "code" THEN Push(m, v)
    ELSE IF Skips(Usable(m, v)) THEN Usable(m, v)
    ELSE Pushed(Processed(m, Junction(m, v)))

\* What was pushed is written instead
WriteResult(m) == IF m.error # "" THEN m ELSE write(Pop(m), Top(m))

\* process_write: code that was to write where its caller writes needs no wrapper
process_write(m, v) ==
    IF v.is # "code" THEN write(m, v)
    ELSE IF Usable(m, v).error # "" THEN Usable(m, v)
    ELSE LET j == Junction(m, v)
             here == [m EXCEPT !.method_frame = j.method_frame, !.rcontext = j.rcontext]
         IN  IF "CALL" \in m.flags /\ m.wcontext = j.wcontext THEN Returned(m, Checked(here, j.code))
             ELSE WriteResult(Pushed(Processed(m, j)))

\* get_element of the request: nothing found is void, code found is run
get_element(m, v, name, forCall) ==
    LET found == Element(m, v, name, forCall) IN IF found = None THEN Throw(m, "no element") ELSE Process(m, found)
-----------------------------------------------------------------------------
\* Operators: the arguments are values and code
condition(m, v) == IF v.is \in {"num", "bool"} THEN Push(m, v) ELSE IF v.is = "code" THEN Process(m, v) ELSE Throw(m, "condition")
If(m, args, i) ==
    IF i = Len(args) THEN process_write(m, args[i])
    ELSE IF i > Len(args) THEN m
    ELSE LET Chosen(c) ==
                 IF c.error # "" THEN c
                 ELSE IF c.fskip # "nothing" THEN Throw([c EXCEPT !.fskip = "nothing"], "skip in condition")
                 ELSE IF ~HasResult(Top(c)) THEN Throw(c, "not a number")
                 ELSE IF AsBool(c, Top(c)) THEN process_write(Pop(c), args[i + 1]) ELSE If(Pop(c), args, i + 2)
         IN  Chosen(condition(m, args[i]))

While(m, args, count) ==
    IF count + 1 >= LoopLimit THEN Throw(m, "endless loop")
    ELSE LET Again(done) ==
                 IF done.error # "" THEN done
                 ELSE IF done.fskip = "break" THEN [done EXCEPT !.fskip = "nothing"] ELSE While(done, args, count + 1)
             Body(c) ==
                 IF c.error # "" THEN c
                 ELSE IF ~HasResult(Top(c)) THEN Throw(c, "not a number")
                 ELSE IF ~AsBool(c, Top(c)) THEN Pop(c) ELSE Again(process_write(Pop(c), args[2]))
         IN  Body(condition(m, args[1]))

native_code(m, name, args) ==
    CASE name = <<"if">>    -> IF Len(args) < 2 THEN Throw(m, "params") ELSE If(m, args, 1)
      [] name = <<"while">> -> IF Len(args) # 2 THEN Throw(m, "params")
                               ELSE IF args[2].is # "code" THEN Throw(m, "code")
                               ELSE [While([m EXCEPT !.in_cycle = @ + 1], args, 1) EXCEPT !.in_cycle = m.in_cycle]
      [] name = <<"break">> -> IF m.in_cycle = 0 THEN Throw(m, "not in cycle") ELSE [m EXCEPT !.fskip = "break"]
      [] name = <<"rem">>   -> IF args = <<>> THEN Throw(m, "params") ELSE IF args[1].is # "code" THEN Throw(m, "code") ELSE m
      [] name \in HashMethods -> write(m, Num(<<"1">>))

\* METHOD_PARAMS_ACTION: what the parameters leave on the stack is taken off it
Args(done, first) == SubSeq(done.stack, first + 1, Len(done.stack))
Cut(done, first) == [done EXCEPT !.stack = SubSeq(@, 1, first)]

\* call and call_write: an operator that writes in place has no frame of its own
Called(m, name, args, inPlace) ==
    LET c == Len(m.context) + 1
        user == name = UserMethod
        my == IF ~user THEN <<>> ELSE <<"p">> :> (IF args = <<>> THEN Str(<<>>) ELSE args[1])
        framed == [m EXCEPT !.context = Append(@, Context(IF user THEN "parser" ELSE "native", 0, my)),
                            !.method_frame = c, !.rcontext = c, !.wcontext = IF inPlace THEN @ ELSE c]
        Ended(done) == IF done.error # "" \/ (inPlace /\ ~user) THEN done
                       ELSE IF inPlace THEN Over(done, c)
                       ELSE Push(Over(decided(done, c), c), result(done, c))
    IN  IF Len(args) > 1 /\ user THEN Throw(m, "params")
        ELSE Ended(Returned(m, IF user THEN Checked(framed, m.body)
                               ELSE native_code(IF inPlace THEN m ELSE framed, name, args)))

\* What of the caller's own context a call may write to at once is not its result
InPlace(m, op, name) == op = "CALL__WRITE" /\ "CALL" \in m.flags /\ (name # UserMethod \/ m.mode = "wcontext")
call(m, op, v, code) ==
    LET first == Len(m.stack)
        name == v.of[1]
        inPlace == InPlace(m, op, name)
        With(over, args) ==
            IF over.error # "" \/ (inPlace /\ over.fskip # "nothing") THEN over
            ELSE IF over.fskip # "nothing" THEN Push(over, Str(<<>>)) ELSE Called(over, name, args, inPlace)
        Params(done) == With(Cut(done, first), Args(done, first))
        End(called) == IF inPlace \/ op = "CALL" THEN called ELSE WriteResult(called)
    IN  IF v.is # "method" THEN Throw(m, "not a method") ELSE End(Params(Execute(m, code)))
-----------------------------------------------------------------------------
\* The operations. Those that carry codes are two words long, a literal takes two more
Carriers == {"OBJECT_POOL", "STRING_POOL", "NESTED_CODE", "CONSTRUCT_ARRAY", "CURLY_CODE__CONSTRUCT",
             "CURLY_CODE__STORE_PARAM", "EXPR_CODE__STORE_PARAM", "CALL", "CALL__WRITE"}
OfTwoLiterals == {g \o w : g \in {"GET_OBJECT_ELEMENT", "GET_OBJECT_VAR_ELEMENT"}, w \in {"", "__WRITE", "4CALL"}}
OfTwoNames == {"GET_OBJECT_ELEMENT", "GET_OBJECT_ELEMENT__WRITE", "GET_OBJECT_ELEMENT4CALL"}
Withs == {"WITH_ROOT", "WITH_SELF", "WITH_READ", "WITH_WRITE"}
Constructs == {w \o "__VALUE__" \o c : w \in Withs, c \in {"CONSTRUCT_VALUE", "CONSTRUCT_EXPR"}}
LiteralGets == {"VALUE__GET_ELEMENT", "VALUE__GET_ELEMENT__WRITE", "WITH_ROOT__VALUE__GET_ELEMENT",
                "WITH_SELF__VALUE__GET_ELEMENT", "WITH_SELF__VALUE__GET_ELEMENT__WRITE"}
OfLiteral == {"VALUE", "STRING__WRITE", "VALUE__GET_ELEMENT_OR_OPERATOR"} \cup Constructs \cup LiteralGets
Gets == {"GET_ELEMENT", "GET_ELEMENT__WRITE", "GET_ELEMENT4CALL"}
Specials == {"GET_ELEMENT__SPECIAL", "GET_ELEMENT__SPECIAL__WRITE"}
Unary == {"NEG", "NOT", "DEF"}
Binary == {"SUB", "STR_EQ", "LOG_XOR"}
Writing == {op \o "__WRITE" : op \in {"VALUE__GET_ELEMENT", "WITH_SELF__VALUE__GET_ELEMENT", "GET_OBJECT_ELEMENT",
                                      "GET_OBJECT_VAR_ELEMENT", "GET_ELEMENT", "GET_ELEMENT__SPECIAL"}}
ForCall == {op \o "4CALL" : op \in {"GET_ELEMENT", "GET_OBJECT_ELEMENT", "GET_OBJECT_VAR_ELEMENT"}}
Width(op) == IF op \in OfTwoLiterals THEN 5 ELSE IF op \in OfLiteral THEN 3 ELSE IF op \in Carriers THEN 2 ELSE 1
Takes(op) == CASE op \in {"CONSTRUCT_VALUE", "CONSTRUCT_EXPR"} -> 3
               [] op \in Gets \cup Specials \cup Binary
                        \cup {"GET_ELEMENT_OR_OPERATOR", "CURLY_CODE__CONSTRUCT", "CONSTRUCT_ARRAY", "LOG_AND", "LOG_OR"} -> 2
               [] op \in Unary \cup Constructs \cup {"WRITE_VALUE", "WRITE_EXPR_RESULT", "CALL", "CALL__WRITE"} -> 1
               [] OTHER -> 0

with(m, w) == CASE w = "WITH_ROOT"  -> AsValue(m, m.method_frame)
                [] w = "WITH_SELF"  -> Self
                [] w = "WITH_READ"  -> AsValue(m, m.rcontext)
                [] w = "WITH_WRITE" -> AsValue(m, m.wcontext)
WritesInPlace(m, w) == w = "WITH_WRITE" /\ m.wcontext = m.method_frame \* "$.name outside of $name[...]"

\* What an operation got is pushed or written at once
Got(m, op) == IF op \in Writing THEN WriteResult(m) ELSE m
\* The name must have a text
Named(m, name, then) == IF Text(name) = None THEN Throw(m, "not a string") ELSE then

\* Request::put_element
put(m, context, name, v) == IF Text(name) = None THEN Throw(m, "not a string") ELSE put_element(m, context, AsText(name), v)
putResult(m, context, name, v) == IF ~HasResult(v) THEN Throw(m, "not a number") ELSE put(m, context, name, Result(m, v))

\* CLASS and CLASS_NAME of a value; other names find nothing at all
special(m, v, name) == IF name \in {<<"CLASS">>, <<"CLASS_NAME">>} THEN Push(m, Value(AsText(Str(name))[1], <<v.is>>))
                       ELSE [Throw(m, "wild") EXCEPT !.wild = TRUE]
OrOperator(m, v, name) == IF name \in Methods THEN Push(m, Ref("method", name)) ELSE get_element(m, v, name, FALSE)
ofObject(m, op, first, second) ==
    LET read == with(m, "WITH_READ")
        Of(object, named, name) == IF Text(name) = None THEN Throw(named, "not a string")
                                   ELSE Got(get_element(Pop(named), object, AsText(name), op \in ForCall), op)
        Then(object, named) == IF named.error # "" THEN named ELSE Of(object, named, Top(named))
        For(object) == IF object.error # "" THEN object
                       ELSE Then(Top(object), IF op \in OfTwoNames THEN Push(Pop(object), Str(second))
                                              ELSE get_element(Pop(object), read, second, FALSE))
    IN  For(get_element(m, read, first, FALSE))

\* Numbers are terms; SUB stands for the operators of two numbers, STR_EQ for those of two strings
AsTerm(m, v) == LET r == Result(m, v) IN IF r.is = "bool" THEN IF r.of[1] THEN <<"1">> ELSE <<"0">> ELSE r.of
unary(m, op, a) ==
    CASE op = "NOT" -> IF HasResult(a) THEN Push(m, Bool(~AsBool(m, a))) ELSE Throw(m, "not a number")
      [] op = "DEF" -> Push(m, Bool(CASE a.is \in {"str", "void"} -> a.of # <<>> [] a.is \in {"hash", "array", "code", "method"} -> AsBool(m, a)
                                             [] OTHER -> TRUE))
      [] op = "NEG" -> IF Numeric(a) THEN Push(m, Num(<<"-">> \o AsTerm(m, a))) ELSE Throw(m, "not a number")
binary(m, op, a, b) ==
    CASE op = "LOG_XOR" -> IF HasResult(a) /\ HasResult(b) THEN Push(m, Bool(AsBool(m, a) # AsBool(m, b))) ELSE Throw(m, "not a number")
      [] op = "STR_EQ"  -> IF None \in {Text(a), Text(b)} THEN Throw(m, "not a string") ELSE Push(m, Bool(Text(a) = Text(b)))
      [] op = "SUB"     -> IF Numeric(a) /\ Numeric(b) THEN Push(m, Num(<<"(">> \o AsTerm(m, a) \o <<"-">> \o AsTerm(m, b) \o <<")">>))
                           ELSE Throw(m, "not a number")
\* The second operand is looked at only when the first does not decide
logical(m, op, a, code) ==
    LET Then(done) ==
            IF done.error # "" THEN done
            ELSE IF ~HasResult(Top(done)) THEN Throw(done, "not a number") ELSE Push(Pop(done), Bool(AsBool(done, Top(done))))
    IN  IF ~HasResult(a) THEN Throw(m, "not a number")
        ELSE IF AsBool(m, a) = (op = "LOG_OR") THEN Push(m, Bool(op = "LOG_OR")) ELSE Then(Execute(m, code))

pool(m, op, code) ==
    LET Then(done) ==
            IF op = "OBJECT_POOL" \/ done.machine.error # "" THEN Pushed(done)
            ELSE Push(done.machine, IF done.context.fstring = None THEN Str(<<>>) ELSE done.context.fstring)
    IN  Then(Within(m, IF op = "OBJECT_POOL" THEN "object" ELSE "string", m.wcontext, m, code))
array(m, context, name, code) ==
    LET first == Len(m.stack)
        Then(done) == IF done.error # "" THEN done
                      ELSE put(Cut(done, first - 2), context, name, Value("array", Args(done, first)))
    IN  Then(Execute(m, code))

\* One operation, with the words after it
Do(m, op, words) ==
    LET Deep(n) == m.stack[Len(m.stack) - n]
        Drop(n) == [m EXCEPT !.stack = SubSeq(@, 1, Len(@) - n)]
        literal == words[2].of[1].of
        late == words[4].of[1].of
        codes == words[1].of
        optimised == "CONSTRUCT" \in m.flags
        W(w) == w \in Withs /\ \E c \in {"CONSTRUCT_VALUE", "CONSTRUCT_EXPR"} : op = w \o "__VALUE__" \o c
    IN  CASE Len(m.stack) - m.floor < Takes(op) -> [Throw(m, "wild") EXCEPT !.wild = TRUE]
          [] OTHER ->
    CASE op = "VALUE" -> Push(m, words[2].of[1])
      [] op \in Withs -> IF WritesInPlace(m, op) THEN Throw(m, "outside of name") ELSE Push(m, with(m, op))
      [] op \in Constructs ->
            LET w == CHOOSE x \in Withs : W(x)
            IN  IF WritesInPlace(m, w) THEN Throw(m, "outside of name")
                ELSE IF op = w \o "__VALUE__CONSTRUCT_EXPR" THEN putResult(Drop(1), with(m, w), Str(literal), Deep(0))
                ELSE put(Drop(1), with(m, w), Str(literal), Deep(0))
      [] op = "CONSTRUCT_VALUE" -> IF optimised THEN put(Drop(3), Deep(1), Deep(0), Deep(2)) ELSE put(Drop(3), Deep(2), Deep(1), Deep(0))
      [] op = "CONSTRUCT_EXPR"  -> IF optimised THEN putResult(Drop(3), Deep(1), Deep(0), Deep(2)) ELSE putResult(Drop(3), Deep(2), Deep(1), Deep(0))
      [] op = "CURLY_CODE__CONSTRUCT" -> put(Drop(2), Deep(1), Deep(0), NewJunction(m, codes, m.wcontext))
      [] op = "CONSTRUCT_ARRAY" -> array(m, Deep(1), Deep(0), codes)
      [] op = "NESTED_CODE"  -> Push(m, Value("ops", codes))
      [] op = "WRITE_VALUE"  -> write(Drop(1), Deep(0))
      [] op = "WRITE_EXPR_RESULT" -> IF HasResult(Deep(0)) THEN writePlain(Drop(1), m.wcontext, Result(m, Deep(0))) ELSE Throw(m, "not a number")
      [] op = "STRING__WRITE" -> writeString(m, literal)
      [] op = "VALUE__GET_ELEMENT_OR_OPERATOR" -> OrOperator(m, with(m, "WITH_READ"), literal)
      [] op = "GET_ELEMENT_OR_OPERATOR" -> Named(m, Deep(0), OrOperator(Drop(2), Deep(1), AsText(Deep(0))))
      [] op \in OfTwoLiterals -> ofObject(m, op, literal, late)
      [] op \in Gets -> Named(m, Deep(0), Got(get_element(Drop(2), Deep(1), AsText(Deep(0)), op \in ForCall), op))
      [] op \in Specials -> Named(m, Deep(0), Got(special(Drop(2), Deep(1), AsText(Deep(0))), op))
      [] op \in LiteralGets ->
            Got(get_element(m, with(m, CASE op = "WITH_ROOT__VALUE__GET_ELEMENT" -> "WITH_ROOT"
                                         [] op \in {"VALUE__GET_ELEMENT", "VALUE__GET_ELEMENT__WRITE"} -> "WITH_READ"
                                         [] OTHER -> "WITH_SELF"), literal, FALSE), op)
      [] op \in {"OBJECT_POOL", "STRING_POOL"} -> pool(m, op, codes)
      [] op = "CURLY_CODE__STORE_PARAM" -> Push(m, NewJunction(m, codes, m.wcontext))
      [] op = "EXPR_CODE__STORE_PARAM"  -> Push(m, NewJunction(m, codes, 0))
      [] op \in {"CALL", "CALL__WRITE"} -> call(Drop(1), op, Deep(0), codes)
      [] op \in Unary  -> unary(Drop(1), op, Deep(0))
      [] op \in Binary -> binary(Drop(2), op, Deep(1), Deep(0))
      [] op \in {"LOG_AND", "LOG_OR"} -> logical(Drop(2), op, Deep(1), Deep(0).of)

RECURSIVE Run(_, _)
Run(m, code) == IF code = N \/ Skips(m) THEN m ELSE Run(Do(m, code[1].op, Tail(code)), P(code, Width(code[1].op)))
Execute(m, code) == [Run([m EXCEPT !.floor = Len(m.stack)], code) EXCEPT !.floor = m.floor]
=============================================================================
