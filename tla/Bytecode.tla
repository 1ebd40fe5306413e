------------------------------ MODULE Bytecode ------------------------------
\* What the grammar of src/main/compile.y makes of the code of a method: an array of
\* words, each an operation, an origin, a literal value or a nested array. Some sequences
\* are replaced by shorter ones; each replacement is compiled in or out by a flag of
\* src/include/pa_opcode.h, here a member of F. The parse tree is the input:
\*   codes  a sequence of <<"str", text>>, <<"get", path>>, <<"put", path, construct>>, <<"call", path, params>>
\*   path   [from |-> "root" or "write", names |-> a sequence of names]
\*   name   <<"const", text>>, <<"var", text>>, <<"cat", text, texts>>, <<"square", codes>>, <<"round", expr>>
\*   construct, param   <<"square", a sequence of codes>>, <<"round", expr>>, <<"curly", codes>>
\*   expr   <<"lit", value>>, <<"get", path>>, <<"call", path, params>>, <<"quoted", codes>>,
\*          <<operation, expr>>, <<operation, expr, expr>>
\* A text is a sequence of its parts. CLASS and CLASS_NAME have operations of their own in every build
\* (FEATURE_GET_ELEMENT4CALL requires them). Prefixes of classes and constructors of objects are left out.
EXTENDS Naturals, Sequences, SequencesExt

Flags == {"GET_ELEMENT", "GET_OBJECT_ELEMENT", "GET_OBJECT_VAR_ELEMENT", "STRING_POOL", "CUT_REM_OPERATOR",
          "CONSTRUCT", "GET_SELF_ELEMENT", "CALL"}
\* PC.in_call_value, a member of F while the name of a call is read, what is nested in it included
InCall == "in_call_value"

Value(is, of) == [is |-> is, of |-> of]
Str(text) == Value("str", text)

N == <<>>
O(op) == <<[op |-> op, of |-> <<>>]>>
Operand(v) == <<[op |-> "origin", of |-> <<>>], [op |-> "value", of |-> <<v>>]>>
VL(v) == O("VALUE") \o Operand(v)
OA(op, code) == O(op) \o <<[op |-> "ops", of |-> code]>>

\* Places are counted from zero; what is beyond the end is no operation
Op(code, at) == IF at + 1 \in DOMAIN code THEN code[at + 1].op ELSE "none"
P(code, offset) == SubSeq(code, offset + 1, Len(code))
Part(code, offset, limit) == SubSeq(code, offset + 1, offset + limit)
LA2V(code, op) == IF Op(code, 0) = op THEN code[3].of[1] ELSE Value("none", <<>>)
IsLiteral(code, text) == LA2V(code, "VALUE") = Str(text)

change(code, at, find, replace) == IF Op(code, at) = find THEN [code EXCEPT ![at + 1].op = replace] ELSE code
change_or_append(code, at, find, replace, notfound) ==
    IF Op(code, at) = find THEN change(code, at, find, replace) ELSE code \o O(notfound)
write_literal(code) == change(code, 0, "VALUE", "STRING__WRITE")
simple_diving_code(code) == IF Len(code) = 3 /\ Op(code, 0) = "STRING__WRITE" THEN change(code, 0, "STRING__WRITE", "VALUE")
                            ELSE OA("OBJECT_POOL", code)
is_special_element(code) == LA2V(code, "VALUE") \in {Str(<<"CLASS">>), Str(<<"CLASS_NAME">>)}
-----------------------------------------------------------------------------
\* $self.field, $self.tail
make_self(code, F) ==
    IF /\ "GET_SELF_ELEMENT" \in F /\ Len(code) >= 8
       /\ Op(code, 3) = "GET_ELEMENT" /\ Op(code, 4) = "VALUE" /\ Op(code, 7) = "GET_ELEMENT"
    THEN O("WITH_SELF__VALUE__GET_ELEMENT") \o Part(code, 5, 2) \o P(code, 8)
    ELSE O("WITH_SELF") \o P(code, IF Len(code) >= 4 THEN 4 ELSE 3)

GetsObjectElement(code) ==
    /\ Len(code) >= 8 /\ Op(code, 0) = "VALUE" /\ Op(code, 3) = "GET_ELEMENT"
    /\ Op(code, 4) = "VALUE" /\ Op(code, 7) = "GET_ELEMENT"
\* Mutant: what follows the second name of $a.$b.c is forgotten
GetsObjectVarElement_wrong(code) ==
    /\ Len(code) >= 10 /\ Op(code, 0) = "VALUE" /\ Op(code, 3) = "GET_ELEMENT" /\ Op(code, 4) = "WITH_READ"
    /\ Op(code, 5) = "VALUE" /\ Op(code, 8) = "GET_ELEMENT" /\ Op(code, 9) = "GET_ELEMENT"
GetsObjectVarElement(code) ==
    /\ Len(code) = 10 /\ Op(code, 0) = "VALUE" /\ Op(code, 3) = "GET_ELEMENT" /\ Op(code, 4) = "WITH_READ"
    /\ Op(code, 5) = "VALUE" /\ Op(code, 8) = "GET_ELEMENT" /\ Op(code, 9) = "GET_ELEMENT"
GetsElement(code) == Len(code) >= 4 /\ Op(code, 0) = "VALUE" /\ Op(code, 3) = "GET_ELEMENT"

\* name_without_curly_rdive_read: the first name of a path is looked up where the code reads
rdive_read(code, F) ==
    IF IsLiteral(code, <<"self">>) THEN make_self(code, F)
    ELSE IF "GET_OBJECT_ELEMENT" \in F /\ GetsObjectElement(code)
    THEN O("GET_OBJECT_ELEMENT") \o Part(code, 1, 2) \o Part(code, 5, 2) \o P(code, 8)
    ELSE IF "GET_OBJECT_VAR_ELEMENT" \in F /\ GetsObjectVarElement(code)
    THEN O("GET_OBJECT_VAR_ELEMENT") \o Part(code, 1, 2) \o Part(code, 6, 2)
    ELSE IF "GET_ELEMENT" \in F
    THEN IF GetsElement(code)
         THEN O(IF InCall \in F /\ Len(code) = 4 THEN "VALUE__GET_ELEMENT_OR_OPERATOR" ELSE "VALUE__GET_ELEMENT")
              \o Part(code, 1, 2) \o P(code, 4)
         ELSE O("WITH_READ") \o code
    ELSE O("WITH_READ") \o (IF InCall \in F /\ Len(code) = 4 THEN Part(code, 0, 3) \o O("GET_ELEMENT_OR_OPERATOR") ELSE code)

\* name_expr_wdive_root: or where the method writes
wdive_root(code, F) ==
    IF IsLiteral(code, <<"self">>) THEN make_self(code, F)
    ELSE IF "GET_ELEMENT" \in F /\ GetsElement(code)
    THEN O("WITH_ROOT__VALUE__GET_ELEMENT") \o Part(code, 1, 2) \o P(code, 4)
    ELSE O("WITH_ROOT") \o code

\* get: an element that is only read is written at once
get_write(code, F) ==
    LET count == Len(code)
        written(op) == op \o "__WRITE"
        first == Op(code, 0)
    IN  IF \/ count = 3 /\ first \in {"VALUE__GET_ELEMENT", "WITH_SELF__VALUE__GET_ELEMENT"}
           \/ count = 5 /\ first \in {"GET_OBJECT_ELEMENT", "GET_OBJECT_VAR_ELEMENT"}
        THEN change(code, 0, first, written(first))
        ELSE IF Op(code, count - 1) = "GET_ELEMENT__SPECIAL"
        THEN change(code, count - 1, "GET_ELEMENT__SPECIAL", "GET_ELEMENT__SPECIAL__WRITE")
        ELSE change_or_append(code, count - 1, "GET_ELEMENT", "GET_ELEMENT__WRITE", "WRITE_VALUE")

\* call_name: a method is looked for
for_call(code) ==
    IF Len(code) = 5 /\ Op(code, 0) \in {"GET_OBJECT_ELEMENT", "GET_OBJECT_VAR_ELEMENT"}
    THEN change(code, 0, Op(code, 0), Op(code, 0) \o "4CALL")
    ELSE change(code, Len(code) - 1, "GET_ELEMENT", "GET_ELEMENT4CALL")

\* The value first, then where to put it
optimize_construct(var, value, op) ==
    LET with == Op(var, 0)
    IN  value \o (IF with \in {"WITH_ROOT", "WITH_WRITE", "WITH_SELF"} /\ Op(var, 1) = "VALUE" /\ Len(var) = 4
                  THEN O(with \o "__VALUE__" \o op) \o Part(var, 2, 2)
                  ELSE var \o O(op))
-----------------------------------------------------------------------------
RECURSIVE Codes(_, _), Expr(_, _), CallValue(_, _)

\* subvar_ref_name_rdive: a variable within a name
Subvar(text, op) == O("WITH_READ") \o VL(Str(text)) \o O(op)

NameValue(n, F) ==
    CASE n[1] = "const"  -> VL(Str(n[2]))
      [] n[1] = "var"    -> Subvar(n[2], "GET_ELEMENT")
      [] n[1] = "cat"    -> OA("STRING_POOL", write_literal(VL(Str(n[2])))
                                               \o FlattenSeq([i \in DOMAIN n[3] |-> Subvar(n[3][i], "GET_ELEMENT__WRITE")]))
      [] n[1] = "square" -> simple_diving_code(Codes(n[2], F))
      [] n[1] = "round"  -> Expr(n[2], F)

\* name_advance1, name_advance2
Advance(n, F) ==
    LET Get(code) == code \o O(IF is_special_element(code) THEN "GET_ELEMENT__SPECIAL" ELSE "GET_ELEMENT")
    IN  Get(NameValue(n, F))
Path(names, F) == FlattenSeq([i \in DOMAIN names |-> Advance(names[i], F)])

GetValue(path, F) == rdive_read(Path(path.names, F), F)

name_expr_wdive(path, F) ==
    LET Dive(code) == IF path.from = "root" THEN wdive_root(code, F) ELSE O("WITH_WRITE") \o code
    IN  Dive(Path(Front(path.names), F) \o NameValue(Last(path.names), F))

\* code_param_value, any_constructor_code_value: [], [text] and other codes
SquareValue(codes, F) ==
    CASE codes = <<>>                               -> VL(Str(<<>>))
      [] Len(codes) = 1 /\ codes[1][1] = "str"      -> VL(Str(codes[1][2]))
      [] OTHER                                      -> OA("OBJECT_POOL", Codes(codes, F))

SquareValues(construct, F) == [i \in DOMAIN construct[2] |-> SquareValue(construct[2][i], F)]
Put(path, construct, F) ==
    LET Construct(var, value, op) == IF "CONSTRUCT" \in F THEN optimize_construct(var, value, op) ELSE var \o value \o O(op)
        At(var) ==
            CASE construct[1] = "square" -> IF Len(construct[2]) = 1 THEN Construct(var, SquareValues(construct, F)[1], "CONSTRUCT_VALUE")
                                            ELSE var \o OA("CONSTRUCT_ARRAY", FlattenSeq(SquareValues(construct, F)))
              [] construct[1] = "round"  -> Construct(var, Expr(construct[2], F), "CONSTRUCT_EXPR")
              [] construct[1] = "curly"  -> var \o OA("CURLY_CODE__CONSTRUCT", Codes(construct[2], F))
    IN  At(name_expr_wdive(path, F))

\* store_param: a literal is not evaluated
Param(param, F) ==
    CASE param[1] = "square" -> FlattenSeq([i \in DOMAIN param[2] |-> SquareValue(param[2][i], F)])
      [] param[1] = "round"  -> LET Store(code) == IF Len(code) = 3 /\ Op(code, 0) = "VALUE" THEN code
                                                   ELSE OA("EXPR_CODE__STORE_PARAM", code \o O("WRITE_EXPR_RESULT"))
                                IN  Store(Expr(param[2], F))
      [] param[1] = "curly"  -> OA("CURLY_CODE__STORE_PARAM", Codes(param[2], F))

\* call_value: ^rem is cut with all it holds; the only empty parameter is none
CallValue(call, F) ==
    LET Cut(name) == "CUT_REM_OPERATOR" \in F /\ LA2V(name, "VALUE__GET_ELEMENT_OR_OPERATOR") = Str(<<"rem">>)
        Empty(params) == Len(params) = 3 /\ IsLiteral(params, <<>>)
        With(name, params) == IF Cut(name) THEN N ELSE for_call(name) \o OA("CALL", IF Empty(params) THEN N ELSE params)
    IN  With(GetValue(call[2], F \cup {InCall}), FlattenSeq([i \in DOMAIN call[3] |-> Param(call[3][i], F \ {InCall})]))

\* double_or_STRING: what begins with a digit is a number
Digits == {"0", "1"}
Literal(v) == IF v.is = "str" /\ v.of # <<>> /\ v.of[1] \in Digits THEN Value("num", v.of) ELSE v

Expr(e, F) ==
    CASE e[1] = "lit"    -> VL(Literal(e[2]))
      [] e[1] = "get"    -> GetValue(e[2], F)
      [] e[1] = "call"   -> CallValue(e, F)
      [] e[1] = "quoted" -> LET Quoted(code) == IF "STRING_POOL" \in F /\ Len(code) = 3 /\ Op(code, 0) = "STRING__WRITE"
                                                THEN change(code, 0, "STRING__WRITE", "VALUE")
                                                ELSE OA("STRING_POOL", code)
                            IN  Quoted(Codes(e[2], F))
      [] e[1] \in {"LOG_AND", "LOG_OR"}         -> Expr(e[2], F) \o OA("NESTED_CODE", Expr(e[3], F)) \o O(e[1])
      [] e[1] \in {"NOT", "DEF", "NEG"}         -> Expr(e[2], F) \o O(e[1])
      [] e[1] \in {"SUB", "STR_EQ", "LOG_XOR"}  -> Expr(e[2], F) \o Expr(e[3], F) \o O(e[1])

Code(c, F) ==
    CASE c[1] = "str"  -> write_literal(VL(Str(c[2])))
      [] c[1] = "get"  -> get_write(GetValue(c[2], F), F)
      [] c[1] = "put"  -> Put(c[2], c[3], F)
      [] c[1] = "call" -> LET Write(code) == IF code = N THEN N
                                             ELSE change_or_append(code, Len(code) - 2, "CALL", "CALL__WRITE", "WRITE_VALUE")
                          IN  Write(CallValue(c, F))
Codes(codes, F) == FlattenSeq([i \in DOMAIN codes |-> Code(codes[i], F)])
=============================================================================
