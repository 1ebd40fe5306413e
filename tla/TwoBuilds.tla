------------------------------ MODULE TwoBuilds ------------------------------
\* A page is compiled by two builds of the interpreter and run by both: the build without the
\* OPTIMIZE_BYTECODE flags of src/include/pa_opcode.h is what the other is compared with
EXTENDS Machine

CONSTANTS Programs, \* [page, body]: the codes of the page and of its method m
          Builds    \* sets of flags

VARIABLES program, build, code, machine, plain
vars == <<program, build, code, machine, plain>>

x(text) == Str(<<text>>)
\* $a is a hash with $a.b and a hash $a.c
Heap == << [name \in {<<"a">>, <<"b">>, <<"k">>, <<"n">>} |->
              CASE name = <<"a">> -> Ref("hash", 2) [] name = <<"n">> -> x("1") [] OTHER -> x("b")],
           [name \in {<<"b">>, <<"c">>} |-> IF name = <<"b">> THEN x("x") ELSE Ref("hash", 3)],
           [name \in {<<"b">>} |-> x("y")] >>
Begun(p, F) == [stack |-> <<>>, floor |-> 0, context |-> <<Context("main", 0, <<>>)>>, method_frame |-> 1, rcontext |-> 1,
                wcontext |-> 1, heap |-> Heap, mode |-> "unknown", fskip |-> "nothing", in_cycle |-> 0, recursion |-> 0, error |-> "",
                wild |-> FALSE, body |-> Codes(p.body, F), flags |-> F]

Init ==
    /\ program \in Programs
    /\ build = {}
    /\ code = Codes(program.page, build)
    /\ machine = Begun(program, build)
    /\ plain = <<>>

Ended == code = N \/ Skips(machine)
Operate ==
    /\ ~Ended
    /\ machine' = Run(machine, Part(code, 0, Width(code[1].op)))
    /\ code' = P(code, Width(code[1].op))
    /\ UNCHANGED <<program, build, plain>>
Rebuild ==
    /\ Ended /\ plain = <<>>
    /\ plain' = <<machine>>
    /\ build' \in Builds
    /\ code' = Codes(program.page, build')
    /\ machine' = Begun(program, build')
    /\ UNCHANGED program
Next == Operate \/ Rebuild
Spec == Init /\ [][Next]_vars
-----------------------------------------------------------------------------
\* What a value is, its hashes opened
RECURSIVE Shape(_, _, _)
Shape(m, v, depth) ==
    CASE v.is = "hash" /\ depth > 0 -> <<"hash", [name \in DOMAIN m.heap[v.of[1]] |-> Shape(m, m.heap[v.of[1]][name], depth - 1)]>>
      [] v.is = "array" /\ depth > 0 -> <<"array", [i \in DOMAIN v.of |-> Shape(m, v.of[i], depth - 1)]>>
      [] v.is \in {"code", "hash", "array"} -> <<v.is>>
      [] OTHER -> v
Outcome(m) ==
    IF m.error # "" THEN [failed |-> TRUE]
    ELSE [failed |-> FALSE, text |-> m.context[1].fstring, value |-> Shape(m, m.context[1].fvalue, 3),
          fields |-> [name \in DOMAIN m.heap[1] |-> Shape(m, m.heap[1][name], 3)]]

\* A page gives the same text, value and fields in both builds, or fails in both
SameMeaning == plain # <<>> /\ Ended => Outcome(machine) = Outcome(plain[1])
\* No operation takes an operand that other code has left, and code leaves none
OwnOperands == ~machine.wild /\ (Ended /\ ~Skips(machine) => machine.stack = <<>>)
=============================================================================
