------------------------------ MODULE CachesMC ------------------------------
EXTENDS Caches

\* Files that use each other, also in a circle, define and extend classes before and
\* after their bases, with methods that replace those of the base
M(n, params) == <<"METHOD", n, params>>
Class(c) == <<"CLASS", c>>
MCFile == {"a.p", "b.p", "c.p"}
MCText ==
    [f \in MCFile |->
        CASE f = "a.p" -> {<<Class("A"), M("m", 0), M("auto", 2)>>,
                           <<M("auto", 0), Class("A"), <<"PARTIAL">>, <<"LOCALS">>, M("m", 0)>>,
                           <<Class("A"), <<"PARTIAL">>, <<"USE", "b.p">>, M("m", 0)>>}
          [] f = "b.p" -> {<<M("auto", 1), <<"USE", "a.p">>, Class("A"), <<"PARTIAL">>, M("n", 0)>>,
                           <<Class("B"), <<"USE", "c.p">>, <<"BASE", "A">>, M("auto", 0)>>,
                           <<<<"USE", "a.p">>, <<"BASE", "A">>>>}
          [] f = "c.p" -> {<<<<"USE", "a.p">>, <<"USE", "b.p">>, Class("C"), <<"BASE", "B">>, M("m", 0)>>,
                           <<Class("A"), <<"PARTIAL">>, M("n", 0), Class("B"), <<"BASE", "A">>, M("m", 1)>>,
                           <<<<"USE", "a.p">>, <<"BASE", "A">>>>}]
MCPlan == {<<[file |-> f, replace |-> x], [file |-> g, replace |-> ~x]>> :
              f \in MCFile, g \in MCFile, x \in BOOLEAN}
=============================================================================
