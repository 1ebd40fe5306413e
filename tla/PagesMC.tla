------------------------------- MODULE PagesMC -------------------------------
\* The codes of the pages: paths of up to three names, assignments, calls, expressions
EXTENDS Machine
Const(t) == <<"const", <<t>>>>
Lit(t) == <<"lit", Str(<<t>>)>>
Get(p) == <<"get", p>>
Assign(p, c) == <<"put", p, c>>
Call(p, params) == <<"call", p, params>>
Write(t) == <<"str", <<t>>>>
Root(names) == [from |-> "root", names |-> names]
Here(names) == [from |-> "write", names |-> names]
Square(codes) == <<"square", <<codes>>>>
Round(e) == <<"round", e>>
Curly(codes) == <<"curly", codes>>
K == Root(<<Const("k")>>)
A(names) == Root(<<Const("a")>> \o names)
OneName == {Const("b"), Const("c"), Const("CLASS"), <<"var", <<"k">>>>, <<"square", <<Get(K)>>>>, <<"cat", <<"b">>, <<>> >>, Round(Lit("b"))}
Firsts == {Const("a"), Const("b"), Const("self"), Const("CLASS")}
Reads == {<<f>> : f \in Firsts \cup OneName} \cup {<<f, g>> : f \in Firsts, g \in OneName \cup {Const("a")}}
             \cup {<<f, g, h>> : f \in Firsts, g \in OneName \cup {Const("a")}, h \in OneName}
Show(p) == <<Write("t"), Get(p)>>
Small == {<<Const("a"), Const("b")>>, <<Const("b")>>, <<Const("self"), Const("a"), Const("c"), Const("b")>>, <<Const("a"), <<"var", <<"k">>>>>>}
Expressions == {Lit("1"), Lit("b"), <<"quoted", <<Write("b")>>>>, <<"quoted", <<Write("b"), Get(K)>>>>, <<"quoted", <<Get(K)>>>>, <<"quoted", <<>>>>}
    \cup {Get(Root(p)) : p \in Small} 
    \cup {<<"call", Root(<<Const("m")>>), <<Square(<<Get(K)>>)>>>>}
Expr2 == Expressions \cup {<<op, e>> : op \in Unary, e \in Expressions}
    \cup {<<op, e, f>> : op \in Binary \cup {"LOG_AND", "LOG_OR"}, e \in Expressions, f \in Expressions}
Written == {<<>>, <<Write("w")>>, <<Get(K)>>, <<Get(A(<<>>))>>, <<Write("w"), Get(K)>>,
            <<Call(Root(<<Const("m")>>), <<Square(<<Get(K)>>)>>)>>}
Contents == Written \cup {<<Assign(Here(<<Const("d")>>), Square(<<Write("v")>>))>>,
             <<Assign(Here(<<Const("d"), Const("e")>>), Square(<<Get(K)>>))>>,
             <<Get(K), Assign(Here(<<Const("d")>>), Square(<<Write("v")>>))>>}
Values == {Square(c) : c \in Contents} \cup {Curly(c) : c \in Contents} \cup {Round(e) : e \in Expressions}
    \cup {<<"square", <<c, d>>>> : c \in Contents, d \in Contents}
Targets == {<<Const("b")>>, <<Const("d")>>, <<Const("a"), Const("d")>>, <<Const("self"), Const("d")>>, <<Const("self"), Const("a"), Const("b")>>,
            <<Const("a"), Const("c"), Const("b")>>, <<<<"var", <<"k">>>>>>, <<Const("a"), <<"var", <<"k">>>>>>, <<Const("b"), Const("b")>>,
            <<<<"square", <<Get(K)>>>>>>, <<<<"cat", <<"b">>, <<<<"k">>>>>>>>,<<Const("result")>>}
M(e) == Call(Root(<<Const("m")>>), <<Square(e)>>)
IfCall(params) == Call(Root(<<Const("if")>>), params)
WhileCall(params) == Call(Root(<<Const("while")>>), params)
BreakCall == Call(Root(<<Const("break")>>), <<Square(<<>>)>>)
Rem(codes) == Call(Root(<<Const("rem")>>), <<Curly(codes)>>)
Conditions == {Lit("1"), Lit("0"), Get(K), <<"STR_EQ", Get(A(<<Const("b")>>)), <<"quoted", <<Write("x")>>>>>>, <<"DEF", Get(A(<<Const("c")>>))>>,
               <<"LOG_AND", Lit("1"), M(<<Get(K)>>)>>, <<"NOT", Get(Root(<<Const("n")>>))>>}
Branches(contents) == contents \cup {<<BreakCall, Write("w")>>, <<Assign(Root(<<Const("n")>>), Round(Lit("0"))), Write("w")>>, <<Rem(<<Write("r")>>), Get(K)>>}
Calls(contents) ==
    LET branches == Branches(contents)
    IN  {IfCall(<<Round(c), Curly(d)>>) : c \in Conditions, d \in branches}
    \cup {IfCall(<<Round(c), Curly(<<Write("w")>>), Round(d), Curly(<<Get(K)>>), Curly(e)>>) : c \in Conditions, d \in Conditions, e \in {<<Write("z")>>, <<BreakCall>>}}
    \cup {WhileCall(<<Round(c), Curly(d)>>) : c \in Conditions, d \in branches}
    \cup {WhileCall(<<Round(Lit("1")), Curly(<<IfCall(<<Round(c), Curly(d)>>), BreakCall>>)>>) : c \in Conditions, d \in branches}
    \cup {Call(Root(p), <<Square(<<Get(K)>>)>>) : p \in {<<Const("self"), Const("m")>>, <<Const("a"), Const("b")>>, <<Const("a"), Const("c"), Const("b")>>,
            <<Const("a"), <<"var", <<"k">>>>>>, <<<<"square", <<Write("m")>>>>>>, <<<<"square", <<Get(Root(<<Const("b")>>))>>>>>>, <<Const("b"), Const("b")>>,
            <<<<"cat", <<"m">>, <<>>>>>>, <<Const("self")>>, <<Const("d")>>}}
    \cup {M(d) : d \in branches} \cup {Rem(d) : d \in contents}
    \cup {Call(Root(<<Const("m")>>), <<Curly(d)>>) : d \in branches}
\* Pages that hardly call the method, and those that do
Plain == {Show(Root(r)) : r \in Reads}
  \cup {<<Assign(Root(t), c)>> \o Show(Root(t)) : t \in Targets, c \in Values}
  \cup {<<Assign(Root(<<Const("b")>>), Round(e)), Get(K)>> : e \in Expr2}
Calling == {<<Call(Root(<<Const("m")>>), <<Round(e)>>)>> : e \in Expr2 \ {<<"quoted", <<Write("b")>>>>}}
  \cup {<<Write("t"), c, Write("u")>> : c \in Calls(Written)}
  \cup {<<Assign(Root(<<Const("d")>>), Square(<<c>>)), Get(Root(<<Const("d")>>))>> : c \in Calls(Contents)}
  \cup {<<Assign(Root(<<Const("d")>>), Curly(<<c>>)), Get(Root(<<Const("d")>>)), Get(Root(<<Const("d")>>))>> : c \in Calls(Written)}
TextBody == <<Write("m"), Get(Root(<<Const("p")>>))>>
WithResult == <<Write("m"), Assign(Root(<<Const("result")>>), Square(<<Get(Root(<<Const("p")>>))>>))>>
AllPrograms == [page : Plain, body : {TextBody}] \cup [page : Calling, body : {TextBody, WithResult}]

AllBuilds == {Flags}
=============================================================================
