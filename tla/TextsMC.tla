------------------------------- MODULE TextsMC -------------------------------
\* Texts: one or two pieces of code, on the page and in brackets of every kind; expressions
\* in parentheses of every kind, with comments and without
EXTENDS Integers, Sequences, SequencesExt

Blank == {" ", "\t", "\n"}
Escapable == {"^", "$", ";", "@", "(", ")", "[", "]", "{", "}", "\"", ":", "#"}
Texts1(pieces) == pieces \cup {a \o b : a \in pieces, b \in pieces}
D == <<"$", "a">>
C == <<"^", "a">>
Bits == {<<"a">>, <<" ">>, <<"^", "]">>, <<"^", "}">>, <<"^", "#", "4", "4">>, <<"[", "a", "]">>, <<"{", "a", "}">>, <<"(", "a", ")">>,
  <<":">>, <<"-">>, <<".">>, <<"#">>, <<"'">>, D, <<"$", "a", ".", "b">>, D \o <<"[", "b", "]">>, D \o <<"{", "]", "}">>,
  <<"$", "{", "a", "}">>, D \o <<".", "[", "b", "]", ".", "c">>, C \o <<"[", "]">>, C \o <<"[", "b", ";", "c", "]", "{", "]", "}">>,
  C \o <<".", "b", "(", "1", "+", "$", "c", ")">>, C \o <<"{">> \o D \o <<"}">>, C \o <<":", "b", "[", "]">>,
  C \o <<".", "[", "b", "]", "(", "'", "]", "'", ")">>, <<"\n", "#", "]", "\n", "a">>}
Codes == {t \in Texts1(Bits) : t[1] \notin Blank \cup {"#"} /\ ~(Len(t) > 2 /\ t[1] = "^" /\ t[2] \in Escapable /\ \E i \in 3..Len(t) : t[i] \in Blank)}
In(pre, t, post) == [text |-> pre \o t \o post, from |-> Len(pre) + 1, to |-> Len(pre) + Len(t)]
Place(pre, post) == [pre |-> pre, post |-> post]
Squares == {Place(D \o <<"[">>, <<"]">>), Place(C \o <<"[">>, <<"]">>), Place(C \o <<".", "[">>, <<"]", "[", "]">>),
   Place(<<"$", "{", "a", ".", "[">>, <<"]", "}">>)}
Curlies == {Place(D \o <<"{">>, <<"}">>), Place(C \o <<"(", "1", ")", "{">>, <<"}">>)}
Bodies == {Place(<<"@", "a", "[", "]", "\n">>, <<>>), Place(<<"@", "z", "[", "]", "\n", "y", "\n", "@", "a", "[", "b", ";", "c", "]", "[", "d", "]", "e", "\n">>, <<"\n", "\n", "@", "b", "[", "]", "\n">>),
           Place(<<"@", "U", "\n", "d", "\n", "@", "a", "[", "]", "\n", "#", "c", "\n">>, <<>>)}
InStrings == {Place(D \o <<"(", "\"">>, <<"\"", ")">>)}
Places == Squares \cup Curlies \cup InStrings \cup Bodies
Nests == Places \cup {Place(p.pre \o q.pre, q.post \o p.post) : p \in Places, q \in Squares \cup Curlies}
Same(why, a, b) == [why |-> why, one |-> a, other |-> b]
InPlaces == {Same("place", In(<<>>, t, <<>>), In(p.pre, t, p.post)) : t \in Codes, p \in Places}
   \cup {Same("place", In(<<>>, t, <<>>), In(p.pre, t, p.post)) : t \in Codes \cap Bits, p \in Nests}
Explicits == {Same("explicit", In(<<>>, t, <<>>), In(<<>>, t, <<>>)) : t \in {t \in Codes : \A i \in DOMAIN t : Escapable \cap {t[i]} = {} \/ i = 1 \/ t[i-1] # "^"}}
EBits == {<<"1">>, <<" ">>, D, <<"$", "a", ".", "b">>, <<"-">>, <<"-", "f", " ">>, <<"(", "1", ")">>, <<"\"", "b", ")", "\"">>, <<"'", "c", "'">>,
   <<" ", "l", "t", " ">>, <<"d", "e", "f", " ">>, C \o <<"[", ")", "]">>, C \o <<"(", "1", ")">>, <<"#", "c", "\n">>, <<"#", "(", "d", ")", "e", "\n">>,
   <<"&", "&">>, <<"t", "r", "u", "e">>, <<"!">>, <<" ", "i", "s", " ">>, <<"\n">>}
Expressions == Texts1(EBits)
EPlaces == {Place(C \o <<"(">>, <<")">>), Place(C \o <<"[", "]", "(">>, <<")">>), Place(D \o <<".", "(">>, <<")">>), Place(<<"$", "{", "a", ".", "(">>, <<")", "}">>),
   Place(C \o <<".", "(">>, <<")", "[", "]">>), Place(D \o <<"(", "(">>, <<")", ")">>), Place(C \o <<"(", "-", "(">>, <<")", ")">>)}
InRound == {Same("place", In(D \o <<"(">>, e, <<")">>), In(p.pre, e, p.post)) : e \in Expressions, p \in EPlaces}
Plain(e) == \A i \in DOMAIN e : e[i] # "#"
Comments(cs) == {Same("comment", In(D \o <<"(">>, a \o b, <<")">>), In(D \o <<"(">>, a \o c \o b, <<")">>)) :
     a \in {a \in Expressions : Last(a) = " " /\ Plain(a)}, b \in {b \in EBits : Plain(b)}, c \in cs}
LastComments(cs) == {Same("comment", In(D \o <<"(">>, a, <<")">>), In(D \o <<"(">>, a \o c, <<")">>)) : a \in {a \in Expressions : Last(a) = " " /\ Plain(a)}, c \in cs}
AllTwice == {InPlaces, Explicits, InRound, LastComments({<<"#", "c">>, <<"#", "c", "(", "d", ")">>}),
             Comments({<<"#", "c", "\n">>, <<"#", "(", "c", ")", "\n">>, <<"#", "c", "(", "d", ")", "e", "\n">>})}

\* Expressions with a comment of no letters in them
MCComments == {Comments({<<"#", "\n">>})}
=============================================================================
