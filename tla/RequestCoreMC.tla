---------------------------- MODULE RequestCoreMC ----------------------------
EXTENDS RequestCore
\* Range headers of one and of two ranges, and some that are neither
Tokens == {digits(0), digits(1), digits(2), digits(UNSET), sign("dash"), sign("comma"), sign("blank")}
SomeRanges == UNION {[1..n -> Tokens] : n \in 1..3} \cup
    {<<digits(0), sign("dash"), digits(0), sign("comma"), sign("dash"), digits(1)>>,
     <<digits(0), sign("blank"), sign("dash"), digits(1), sign("comma")>>,
     <<digits(0), sign("dash"), digits(1), sign("other")>>}
=============================================================================
