----------------------------- MODULE ClassTable -----------------------------
(***************************************************************************)
(* The classes of a request.  A class keeps, besides its own methods, a    *)
(* copy of those it inherits, and a list of all the classes derived from   *)
(* it, directly or not: a method that is added to a class is put into the  *)
(* derived ones at once, and the call of a method never climbs the bases.  *)
(*                                                                         *)
(* The classes are a sequence of objects and are named by their places in  *)
(* it: the name of a class may be taken over by a class defined later.     *)
(***************************************************************************)
EXTENDS Integers, Sequences

CONSTANTS ClassName, MethodName, \* MethodName contains "auto"
          None

Names == ClassName \cup {"MAIN"}

\* A class.  own is what was put into it by set_method, not inherited: it is not
\* kept by the code and only the properties read it
NewClass(name) ==
    [name |-> name, base |-> 0, derived |-> {}, methods |-> [n \in MethodName |-> None],
     partial |-> FALSE, locals |-> FALSE, own |-> {}]
-----------------------------------------------------------------------------
\* Mutant: the derived classes are asked after the class itself has changed
set_method_wrong(classes, c, name, method) ==
    [i \in DOMAIN classes |->
        IF i = c THEN [classes[i] EXCEPT !.methods[name] = method, !.own = @ \cup {name}]
                 ELSE IF i \in classes[c].derived /\ classes[i].methods[name] = method
                      THEN [classes[i] EXCEPT !.methods[name] = method]
                      ELSE classes[i]]

\* Those of the derived classes that have the method of the class get the new one
set_method(classes, c, name, method) ==
    [i \in DOMAIN classes |->
        IF i = c THEN [classes[i] EXCEPT !.methods[name] = method, !.own = @ \cup {name}]
                 ELSE IF /\ i \in classes[c].derived /\ name # "auto"
                         /\ classes[i].methods[name] = classes[c].methods[name]
                      THEN [classes[i] EXCEPT !.methods[name] = method]
                      ELSE classes[i]]

\* A class, its base, the base of its base and so on: the least set with the base of
\* each of its classes
closed(classes, S) == \A i \in S : classes[i].base # 0 => classes[i].base \in S
Line(classes, c) ==
    {i \in DOMAIN classes : \A S \in SUBSET DOMAIN classes : c \in S /\ closed(classes, S) => i \in S}

\* Every base is told of the class, until one of them turns out to be the class
add_derived(classes, base, c) ==
    LET told == IF c \in Line(classes, base) THEN Line(classes, base) \ Line(classes, c)
                                             ELSE Line(classes, base)
    IN  [i \in DOMAIN classes |-> IF i \in told THEN [classes[i] EXCEPT !.derived = @ \cup {c}]
                                                ELSE classes[i]]
Circular(classes, base, c) == c \in Line(classes, base)

\* merge_dont_replace, and @auto, which is inherited only when it asks for the name
\* of the class, its second parameter
merged(classes, base, c) ==
    LET inherited(n) == classes[base].methods[n]
    IN  [n \in MethodName |->
            IF classes[c].methods[n] # None THEN classes[c].methods[n]
            ELSE IF n = "auto" /\ inherited(n) # None /\ inherited(n).params < 2 THEN None
            ELSE inherited(n)]

\* When the inheritance is circular the bases told so far stay told
set_base(classes, c, base) ==
    LET told == add_derived(classes, base, c)
    IN  IF Circular(classes, base, c) THEN told
        ELSE [told EXCEPT ![c].base = base, ![c].methods = merged(told, base, c)]
=============================================================================
