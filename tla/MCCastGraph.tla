----------------------------- MODULE MCCastGraph -----------------------------
(***************************************************************************)
(* The hierarchies of test/test_virtual_inheritance.cpp (the non-virtual   *)
(* diamond, "conversion and caching works for all sub object pointers"), a *)
(* type that is first met through a base pointer and registered later, a   *)
(* wrapper, and a plain (non-polymorphic) pair.                            *)
(***************************************************************************)
EXTENDS CastGraph

Base    == 0
Left    == 1
Right   == 2
Derived == 3   \* struct Derived : Left, Right
Late    == 4   \* struct Late : Other, Left; Left is its second base
Wrap    == 5   \* the wrapper of Left
Plain   == 6
Sub     == 7   \* struct Sub : Other, Plain

MCPoly == Types \cap {Base, Left, Right, Derived, Late, Wrap}

MCBasesOf ==
  [t \in Types |-> IF t \notin Declared THEN {}
                   ELSE CASE t \in {Left, Right} -> Types \cap {Base}
                          [] t = Derived -> {Left, Right}
                          [] t = Late    -> {Left}
                          [] t = Sub     -> {Plain}
                          [] OTHER       -> {}]

MCWrapperOf == [t \in Types |-> IF t = Left /\ Wrap \in Types THEN Wrap ELSE NoType]

FullLayout ==
  [t \in Types |->
     CASE t = Base    -> {<<Base, 0>>}
       [] t = Left    -> {<<Left, 0>>, <<Base, 0>>}
       [] t = Right   -> {<<Right, 0>>, <<Base, 0>>}
       [] t = Derived -> {<<Derived, 0>>, <<Left, 0>>, <<Base, 0>>, <<Right, 2>>, <<Base, 2>>}
       [] t = Late    -> {<<Late, 0>>, <<Left, 1>>, <<Base, 1>>}
       [] t = Wrap    -> {<<Wrap, 0>>, <<Left, 0>>, <<Base, 0>>}
       [] t = Plain   -> {<<Plain, 0>>}
       [] t = Sub     -> {<<Sub, 0>>, <<Plain, 1>>}]

MCLayout == [t \in Types |-> {s \in FullLayout[t] : s[1] \in Types}]

\* Where a static_cast from s moves a pointer: the place of base t inside s.
Delta(s, t) == CASE s = Derived /\ t = Right -> 2
                 [] s = Late /\ t = Left     -> 1
                 [] s = Sub /\ t = Plain     -> 1
                 [] OTHER                    -> 0

Upward == {<<Left, Base>>, <<Right, Base>>, <<Derived, Left>>, <<Derived, Right>>,
           <<Late, Left>>, <<Wrap, Left>>, <<Sub, Plain>>}

\* static_cast upwards; dynamic_cast downwards: the T this pointer is a base
\* subobject of, else the only T of the complete object, else null.
MCCastFunction(s, t, type, off) ==
  IF <<s, t>> \in Upward THEN off + Delta(s, t)
  ELSE LET all   == {x[2] : x \in {y \in MCLayout[type] : y[1] = t}}
           below == {o \in all : o + Delta(t, s) = off}
       IN  IF below # {} THEN CHOOSE o \in below : TRUE
           ELSE IF Cardinality(all) = 1 THEN CHOOSE o \in all : TRUE
           ELSE NoPtr
=============================================================================
