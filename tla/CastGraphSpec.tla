---------------------------- MODULE CastGraphSpec ----------------------------
(***************************************************************************)
(* What luabind promises of conversions between C++ types.  Classes are    *)
(* registered, C++ objects are handed to Lua, and every question "can this *)
(* instance be used as a T?" is answered by a search of the cast graph as  *)
(* it is at that moment.  There are no caches, no numeric ids for dynamic  *)
(* types and no machine integers here: CastGraph refines this module.      *)
(***************************************************************************)
EXTENDS Naturals

CONSTANTS
  Types,      \* C++ types, named by their class ids
  CastsOf(_), \* CastsOf(c): the casts <<s, t>> that a class_<c> declares
  Convert(_, _, _, _, _, _),
              \* Convert(es, vs, src, target, type, off): the answer of a
              \* search of the graph (vs, es) for a way from src to target,
              \* for the pointer at `off` in a complete object of type `type`
  Layout      \* Layout[t]: the subobjects <<class, offset>> of a t

VARIABLES
  registered,  \* the classes register_ has run for
  made,        \* the instances Lua has been given: [type, cls, off]
  answer       \* {} or the latest conversion: {[of, target, result]}

absVars == <<registered, made, answer>>

Edges(classes) == UNION {CastsOf(c) : c \in classes}

\* Vertices are allocated up to the largest id an edge mentions.
VerticesOf(es) == {v \in Types : \E e \in es : v <= e[1] \/ v <= e[2]}

AbsInit ==
  /\ registered = {}
  /\ made = {}
  /\ answer = {}

AbsRegister(c) ==
  /\ registered' = registered \cup {c}
  /\ UNCHANGED <<made, answer>>

AbsMake(type, cls, off) ==
  /\ <<cls, off>> \in Layout[type]
  /\ made' = made \cup {[type |-> type, cls |-> cls, off |-> off]}
  /\ UNCHANGED <<registered, answer>>

AbsCast(m, target) ==
  /\ LET es == Edges(registered)
     IN  answer' = {[of |-> m, target |-> target,
                     result |-> Convert(es, VerticesOf(es), m.cls, target,
                                        m.type, m.off)]}
  /\ UNCHANGED <<registered, made>>

AbsNext ==
  \/ \E c \in Types : AbsRegister(c)
  \/ \E type \in Types : \E s \in Layout[type] : AbsMake(type, s[1], s[2])
  \/ \E m \in made, target \in Types : AbsCast(m, target)

AbsSpec == AbsInit /\ [][AbsNext]_absVars
=============================================================================
