----------------------------- MODULE CastSearch -----------------------------
(***************************************************************************)
(* The conversion search of luabind's cast graph: the breadth-first loop   *)
(* of cast_graph::impl::cast (src/inheritance.cpp), without its cache.     *)
(* A C++ type is named by the class_id that allocate_class_id gives it, so *)
(* two types never share a name.  A pointer into a C++ object is its byte  *)
(* offset from the start of the complete object.                           *)
(***************************************************************************)
EXTENDS Integers, FiniteSets, Sequences

LOCAL INSTANCE FiniteSetsExt

CONSTANTS
  Types,                    \* C++ types; as vertices of the graph, class ids
  Poly,                     \* the types with virtual functions
  BasesOf,                  \* BasesOf[c]: the bases class_<c> is declared with
  WrapperOf,                \* WrapperOf[c]: its wrapper type, or NoType
  NoType,
  NoPtr,                    \* the null pointer
  CastFunction(_, _, _, _)  \* CastFunction(s, t, type, off): what the cast
                            \* function of edge s -> t does to a pointer at
                            \* `off` in a complete object of type `type`

ASSUME TypesAssumption ==
  /\ Types \subseteq Nat /\ IsFiniteSet(Types)
  /\ Poly \subseteq Types
  /\ BasesOf \in [Types -> SUBSET Types]
  /\ WrapperOf \in [Types -> Types \cup {NoType}]
  /\ NoType \notin Int
  /\ NoPtr \notin Int

(***************************************************************************)
(* The casts a class_<c> declares: to and from each base, and from and to  *)
(* its wrapper; the downcast only when the target is polymorphic.          *)
(***************************************************************************)
CastsBetween(sub, base) ==
  {<<sub, base>>} \cup (IF base \in Poly THEN {<<base, sub>>} ELSE {})

CastsOf(c) ==
  (UNION {CastsBetween(c, b) : b \in BasesOf[c]})
    \cup (IF WrapperOf[c] = NoType THEN {} ELSE CastsBetween(WrapperOf[c], c))

AllCasts == UNION {CastsOf(c) : c \in Types}

\* A pointer that is not null.
IsPointer(p) == p \in Int

(***************************************************************************)
(* The answer of a conversion: a pointer and the number of casts on the    *)
(* way, or NotConvertible.                                                 *)
(***************************************************************************)
NotConvertible == [ptr |-> NoPtr, dist |-> -1]

\* S as a sequence in increasing order, as insert keeps the edges of a vertex.
Sorted(S) ==
  [i \in 1..Cardinality(S) |-> CHOOSE t \in S : Cardinality({u \in S : u < t}) = i - 1]

(***************************************************************************)
(* The search loop: take the first queue entry, mark its vertex visited,   *)
(* stop if it is the target, else queue what its casts make of its pointer.*)
(* A vertex counts as visited once an entry of it has been taken off the   *)
(* queue, so one vertex may be queued several times, with different        *)
(* pointers, and be expanded each time.  The loop ends with an empty queue *)
(* or with an entry of the target at the head of the queue.                *)
(***************************************************************************)
QueueEntry == [ptr : Int, cls : Types, dist : Nat]

Pushes(es, type, qe, visited) ==
  LET Casted(t) == CastFunction(qe.cls, t, type, qe.ptr)
      targets   == Sorted({t \in Types \ visited : <<qe.cls, t>> \in es /\ IsPointer(Casted(t))})
  IN  [i \in DOMAIN targets |->
         [ptr |-> Casted(targets[i]), cls |-> targets[i], dist |-> qe.dist + 1]]

SearchState == [queue : Seq(QueueEntry), visited : SUBSET Types]

IsOver(target, st) == st.queue = <<>> \/ Head(st.queue).cls = target

Outcome(st) ==
  IF st.queue = <<>> THEN NotConvertible
  ELSE [ptr |-> Head(st.queue).ptr, dist |-> Head(st.queue).dist]

Expanded(es, type, st) ==
  LET qe  == Head(st.queue)
      now == st.visited \cup {qe.cls}
  IN  [queue |-> Tail(st.queue) \o Pushes(es, type, qe, now), visited |-> now]

BreadthFirst(es, src, target, type, off) ==
  LET loop[st \in SearchState] ==
        IF IsOver(target, st) THEN Outcome(st) ELSE loop[Expanded(es, type, st)]
  IN  loop[[queue |-> <<[ptr |-> off, cls |-> src, dist |-> 0]>>, visited |-> {}]]

(***************************************************************************)
(* cast() as it would be without a cache: the identity, then the bounds    *)
(* check against the vertices, then the search.                            *)
(***************************************************************************)
Convert(es, vs, src, target, type, off) ==
  IF src = target THEN [ptr |-> off, dist |-> 0]
  ELSE IF src \notin vs \/ target \notin vs THEN NotConvertible
  ELSE BreadthFirst(es, src, target, type, off)

(***************************************************************************)
(* The reference definition of a conversion: a path of casts none of which *)
(* returns null.  Reach(...)[d] is what exactly d of them can get to.      *)
(***************************************************************************)
Reach(es, src, type, off) ==
  LET Via(x, e)   == <<e[2], CastFunction(e[1], e[2], type, x[2])>>
      after[d \in Nat] ==
        IF d = 0 THEN {<<src, off>>}
        ELSE UNION {{Via(x, e) : e \in {y \in es : y[1] = x[1] /\ IsPointer(Via(x, y)[2])}} :
                       x \in after[d - 1]}
  IN  after

\* r is the result of some shortest path, or there is no path and r says so.
IsShortestConversion(r, es, src, target, type, off) ==
  LET after   == Reach(es, src, type, off)
      reached == {d \in 0..Cardinality(Types) :
                    \E x \in after[d] : x[1] = target}
  IN  IF reached = {} THEN r = NotConvertible
      ELSE r.dist = Min(reached) /\ <<target, r.ptr>> \in after[r.dist]

\* src can be converted to target at all.
IsConvertible(es, src, target, type, off) ==
  \E d \in 0..Cardinality(Types) :
     \E x \in Reach(es, src, type, off)[d] : x[1] = target
=============================================================================
