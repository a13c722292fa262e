------------------------------ MODULE CastGraph ------------------------------
(***************************************************************************)
(* luabind's cast graph with its conversion cache (src/inheritance.cpp),   *)
(* the map from C++ types to the ids that key the cache                    *)
(* (luabind/detail/inheritance.hpp) and the three places that feed them:   *)
(* class_registration::register_ (src/class.cpp), make_instance            *)
(* (luabind/detail/make_instance.hpp) and the constructors                 *)
(* (luabind/detail/constructor.hpp).                                       *)
(*                                                                         *)
(* The hazard: an answer is remembered under (src, target, dynamic id,     *)
(* offset to the complete object), and is used again for every later       *)
(* instance whose key is the same, until a registration adds an edge.      *)
(***************************************************************************)
EXTENDS CastSearch

CONSTANTS
  Declared,    \* the types the program declares with class_<>
  Layout,      \* Layout[t]: the subobjects <<class, offset>> of a t
  LocalBase,   \* class_id_map::local_id_base
  NoId,        \* a type class_id_map has no entry for
  IntSpan,     \* the number of values of an int, 2^32
  PtrSpan,     \* the number of values of a ptrdiff_t, 2^32 or 2^64
  MaxLocal,    \* bound: local ids handed out
  MaxHolders,  \* bound: instances handed to Lua
  MaxCached    \* bound: cached answers between two invalidations

ASSUME CastGraphAssumption ==
  /\ Declared \subseteq Types
  /\ LocalBase \in Nat /\ \A t \in Types : t < LocalBase
  /\ NoId \notin Nat
  /\ Layout \in [Types -> SUBSET (Types \X Int)]
  /\ IntSpan \in Nat \ {0} /\ PtrSpan \in Nat \ {0}

VARIABLES
  registered,  \* class_registry: the classes register_ has run for
  edges,       \* m_vertices[..].edges of the graph
  vertices,    \* the ids below m_vertices.size()
  cache,       \* m_cache: a partial function from keys to entries
  ids,         \* class_id_map::m_classes
  nextLocal,   \* class_id_map::m_local_id
  holders,     \* every instance_holder that has been made
  answer       \* {} or the latest conversion: {[of, target, ptr, score]}

vars == <<registered, edges, vertices, cache, ids, nextLocal, holders, answer>>

-----------------------------------------------------------------------------
(***************************************************************************)
(* The cache.  cache::put stores its `distance` in an int and its `offset` *)
(* in a ptrdiff_t; the sentinels of the offset are the two largest values. *)
(***************************************************************************)
Unknown == PtrSpan \div 2 - 1
Invalid == Unknown - 1

\* The conversion of an integer to int.
NarrowUnsigned(x) == x % IntSpan  \* mutant: the score kept unsigned

Narrow(x) ==
  LET m == x % IntSpan IN IF m >= IntSpan \div 2 THEN m - IntSpan ELSE m

EntrySwapped(distance, offset) ==  \* mutant: the two numbers swapped
  [offset |-> distance, score |-> Narrow(offset)]

Entry(distance, offset) == [offset |-> offset, score |-> Narrow(distance)]

NoEntries == [k \in {} |-> Entry(0, 0)]

\* get_dynamic_class: the holder's `dyn` is where its dynamic_ptr points.
ObjectOffset(h) == h.dyn - h.off
KeyWithoutOffset(h, target) == <<h.cls, target, h.id>>           \* mutant
KeyWithoutId(h, target) == <<h.cls, target, ObjectOffset(h)>>    \* mutant
Key(h, target)  == <<h.cls, target, h.id, ObjectOffset(h)>>

Put(key, distance, offset) ==
  cache' = [k \in DOMAIN cache \cup {key} |->
              IF k \in DOMAIN cache THEN cache[k] ELSE Entry(distance, offset)]

-----------------------------------------------------------------------------
(***************************************************************************)
(* What the C++ types are assumed to be like.  CastsLand: a static_cast to *)
(* a base, and a dynamic_cast that succeeds, of a pointer to a subobject   *)
(* yields one to a subobject.  SearchFits: distances fit an int and        *)
(* offsets stay clear of the two sentinels.  PlainCastsAreFixed:           *)
(* a non-polymorphic type is converted the same way wherever it is found,  *)
(* which is what makes its static id enough of a key; it excludes virtual  *)
(* bases of non-polymorphic classes (docs.rst:2613).                       *)
(***************************************************************************)
CastsLand ==
  \A e \in AllCasts, type \in Types : \A s \in Layout[type] :
    LET p == CastFunction(e[1], e[2], type, s[2])
    IN  s[1] = e[1] /\ IsPointer(p) => <<e[2], p>> \in Layout[type]

SearchFits ==
  \A es \in SUBSET AllCasts, type, target \in Types : \A s \in Layout[type] :
    LET r == BreadthFirst(es, s[1], target, type, s[2])
    IN  \/ r = NotConvertible
        \/ r.dist < IntSpan \div 2 /\ r.ptr - s[2] < Invalid

PlainCastsAreFixed ==
  \A es \in SUBSET AllCasts, target, t1, t2 \in Types :
    \A s1 \in Layout[t1], s2 \in Layout[t2] :
      (s1[1] = s2[1] /\ s1[1] \notin Poly) =>
        LET r1 == BreadthFirst(es, s1[1], target, t1, s1[2])
            r2 == BreadthFirst(es, s2[1], target, t2, s2[2])
        IN  /\ r1.dist = r2.dist
            /\ r1 = NotConvertible <=> r2 = NotConvertible
            /\ r1 # NotConvertible => r1.ptr - s1[2] = r2.ptr - s2[2]

ASSUME CppAssumption == CastsLand /\ SearchFits /\ PlainCastsAreFixed

-----------------------------------------------------------------------------
(***************************************************************************)
(* cast_graph::impl::cast for the pointer a holder keeps, by the paths     *)
(* through it: identity, an id without a vertex, a cached answer, a search *)
(* that succeeds and one that fails.                                       *)
(***************************************************************************)
Answer(h, target, ptr, score) ==
  answer' = {[of |-> h, target |-> target, ptr |-> ptr, score |-> score]}

GraphUnchanged == UNCHANGED <<registered, edges, vertices, ids, nextLocal, holders>>

NeedsLookup(h, target) ==
  /\ h.cls # target
  /\ h.cls \in vertices /\ target \in vertices

Searched(h, target) == BreadthFirst(edges, h.cls, target, h.type, h.off)

CastToItself(h, target) ==
  /\ h.cls = target
  /\ Answer(h, target, h.off, 0)
  /\ GraphUnchanged /\ UNCHANGED cache

CastOutsideGraph(h, target) ==
  /\ h.cls # target
  /\ h.cls \notin vertices \/ target \notin vertices
  /\ Answer(h, target, NoPtr, -1)
  /\ GraphUnchanged /\ UNCHANGED cache

CastCached(h, target) ==
  /\ NeedsLookup(h, target)
  /\ Key(h, target) \in DOMAIN cache
  /\ LET cached == cache[Key(h, target)]
     IN  /\ cached.offset # Unknown
         /\ IF cached.offset = Invalid
            THEN Answer(h, target, NoPtr, -1)
            ELSE Answer(h, target, h.off + cached.offset, cached.score)
  /\ GraphUnchanged /\ UNCHANGED cache

CastFound(h, target) ==
  /\ NeedsLookup(h, target)
  /\ Key(h, target) \notin DOMAIN cache
  /\ Cardinality(DOMAIN cache) < MaxCached
  /\ LET r == Searched(h, target)
     IN  /\ r # NotConvertible
         /\ Put(Key(h, target), r.dist, r.ptr - h.off)
         /\ Answer(h, target, r.ptr, r.dist)
  /\ GraphUnchanged

\* The failure is remembered by put(.., cache::invalid, -1): the sentinel
\* arrives in the parameter called distance.
CastNotFound(h, target) ==
  /\ NeedsLookup(h, target)
  /\ Key(h, target) \notin DOMAIN cache
  /\ Cardinality(DOMAIN cache) < MaxCached
  /\ Searched(h, target) = NotConvertible
  /\ Put(Key(h, target), Invalid, -1)
  /\ Answer(h, target, NoPtr, -1)
  /\ GraphUnchanged

Cast(h, target) ==
  \/ CastToItself(h, target)
  \/ CastOutsideGraph(h, target)
  \/ CastCached(h, target)
  \/ CastFound(h, target)
  \/ CastNotFound(h, target)
-----------------------------------------------------------------------------
(***************************************************************************)
(* class_registration::register_: the class and its wrapper enter the      *)
(* class_id_map (put overwrites a local id), then each of its casts enters *)
(* the graph.  insert adds the vertices up to the larger id and the edge   *)
(* if it is new, and only a new edge clears the cache.                     *)
(***************************************************************************)
InsertKeepingCache(casts) ==  \* mutant: no m_cache.invalidate()
  /\ vertices' = vertices \cup {v \in Types : \E e \in casts : v <= e[1] \/ v <= e[2]}
  /\ edges' = edges \cup casts
  /\ UNCHANGED cache

InsertAll(casts) ==
  /\ vertices' = vertices \cup {v \in Types : \E e \in casts : v <= e[1] \/ v <= e[2]}
  /\ edges' = edges \cup casts
  /\ cache' = IF casts \subseteq edges THEN cache ELSE NoEntries

RegisterClass(c) ==
  /\ c \notin registered
  /\ BasesOf[c] \subseteq registered
  /\ registered' = registered \cup {c}
  /\ ids' = [t \in Types |-> IF t = c \/ t = WrapperOf[c] THEN t ELSE ids[t]]
  /\ InsertAll(CastsOf(c))
  /\ UNCHANGED <<nextLocal, holders, answer>>

-----------------------------------------------------------------------------
(***************************************************************************)
(* Instances.  make_instance wraps a pointer the program already has: the  *)
(* dynamic id of a polymorphic pointee comes from get_local of its typeid, *)
(* which hands out a local id to a type it has not met; the dynamic id of  *)
(* any other pointee is its static id and its dynamic pointer is p itself. *)
(* A constructor knows the type it creates and passes that type's id.      *)
(***************************************************************************)
HolderSwapped(type, cls, off, id, dyn) ==  \* mutant: the two pointers swapped
  [type |-> type, cls |-> cls, off |-> dyn, id |-> id, dyn |-> off]

Holder(type, cls, off, id, dyn) ==
  [type |-> type, cls |-> cls, off |-> off, id |-> id, dyn |-> dyn]

\* classes.get(id) # 0: the class map has the registered ids, never a local one.
InClassMap(id) == id \in registered \/ \E c \in registered : WrapperOf[c] = id

AddHolder(h) ==
  /\ Cardinality(holders) < MaxHolders
  /\ holders' = holders \cup {h}

\* class_id_map::get_local: the id it returns, and what it changes.
LocalIdOf(type) == IF ids[type] # NoId THEN ids[type] ELSE nextLocal

GetLocalNotAdvancing(type) ==  \* mutant: m_local_id, not m_local_id++
  /\ ids[type] # NoId \/ nextLocal < LocalBase + MaxLocal
  /\ ids' = [ids EXCEPT ![type] = LocalIdOf(type)]
  /\ UNCHANGED nextLocal

GetLocal(type) ==
  /\ ids[type] # NoId \/ nextLocal < LocalBase + MaxLocal
  /\ ids' = [ids EXCEPT ![type] = LocalIdOf(type)]
  /\ nextLocal' = IF ids[type] # NoId THEN nextLocal ELSE nextLocal + 1

MakePolymorphic(type, cls, off) ==
  /\ cls \in Poly
  /\ <<cls, off>> \in Layout[type]
  /\ GetLocal(type)
  /\ IF InClassMap(LocalIdOf(type)) \/ InClassMap(cls)
     THEN AddHolder(Holder(type, cls, off, LocalIdOf(type), 0))
     ELSE UNCHANGED holders    \* throws "Trying to use unregistered class"
  /\ UNCHANGED <<registered, edges, vertices, cache, answer>>

MakePlain(type, cls, off) ==
  /\ cls \notin Poly
  /\ <<cls, off>> \in Layout[type]
  /\ InClassMap(cls)
  /\ AddHolder(Holder(type, cls, off, cls, off))
  /\ UNCHANGED <<registered, edges, vertices, cache, ids, nextLocal, answer>>

\* The type a constructor of class_<c> creates, and what its holder's smart
\* pointer points to: that type, or the class itself (HeldType).
ConstructType(c) == IF WrapperOf[c] = NoType THEN c ELSE WrapperOf[c]

Construct(c, cls, off) ==
  LET type == ConstructType(c)
  IN  /\ c \in registered
      /\ cls \in {type, c}
      /\ <<cls, off>> \in Layout[type]
      /\ AddHolder(Holder(type, cls, off, type, 0))
      /\ UNCHANGED <<registered, edges, vertices, cache, ids, nextLocal, answer>>

-----------------------------------------------------------------------------
Init ==
  /\ registered = {}
  /\ edges = {}
  /\ vertices = {}
  /\ cache = NoEntries
  /\ ids = [t \in Types |-> NoId]
  /\ nextLocal = LocalBase
  /\ holders = {}
  /\ answer = {}

Next ==
  \/ \E c \in Declared : RegisterClass(c)
  \/ \E type \in Types : \E s \in Layout[type] :
        \/ MakePolymorphic(type, s[1], s[2])
        \/ MakePlain(type, s[1], s[2])
  \/ \E c \in Declared : \E s \in Layout[ConstructType(c)] : Construct(c, s[1], s[2])
  \/ \E h \in holders, target \in Types : Cast(h, target)

Spec == Init /\ [][Next]_vars

-----------------------------------------------------------------------------
(***************************************************************************)
(* Types of the variables.                                                 *)
(***************************************************************************)
IdType == Types \cup {n \in Nat : n >= LocalBase}

HolderOK(h) ==
  /\ h.type \in Types /\ h.cls \in Types
  /\ h.off \in Int /\ h.dyn \in Int /\ h.id \in Nat
  /\ h = Holder(h.type, h.cls, h.off, h.id, h.dyn)
  /\ <<h.cls, h.off>> \in Layout[h.type]

TypeOK ==
  /\ registered \subseteq Types
  /\ edges \subseteq Types \X Types
  /\ vertices \subseteq Types
  /\ cache = [k \in DOMAIN cache |-> cache[k]]
  /\ ids \in [Types -> Nat \cup {NoId}]
  /\ nextLocal \in Nat /\ nextLocal >= LocalBase
  /\ \A h \in holders : HolderOK(h)

(***************************************************************************)
(* class_id_map partitions the ids: a registered id belongs to its own     *)
(* type, a local id to the one type it was handed out for, and no id is    *)
(* handed out twice, although put() takes local ids away from types whose  *)
(* instances still carry them (inheritance.hpp:45).                        *)
(***************************************************************************)
DynamicIdNamesOneType ==
  \A g, h \in holders :
     (g.cls \in Poly /\ h.cls \in Poly /\ g.id = h.id) => g.type = h.type

(***************************************************************************)
(* The cache never changes an answer: whatever it holds under the key of   *)
(* an instance is what a search of the present graph finds for it (with    *)
(* the form a failure is stored in).                                       *)
(***************************************************************************)
FreshEntry(h, target) ==
  LET r == Searched(h, target)
  IN  IF r = NotConvertible THEN Entry(Invalid, -1) ELSE Entry(r.dist, r.ptr - h.off)

CacheCoherent ==
  \A h \in holders, target \in Types :
     Key(h, target) \in DOMAIN cache => cache[Key(h, target)] = FreshEntry(h, target)

(***************************************************************************)
(* A conversion that is accepted yields a subobject of the class asked for *)
(* inside the object the instance stands for: the pointer handed to C++ is *)
(* never one into the middle of something else.                            *)
(***************************************************************************)
AcceptedLandsOnSubobject ==
  \A a \in answer : a.score >= 0 => <<a.target, a.ptr>> \in Layout[a.of.type]

\* The cast as its callers read it: every negative score is a rejection.
Strip(h) == [type |-> h.type, cls |-> h.cls, off |-> h.off]

AnswerBar ==
  {[of |-> Strip(a.of), target |-> a.target,
    result |-> IF a.score < 0 THEN NotConvertible
               ELSE [ptr |-> a.ptr, dist |-> a.score]] : a \in answer}

(***************************************************************************)
(* docs.rst:307 "It will handle implicit typecasts between derived         *)
(* classes, and it will prefer matches with the least number of implicit   *)
(* casts": the search returns a shortest chain of casts that succeed, and  *)
(* fails only if there is none, although it drops edges to visited         *)
(* vertices whatever pointer they were visited with.                       *)
(***************************************************************************)
AnswersAreShortest ==
  [][answer' # answer =>
       \A a \in AnswerBar' : IsShortestConversion(a.result, edges, a.of.cls, a.target,
                                                a.of.type, a.of.off)]_vars

(***************************************************************************)
(* docs.rst:2363 "No function/operator with the given name takes the       *)
(* parameters you gave it": an instance is accepted as a T only when the   *)
(* casts can make a T of it.                                               *)
(***************************************************************************)
AcceptedIsConvertible ==
  \A a \in answer :
     a.score >= 0 => IsConvertible(edges, a.of.cls, a.target, a.of.type, a.of.off)

-----------------------------------------------------------------------------
(***************************************************************************)
(* The refinement: hide the graph, the cache and the ids.                  *)
(***************************************************************************)
Abs == INSTANCE CastGraphSpec WITH
         made <- {Strip(h) : h \in holders}, answer <- AnswerBar

\* Asking the cached graph is asking the graph.
ImplementsUncached == Abs!AbsSpec
=============================================================================
