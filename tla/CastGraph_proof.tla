--------------------------- MODULE CastGraph_proof ---------------------------
(***************************************************************************)
(* Proofs about the cast graph, for every set of types and every hierarchy *)
(* that meets the assumptions of CastSearch and CastGraph.                 *)
(***************************************************************************)
EXTENDS CastGraph, FiniteSetTheorems, SequenceTheorems, WellFoundedInduction,
        TLAPS

-----------------------------------------------------------------------------
(***************************************************************************)
(* The inductive invariant.                                                *)
(***************************************************************************)
IsLocal(id) == id \in Nat /\ LocalBase <= id /\ id < nextLocal

\* The graph holds the casts of the registered classes, and a vertex for
\* every id up to the largest they mention.
GraphInv ==
  /\ edges = UNION {CastsOf(c) : c \in registered}
  /\ vertices = {v \in Types : \E e \in edges : v <= e[1] \/ v <= e[2]}

\* A type has no id, its own (when the class map knows it) or a local one
\* that no other type has.
IdInv ==
  /\ \A t \in Types : ids[t] = NoId \/ ids[t] = t \/ IsLocal(ids[t])
  /\ \A t, u \in Types : (ids[t] = ids[u] /\ IsLocal(ids[t])) => t = u

\* An instance seen through a polymorphic class carries its type's own id or
\* a local id that was handed out for that type and for no other.
HolderInv ==
  /\ \A h \in holders : h.cls \in Poly =>
       /\ h.dyn = 0
       /\ h.id = h.type \/ IsLocal(h.id)
       /\ \A t \in Types : (ids[t] = h.id /\ IsLocal(h.id)) => t = h.type
  /\ DynamicIdNamesOneType

\* An entry was put for some instance, while the graph was what it is now.
CacheInv ==
  \A k \in DOMAIN cache : \E h \in holders, target \in Types :
     k = Key(h, target) /\ cache[k] = FreshEntry(h, target)

IInv == TypeOK /\ GraphInv /\ IdInv /\ HolderInv /\ CacheInv

-----------------------------------------------------------------------------
(***************************************************************************)
(* Facts about the casts a class declares.                                 *)
(***************************************************************************)
LEMMA CastsOfType ==
  ASSUME NEW c \in Types
  PROVE  CastsOf(c) \subseteq Types \X Types
<1>1. \A s, b \in Types : CastsBetween(s, b) \subseteq Types \X Types
  BY DEF CastsBetween
<1>2. BasesOf[c] \subseteq Types /\ WrapperOf[c] \in Types \cup {NoType}
  BY TypesAssumption
<1>3. \A b \in BasesOf[c] : CastsBetween(c, b) \subseteq Types \X Types
  BY <1>1, <1>2
<1>4. WrapperOf[c] # NoType => CastsBetween(WrapperOf[c], c) \subseteq Types \X Types
  BY <1>1, <1>2
<1>. QED
  BY <1>3, <1>4 DEF CastsOf

LEMMA EdgesDeclared ==
  ASSUME GraphInv, registered \subseteq Types
  PROVE  edges \in SUBSET AllCasts
BY DEF GraphInv, AllCasts

(***************************************************************************)
(* The heart of the matter: two instances with the same key get the same   *)
(* entry from a search.  Through a polymorphic class the key fixes the     *)
(* type of the complete object and the place of the subobject in it;       *)
(* through any other class the search does not depend on them.             *)
(***************************************************************************)
LEMMA SameKeySameEntry ==
  ASSUME TypeOK, GraphInv, HolderInv,
         NEW g \in holders, NEW h \in holders,
         NEW t \in Types, NEW u \in Types,
         Key(g, t) = Key(h, u)
  PROVE  FreshEntry(g, t) = FreshEntry(h, u)
<1>1. g.cls = h.cls /\ t = u /\ g.id = h.id /\ g.dyn - g.off = h.dyn - h.off
  BY DEF Key, ObjectOffset
<1>2. HolderOK(g) /\ HolderOK(h)
  BY DEF TypeOK
<1>3. CASE g.cls \in Poly
  <2>1. g.type = h.type
    BY <1>1, <1>3 DEF HolderInv, DynamicIdNamesOneType
  <2>2. g.off = h.off
    BY <1>1, <1>2, <1>3 DEF HolderInv, HolderOK
  <2>. QED
    BY <1>1, <2>1, <2>2 DEF FreshEntry, Searched
<1>4. CASE g.cls \notin Poly
  <2>. DEFINE r == Searched(g, t)
              s == Searched(h, t)
  <2>1. edges \in SUBSET AllCasts
    BY EdgesDeclared DEF TypeOK
  <2>2. /\ g.type \in Types /\ h.type \in Types
        /\ <<g.cls, g.off>> \in Layout[g.type]
        /\ <<h.cls, h.off>> \in Layout[h.type]
    BY <1>2 DEF HolderOK
  <2>3. /\ r.dist = s.dist
        /\ r = NotConvertible <=> s = NotConvertible
        /\ r # NotConvertible => r.ptr - g.off = s.ptr - h.off
    <3>. DEFINE a == <<g.cls, g.off>>
                b == <<h.cls, h.off>>
    <3>1. a[1] = g.cls /\ a[2] = g.off /\ b[1] = g.cls /\ b[2] = h.off
      BY <1>1
    <3>2. /\ r = BreadthFirst(edges, a[1], t, g.type, a[2])
          /\ s = BreadthFirst(edges, b[1], t, h.type, b[2])
      BY <1>1, <3>1 DEF Searched
    <3>. HIDE DEF a, b, r, s
    <3>. QED
      BY <1>4, <2>1, <2>2, <3>1, <3>2, CppAssumption DEF PlainCastsAreFixed, a, b
  <2>. QED
    BY <1>1, <2>3 DEF FreshEntry
<1>. QED
  BY <1>3, <1>4

-----------------------------------------------------------------------------
(***************************************************************************)
(* Init establishes the invariant; every action preserves it.              *)
(***************************************************************************)
LEMMA InitInv == Init => IInv
<1>. SUFFICES ASSUME Init PROVE IInv
  OBVIOUS
<1>1. TypeOK
  BY CastGraphAssumption DEF Init, TypeOK, NoEntries
<1>2. GraphInv
  BY DEF Init, GraphInv
<1>3. IdInv
  BY CastGraphAssumption DEF Init, IdInv, IsLocal
<1>4. HolderInv
  BY DEF Init, HolderInv, DynamicIdNamesOneType
<1>5. CacheInv
  BY DEF Init, CacheInv, NoEntries
<1>. QED
  BY <1>1, <1>2, <1>3, <1>4, <1>5 DEF IInv

\* Nothing that keeps the edges, the cache and the instances makes an entry stale.
LEMMA CacheKept ==
  ASSUME CacheInv, edges' = edges, cache' = cache, holders \subseteq holders'
  PROVE  CacheInv'
<1>1. \A k \in DOMAIN cache' : \E g \in holders', u \in Types :
         k = Key(g, u) /\ cache'[k] = FreshEntry(g, u)
  BY DEF CacheInv
<1>. QED
  BY <1>1 DEF CacheInv, FreshEntry, Searched

LEMMA RegisterInv ==
  ASSUME IInv, NEW c \in Declared, RegisterClass(c)
  PROVE  IInv'
<1>. USE DEF IInv
<1>1. c \in Types /\ CastsOf(c) \subseteq Types \X Types
  BY CastsOfType, CastGraphAssumption
<1>2. /\ edges' = edges \cup CastsOf(c)
      /\ vertices' = vertices \cup
           {v \in Types : \E e \in CastsOf(c) : v <= e[1] \/ v <= e[2]}
      /\ cache' = IF CastsOf(c) \subseteq edges THEN cache ELSE NoEntries
      /\ holders' = holders /\ nextLocal' = nextLocal
      /\ registered' = registered \cup {c}
      /\ ids' = [t \in Types |-> IF t = c \/ t = WrapperOf[c] THEN t ELSE ids[t]]
  BY DEF RegisterClass, InsertAll
<1>3. \A t \in Types : ids'[t] = t \/ ids'[t] = ids[t]
  BY <1>2
<1>4. \A t \in Types : ~IsLocal(t)
  BY CastGraphAssumption DEF IsLocal
<1>5. TypeOK'
  <2>1. (cache = [k \in DOMAIN cache |-> cache[k]])'
    BY <1>2 DEF TypeOK, NoEntries
  <2>2. (ids \in [Types -> Nat \cup {NoId}])'
    BY <1>2, TypesAssumption DEF TypeOK
  <2>3. (edges \subseteq Types \X Types)'
    BY <1>1, <1>2 DEF TypeOK
  <2>. QED
    BY <1>1, <1>2, <2>1, <2>2, <2>3 DEF TypeOK
<1>6. GraphInv'
  <2>1. edges' = UNION {CastsOf(d) : d \in registered'}
    BY <1>2 DEF GraphInv
  <2>2. vertices' = {v \in Types : \E e \in edges' : v <= e[1] \/ v <= e[2]}
    BY <1>2 DEF GraphInv
  <2>. QED
    BY <2>1, <2>2 DEF GraphInv
<1>7. IdInv'
  <2>1. \A t \in Types : (ids[t] = NoId \/ ids[t] = t \/ IsLocal(ids[t]))'
    BY <1>2, <1>3 DEF IdInv, IsLocal
  <2>2. \A t, u \in Types : ((ids[t] = ids[u] /\ IsLocal(ids[t])) => t = u)'
    BY <1>2, <1>3, <1>4 DEF IdInv, IsLocal
  <2>. QED
    BY <2>1, <2>2 DEF IdInv
<1>8. HolderInv'
  <2>1. \A t \in Types : IsLocal(ids'[t]) => ids'[t] = ids[t]
    BY <1>3, <1>4
  <2>. QED
    BY <1>2, <2>1 DEF HolderInv, IsLocal, DynamicIdNamesOneType
<1>9. CacheInv'
  <2>1. CASE CastsOf(c) \subseteq edges
    <3>1. edges' = edges /\ cache' = cache
      BY <1>2, <2>1
    <3>. QED
      BY <1>2, <3>1, CacheKept
  <2>2. CASE ~(CastsOf(c) \subseteq edges)
    BY <1>2, <2>2 DEF CacheInv, NoEntries
  <2>. QED
    BY <2>1, <2>2
<1>. QED
  BY <1>5, <1>6, <1>7, <1>8, <1>9

\* A new instance leaves the graph and the cache coherent.
LEMMA NewHolderInv ==
  ASSUME IInv, NEW h, HolderOK(h),
         holders' \in {holders, holders \cup {h}},
         UNCHANGED <<registered, edges, vertices, cache>>
  PROVE  /\ GraphInv' /\ CacheInv'
         /\ \A g \in holders' : HolderOK(g)
<1>1. GraphInv'
  BY DEF IInv, GraphInv
<1>2. CacheInv'
  BY CacheKept DEF IInv
<1>3. \A g \in holders' : HolderOK(g)
  BY DEF IInv, TypeOK
<1>. QED
  BY <1>1, <1>2, <1>3

LEMMA MakePolymorphicInv ==
  ASSUME IInv, NEW type \in Types, NEW s \in Layout[type],
         MakePolymorphic(type, s[1], s[2])
  PROVE  IInv'
<1>. DEFINE id == LocalIdOf(type)
            h  == Holder(type, s[1], s[2], id, 0)
            NowLocal(n) == n \in Nat /\ LocalBase <= n /\ n < nextLocal'
<1>1. /\ ids' = [ids EXCEPT ![type] = id]
      /\ nextLocal' = IF ids[type] # NoId THEN nextLocal ELSE nextLocal + 1
      /\ holders' \in {holders, holders \cup {h}}
      /\ UNCHANGED <<registered, edges, vertices, cache, answer>>
  BY DEF MakePolymorphic, GetLocal, AddHolder
<1>2. /\ ids \in [Types -> Nat \cup {NoId}]
      /\ nextLocal \in Nat /\ nextLocal >= LocalBase
      /\ LocalBase \in Nat /\ Types \subseteq Nat
      /\ \A t \in Types : t < LocalBase
      /\ NoId \notin Nat
  BY CastGraphAssumption, TypesAssumption DEF IInv, TypeOK
<1>3. id \in Nat /\ nextLocal' \in Nat /\ nextLocal' >= nextLocal
  BY <1>1, <1>2 DEF LocalIdOf
<1>4. HolderOK(h)
  <2>1. /\ h.type = type /\ h.cls = s[1] /\ h.off = s[2] /\ h.id = id /\ h.dyn = 0
        /\ h = Holder(h.type, h.cls, h.off, h.id, h.dyn)
    BY DEF Holder
  <2>2. s \in Types \X Int
    BY CastGraphAssumption
  <2>. HIDE DEF h, id
  <2>. QED
    BY <1>3, <2>1, <2>2 DEF HolderOK
<1>5. h.cls = s[1] /\ h.type = type /\ h.id = id /\ h.dyn = 0
  BY DEF Holder
<1>6. id = type \/ (IsLocal(id) /\ ids[type] = id) \/ (id = nextLocal /\ ids[type] = NoId)
  BY DEF IInv, IdInv, LocalIdOf
<1>7. /\ \A t \in Types : ids'[t] = IF t = type THEN id ELSE ids[t]
      /\ \A n : IsLocal(n) => NowLocal(n)
      /\ \A t \in Types : ~NowLocal(t)
      /\ ~IsLocal(nextLocal)
      /\ NowLocal(id) \/ id = type
  BY <1>1, <1>2, <1>3, <1>6 DEF IsLocal, LocalIdOf
<1>. HIDE DEF h, id
<1>8. GraphInv' /\ CacheInv' /\ \A g \in holders' : HolderOK(g)
  BY <1>1, <1>4, NewHolderInv
<1>9. TypeOK'
  BY <1>1, <1>2, <1>3, <1>8 DEF IInv, TypeOK
<1>10. IdInv'
  <2>1. \A t \in Types : ids'[t] = NoId \/ ids'[t] = t \/ NowLocal(ids'[t])
    BY <1>1, <1>7 DEF IInv, IdInv, IsLocal
  <2>2. \A t, u \in Types : (ids'[t] = ids'[u] /\ NowLocal(ids'[t])) => t = u
    <3>. SUFFICES ASSUME NEW t \in Types, NEW u \in Types,
                         ids'[t] = ids'[u], NowLocal(ids'[t])
                  PROVE  t = u
      OBVIOUS
    <3>1. CASE t # type /\ u # type
      BY <1>1, <1>2, <1>7, <3>1 DEF IInv, IdInv, IsLocal
    <3>2. CASE id = type
      BY <1>7, <3>1, <3>2
    <3>3. CASE IsLocal(id) /\ ids[type] = id
      BY <1>7, <3>1, <3>3 DEF IInv, IdInv
    <3>4. CASE id = nextLocal /\ ids[type] = NoId
      BY <1>2, <1>7, <3>4 DEF IInv, IdInv, IsLocal
    <3>. QED
      BY <1>6, <1>7, <3>1, <3>2, <3>3, <3>4
  <2>. QED
    BY <2>1, <2>2 DEF IdInv, IsLocal
<1>11. HolderInv'
  <2>1. ASSUME NEW g \in holders', g.cls \in Poly
        PROVE  /\ g.dyn = 0
               /\ g.id = g.type \/ NowLocal(g.id)
               /\ \A t \in Types : (ids'[t] = g.id /\ NowLocal(g.id)) => t = g.type
    <3>1. CASE g \in holders
      <4>1. g.dyn = 0 /\ (g.id = g.type \/ IsLocal(g.id)) /\ g.type \in Types
        BY <2>1, <3>1 DEF IInv, HolderInv, TypeOK, HolderOK
      <4>2. ASSUME NEW t \in Types, ids'[t] = g.id, NowLocal(g.id)
            PROVE  t = g.type
        <5>1. IsLocal(g.id)
          BY <1>7, <4>1, <4>2
        <5>2. ids[t] = g.id
          BY <1>2, <1>6, <1>7, <4>2, <5>1
        <5>. QED
          BY <2>1, <3>1, <5>1, <5>2 DEF IInv, HolderInv
      <4>. QED
        BY <1>7, <4>1, <4>2
    <3>2. CASE g = h
      <4>1. \A t \in Types : (ids'[t] = id /\ NowLocal(id)) => t = type
        BY <1>7, <1>10 DEF IdInv, IsLocal
      <4>. QED
        BY <1>5, <1>7, <3>2, <4>1
    <3>. QED
      BY <1>1, <2>1, <3>1, <3>2
  <2>2. ASSUME NEW g \in holders, g.cls \in Poly, g.id = id
        PROVE  g.type = type
    <3>1. g.id = g.type \/ IsLocal(g.id)
      BY <2>2 DEF IInv, HolderInv
    <3>2. g.type \in Types
      BY <2>2 DEF IInv, TypeOK, HolderOK
    <3>3. CASE id = type
      BY <1>7, <2>2, <3>1, <3>3
    <3>4. CASE IsLocal(id) /\ ids[type] = id
      BY <2>2, <3>4 DEF IInv, HolderInv
    <3>5. CASE id = nextLocal /\ ids[type] = NoId
      BY <1>2, <1>7, <2>2, <3>1, <3>2, <3>5
    <3>. QED
      BY <1>6, <3>3, <3>4, <3>5
  <2>3. DynamicIdNamesOneType'
    BY <1>1, <1>5, <2>2 DEF IInv, HolderInv, DynamicIdNamesOneType
  <2>. QED
    BY <2>1, <2>3 DEF HolderInv, IsLocal
<1>. QED
  BY <1>8, <1>9, <1>10, <1>11 DEF IInv

LEMMA MakePlainInv ==
  ASSUME IInv, NEW type \in Types, NEW s \in Layout[type],
         MakePlain(type, s[1], s[2])
  PROVE  IInv'
<1>. DEFINE h == Holder(type, s[1], s[2], s[1], s[2])
<1>1. /\ s[1] \notin Poly
      /\ holders' \in {holders, holders \cup {h}}
      /\ UNCHANGED <<registered, edges, vertices, cache, ids, nextLocal, answer>>
  BY DEF MakePlain, AddHolder
<1>2. h.cls = s[1] /\ HolderOK(h)
  <2>1. /\ h.type = type /\ h.cls = s[1] /\ h.off = s[2] /\ h.id = s[1] /\ h.dyn = s[2]
        /\ h = Holder(h.type, h.cls, h.off, h.id, h.dyn)
    BY DEF Holder
  <2>2. s \in Types \X Int
    BY CastGraphAssumption
  <2>3. s[1] \in Nat
    BY <2>2, TypesAssumption
  <2>. HIDE DEF h
  <2>. QED
    BY <2>1, <2>2, <2>3 DEF HolderOK
<1>. HIDE DEF h
<1>3. GraphInv' /\ CacheInv' /\ \A g \in holders' : HolderOK(g)
  BY <1>1, <1>2, NewHolderInv
<1>4. TypeOK' /\ IdInv'
  BY <1>1, <1>3 DEF IInv, TypeOK, IdInv, IsLocal
<1>5. HolderInv'
  BY <1>1, <1>2 DEF IInv, HolderInv, IsLocal, DynamicIdNamesOneType
<1>. QED
  BY <1>3, <1>4, <1>5 DEF IInv

LEMMA ConstructInv ==
  ASSUME IInv, NEW c \in Declared, NEW s \in Layout[ConstructType(c)],
         Construct(c, s[1], s[2])
  PROVE  IInv'
<1>. DEFINE type == ConstructType(c)
            h    == Holder(type, s[1], s[2], type, 0)
<1>1. /\ holders' \in {holders, holders \cup {h}}
      /\ UNCHANGED <<registered, edges, vertices, cache, ids, nextLocal, answer>>
  BY DEF Construct, AddHolder
<1>2. type \in Types /\ ~IsLocal(type)
  BY CastGraphAssumption, TypesAssumption DEF ConstructType, IsLocal
<1>3. h.type = type /\ h.cls = s[1] /\ h.id = type /\ h.dyn = 0
  BY DEF Holder
<1>4. HolderOK(h)
  <2>1. /\ h.type = type /\ h.cls = s[1] /\ h.off = s[2] /\ h.id = type /\ h.dyn = 0
        /\ h = Holder(h.type, h.cls, h.off, h.id, h.dyn)
    BY DEF Holder
  <2>2. s \in Types \X Int /\ type \in Nat
    BY <1>2, CastGraphAssumption, TypesAssumption
  <2>3. s \in Layout[type]
    OBVIOUS
  <2>. HIDE DEF h, type
  <2>. QED
    BY <1>2, <2>1, <2>2, <2>3 DEF HolderOK
<1>. HIDE DEF h, type
<1>5. GraphInv' /\ CacheInv' /\ \A g \in holders' : HolderOK(g)
  BY <1>1, <1>4, NewHolderInv
<1>6. TypeOK' /\ IdInv'
  BY <1>1, <1>5 DEF IInv, TypeOK, IdInv, IsLocal
<1>7. \A g \in holders : (g.cls \in Poly /\ g.id = type) => g.type = type
  BY <1>2 DEF IInv, HolderInv
<1>8. HolderInv'
  BY <1>1, <1>2, <1>3, <1>7 DEF IInv, HolderInv, IsLocal, DynamicIdNamesOneType
<1>. QED
  BY <1>5, <1>6, <1>8 DEF IInv

LEMMA CastInv ==
  ASSUME IInv, NEW h \in holders, NEW target \in Types, Cast(h, target)
  PROVE  IInv'
<1>1. UNCHANGED <<registered, edges, vertices, ids, nextLocal, holders>>
  BY DEF Cast, CastToItself, CastOutsideGraph, CastCached, CastFound, CastNotFound,
         GraphUnchanged
<1>2. \/ cache' = cache
      \/ cache' = [k \in DOMAIN cache \cup {Key(h, target)} |->
                     IF k \in DOMAIN cache THEN cache[k] ELSE FreshEntry(h, target)]
  <2>1. CASE CastFound(h, target)
    BY <2>1 DEF CastFound, Put, FreshEntry
  <2>2. CASE CastNotFound(h, target)
    BY <2>2 DEF CastNotFound, Put, FreshEntry
  <2>. QED
    BY <2>1, <2>2 DEF Cast, CastToItself, CastOutsideGraph, CastCached
<1>3. TypeOK'
  BY <1>1, <1>2 DEF IInv, TypeOK
<1>4. GraphInv' /\ IdInv' /\ HolderInv'
  BY <1>1 DEF IInv, GraphInv, IdInv, HolderInv, IsLocal, DynamicIdNamesOneType
<1>5. \A k \in DOMAIN cache' : \E g \in holders, u \in Types :
         k = Key(g, u) /\ cache'[k] = FreshEntry(g, u)
  BY <1>2 DEF IInv, CacheInv
<1>6. CacheInv'
  BY <1>1, <1>5 DEF CacheInv, FreshEntry, Searched
<1>. QED
  BY <1>3, <1>4, <1>6 DEF IInv

-----------------------------------------------------------------------------
(***************************************************************************)
(* The invariant holds of every behaviour.                                 *)
(***************************************************************************)
LEMMA StepInv == IInv /\ [Next]_vars => IInv'
<1>. SUFFICES ASSUME IInv, [Next]_vars PROVE IInv'
  OBVIOUS
<1>1. CASE UNCHANGED vars
  <2>1. TypeOK' /\ GraphInv' /\ IdInv' /\ HolderInv'
    BY <1>1 DEF vars, IInv, TypeOK, GraphInv, IdInv, HolderInv, IsLocal,
                DynamicIdNamesOneType
  <2>2. CacheInv'
    BY <1>1, CacheKept DEF vars, IInv
  <2>. QED
    BY <2>1, <2>2 DEF IInv
<1>2. ASSUME NEW c \in Declared, RegisterClass(c)
      PROVE  IInv'
  BY <1>2, RegisterInv
<1>3. ASSUME NEW type \in Types, NEW s \in Layout[type],
             MakePolymorphic(type, s[1], s[2])
      PROVE  IInv'
  BY <1>3, MakePolymorphicInv
<1>4. ASSUME NEW type \in Types, NEW s \in Layout[type], MakePlain(type, s[1], s[2])
      PROVE  IInv'
  BY <1>4, MakePlainInv
<1>5. ASSUME NEW c \in Declared, NEW s \in Layout[ConstructType(c)],
             Construct(c, s[1], s[2])
      PROVE  IInv'
  BY <1>5, ConstructInv
<1>6. ASSUME NEW h \in holders, NEW target \in Types, Cast(h, target)
      PROVE  IInv'
  BY <1>6, CastInv
<1>. QED
  BY <1>1, <1>2, <1>3, <1>4, <1>5, <1>6 DEF Next

LEMMA Invariance == Spec => []IInv
BY InitInv, StepInv, PTL DEF Spec

(***************************************************************************)
(* The variables keep their types.                                         *)
(***************************************************************************)
THEOREM TypeCorrect == Spec => []TypeOK
<1>1. IInv => TypeOK
  BY DEF IInv
<1>. QED
  BY <1>1, Invariance, PTL

(***************************************************************************)
(* Two instances seen through polymorphic classes with the same dynamic id *)
(* have the same most derived type, however ids are taken away and given   *)
(* again (get_local and put of luabind/detail/inheritance.hpp).            *)
(***************************************************************************)
THEOREM IdsAreUnique == Spec => []DynamicIdNamesOneType
<1>1. IInv => DynamicIdNamesOneType
  BY DEF IInv, HolderInv
<1>. QED
  BY <1>1, Invariance, PTL

LEMMA CoherentUnderIInv == IInv => CacheCoherent
<1>. SUFFICES ASSUME IInv, NEW h \in holders, NEW target \in Types,
                     Key(h, target) \in DOMAIN cache
              PROVE  cache[Key(h, target)] = FreshEntry(h, target)
  BY DEF CacheCoherent
<1>1. PICK g \in holders, u \in Types :
        Key(h, target) = Key(g, u) /\ cache[Key(h, target)] = FreshEntry(g, u)
  BY DEF IInv, CacheInv
<1>2. FreshEntry(h, target) = FreshEntry(g, u)
  BY <1>1, SameKeySameEntry DEF IInv
<1>. QED
  BY <1>1, <1>2

(***************************************************************************)
(* What the cache holds under an instance's key is what a search of the    *)
(* graph finds for that instance now, whichever instance it was put for.   *)
(***************************************************************************)
THEOREM CacheIsCoherent == Spec => []CacheCoherent
BY CoherentUnderIInv, Invariance, PTL

-----------------------------------------------------------------------------
(***************************************************************************)
(* The search.  Of the states of its loop none comes back: each expansion  *)
(* visits a vertex or takes an entry of a visited one off the queue.       *)
(***************************************************************************)
LEMMA SortedType ==
  ASSUME NEW S \in SUBSET Types
  PROVE  Sorted(S) \in Seq(S)
<1>1. IsFiniteSet(S) /\ S \subseteq Nat /\ Cardinality(S) \in Nat
  BY TypesAssumption, FS_Subset, FS_CardinalityType
<1>. DEFINE n    == Cardinality(S)
            Below(t) == {u \in S : u < t}
            rank == [t \in S |-> Cardinality(Below(t)) + 1]
<1>2. ASSUME NEW t \in S
      PROVE  Cardinality(Below(t)) \in Nat /\ IsFiniteSet(Below(t))
  BY <1>1, FS_Subset, FS_CardinalityType
<1>3. ASSUME NEW t \in S
      PROVE  Cardinality(Below(t)) < n
  <2>1. Below(t) \in SUBSET S /\ t \notin Below(t)
    BY <1>1
  <2>. HIDE DEF Below
  <2>2. Cardinality(Below(t)) <= n /\ Cardinality(Below(t)) # n
    BY <1>1, <2>1, FS_Subset
  <2>. QED  BY <1>1, <1>2, <2>2
<1>4. ASSUME NEW t \in S, NEW u \in S, t < u
      PROVE  Cardinality(Below(t)) < Cardinality(Below(u))
  <2>1. Below(t) \in SUBSET Below(u) /\ t \in Below(u) /\ t \notin Below(t)
    <3>1. \A v \in S : v < t => v < u
      BY <1>1, <1>4
    <3>2. t \in S /\ ~(t < t)
      BY <1>1
    <3>. QED  BY <1>4, <3>1, <3>2
  <2>2. IsFiniteSet(Below(u)) /\ Cardinality(Below(u)) \in Nat /\ Cardinality(Below(t)) \in Nat
    BY <1>2
  <2>. HIDE DEF Below
  <2>3. Cardinality(Below(t)) <= Cardinality(Below(u)) /\ Cardinality(Below(t)) # Cardinality(Below(u))
    BY <2>1, <2>2, FS_Subset
  <2>. QED  BY <2>2, <2>3
<1>5. rank \in Injection(S, 1..n)
  <2>. HIDE DEF Below
  <2>1. rank \in [S -> 1..n]
    BY <1>1, <1>2, <1>3
  <2>2. \A t, u \in S : rank[t] = rank[u] => t = u
    <3>1. \A t, u \in S : t < u => rank[t] < rank[u]
      BY <1>2, <1>4
    <3>2. \A t, u \in S : t = u \/ t < u \/ u < t
      BY <1>1
    <3>3. \A t \in S : rank[t] \in 1..n
      BY <2>1
    <3>. HIDE DEF rank
    <3>. QED  BY <1>1, <3>1, <3>2, <3>3
  <2>. HIDE DEF rank
  <2>. QED  BY <2>1, <2>2 DEF Injection, IsInjective
<1>6. rank \in Surjection(S, 1..n)
  <2>1. IsFiniteSet(1..n) /\ Cardinality(1..n) = n
    BY <1>1, FS_Interval
  <2>. HIDE DEF rank
  <2>. QED  BY <1>5, <2>1, FS_Injection
<1>7. ASSUME NEW i \in 1..n
      PROVE  \E t \in S : Cardinality(Below(t)) = i - 1
  <2>1. PICK t \in S : rank[t] = i
    BY <1>6 DEF Surjection
  <2>. HIDE DEF Below
  <2>2. Cardinality(Below(t)) + 1 = i
    BY <2>1
  <2>. QED  BY <1>2, <2>2
<1>. DEFINE element(i) == CHOOSE t \in S : Cardinality(Below(t)) = i - 1
<1>8. \A i \in 1..n : element(i) \in S
  BY <1>7
<1>9. Sorted(S) = [i \in 1..n |-> element(i)]
  BY DEF Sorted
<1>. HIDE DEF element
<1>. QED  BY <1>1, <1>8, <1>9

\* Entry e is what an edge makes of entry qe.
Follows(es, type, qe, e) ==
  /\ <<qe.cls, e.cls>> \in es
  /\ e.ptr = CastFunction(qe.cls, e.cls, type, qe.ptr)
  /\ IsPointer(e.ptr)
  /\ e.dist = qe.dist + 1

LEMMA PushesType ==
  ASSUME NEW es, NEW type, NEW qe \in QueueEntry, NEW visited \in SUBSET Types
  PROVE  /\ Pushes(es, type, qe, visited) \in Seq(QueueEntry)
         /\ \A i \in 1..Len(Pushes(es, type, qe, visited)) :
              /\ Pushes(es, type, qe, visited)[i].cls \notin visited
              /\ Follows(es, type, qe, Pushes(es, type, qe, visited)[i])
<1>. DEFINE Casted(t) == CastFunction(qe.cls, t, type, qe.ptr)
            found == {t \in Types \ visited : <<qe.cls, t>> \in es /\ IsPointer(Casted(t))}
            targets == Sorted(found)
            pushes == Pushes(es, type, qe, visited)
<1>1. targets \in Seq(found)
  BY SortedType
<1>2. Len(targets) \in Nat /\ DOMAIN targets = 1..Len(targets) /\ \A i \in 1..Len(targets) : targets[i] \in found
  <2>. HIDE DEF targets, found
  <2>. QED  BY <1>1, LenProperties, ElementOfSeq
<1>3. pushes = [i \in 1..Len(targets) |->
                  [ptr |-> Casted(targets[i]), cls |-> targets[i], dist |-> qe.dist + 1]]
  BY <1>2 DEF Pushes
<1>. HIDE DEF targets, pushes
<1>4. \A i \in 1..Len(targets) :
        /\ pushes[i] \in QueueEntry
        /\ pushes[i].cls = targets[i] /\ pushes[i].ptr = Casted(targets[i]) /\ pushes[i].dist = qe.dist + 1
  <2>. TAKE i \in 1..Len(targets)
  <2>1. /\ targets[i] \in Types /\ Casted(targets[i]) \in Int
        /\ qe.dist \in Nat
    BY <1>2 DEF QueueEntry, IsPointer
  <2>. HIDE DEF Casted
  <2>. QED  BY <1>3, <2>1 DEF QueueEntry
<1>5. Len(pushes) = Len(targets) /\ pushes \in Seq(QueueEntry)
  BY <1>2, <1>3, <1>4
<1>6. ASSUME NEW i \in 1..Len(pushes)
      PROVE  pushes[i].cls \notin visited /\ Follows(es, type, qe, pushes[i])
  BY <1>2, <1>4, <1>5 DEF Follows
<1>. QED  BY <1>5, <1>6 DEF pushes

LEMMA ConcatAt ==
  ASSUME NEW S, NEW a \in Seq(S), NEW b \in Seq(S)
  PROVE  /\ a \o b \in Seq(S)
         /\ Len(a \o b) \in Nat
         /\ \A i \in 1..Len(a \o b) :
              \/ i \in 1..Len(a) /\ (a \o b)[i] = a[i]
              \/ \E j \in 1..Len(b) : (a \o b)[i] = b[j]
<1>1. PICK m \in Nat : m = Len(a)
  BY LenProperties
<1>2. PICK n \in Nat : n = Len(b)
  BY LenProperties
<1>3. a \o b \in Seq(S) /\ Len(a \o b) = m + n
  BY <1>1, <1>2, ConcatProperties
<1>4. PICK c : c = a \o b
  OBVIOUS
<1>5. ASSUME NEW i \in 1..(m + n)
      PROVE  \/ i \in 1..m /\ c[i] = a[i]
             \/ i - m \in 1..n /\ c[i] = b[i - m]
  <2>1. c[i] = IF i <= m THEN a[i] ELSE b[i - m]
    BY <1>1, <1>2, <1>4, ConcatProperties
  <2>2. i <= m => i \in 1..m
    OBVIOUS
  <2>3. ~(i <= m) => i - m \in 1..n
    OBVIOUS
  <2>. QED  BY <2>1, <2>2, <2>3
<1>6. ASSUME NEW i \in 1..Len(a \o b)
      PROVE  \/ i \in 1..Len(a) /\ (a \o b)[i] = a[i]
             \/ \E j \in 1..Len(b) : (a \o b)[i] = b[j]
  BY <1>1, <1>2, <1>3, <1>4, <1>5
<1>7. Len(a \o b) \in Nat
  BY <1>3
<1>. QED  BY <1>3, <1>6, <1>7

LEMMA ExpandedType ==
  ASSUME NEW es, NEW type, NEW st \in SearchState, st.queue # <<>>,
         NEW now, now = Expanded(es, type, st)
  PROVE  /\ Head(st.queue) \in QueueEntry /\ Head(st.queue) = st.queue[1]
         /\ Len(st.queue) \in Nat \ {0}
         /\ now \in SearchState
         /\ now.visited = st.visited \cup {Head(st.queue).cls}
         /\ Len(now.queue) \in Nat
         /\ \A i \in 1..Len(now.queue) :
              \/ i + 1 \in 1..Len(st.queue) /\ now.queue[i] = st.queue[i + 1]
              \/ now.queue[i].cls \notin now.visited
                 /\ Follows(es, type, Head(st.queue), now.queue[i])
<1>1. st.queue \in Seq(QueueEntry) /\ st.visited \in SUBSET Types
  BY DEF SearchState
<1>2. PICK qe : qe = Head(st.queue)
  OBVIOUS
<1>3. PICK rest : rest = Tail(st.queue)
  OBVIOUS
<1>4. PICK visited : visited = st.visited \cup {qe.cls}
  OBVIOUS
<1>5. PICK pushes : pushes = Pushes(es, type, qe, visited)
  OBVIOUS
<1>6. /\ qe \in QueueEntry /\ qe = st.queue[1]
      /\ rest \in Seq(QueueEntry) /\ Len(rest) = Len(st.queue) - 1
      /\ \A i \in 1..Len(rest) : rest[i] = st.queue[i + 1]
      /\ Len(st.queue) \in Nat \ {0}
  BY <1>1, <1>2, <1>3, HeadTailProperties, LenProperties
<1>7. visited \in SUBSET Types
  BY <1>1, <1>4, <1>6 DEF QueueEntry
<1>8. /\ pushes \in Seq(QueueEntry)
      /\ \A i \in 1..Len(pushes) :
           pushes[i].cls \notin visited /\ Follows(es, type, qe, pushes[i])
  BY <1>5, <1>6, <1>7, PushesType
<1>9. now = [queue |-> rest \o pushes, visited |-> visited]
  BY <1>2, <1>3, <1>4, <1>5 DEF Expanded
<1>10. PICK queue : queue = rest \o pushes
  OBVIOUS
<1>11. now.queue = queue /\ now.visited = visited
  BY <1>9, <1>10
<1>12. /\ queue \in Seq(QueueEntry) /\ Len(queue) \in Nat
       /\ \A i \in 1..Len(queue) :
            \/ i \in 1..Len(rest) /\ queue[i] = rest[i]
            \/ \E j \in 1..Len(pushes) : queue[i] = pushes[j]
  BY <1>6, <1>8, <1>10, ConcatAt
<1>13. now \in SearchState
  BY <1>7, <1>9, <1>10, <1>12 DEF SearchState
<1>14. ASSUME NEW i \in 1..Len(queue)
       PROVE  \/ i + 1 \in 1..Len(st.queue) /\ queue[i] = st.queue[i + 1]
              \/ \E j \in 1..Len(pushes) : queue[i] = pushes[j]
  <2>1. CASE i \in 1..Len(rest) /\ queue[i] = rest[i]
    BY <1>6, <2>1
  <2>. QED  BY <1>12, <2>1
<1>. QED  BY <1>2, <1>4, <1>6, <1>8, <1>11, <1>12, <1>13, <1>14

LEMMA LeastExists ==
  ASSUME NEW S \in SUBSET Nat, S # {}
  PROVE  \E i \in S : \A j \in S : i <= j
<1>1. PICK n \in S : \A m \in S : ~ (<<m, n>> \in OpToRel(<, Nat))
  BY WFMin, NatLessThanWellFounded, Zenon
<1>2. \A m \in S : ~(m < n)
  BY <1>1 DEF OpToRel
<1>. QED  BY <1>2

\* No entry after the first k is of a visited vertex.
LastVisited(st, k) == \A i \in 1..Len(st.queue) : i > k => st.queue[i].cls \notin st.visited

Unvisited(st) == Cardinality(Types \ st.visited)

LEMMA SearchEnds ==
  ASSUME NEW es, NEW type, NEW target, NEW T \in SUBSET SearchState, T # {}
  PROVE  \E st \in T : IsOver(target, st) \/ Expanded(es, type, st) \notin T
<1>1. \A st \in T : Unvisited(st) \in Nat
  BY TypesAssumption, FS_Subset, FS_CardinalityType DEF Unvisited
<1>2. PICK u \in {Unvisited(st) : st \in T} : \A v \in {Unvisited(st) : st \in T} : u <= v
  <2>. {Unvisited(st) : st \in T} \in SUBSET Nat /\ {Unvisited(st) : st \in T} # {}
    BY <1>1
  <2>. QED  BY LeastExists
<1>. DEFINE Fewest == {st \in T : Unvisited(st) = u}
            Counts == {k \in Nat : \E st \in Fewest : LastVisited(st, k)}
<1>3. Counts \in SUBSET Nat /\ Counts # {}
  <2>1. PICK st \in Fewest : TRUE
    BY <1>2
  <2>2. Len(st.queue) \in Nat /\ LastVisited(st, Len(st.queue))
    <3>1. st.queue \in Seq(QueueEntry)
      BY DEF SearchState
    <3>. QED  BY <3>1, LenProperties DEF LastVisited
  <2>. QED  BY <2>2
<1>4. PICK k \in Counts : \A j \in Counts : k <= j
  BY <1>3, LeastExists
<1>5. PICK st \in Fewest : LastVisited(st, k)
  BY <1>4
<1>. SUFFICES ASSUME ~IsOver(target, st), Expanded(es, type, st) \in T
              PROVE  FALSE
  BY <1>5
<1>. PICK now : now = Expanded(es, type, st)
  OBVIOUS
<1>. PICK qe : qe = Head(st.queue)
  OBVIOUS
<1>6. st.queue # <<>> /\ st \in SearchState /\ st \in T /\ Unvisited(st) = u /\ k \in Nat
  BY <1>5, <1>3 DEF IsOver
<1>7. /\ qe \in QueueEntry /\ qe = st.queue[1] /\ Len(st.queue) \in Nat \ {0}
      /\ now.visited = st.visited \cup {qe.cls}
      /\ Len(now.queue) \in Nat
      /\ \A i \in 1..Len(now.queue) :
           \/ i + 1 \in 1..Len(st.queue) /\ now.queue[i] = st.queue[i + 1]
           \/ now.queue[i].cls \notin now.visited
  BY <1>6, ExpandedType
<1>8. now \in T
  OBVIOUS
<1>9. qe.cls \in Types
  BY <1>7 DEF QueueEntry
<1>10. CASE qe.cls \in st.visited
  <2>1. now.visited = st.visited
    BY <1>7, <1>10
  <2>2. now \in Fewest
    BY <1>6, <1>8, <2>1 DEF Unvisited
  <2>3. k # 0
    BY <1>5, <1>7, <1>10 DEF LastVisited
  <2>4. LastVisited(now, k - 1)
    <3>. SUFFICES ASSUME NEW i \in 1..Len(now.queue), i > k - 1
                  PROVE  now.queue[i].cls \notin now.visited
      BY DEF LastVisited
    <3>1. CASE i + 1 \in 1..Len(st.queue) /\ now.queue[i] = st.queue[i + 1]
      BY <1>5, <1>6, <1>7, <2>1, <3>1 DEF LastVisited
    <3>. QED  BY <1>7, <3>1
  <2>5. k - 1 \in Counts
    BY <1>6, <2>2, <2>3, <2>4
  <2>. QED  BY <1>4, <1>6, <2>5
<1>11. CASE qe.cls \notin st.visited
  <2>1. Types \ now.visited = (Types \ st.visited) \ {qe.cls}
    BY <1>7
  <2>2. IsFiniteSet(Types \ st.visited) /\ qe.cls \in Types \ st.visited
    BY <1>9, <1>11, TypesAssumption, FS_Subset
  <2>3. Cardinality((Types \ st.visited) \ {qe.cls}) = Cardinality(Types \ st.visited) - 1
    BY <2>2, FS_RemoveElement
  <2>4. Unvisited(now) = Unvisited(st) - 1
    BY <2>1, <2>3 DEF Unvisited
  <2>5. Unvisited(now) >= u
    BY <1>2, <1>8
  <2>. QED  BY <1>1, <1>6, <2>4, <2>5
<1>. QED  BY <1>10, <1>11

(***************************************************************************)
(* The search as the function that BreadthFirst defines.  It exists: what  *)
(* a state leads to is the end of its orbit.                               *)
(***************************************************************************)
IsClosed(es, type, target, Q) ==
  \A st \in Q : ~IsOver(target, st) => Expanded(es, type, st) \in Q

Orbit(es, type, target, st) ==
  {t \in SearchState :
     \A Q \in SUBSET SearchState : IsClosed(es, type, target, Q) /\ st \in Q => t \in Q}

Ends(es, type, target, st) == {t \in Orbit(es, type, target, st) : IsOver(target, t)}

End(E) == CHOOSE t : t \in E

IsSearch(es, type, target, loop) ==
  loop = [st \in SearchState |->
            IF IsOver(target, st) THEN Outcome(st) ELSE loop[Expanded(es, type, st)]]

LEMMA ExpandedIsState ==
  ASSUME NEW es, NEW type, NEW target, NEW st \in SearchState, ~IsOver(target, st)
  PROVE  Expanded(es, type, st) \in SearchState
<1>1. PICK now : now = Expanded(es, type, st)
  OBVIOUS
<1>2. st.queue # <<>>
  BY DEF IsOver
<1>. QED  BY <1>1, <1>2, ExpandedType

LEMMA OrbitOver ==
  ASSUME NEW es, NEW type, NEW target, NEW st \in SearchState, IsOver(target, st)
  PROVE  Ends(es, type, target, st) = {st}
<1>1. IsClosed(es, type, target, {st})
  BY DEF IsClosed
<1>2. Orbit(es, type, target, st) = {st}
  BY <1>1 DEF Orbit
<1>. QED  BY <1>2 DEF Ends

LEMMA OrbitNext ==
  ASSUME NEW es, NEW type, NEW target, NEW st \in SearchState, ~IsOver(target, st)
  PROVE  Ends(es, type, target, st) = Ends(es, type, target, Expanded(es, type, st))
<1>1. PICK now : now = Expanded(es, type, st)
  OBVIOUS
<1>2. now \in SearchState
  BY <1>1, ExpandedIsState
<1>. DEFINE Here == Orbit(es, type, target, st)
            There == Orbit(es, type, target, now)
<1>3. \A Q \in SUBSET SearchState : IsClosed(es, type, target, Q) /\ st \in Q => now \in Q
  BY <1>1 DEF IsClosed
<1>4. There \subseteq Here
  BY <1>3 DEF Orbit
<1>5. now \in There /\ There \subseteq SearchState
  BY <1>2 DEF Orbit
<1>6. IsClosed(es, type, target, There)
  <2>. SUFFICES ASSUME NEW t \in There, ~IsOver(target, t)
                PROVE  Expanded(es, type, t) \in There
    BY DEF IsClosed
  <2>1. PICK u : u = Expanded(es, type, t)
    OBVIOUS
  <2>2. u \in SearchState
    BY <1>5, <2>1, ExpandedIsState
  <2>3. ASSUME NEW Q \in SUBSET SearchState, IsClosed(es, type, target, Q), now \in Q
        PROVE  u \in Q
    <3>1. t \in Q
      BY <2>3 DEF Orbit
    <3>. QED  BY <2>1, <2>3, <3>1 DEF IsClosed
  <2>. QED  BY <2>1, <2>2, <2>3 DEF Orbit
<1>7. PICK Q : Q = There \cup {st}
  OBVIOUS
<1>8. Q \in SUBSET SearchState /\ st \in Q
  BY <1>5, <1>7
<1>9. IsClosed(es, type, target, Q)
  <2>. HIDE DEF There
  <2>. QED  BY <1>1, <1>5, <1>6, <1>7 DEF IsClosed
<1>10. \A t \in Here : t \in There \/ t = st
  <2>1. \A t \in Here : t \in Q
    BY <1>8, <1>9 DEF Orbit
  <2>. QED  BY <2>1, <1>7
<1>11. Ends(es, type, target, st) = Ends(es, type, target, now)
  <2>. HIDE DEF Here, There
  <2>1. /\ Ends(es, type, target, st) = {t \in Here : IsOver(target, t)}
        /\ Ends(es, type, target, now) = {t \in There : IsOver(target, t)}
    BY DEF Ends, Here, There
  <2>. QED  BY <1>4, <1>10, <2>1
<1>. QED  BY <1>1, <1>11

LEMMA SearchExists ==
  ASSUME NEW es, NEW type, NEW target
  PROVE  \E loop : IsSearch(es, type, target, loop)
<1>. DEFINE F(st) == Outcome(End(Ends(es, type, target, st)))
            f == [st \in SearchState |-> F(st)]
<1>1. ASSUME NEW st \in SearchState
      PROVE  F(st) = IF IsOver(target, st) THEN Outcome(st) ELSE f[Expanded(es, type, st)]
  <2>1. CASE IsOver(target, st)
    <3>1. End({st}) = st
      BY DEF End
    <3>. QED  BY <2>1, <3>1, OrbitOver
  <2>2. CASE ~IsOver(target, st)
    <3>1. PICK now : now = Expanded(es, type, st)
      OBVIOUS
    <3>2. now \in SearchState /\ Ends(es, type, target, st) = Ends(es, type, target, now)
      BY <2>2, <3>1, ExpandedIsState, OrbitNext
    <3>3. F(st) = f[now]
      BY <3>2
    <3>. QED  BY <2>2, <3>1, <3>3
  <2>. QED  BY <2>1, <2>2
<1>. HIDE DEF F
<1>2. f = [st \in SearchState |->
             IF IsOver(target, st) THEN Outcome(st) ELSE f[Expanded(es, type, st)]]
  BY <1>1
<1>. QED  BY <1>2 DEF IsSearch

LEMMA SearchIs ==
  ASSUME NEW es, NEW src, NEW target, NEW type, NEW off
  PROVE  \E loop :
           /\ IsSearch(es, type, target, loop)
           /\ BreadthFirst(es, src, target, type, off)
                = loop[[queue |-> <<[ptr |-> off, cls |-> src, dist |-> 0]>>, visited |-> {}]]
<1>. DEFINE loop == CHOOSE l : IsSearch(es, type, target, l)
<1>1. IsSearch(es, type, target, loop)
  BY SearchExists
<1>2. BreadthFirst(es, src, target, type, off)
        = loop[[queue |-> <<[ptr |-> off, cls |-> src, dist |-> 0]>>, visited |-> {}]]
  BY DEF BreadthFirst, IsSearch
<1>. QED  BY <1>1, <1>2

(***************************************************************************)
(* What a search finds is a subobject of the class asked for.              *)
(***************************************************************************)
OnSubobject(type, x) == <<x.cls, x.ptr>> \in Layout[type]

EntriesLand(type, st) == \A i \in 1..Len(st.queue) : OnSubobject(type, st.queue[i])

Lands(target, type, r) ==
  \/ r = NotConvertible
  \/ /\ r.ptr \in Int /\ r.dist \in Nat
     /\ r = [ptr |-> r.ptr, dist |-> r.dist]
     /\ <<target, r.ptr>> \in Layout[type]

LEMMA CastLands ==
  ASSUME NEW es \in SUBSET AllCasts, NEW type \in Types, NEW qe, NEW e,
         OnSubobject(type, qe), Follows(es, type, qe, e)
  PROVE  OnSubobject(type, e)
<1>. DEFINE c == <<qe.cls, e.cls>>
            x == <<qe.cls, qe.ptr>>
<1>1. c \in AllCasts /\ x \in Layout[type] /\ c[1] = qe.cls /\ c[2] = e.cls
      /\ x[1] = qe.cls /\ x[2] = qe.ptr
  BY DEF OnSubobject, Follows
<1>. HIDE DEF c, x
<1>2. IsPointer(CastFunction(c[1], c[2], type, x[2])) =>
        <<c[2], CastFunction(c[1], c[2], type, x[2])>> \in Layout[type]
  BY <1>1, CppAssumption DEF CastsLand
<1>. QED  BY <1>1, <1>2 DEF OnSubobject, Follows

LEMMA ExpandedLands ==
  ASSUME NEW es \in SUBSET AllCasts, NEW type \in Types, NEW st \in SearchState,
         st.queue # <<>>, EntriesLand(type, st)
  PROVE  EntriesLand(type, Expanded(es, type, st))
<1>1. PICK now : now = Expanded(es, type, st)
  OBVIOUS
<1>2. PICK qe : qe = Head(st.queue)
  OBVIOUS
<1>3. /\ qe = st.queue[1] /\ Len(st.queue) \in Nat \ {0}
      /\ \A i \in 1..Len(now.queue) :
           \/ i + 1 \in 1..Len(st.queue) /\ now.queue[i] = st.queue[i + 1]
           \/ Follows(es, type, qe, now.queue[i])
  BY <1>1, <1>2, ExpandedType
<1>4. OnSubobject(type, qe)
  BY <1>3 DEF EntriesLand
<1>5. ASSUME NEW i \in 1..Len(now.queue)
      PROVE  OnSubobject(type, now.queue[i])
  <2>1. CASE i + 1 \in 1..Len(st.queue) /\ now.queue[i] = st.queue[i + 1]
    BY <2>1 DEF EntriesLand
  <2>2. CASE Follows(es, type, qe, now.queue[i])
    BY <1>4, <2>2, CastLands
  <2>. QED  BY <1>3, <2>1, <2>2
<1>. QED  BY <1>1, <1>5 DEF EntriesLand

LEMMA OutcomeLands ==
  ASSUME NEW type, NEW target, NEW st \in SearchState, IsOver(target, st),
         EntriesLand(type, st)
  PROVE  Lands(target, type, Outcome(st))
<1>1. CASE st.queue = <<>>
  BY <1>1 DEF Outcome, Lands
<1>2. CASE st.queue # <<>>
  <2>1. PICK qe : qe = Head(st.queue)
    OBVIOUS
  <2>2. st.queue \in Seq(QueueEntry)
    BY DEF SearchState
  <2>3. qe \in QueueEntry /\ qe = st.queue[1] /\ Len(st.queue) \in Nat \ {0}
    BY <1>2, <2>1, <2>2, HeadTailProperties, LenProperties
  <2>4. qe.cls = target /\ OnSubobject(type, qe) /\ qe.ptr \in Int /\ qe.dist \in Nat
    BY <1>2, <2>1, <2>3 DEF IsOver, EntriesLand, QueueEntry
  <2>5. Outcome(st) = [ptr |-> qe.ptr, dist |-> qe.dist]
    BY <1>2, <2>1 DEF Outcome
  <2>. QED  BY <2>4, <2>5 DEF Lands, OnSubobject
<1>. QED  BY <1>1, <1>2

LEMMA SearchLands ==
  ASSUME NEW es \in SUBSET AllCasts, NEW type \in Types, NEW src \in Types,
         NEW off \in Int, <<src, off>> \in Layout[type], NEW target
  PROVE  Lands(target, type, BreadthFirst(es, src, target, type, off))
<1>. DEFINE first == [ptr |-> off, cls |-> src, dist |-> 0]
            start == [queue |-> <<first>>, visited |-> {}]
<1>1. PICK loop : /\ IsSearch(es, type, target, loop)
                  /\ BreadthFirst(es, src, target, type, off) = loop[start]
  BY SearchIs
<1>2. start \in SearchState
  BY DEF SearchState, QueueEntry
<1>3. EntriesLand(type, start)
  BY DEF EntriesLand, OnSubobject
<1>. DEFINE T == {st \in SearchState : EntriesLand(type, st) /\ ~Lands(target, type, loop[st])}
<1>. HIDE DEF start
<1>. SUFFICES ASSUME ~Lands(target, type, loop[start])
              PROVE  FALSE
  BY <1>1
<1>4. T \in SUBSET SearchState /\ T # {}
  BY <1>2, <1>3
<1>5. PICK st \in T : IsOver(target, st) \/ Expanded(es, type, st) \notin T
  <2>. HIDE DEF T
  <2>. QED  BY <1>4, SearchEnds
<1>6. CASE IsOver(target, st)
  <2>1. loop[st] = Outcome(st)
    BY <1>1, <1>6 DEF IsSearch
  <2>. QED  BY <1>6, <2>1, OutcomeLands
<1>7. CASE ~IsOver(target, st)
  <2>1. PICK now : now = Expanded(es, type, st)
    OBVIOUS
  <2>2. loop[st] = loop[now]
    BY <1>1, <1>7, <2>1 DEF IsSearch
  <2>3. now \in SearchState
    BY <1>7, <2>1, ExpandedIsState
  <2>4. st.queue # <<>>
    BY <1>7 DEF IsOver
  <2>5. EntriesLand(type, now)
    BY <2>1, <2>4, ExpandedLands
  <2>6. now \in T
    BY <2>2, <2>3, <2>5
  <2>. QED  BY <1>5, <1>7, <2>1, <2>6
<1>. QED  BY <1>6, <1>7

\* Nothing a search finds is mistaken for a failure, and vice versa.
LEMMA SearchInRange ==
  ASSUME IInv, NEW h \in holders, NEW target \in Types,
         Searched(h, target) # NotConvertible
  PROVE  LET r == Searched(h, target)
         IN  /\ r.ptr \in Int /\ r.dist \in Nat
             /\ r = [ptr |-> r.ptr, dist |-> r.dist]
             /\ r.dist < IntSpan \div 2
             /\ r.ptr - h.off < Invalid
             /\ <<target, r.ptr>> \in Layout[h.type]
<1>. DEFINE s == <<h.cls, h.off>>
<1>1. s \in Layout[h.type] /\ h.type \in Types /\ s[1] = h.cls /\ s[2] = h.off
  BY DEF IInv, TypeOK, HolderOK
<1>2. edges \in SUBSET AllCasts
  BY EdgesDeclared DEF IInv, TypeOK
<1>3. Searched(h, target) = BreadthFirst(edges, s[1], target, h.type, s[2])
  BY <1>1 DEF Searched
<1>. DEFINE r == BreadthFirst(edges, s[1], target, h.type, s[2])
<1>. HIDE DEF s
<1>4. r = NotConvertible \/ (r.dist < IntSpan \div 2 /\ r.ptr - s[2] < Invalid)
  BY <1>1, <1>2, CppAssumption DEF SearchFits
<1>5. Lands(target, h.type, r)
  <2>1. h.cls \in Types /\ h.off \in Int /\ <<h.cls, h.off>> \in Layout[h.type]
    BY DEF IInv, TypeOK, HolderOK
  <2>2. Lands(target, h.type, BreadthFirst(edges, h.cls, target, h.type, h.off))
    BY <1>1, <1>2, <2>1, SearchLands
  <2>. QED  BY <1>1, <2>2
<1>. HIDE DEF r
<1>6. Searched(h, target) = r
  BY <1>3 DEF r
<1>. QED
  BY <1>1, <1>4, <1>5, <1>6 DEF Lands

-----------------------------------------------------------------------------
(***************************************************************************)
(* Where an accepted conversion lands.                                     *)
(***************************************************************************)
LEMMA CastLandsOnSubobject ==
  ASSUME Narrow(Invalid) < 0, IInv,
         NEW h \in holders, NEW target \in Types, Cast(h, target)
  PROVE  \E ptr, score :
           /\ Answer(h, target, ptr, score)
           /\ score >= 0 => <<target, ptr>> \in Layout[h.type]
<1>1. <<h.cls, h.off>> \in Layout[h.type] /\ h.off \in Int
  BY DEF IInv, TypeOK, HolderOK
<1>2. PICK r : r = Searched(h, target)
  OBVIOUS
<1>3. r # NotConvertible =>
        /\ r.ptr \in Int /\ r.ptr - h.off < Invalid
        /\ <<target, r.ptr>> \in Layout[h.type]
  BY <1>2, SearchInRange
<1>4. CASE CastToItself(h, target)
  BY <1>1, <1>4 DEF CastToItself
<1>5. CASE CastOutsideGraph(h, target)
  BY <1>5 DEF CastOutsideGraph
<1>6. CASE CastCached(h, target)
  <2>1. Key(h, target) \in DOMAIN cache
    BY <1>6 DEF CastCached
  <2>2. PICK cached : cached = cache[Key(h, target)]
    OBVIOUS
  <2>3. cached = FreshEntry(h, target)
    BY <2>1, <2>2, CoherentUnderIInv DEF CacheCoherent
  <2>4. CASE cached.offset = Invalid
    <3>1. Answer(h, target, NoPtr, -1)
      BY <1>6, <2>2, <2>4 DEF CastCached
    <3>. QED  BY <3>1
  <2>5. CASE cached.offset # Invalid
    <3>1. Answer(h, target, h.off + cached.offset, cached.score)
      BY <1>6, <2>2, <2>5 DEF CastCached
    <3>2. CASE r = NotConvertible
      <4>1. cached.score = Narrow(Invalid)
        BY <1>2, <2>3, <3>2 DEF FreshEntry, Entry
      <4>2. Narrow(Invalid) \in Int
        BY CastGraphAssumption DEF Narrow, Invalid, Unknown
      <4>3. ~(cached.score >= 0)
        <5>. PICK n \in Int : n = Narrow(Invalid)
          BY <4>2
        <5>1. ~(n >= 0)
          OBVIOUS
        <5>. QED  BY <4>1, <5>1
      <4>. QED  BY <3>1, <4>3
    <3>3. CASE r # NotConvertible
      <4>1. cached.offset = r.ptr - h.off
        BY <1>2, <2>3, <3>3 DEF FreshEntry, Entry
      <4>2. h.off + cached.offset = r.ptr
        BY <1>1, <1>3, <3>3, <4>1
      <4>. QED  BY <1>3, <3>1, <3>3, <4>2
    <3>. QED  BY <3>2, <3>3
  <2>. QED  BY <2>4, <2>5
<1>7. CASE CastFound(h, target)
  <2>1. r # NotConvertible /\ Answer(h, target, r.ptr, r.dist)
    BY <1>2, <1>7 DEF CastFound
  <2>. QED  BY <1>3, <2>1
<1>8. CASE CastNotFound(h, target)
  <2>1. Answer(h, target, NoPtr, -1)
    BY <1>8 DEF CastNotFound
  <2>. QED  BY <2>1
<1>. QED  BY <1>4, <1>5, <1>6, <1>7, <1>8 DEF Cast

(***************************************************************************)
(* A conversion that is accepted, by cast_graph::impl::cast or out of its  *)
(* cache, yields a subobject of the class asked for inside the object it   *)
(* was asked of, provided the failure marker turns negative when put()     *)
(* narrows it to int.                                                      *)
(***************************************************************************)
THEOREM AcceptedIsSubobject ==
  ASSUME Narrow(Invalid) < 0
  PROVE  Spec => []AcceptedLandsOnSubobject
<1>1. Init => AcceptedLandsOnSubobject
  BY DEF Init, AcceptedLandsOnSubobject
<1>2. IInv /\ AcceptedLandsOnSubobject /\ [Next]_vars => AcceptedLandsOnSubobject'
  <2>. SUFFICES ASSUME IInv, AcceptedLandsOnSubobject, [Next]_vars
                PROVE  AcceptedLandsOnSubobject'
    OBVIOUS
  <2>1. CASE answer' = answer
    BY <2>1 DEF AcceptedLandsOnSubobject
  <2>2. ASSUME NEW h \in holders, NEW target \in Types, Cast(h, target)
        PROVE  AcceptedLandsOnSubobject'
    <3>1. PICK ptr, score :
            /\ Answer(h, target, ptr, score)
            /\ score >= 0 => <<target, ptr>> \in Layout[h.type]
      BY <2>2, CastLandsOnSubobject
    <3>. QED  BY <3>1 DEF Answer, AcceptedLandsOnSubobject
  <2>3. answer' = answer \/ \E h \in holders, target \in Types : Cast(h, target)
    BY DEF Next, vars, RegisterClass, MakePolymorphic, MakePlain, Construct
  <2>. QED  BY <2>1, <2>2, <2>3
<1>. QED
  BY <1>1, <1>2, Invariance, PTL DEF Spec

-----------------------------------------------------------------------------
(***************************************************************************)
(* The refinement.                                                         *)
(***************************************************************************)
LEMMA SmallIsExact ==
  ASSUME NEW x \in Nat, x < IntSpan \div 2
  PROVE  Narrow(x) = x
<1>1. IntSpan \in Nat /\ IntSpan > 0
  BY CastGraphAssumption
<1>2. x < IntSpan
  BY <1>1, SMTT(20)
<1>3. x % IntSpan = x
  BY <1>1, <1>2, SMTT(20)
<1>. QED
  BY <1>1, <1>3 DEF Narrow

\* The graph the abstract specification computes is the one that is kept.
LEMMA SameGraph ==
  ASSUME IInv
  PROVE  edges = Abs!Edges(registered) /\ vertices = Abs!VerticesOf(Abs!Edges(registered))
BY DEF IInv, GraphInv, Abs!Edges, Abs!VerticesOf

\* A conversion is answered as the present graph answers it, from the cache or not.
LEMMA CastRefines ==
  ASSUME Narrow(Invalid) < 0, IInv,
         NEW h \in holders, NEW target \in Types, Cast(h, target)
  PROVE  AnswerBar' = {[of |-> Strip(h), target |-> target,
                        result |-> Convert(edges, vertices, h.cls, target, h.type, h.off)]}
<1>. DEFINE r == Searched(h, target)
<1>1. \A ptr, score :
        Answer(h, target, ptr, score) =>
          AnswerBar' = {[of |-> Strip(h), target |-> target,
                         result |-> IF score < 0 THEN NotConvertible
                                    ELSE [ptr |-> ptr, dist |-> score]]}
  BY DEF Answer, AnswerBar
<1>2. h.off \in Int
  BY DEF IInv, TypeOK, HolderOK
<1>3. NeedsLookup(h, target) =>
        Convert(edges, vertices, h.cls, target, h.type, h.off) = r
  BY DEF NeedsLookup, Convert, Searched
<1>4. r # NotConvertible =>
        /\ r.ptr \in Int /\ r.dist \in Nat /\ r = [ptr |-> r.ptr, dist |-> r.dist]
        /\ Narrow(r.dist) = r.dist /\ r.ptr - h.off # Invalid
  <2>. SUFFICES ASSUME r # NotConvertible
                PROVE  /\ r.ptr \in Int /\ r.dist \in Nat
                       /\ r = [ptr |-> r.ptr, dist |-> r.dist]
                       /\ Narrow(r.dist) = r.dist /\ r.ptr - h.off # Invalid
    OBVIOUS
  <2>1. PICK q : q = r
    OBVIOUS
  <2>2. /\ q.ptr \in Int /\ q.dist \in Nat /\ q = [ptr |-> q.ptr, dist |-> q.dist]
        /\ q.dist < IntSpan \div 2 /\ q.ptr - h.off < Invalid
    BY <2>1, SearchInRange
  <2>3. Narrow(q.dist) = q.dist
    BY <2>2, SmallIsExact
  <2>4. Invalid \in Int
    BY CastGraphAssumption DEF Invalid, Unknown
  <2>5. q.ptr - h.off # Invalid
    BY <1>2, <2>2, <2>4
  <2>. QED  BY <2>1, <2>2, <2>3, <2>5
<1>5. CASE CastToItself(h, target)
  BY <1>1, <1>5 DEF CastToItself, Convert
<1>6. CASE CastOutsideGraph(h, target)
  BY <1>1, <1>6 DEF CastOutsideGraph, Convert
<1>7. CASE CastCached(h, target)
  <2>. DEFINE cached == cache[Key(h, target)]
  <2>1. NeedsLookup(h, target) /\ Key(h, target) \in DOMAIN cache
    BY <1>7 DEF CastCached
  <2>2. cached = FreshEntry(h, target)
    BY <2>1, CoherentUnderIInv DEF CacheCoherent
  <2>3. CASE r = NotConvertible
    <3>1. cached.score < 0
      BY <2>2, <2>3 DEF FreshEntry, Entry
    <3>2. AnswerBar' = {[of |-> Strip(h), target |-> target, result |-> NotConvertible]}
      BY <1>1, <1>7, <3>1 DEF CastCached
    <3>. QED
      BY <1>3, <2>1, <2>3, <3>2
  <2>4. CASE r # NotConvertible
    <3>1. cached.offset = r.ptr - h.off /\ cached.score = r.dist
      BY <1>4, <2>2, <2>4 DEF FreshEntry, Entry
    <3>2. h.off + cached.offset = r.ptr /\ cached.offset # Invalid /\ ~(cached.score < 0)
      BY <1>2, <1>4, <2>4, <3>1
    <3>3. Answer(h, target, r.ptr, r.dist)
      BY <1>7, <3>1, <3>2 DEF CastCached
    <3>. QED
      BY <1>1, <1>3, <1>4, <2>1, <2>4, <3>3
  <2>. QED
    BY <2>3, <2>4
<1>8. CASE CastFound(h, target)
  <2>1. NeedsLookup(h, target) /\ r # NotConvertible /\ Answer(h, target, r.ptr, r.dist)
    BY <1>8 DEF CastFound
  <2>. QED
    BY <1>1, <1>3, <1>4, <2>1
<1>9. CASE CastNotFound(h, target)
  <2>1. NeedsLookup(h, target) /\ r = NotConvertible /\ Answer(h, target, NoPtr, -1)
    BY <1>9 DEF CastNotFound
  <2>. QED
    BY <1>1, <1>3, <2>1
<1>. QED
  BY <1>5, <1>6, <1>7, <1>8, <1>9 DEF Cast

(***************************************************************************)
(* The cache of cast_graph::impl is invisible to its callers: conversions  *)
(* through it are conversions by the graph as it is, provided the failure  *)
(* marker turns negative when put() narrows it to int (src/inheritance.cpp *)
(* stores cache::invalid as a distance), which holds when ptrdiff_t is     *)
(* wider than int.                                                         *)
(***************************************************************************)
THEOREM CacheIsTransparent ==
  ASSUME Narrow(Invalid) < 0
  PROVE  Spec => ImplementsUncached
<1>1. Init => Abs!AbsInit
  BY DEF Init, Abs!AbsInit, AnswerBar
<1>2. IInv /\ [Next]_vars => [Abs!AbsNext]_Abs!absVars
  <2>. SUFFICES ASSUME IInv, [Next]_vars PROVE [Abs!AbsNext]_Abs!absVars
    OBVIOUS
  <2>. DEFINE made == {Strip(h) : h \in holders}
  <2>1. CASE UNCHANGED vars
    BY <2>1 DEF vars, Abs!absVars, AnswerBar
  <2>2. ASSUME NEW c \in Declared, RegisterClass(c)
        PROVE  Abs!AbsNext
    <3>1. Abs!AbsRegister(c)
      BY <2>2 DEF RegisterClass, Abs!AbsRegister, AnswerBar
    <3>. QED
      BY <3>1, CastGraphAssumption DEF Abs!AbsNext
  <2>3. ASSUME NEW type \in Types, NEW s \in Layout[type], NEW h,
               Strip(h) = [type |-> type, cls |-> s[1], off |-> s[2]],
               AddHolder(h), UNCHANGED <<registered, answer>>
        PROVE  Abs!AbsNext
    <3>1. made' = made \cup {Strip(h)}
      BY <2>3 DEF AddHolder
    <3>2. <<s[1], s[2]>> \in Layout[type]
      BY CastGraphAssumption
    <3>3. Abs!AbsMake(type, s[1], s[2])
      BY <2>3, <3>1, <3>2 DEF Abs!AbsMake, AnswerBar
    <3>. QED
      BY <3>3 DEF Abs!AbsNext
  <2>4. ASSUME NEW type \in Types, NEW s \in Layout[type],
               MakePolymorphic(type, s[1], s[2])
        PROVE  [Abs!AbsNext]_Abs!absVars
    <3>. DEFINE h == Holder(type, s[1], s[2], LocalIdOf(type), 0)
    <3>1. UNCHANGED <<registered, answer>> /\ (AddHolder(h) \/ UNCHANGED holders)
      BY <2>4 DEF MakePolymorphic
    <3>2. Strip(h) = [type |-> type, cls |-> s[1], off |-> s[2]]
      BY DEF Strip, Holder
    <3>. HIDE DEF h
    <3>3. CASE AddHolder(h)
      BY <2>3, <3>1, <3>2, <3>3
    <3>4. CASE UNCHANGED holders
      BY <3>1, <3>4 DEF Abs!absVars, AnswerBar
    <3>. QED
      BY <3>1, <3>3, <3>4
  <2>5. ASSUME NEW type \in Types, NEW s \in Layout[type], MakePlain(type, s[1], s[2])
        PROVE  Abs!AbsNext
    <3>1. Strip(Holder(type, s[1], s[2], s[1], s[2])) = [type |-> type, cls |-> s[1], off |-> s[2]]
      BY DEF Strip, Holder
    <3>. QED
      BY <2>3, <2>5, <3>1 DEF MakePlain
  <2>6. ASSUME NEW c \in Declared, NEW s \in Layout[ConstructType(c)],
               Construct(c, s[1], s[2])
        PROVE  Abs!AbsNext
    <3>. DEFINE type == ConstructType(c)
    <3>1. Strip(Holder(type, s[1], s[2], type, 0)) = [type |-> type, cls |-> s[1], off |-> s[2]]
      BY DEF Strip, Holder
    <3>2. type \in Types /\ s \in Layout[type]
      BY CastGraphAssumption, TypesAssumption DEF ConstructType
    <3>3. AddHolder(Holder(type, s[1], s[2], type, 0)) /\ UNCHANGED <<registered, answer>>
      BY <2>6 DEF Construct
    <3>. HIDE DEF type
    <3>. QED
      BY <2>3, <3>1, <3>2, <3>3
  <2>7. ASSUME NEW h \in holders, NEW target \in Types, Cast(h, target)
        PROVE  Abs!AbsNext
    <3>1. AnswerBar' = {[of |-> Strip(h), target |-> target,
                         result |-> Convert(edges, vertices, h.cls, target, h.type, h.off)]}
      BY <2>7, CastRefines
    <3>2. UNCHANGED <<registered, holders>>
      BY <2>7 DEF Cast, CastToItself, CastOutsideGraph, CastCached, CastFound,
                  CastNotFound, GraphUnchanged
    <3>3. Strip(h).cls = h.cls /\ Strip(h).type = h.type /\ Strip(h).off = h.off
      BY DEF Strip
    <3>4. Abs!AbsCast(Strip(h), target)
      BY <3>1, <3>2, <3>3, SameGraph DEF Abs!AbsCast
    <3>. QED
      BY <3>4 DEF Abs!AbsNext
  <2>. QED
    BY <2>1, <2>2, <2>4, <2>5, <2>6, <2>7 DEF Next
<1>. QED
  BY <1>1, <1>2, Invariance, PTL DEF Spec, ImplementsUncached, Abs!AbsSpec
=============================================================================
