---------------------------- MODULE WeakRefs_proof ----------------------------
(***************************************************************************)
(* Proofs about weak self-references, for any number of objects and slots. *)
(* Types hold in any case; the rest for programs whose collections run to  *)
(* their end before Lua code goes on (~Incremental): without that it does  *)
(* not hold, which the run weakrefs_incremental shows.                     *)
(***************************************************************************)
EXTENDS WeakRefs, LuaRefs_proof

-----------------------------------------------------------------------------
(***************************************************************************)
(* Type correctness.                                                       *)
(***************************************************************************)
\* What a finalizer deletes, and what has a strong reference, is there.
AliveInv ==
  \A w \in Wrappers :
    /\ owner[w] = "lua" /\ part[w] \in {"live", "condemned"} => Alive(w)
    /\ strong[w] # NoRef => Alive(w) /\ owner[w] = "cpp"

LEMMA SlotsTyped ==
  ASSUME TypeOK
  PROVE  /\ 0 \in Slots /\ Slots \subseteq Nat /\ NoRef \notin Slots /\ Nil \notin Slots
         /\ weak \in [Slots -> Value]
         /\ Wrappers \cap Slots = {} /\ Nil \notin Wrappers
         /\ \A i \in Slots : weak[i] \in Nat => weak[i] \in Slots
BY LuaRefsAssumption, WeakRefsAssumption DEF TypeOK, Value, Slots

\* luaL_ref stays in the table, whatever the free list is like.
LEMMA RefTyped ==
  ASSUME TypeOK, NEW r \in NewRefs(weak), NEW w \in Wrappers
  PROVE  r \in Slots \ {0} /\ AfterRef(weak, r, w) \in [Slots -> Value]
<1>1. r \in Slots \ {0}
  <2>1. CASE FreeHead(weak) # 0
    BY <2>1, SlotsTyped DEF NewRefs, FreeHead
  <2>2. CASE FreeHead(weak) = 0
    BY <2>2, LuaRefsAssumption DEF NewRefs, Borders, Slots
  <2>. QED
    BY <2>1, <2>2
<1>. QED
  BY <1>1, SlotsTyped DEF AfterRef, Value

LEMMA DestroyTyped ==
  ASSUME TypeOK, NEW w \in Wrappers, Alive(w), Destroy(w)
  PROVE  /\ weak' \in [Slots -> Value]
         /\ ref' \in [Wrappers -> (Slots \ {0}) \cup {NoRef}]
         /\ strong' \in [Wrappers -> Value \cup {NoRef}]
<1>1. ref[w] \in Slots \ {0}
  BY DEF TypeOK, Alive
<1>2. AfterUnref(weak, ref[w]) \in [Slots -> Value]
  BY <1>1, SlotsTyped DEF AfterUnref, Value
<1>. QED
  BY <1>2 DEF Destroy, TypeOK

LEMMA TypeStep == TypeOK /\ AliveInv /\ [Next]_vars => TypeOK'
<1>. SUFFICES ASSUME TypeOK, AliveInv, [Next]_vars PROVE TypeOK'
  OBVIOUS
<1>1. ASSUME NEW w \in Wrappers, Construct(w) PROVE TypeOK'
  <2>. PICK r \in NewRefs(weak) :
         weak' = AfterRef(weak, r, w) /\ ref' = [ref EXCEPT ![w] = r]
    BY <1>1 DEF Construct
  <2>1. r \in Slots \ {0} /\ weak' \in [Slots -> Value]
    BY RefTyped
  <2>. QED
    BY <1>1, <2>1 DEF Construct, TypeOK
<1>2. ASSUME NEW w \in Wrappers, Forget(w) \/ Return(w) \/ ReturnAdopted(w) PROVE TypeOK'
  BY <1>2 DEF Forget, Return, ReturnAdopted, TypeOK
<1>3. ASSUME NEW w \in Wrappers, Adopt(w) PROVE TypeOK'
  <2>1. Get(w) \in Value
    BY <1>3, SlotsTyped DEF Adopt, Alive, Get, TypeOK
  <2>. QED
    BY <1>3, <2>1 DEF Adopt, TypeOK
<1>4. ASSUME NEW w \in Wrappers, CppDelete(w) PROVE TypeOK'
  BY <1>4, DestroyTyped DEF CppDelete, TypeOK
<1>5. ASSUME NEW w \in Wrappers, Finalize(w) PROVE TypeOK'
  <2>1. owner[w] = "lua" => Alive(w)
    BY <1>5 DEF Finalize, AliveInv
  <2>2. /\ weak' \in [Slots -> Value]
        /\ ref' \in [Wrappers -> (Slots \ {0}) \cup {NoRef}]
        /\ strong' \in [Wrappers -> Value \cup {NoRef}]
    BY <1>5, <2>1, DestroyTyped DEF Finalize, TypeOK
  <2>. QED
    BY <1>5, <2>2 DEF Finalize, TypeOK
<1>6. CASE AtomicPhase
  BY <1>6 DEF AtomicPhase, TypeOK, Value
<1>7. CASE UNCHANGED vars
  BY <1>7 DEF vars, TypeOK
<1>. QED
  BY <1>1, <1>2, <1>3, <1>4, <1>5, <1>6, <1>7 DEF Next

LEMMA AliveStep == TypeOK /\ AliveInv /\ [Next]_vars => AliveInv'
<1>. SUFFICES ASSUME TypeOK, AliveInv, [Next]_vars PROVE AliveInv'
  OBVIOUS
<1>. USE DEF AliveInv, Alive
<1>1. ASSUME NEW w \in Wrappers, Construct(w) PROVE AliveInv'
  <2>. PICK r \in NewRefs(weak) : ref' = [ref EXCEPT ![w] = r]
    BY <1>1 DEF Construct
  <2>1. r # NoRef
    BY RefTyped, SlotsTyped
  <2>. QED
    BY <1>1, <2>1 DEF Construct, TypeOK
<1>2. ASSUME NEW w \in Wrappers, Forget(w) \/ Adopt(w) \/ Return(w) \/ ReturnAdopted(w)
      PROVE  AliveInv'
  BY <1>2 DEF Forget, Adopt, Return, ReturnAdopted, TypeOK
<1>3. ASSUME NEW w \in Wrappers, CppDelete(w) PROVE AliveInv'
  BY <1>3 DEF CppDelete, Destroy, TypeOK
<1>4. ASSUME NEW w \in Wrappers, Finalize(w) PROVE AliveInv'
  BY <1>4 DEF Finalize, Destroy, TypeOK
<1>5. CASE AtomicPhase
  BY <1>5 DEF AtomicPhase, Garbage, TypeOK
<1>6. CASE UNCHANGED vars
  BY <1>6 DEF vars
<1>. QED
  BY <1>1, <1>2, <1>3, <1>4, <1>5, <1>6 DEF Next

LEMMA TypeInit == Init => TypeOK /\ AliveInv
BY LuaRefsAssumption DEF Init, TypeOK, AliveInv, EmptyTable, Value, Slots

(***************************************************************************)
(* Every variable keeps its type, also where Lua code runs between the     *)
(* phases of a collection and slots are freed twice: luaL_ref and          *)
(* luaL_unref stay in the weak table, ~impl frees no reference but its own.*)
(***************************************************************************)
THEOREM TypeCorrect == Spec => []TypeOK
<1>1. TypeOK /\ AliveInv /\ [Next]_vars => (TypeOK /\ AliveInv)'
  BY TypeStep, AliveStep
<1>. QED
  BY <1>1, TypeInit, PTL DEF Spec

-----------------------------------------------------------------------------
(***************************************************************************)
(* Identity, when no Lua code runs between the phases of a collection.     *)
(***************************************************************************)
\* The object will still free its slot, or be found by it.
Bound(w) == Alive(w) /\ part[w] \in {"live", "condemned"}

\* A number in the weak table is a link of the free list.
LinksAreInStack(n, L) == \A i \in Slots : weak[i] \in Int => i = 0 \/ InStack(i, n, L)

\* A slot holds the instance of the object that refers to it, until the
\* collector empties it.
SlotHoldsPart ==
  \A w \in Wrappers : Bound(w) =>
    /\ part[w] = "live" => Get(w) = w
    /\ part[w] = "condemned" => Get(w) = Nil /\ owner[w] # "cpp"

\* No two objects share a slot, and no slot is both in use and free.
SlotIsOwn(n, L) ==
  /\ \A w \in Wrappers : Bound(w) => ~InStack(ref[w], n, L)
  /\ \A u, w \in Wrappers : Bound(u) /\ Bound(w) /\ ref[u] = ref[w] => u = w

\* Only an object that nobody will delete outlives its instance.
OwnedIsBound ==
  \A w \in Wrappers :
    /\ Alive(w) /\ owner[w] # "nobody" => Bound(w)
    /\ Alive(w) /\ owner[w] = "cpp" => strong[w] = w /\ part[w] = "live"
    /\ strong[w] # NoRef => strong[w] = w

\* What Lua code can reach, itself or through the weak table, is not
\* condemned.
ReachableIsLive ==
  /\ \A w \in used : part[w] = "live"
  /\ \A i \in Slots : weak[i] \in Wrappers => part[weak[i]] = "live"

SlotsInv(n, L) ==
  /\ FreeStack(weak, n, L)
  /\ LinksAreInStack(n, L)
  /\ SlotIsOwn(n, L)

PartsInv == SlotHoldsPart /\ OwnedIsBound /\ ReachableIsLive

IInv == TypeOK /\ AliveInv /\ PartsInv /\ \E n, L : SlotsInv(n, L)

LEMMA InvInit == Init => IInv
<1>. SUFFICES ASSUME Init PROVE IInv
  OBVIOUS
<1>1. \A w \in Wrappers : ~Alive(w)
  BY DEF Init, Alive
<1>2. \A i \in Slots : weak[i] = Nil
  BY DEF Init, EmptyTable
<1>3. SlotsInv(0, NoSlots)
  BY <1>1, <1>2, EmptyStack, LuaRefsAssumption
     DEF Init, SlotsInv, LinksAreInStack, SlotIsOwn, Bound
<1>4. PartsInv
  BY <1>1, <1>2, WeakRefsAssumption
     DEF Init, PartsInv, SlotHoldsPart, OwnedIsBound, ReachableIsLive, Bound
<1>. QED
  BY <1>3, <1>4, TypeInit DEF IInv

\* luaL_ref gives a new object a slot of its own.
LEMMA ConstructKeeps ==
  ASSUME IInv, ~Incremental, NEW w \in Wrappers, Construct(w)
  PROVE  PartsInv' /\ \E n, L : SlotsInv(n, L)'
<1>1. PICK n, L : SlotsInv(n, L)
  BY DEF IInv
<1>2. PICK r \in NewRefs(weak) :
        weak' = AfterRef(weak, r, w) /\ ref' = [ref EXCEPT ![w] = r]
  BY DEF Construct
<1>. DEFINE m == Below(n)
            M == Rest(n, L)
<1>3. TypeOK /\ weak \in [Slots -> Value] /\ FreeStack(weak, n, L)
  BY <1>1 DEF IInv, TypeOK, SlotsInv
<1>4. /\ weak'[r] = w
      /\ \A i \in Slots \ {0, r} : weak'[i] = weak[i]
      /\ weak'[0] \in Slots \cup {Nil}
      /\ FreeStack(weak', m, M)
      /\ \A i : InStack(i, m, M) => InStack(i, n, L)
      /\ ~InStack(r, m, M)
  BY <1>2, <1>3, RefTakes
<1>5. r \in Slots \ {0} /\ ~Contents(weak[r]) /\ (n # 0 => r = L[n])
      /\ (n = 0 => weak[r] = Nil)
  BY <1>2, <1>3, RefReturns
<1>. HIDE DEF m, M
<1>6. \A u \in Wrappers : part[u] # "condemned"
  BY DEF Construct, LuaRuns, Condemned
<1>7. \A u \in Wrappers : Bound(u) => ref[u] \in Slots \ {0, r} /\ u # w
  BY <1>3, <1>5, <1>6, WeakRefsAssumption
     DEF IInv, PartsInv, SlotHoldsPart, Bound, Get, Contents, TypeOK, Construct, Alive
<1>8. /\ \A u \in Wrappers \ {w} : /\ part'[u] = part[u] /\ ref'[u] = ref[u]
                                   /\ owner'[u] = owner[u] /\ strong'[u] = strong[u]
      /\ part'[w] = "live" /\ ref'[w] = r /\ owner'[w] = "lua" /\ strong' = strong
  BY <1>2, <1>3 DEF Construct, TypeOK
<1>9. r # NoRef /\ ~Alive(w) /\ strong[w] = NoRef
  BY <1>3, <1>5, SlotsTyped DEF Construct, IInv, AliveInv
<1>10. \A u \in Wrappers : Bound(u)' <=> u = w \/ Bound(u)
  BY <1>8, <1>9 DEF Bound, Alive
<1>11. SlotHoldsPart'
  BY <1>4, <1>6, <1>7, <1>8, <1>10 DEF IInv, PartsInv, SlotHoldsPart, Get
<1>12. SlotIsOwn(m, M)'
  BY <1>1, <1>4, <1>7, <1>8, <1>10 DEF SlotsInv, SlotIsOwn
<1>13. OwnedIsBound'
  BY <1>8, <1>9, <1>10 DEF IInv, PartsInv, OwnedIsBound, Alive
<1>14. ReachableIsLive'
  <2>1. \A u \in used' : part'[u] = "live"
    BY <1>3, <1>8 DEF IInv, PartsInv, ReachableIsLive, Construct, TypeOK
  <2>2. \A i \in Slots : weak'[i] \in Wrappers => part'[weak'[i]] = "live"
    BY <1>3, <1>4, <1>5, <1>8, SlotsTyped DEF IInv, PartsInv, ReachableIsLive
  <2>. QED
    BY <2>1, <2>2 DEF ReachableIsLive
<1>15. LinksAreInStack(m, M)'
  <2>1. ASSUME NEW i \in Slots \ {0}, weak'[i] \in Int PROVE InStack(i, m, M)
    <3>1. i # r
      BY <1>4, <2>1, WeakRefsAssumption
    <3>2. InStack(i, n, L)
      BY <1>1, <1>4, <2>1, <3>1 DEF SlotsInv, LinksAreInStack
    <3>3. PICK k \in 1..n : L[k] = i
      BY <3>2 DEF InStack
    <3>4. n \in Nat /\ n # 0
      BY <1>3, <3>3 DEF FreeStack
    <3>5. k # n
      BY <1>5, <3>1, <3>3, <3>4
    <3>6. k \in 1..m /\ M[k] = L[k]
      BY <3>3, <3>4, <3>5 DEF m, M, Below, Rest
    <3>. QED
      BY <3>3, <3>6 DEF InStack
  <2>. QED
    BY <2>1 DEF LinksAreInStack
<1>16. SlotsInv(m, M)'
  BY <1>4, <1>12, <1>15 DEF SlotsInv
<1>. QED
  BY <1>11, <1>13, <1>14, <1>16 DEF PartsInv

\* ~impl puts the slot of the object on the free list.
LEMMA DestroyFrees ==
  ASSUME IInv, NEW w \in Wrappers, Bound(w), Destroy(w)
  PROVE  /\ ref[w] \in Slots \ {0}
         /\ \A i \in Slots \ {0, ref[w]} : weak'[i] = weak[i]
         /\ weak'[0] \notin Wrappers /\ weak'[ref[w]] \notin Wrappers
         /\ \A u \in Wrappers \ {w} : ref'[u] = ref[u] /\ strong'[u] = strong[u]
         /\ ref'[w] = NoRef /\ strong'[w] = NoRef
         /\ \A u \in Wrappers \ {w} : Bound(u) => ref[u] # ref[w]
         /\ \E m, M : /\ FreeStack(weak', m, M)
                      /\ LinksAreInStack(m, M)'
                      /\ \A u \in Wrappers \ {w} : Bound(u) => ~InStack(ref[u], m, M)
<1>1. PICK n, L : SlotsInv(n, L)
  BY DEF IInv
<1>2. /\ weak \in [Slots -> Value] /\ FreeStack(weak, n, L)
      /\ ref[w] \in Slots \ {0} /\ ~InStack(ref[w], n, L)
  BY <1>1 DEF IInv, TypeOK, SlotsInv, SlotIsOwn, Bound, Alive
<1>3. \E m, M :
        /\ \A i \in Slots \ {0, ref[w]} : weak'[i] = weak[i]
        /\ weak'[0] = ref[w] /\ weak'[ref[w]] = weak[0]
        /\ weak[0] \in Slots \cup {Nil}
        /\ FreeStack(weak', m, M)
        /\ \A i : InStack(i, m, M) <=> i = ref[w] \/ InStack(i, n, L)
  <2>1. weak' = AfterUnref(weak, ref[w])
    BY DEF Destroy
  <2>. QED
    BY ONLY <1>2, <2>1, UnrefFrees
<1>. PICK m, M :
       /\ \A i \in Slots \ {0, ref[w]} : weak'[i] = weak[i]
       /\ weak'[0] = ref[w] /\ weak'[ref[w]] = weak[0]
       /\ weak[0] \in Slots \cup {Nil}
       /\ FreeStack(weak', m, M)
       /\ \A i : InStack(i, m, M) <=> i = ref[w] \/ InStack(i, n, L)
  BY <1>3
<1>4. /\ \A u \in Wrappers \ {w} : ref'[u] = ref[u] /\ strong'[u] = strong[u]
      /\ ref'[w] = NoRef /\ strong'[w] = NoRef
  BY DEF Destroy, IInv, TypeOK
<1>5. weak'[0] \notin Wrappers /\ weak'[ref[w]] \notin Wrappers
  BY <1>2, <1>3, SlotsTyped DEF IInv
<1>6. \A u \in Wrappers \ {w} : Bound(u) => ref[u] # ref[w]
  BY <1>1 DEF SlotsInv, SlotIsOwn
<1>7. LinksAreInStack(m, M)'
  BY <1>1, <1>3 DEF SlotsInv, LinksAreInStack
<1>8. \A u \in Wrappers \ {w} : Bound(u) => ~InStack(ref[u], m, M)
  BY <1>1, <1>3, <1>6 DEF SlotsInv, SlotIsOwn
<1>. QED
  BY <1>2, <1>3, <1>4, <1>5, <1>6, <1>7, <1>8

LEMMA CppDeleteKeeps ==
  ASSUME IInv, NEW w \in Wrappers, CppDelete(w)
  PROVE  PartsInv' /\ \E n, L : SlotsInv(n, L)'
<1>1. Destroy(w) /\ Bound(w) /\ part' = part /\ used' = used /\ owner' = owner
  BY DEF CppDelete, IInv, PartsInv, OwnedIsBound
<1>. PICK m, M : /\ FreeStack(weak', m, M) /\ LinksAreInStack(m, M)'
                 /\ \A u \in Wrappers \ {w} : Bound(u) => ~InStack(ref[u], m, M)
  BY <1>1, DestroyFrees
<1>2. /\ ref[w] \in Slots \ {0}
      /\ \A i \in Slots \ {0, ref[w]} : weak'[i] = weak[i]
      /\ weak'[0] \notin Wrappers /\ weak'[ref[w]] \notin Wrappers
      /\ \A u \in Wrappers \ {w} : ref'[u] = ref[u] /\ strong'[u] = strong[u]
      /\ ref'[w] = NoRef /\ strong'[w] = NoRef
      /\ \A u \in Wrappers \ {w} : Bound(u) => ref[u] # ref[w]
  BY <1>1, DestroyFrees
<1>3. \A u \in Wrappers : Bound(u)' <=> u # w /\ Bound(u)
  BY <1>1, <1>2 DEF Bound, Alive
<1>4. \A u \in Wrappers : Bound(u) => ref[u] \in Slots \ {0}
  BY DEF Bound, Alive, IInv, TypeOK
<1>5. SlotHoldsPart'
  BY <1>1, <1>2, <1>3, <1>4 DEF IInv, PartsInv, SlotHoldsPart, Get
<1>6. SlotIsOwn(m, M)'
  BY <1>2, <1>3 DEF IInv, SlotsInv, SlotIsOwn
<1>7. OwnedIsBound'
  BY <1>1, <1>2, <1>3 DEF IInv, PartsInv, OwnedIsBound, Alive
<1>8. ReachableIsLive'
  BY <1>1, <1>2 DEF IInv, PartsInv, ReachableIsLive
<1>. QED
  BY <1>5, <1>6, <1>7, <1>8 DEF PartsInv, SlotsInv

LEMMA FinalizeKeeps ==
  ASSUME IInv, NEW w \in Wrappers, Finalize(w)
  PROVE  PartsInv' /\ \E n, L : SlotsInv(n, L)'
<1>1. /\ part[w] = "condemned" /\ part'[w] = "gone"
      /\ \A u \in Wrappers \ {w} : part'[u] = part[u]
      /\ used' = used /\ owner' = owner
  BY DEF Finalize, IInv, TypeOK
<1>2. ReachableIsLive /\ w \notin used /\ \A i \in Slots : weak[i] # w
  BY <1>1 DEF IInv, PartsInv, ReachableIsLive
<1>3. ASSUME owner[w] = "lua" PROVE PartsInv' /\ \E n, L : SlotsInv(n, L)'
  <2>1. Destroy(w) /\ Bound(w)
    BY <1>1, <1>3 DEF Finalize, IInv, AliveInv, Bound
  <2>. PICK m, M : /\ FreeStack(weak', m, M) /\ LinksAreInStack(m, M)'
                   /\ \A u \in Wrappers \ {w} : Bound(u) => ~InStack(ref[u], m, M)
    BY <2>1, DestroyFrees
  <2>2. /\ ref[w] \in Slots \ {0}
        /\ \A i \in Slots \ {0, ref[w]} : weak'[i] = weak[i]
        /\ weak'[0] \notin Wrappers /\ weak'[ref[w]] \notin Wrappers
        /\ \A u \in Wrappers \ {w} : ref'[u] = ref[u] /\ strong'[u] = strong[u]
        /\ ref'[w] = NoRef /\ strong'[w] = NoRef
        /\ \A u \in Wrappers \ {w} : Bound(u) => ref[u] # ref[w]
    BY <2>1, DestroyFrees
  <2>3. \A u \in Wrappers : Bound(u)' <=> u # w /\ Bound(u)
    BY <1>1, <2>2 DEF Bound, Alive
  <2>4. \A u \in Wrappers : Bound(u) => ref[u] \in Slots \ {0}
    BY DEF Bound, Alive, IInv, TypeOK
  <2>5. SlotHoldsPart'
    BY <1>1, <2>2, <2>3, <2>4 DEF IInv, PartsInv, SlotHoldsPart, Get
  <2>6. SlotIsOwn(m, M)'
    BY <2>2, <2>3 DEF IInv, SlotsInv, SlotIsOwn
  <2>7. OwnedIsBound'
    BY <1>1, <2>2, <2>3 DEF IInv, PartsInv, OwnedIsBound, Alive
  <2>8. ReachableIsLive'
    BY <1>1, <1>2, <2>2 DEF ReachableIsLive, IInv, TypeOK
  <2>. QED
    BY <2>5, <2>6, <2>7, <2>8 DEF PartsInv, SlotsInv
<1>4. ASSUME owner[w] # "lua" PROVE PartsInv' /\ \E n, L : SlotsInv(n, L)'
  <2>. PICK n, L : SlotsInv(n, L)
    BY DEF IInv
  <2>1. weak' = weak /\ ref' = ref /\ strong' = strong
    BY <1>4 DEF Finalize
  <2>2. \A u \in Wrappers : Bound(u)' <=> u # w /\ Bound(u)
    BY <1>1, <2>1 DEF Bound, Alive
  <2>3. Alive(w) => owner[w] = "nobody"
    BY <1>1, <1>4 DEF IInv, PartsInv, OwnedIsBound, SlotHoldsPart, TypeOK
  <2>4. SlotHoldsPart'
    BY <1>1, <2>1, <2>2 DEF IInv, PartsInv, SlotHoldsPart, Get
  <2>5. OwnedIsBound'
    BY <1>1, <2>1, <2>2, <2>3 DEF IInv, PartsInv, OwnedIsBound, Alive
  <2>6. ReachableIsLive'
    BY <1>1, <1>2, <2>1 DEF ReachableIsLive, IInv, TypeOK
  <2>7. SlotsInv(n, L)'
    BY <2>1, <2>2 DEF SlotsInv, SlotIsOwn, LinksAreInStack
  <2>. QED
    BY <2>4, <2>5, <2>6, <2>7 DEF PartsInv
<1>. QED
  BY <1>3, <1>4

LEMMA AtomicPhaseKeeps ==
  ASSUME IInv, AtomicPhase
  PROVE  PartsInv' /\ \E n, L : SlotsInv(n, L)'
<1>. PICK n, L : SlotsInv(n, L)
  BY DEF IInv
<1>1. ref' = ref /\ used' = used /\ owner' = owner /\ strong' = strong
  BY DEF AtomicPhase
<1>2. \A w \in Garbage : /\ w \in Wrappers /\ part[w] = "live" /\ w \notin used
                         /\ \A u \in Wrappers : strong[u] # w
  BY DEF Garbage
<1>3. /\ \A w \in Wrappers : part'[w] = IF w \in Garbage THEN "condemned" ELSE part[w]
      /\ \A i \in Slots : weak'[i] = IF weak[i] \in Garbage THEN Nil ELSE weak[i]
      /\ DOMAIN weak' = Slots
  BY DEF AtomicPhase
<1>. HIDE DEF Garbage
<1>4. \A w \in Wrappers : Bound(w)' <=> Bound(w)
  BY <1>1, <1>2, <1>3 DEF Bound, Alive
<1>5. \A w \in Wrappers : Bound(w) => ref[w] \in Slots
  BY DEF Bound, Alive, IInv, TypeOK
<1>6. \A w \in Garbage : ~(Alive(w) /\ owner[w] = "cpp")
  BY <1>2 DEF IInv, PartsInv, OwnedIsBound
<1>7. SlotHoldsPart'
  <2>1. ASSUME NEW w \in Wrappers, Bound(w)', part'[w] = "live" PROVE Get(w)' = w
    BY <1>1, <1>3, <1>4, <1>5, <2>1 DEF IInv, PartsInv, SlotHoldsPart, Get
  <2>2. ASSUME NEW w \in Wrappers, Bound(w)', part'[w] = "condemned"
        PROVE  Get(w)' = Nil /\ owner'[w] # "cpp"
    <3>1. CASE w \in Garbage
      BY <1>1, <1>2, <1>3, <1>4, <1>5, <1>6, <2>2, <3>1
         DEF IInv, PartsInv, SlotHoldsPart, Get, Bound
    <3>2. CASE w \notin Garbage
      <4>1. Bound(w) /\ part[w] = "condemned"
        BY <1>3, <1>4, <2>2, <3>2
      <4>. QED
        BY <1>1, <1>2, <1>3, <1>5, <4>1, WeakRefsAssumption
           DEF IInv, PartsInv, SlotHoldsPart, Get
    <3>. QED
      BY <3>1, <3>2
  <2>. QED
    BY <2>1, <2>2 DEF SlotHoldsPart
<1>8. OwnedIsBound'
  <2>1. \A w \in Wrappers : Alive(w)' <=> Alive(w)
    BY <1>1 DEF Alive
  <2>. QED
    BY <1>1, <1>3, <1>4, <1>6, <2>1 DEF IInv, PartsInv, OwnedIsBound
<1>9. ReachableIsLive'
  BY <1>1, <1>2, <1>3, WeakRefsAssumption DEF IInv, PartsInv, ReachableIsLive, TypeOK
<1>10. SlotIsOwn(n, L)'
  BY <1>1, <1>4 DEF SlotsInv, SlotIsOwn
<1>11. \A i \in Slots : weak[i] \notin Wrappers => weak'[i] = weak[i]
  BY <1>2, <1>3
<1>12. FreeStack(weak', n, L)
  <2>1. weak[0] \notin Wrappers /\ \A k \in 1..n : weak[L[k]] \notin Wrappers
    <3>1. \A i \in Slots \cup {Nil} : i \notin Wrappers
      BY SlotsTyped DEF IInv
    <3>2. \A k \in 1..n : L[k] \in Slots /\ (k # 1 => L[k - 1] \in Slots)
      BY DEF SlotsInv, FreeStack
    <3>3. weak[0] \in Slots \cup {Nil} /\ \A k \in 1..n : weak[L[k]] \in Slots \cup {Nil}
      BY <3>2, LuaRefsAssumption DEF SlotsInv, FreeStack, Slots
    <3>. QED
      BY <3>1, <3>3
  <2>. QED
    BY <1>11, <2>1, SlotsTyped DEF IInv, SlotsInv, FreeStack
<1>13. LinksAreInStack(n, L)'
  BY <1>3, LuaRefsAssumption DEF SlotsInv, LinksAreInStack
<1>. QED
  BY <1>7, <1>8, <1>9, <1>10, <1>12, <1>13 DEF PartsInv, SlotsInv

LEMMA OthersKeep ==
  ASSUME IInv, NEW w \in Wrappers,
         Forget(w) \/ Adopt(w) \/ Return(w) \/ ReturnAdopted(w)
  PROVE  PartsInv' /\ \E n, L : SlotsInv(n, L)'
<1>. PICK n, L : SlotsInv(n, L)
  BY DEF IInv
<1>1. weak' = weak /\ ref' = ref /\ part' = part
  BY DEF Forget, Adopt, Return, ReturnAdopted
<1>2. \A u \in Wrappers : (Bound(u)' <=> Bound(u)) /\ (Alive(u)' <=> Alive(u))
  BY <1>1 DEF Bound, Alive
<1>3. SlotsInv(n, L)'
  BY <1>1, <1>2 DEF SlotsInv, SlotIsOwn, LinksAreInStack
<1>4. ASSUME Forget(w) PROVE PartsInv'
  BY <1>1, <1>2, <1>4
     DEF Forget, IInv, PartsInv, SlotHoldsPart, OwnedIsBound, ReachableIsLive, Get
<1>5. ASSUME Adopt(w) PROVE PartsInv'
  <2>1. part[w] = "live" /\ Get(w) = w
    BY <1>5 DEF Adopt, IInv, PartsInv, ReachableIsLive, SlotHoldsPart, Bound
  <2>2. \A u \in Wrappers \ {w} : owner'[u] = owner[u] /\ strong'[u] = strong[u]
    BY <1>5 DEF Adopt, IInv, TypeOK
  <2>3. owner'[w] = "cpp" /\ strong'[w] = w /\ used' = used /\ Bound(w)
    BY <1>5, <2>1 DEF Adopt, IInv, TypeOK, Bound
  <2>. QED
    BY <1>1, <1>2, <2>1, <2>2, <2>3
       DEF IInv, PartsInv, SlotHoldsPart, OwnedIsBound, ReachableIsLive, Get
<1>6. ASSUME Return(w) \/ ReturnAdopted(w)
      PROVE  /\ ReachableIsLive'
  <2>1. ref[w] \in Slots
    BY <1>6 DEF Return, ReturnAdopted, IInv, AliveInv, TypeOK, Alive
  <2>. QED
    BY <1>1, <1>6, <2>1 DEF Return, ReturnAdopted, IInv, PartsInv, ReachableIsLive, Get
<1>7. ASSUME Return(w) PROVE PartsInv'
  BY <1>1, <1>2, <1>6, <1>7
     DEF Return, IInv, PartsInv, SlotHoldsPart, OwnedIsBound, Get
<1>8. ASSUME ReturnAdopted(w) PROVE PartsInv'
  <2>1. \A u \in Wrappers \ {w} : owner'[u] = owner[u] /\ strong'[u] = strong[u]
    BY <1>8 DEF ReturnAdopted, IInv, TypeOK
  <2>2. owner'[w] = "nobody" /\ strong'[w] = NoRef
    BY <1>8 DEF ReturnAdopted, IInv, TypeOK
  <2>. QED
    BY <1>1, <1>2, <1>6, <1>8, <2>1, <2>2
       DEF IInv, PartsInv, SlotHoldsPart, OwnedIsBound, Get
<1>. QED
  BY <1>3, <1>4, <1>5, <1>7, <1>8

LEMMA InvStep == ~Incremental /\ IInv /\ [Next]_vars => IInv'
<1>. SUFFICES ASSUME ~Incremental, IInv, [Next]_vars PROVE IInv'
  OBVIOUS
<1>1. TypeOK' /\ AliveInv'
  BY TypeStep, AliveStep DEF IInv
<1>2. CASE UNCHANGED vars
  <2>. PICK n, L : SlotsInv(n, L)
    BY DEF IInv
  <2>1. SlotsInv(n, L)'
    BY <1>2 DEF vars, SlotsInv, LinksAreInStack, SlotIsOwn, Bound, Alive
  <2>2. PartsInv'
    BY <1>2 DEF vars, IInv, PartsInv, SlotHoldsPart, OwnedIsBound, ReachableIsLive,
                Bound, Alive, Get
  <2>. QED
    BY <1>1, <2>1, <2>2 DEF IInv
<1>3. ASSUME Next PROVE PartsInv' /\ \E n, L : SlotsInv(n, L)'
  BY <1>3, ConstructKeeps, CppDeleteKeeps, FinalizeKeeps, AtomicPhaseKeeps, OthersKeep
     DEF Next
<1>. QED
  BY <1>1, <1>2, <1>3 DEF IInv

LEMMA Invariant == ~Incremental => (Spec => []IInv)
<1>. SUFFICES ASSUME ~Incremental PROVE Spec => []IInv
  OBVIOUS
<1>1. IInv /\ [Next]_vars => IInv'
  BY InvStep
<1>. QED
  BY <1>1, InvInit, PTL DEF Spec

(***************************************************************************)
(* As long as its instance has not been condemned, a living object finds   *)
(* it, and no other, by its weak reference, if collections are not         *)
(* interrupted by Lua code.                                                *)
(***************************************************************************)
THEOREM IdentityIsPreserved == ~Incremental => (Spec => []IdentityPreserved)
<1>1. IInv => IdentityPreserved
  BY DEF IInv, PartsInv, SlotHoldsPart, Bound, IdentityPreserved
<1>. QED
  BY <1>1, Invariant, PTL

(***************************************************************************)
(* The instance of an object that C++ owns is not collected, if            *)
(* collections are not interrupted by Lua code.                            *)
(***************************************************************************)
THEOREM AdoptedIsKept == ~Incremental => (Spec => []AdoptedKeepsItsPart)
<1>1. IInv => AdoptedKeepsItsPart
  BY DEF IInv, PartsInv, OwnedIsBound, AdoptedKeepsItsPart
<1>. QED
  BY <1>1, Invariant, PTL

(***************************************************************************)
(* The free list names no slot of a living object that somebody owns, and  *)
(* no slot twice, if collections are not interrupted by Lua code.          *)
(***************************************************************************)
THEOREM FreeListIsSound == ~Incremental => (Spec => []FreeSlotsAreFree)
<1>1. ASSUME IInv, NEW i \in Slots, NEW j \in Slots, weak[i] \in Nat, weak[i] # 0
      PROVE  /\ \A w \in Wrappers : ref[w] = weak[i] => owner[w] = "nobody"
             /\ weak[j] = weak[i] => i = j
  <2>. PICK n, L : SlotsInv(n, L)
    BY <1>1 DEF IInv
  <2>1. ASSUME NEW x \in Slots, weak[x] \in Nat, weak[x] # 0
        PROVE  \E k \in 1..n : /\ weak[x] = L[k]
                               /\ IF k = n THEN x = 0 ELSE x = L[k + 1]
    <3>1. CASE x = 0
      BY <2>1, <3>1, LuaRefsAssumption DEF SlotsInv, FreeStack
    <3>2. CASE x # 0
      <4>. PICK k \in 1..n : L[k] = x
        BY <2>1, <3>2 DEF SlotsInv, LinksAreInStack, InStack
      <4>1. k # 1 /\ weak[x] = L[k - 1]
        BY <2>1, LuaRefsAssumption DEF SlotsInv, FreeStack
      <4>2. k - 1 \in 1..n /\ k - 1 # n /\ (k - 1) + 1 = k
        BY <4>1 DEF SlotsInv, FreeStack
      <4>. QED
        BY <4>1, <4>2
    <3>. QED
      BY <3>1, <3>2
  <2>2. PICK k \in 1..n : weak[i] = L[k] /\ IF k = n THEN i = 0 ELSE i = L[k + 1]
    BY <1>1, <2>1
  <2>3. \A w \in Wrappers : ref[w] = weak[i] => owner[w] = "nobody"
    <3>1. weak[i] # NoRef /\ InStack(weak[i], n, L)
      BY <1>1, <2>2, WeakRefsAssumption DEF InStack
    <3>. QED
      BY <1>1, <3>1 DEF SlotsInv, SlotIsOwn, IInv, PartsInv, OwnedIsBound, Alive
  <2>4. ASSUME weak[j] = weak[i] PROVE i = j
    <3>. PICK m \in 1..n : weak[j] = L[m] /\ IF m = n THEN j = 0 ELSE j = L[m + 1]
      BY <1>1, <2>1, <2>4
    <3>1. k = m
      BY <2>2, <2>4 DEF SlotsInv, FreeStack
    <3>. QED
      BY <2>2, <3>1
  <2>. QED
    BY <2>3, <2>4
<1>2. IInv => FreeSlotsAreFree
  BY <1>1 DEF FreeSlotsAreFree
<1>. QED
  BY <1>2, Invariant, PTL
=============================================================================
