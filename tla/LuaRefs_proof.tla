---------------------------- MODULE LuaRefs_proof ----------------------------
(***************************************************************************)
(* What luaL_ref and luaL_unref return and preserve, for any table and any *)
(* values.  The slots that luaL_unref has freed form a stack: slot 0 names *)
(* the one on top, each of them the one below it.                          *)
(***************************************************************************)
EXTENDS LuaRefs, TLAPS

\* The n free slots are L[1], ..., L[n], the last freed being L[n].
FreeStack(t, n, L) ==
  /\ n \in Nat
  /\ L \in [1..n -> Slots \ {0}]
  /\ \A j, k \in 1..n : L[j] = L[k] => j = k
  /\ IF n = 0 THEN t[0] \in {0, Nil} ELSE t[0] = L[n]
  /\ \A k \in 1..n : IF k = 1 THEN t[L[k]] \in {0, Nil} ELSE t[L[k]] = L[k - 1]

InStack(i, n, L) == \E k \in 1..n : L[k] = i

\* Something other than a link of the free list.
Contents(v) == v # Nil /\ v \notin Int

NoSlots == [k \in 1..0 |-> 0]

LEMMA EmptyStack == FreeStack(EmptyTable, 0, NoSlots) /\ \A i : ~InStack(i, 0, NoSlots)
BY LuaRefsAssumption DEF FreeStack, EmptyTable, NoSlots, InStack, Slots

\* A free slot holds a link, or nothing.
LEMMA FreeSlotsAreLinks ==
  ASSUME NEW t, NEW n, NEW L, FreeStack(t, n, L), NEW i, InStack(i, n, L)
  PROVE  i \in Slots \ {0} /\ ~Contents(t[i])
BY LuaRefsAssumption DEF FreeStack, InStack, Contents, Slots

\* luaL_ref returns the slot freed last, or one that is empty.
LEMMA RefReturns ==
  ASSUME NEW t, NEW n, NEW L, FreeStack(t, n, L), NEW ref \in NewRefs(t)
  PROVE  /\ ref \in Slots \ {0}
         /\ ~Contents(t[ref])
         /\ n # 0 => ref = L[n]
         /\ n = 0 => t[ref] = Nil /\ FreeHead(t) = 0
<1>. USE LuaRefsAssumption DEF FreeStack, Slots
<1>1. CASE n = 0
  <2>1. FreeHead(t) = 0
    BY <1>1 DEF FreeHead
  <2>2. \E b \in 0..(MaxRef - 1) : ref = b + 1 /\ t[b + 1] = Nil
    BY <2>1 DEF NewRefs, Borders
  <2>. QED
    BY <1>1, <2>1, <2>2 DEF Contents
<1>2. CASE n # 0
  <2>1. n \in 1..n /\ L[n] \in 1..MaxRef /\ t[0] = L[n]
    BY <1>2
  <2>2. FreeHead(t) = L[n] /\ FreeHead(t) # 0
    BY <2>1 DEF FreeHead
  <2>3. ref = L[n]
    BY <2>2 DEF NewRefs
  <2>4. ~Contents(t[ref])
    BY <2>1, <2>3, FreeSlotsAreLinks DEF InStack
  <2>. QED
    BY <1>2, <2>1, <2>3, <2>4
<1>. QED
  BY <1>1, <1>2

\* What is left of the stack when luaL_ref has taken a slot.
Below(n) == IF n = 0 THEN 0 ELSE n - 1

Rest(n, L) == [k \in 1..Below(n) |-> L[k]]

LEMMA RefTakes ==
  ASSUME NEW V, NEW t \in [Slots -> V], NEW n, NEW L, FreeStack(t, n, L),
         NEW ref \in NewRefs(t), NEW v
  PROVE  LET u == AfterRef(t, ref, v)
         IN  /\ u[ref] = v
             /\ \A i \in Slots \ {0, ref} : u[i] = t[i]
             /\ u[0] \in Slots \cup {Nil}
             /\ DOMAIN u = Slots
             /\ FreeStack(u, Below(n), Rest(n, L))
             /\ \A i : InStack(i, Below(n), Rest(n, L)) => InStack(i, n, L)
             /\ ~InStack(ref, Below(n), Rest(n, L))
<1>. DEFINE u == AfterRef(t, ref, v)
<1>1. /\ ref \in Slots \ {0} /\ n \in Nat /\ 0 \in Slots
      /\ n # 0 => ref = L[n] /\ FreeHead(t) # 0
      /\ n = 0 => t[ref] = Nil /\ FreeHead(t) = 0
  <2>1. n \in Nat /\ 0 \in Slots
    BY LuaRefsAssumption DEF FreeStack, Slots
  <2>2. n # 0 => FreeHead(t) # 0
    BY <2>1 DEF FreeStack, FreeHead, Slots
  <2>. QED
    BY <2>1, <2>2, RefReturns
<1>2. /\ u[ref] = v /\ \A i \in Slots \ {0, ref} : u[i] = t[i]
      /\ u[0] = (IF n # 0 THEN t[ref] ELSE t[0]) /\ DOMAIN u = Slots
  BY <1>1 DEF AfterRef
<1>. HIDE DEF u
<1>3. CASE n = 0
  <2>1. Below(n) = 0 /\ t[0] \in {0, Nil}
    BY <1>3 DEF Below, FreeStack
  <2>2. FreeStack(u, 0, Rest(n, L))
    BY <1>2, <1>3, <2>1 DEF FreeStack, Rest
  <2>3. \A i : ~InStack(i, 0, Rest(n, L))
    BY DEF InStack
  <2>. QED
    BY <1>1, <1>2, <1>3, <2>1, <2>2, <2>3 DEF u
<1>4. CASE n # 0
  <2>1. Below(n) = n - 1 /\ Rest(n, L) = [k \in 1..(n - 1) |-> L[k]] /\ n - 1 \in Nat
    BY <1>1, <1>4 DEF Below, Rest
  <2>2. \A k \in 1..(n - 1) : L[k] \in Slots \ {0, ref}
    BY <1>1, <1>4 DEF FreeStack
  <2>3. u[0] = IF n = 1 THEN t[L[1]] ELSE L[n - 1]
    BY <1>1, <1>2, <1>4 DEF FreeStack
  <2>4. \A k \in 1..(n - 1) : IF k = 1 THEN u[L[k]] \in {0, Nil} ELSE u[L[k]] = L[k - 1]
    BY <1>1, <1>2, <2>2 DEF FreeStack
  <2>5. FreeStack(u, n - 1, [k \in 1..(n - 1) |-> L[k]])
    BY <1>1, <1>4, <2>1, <2>2, <2>3, <2>4 DEF FreeStack
  <2>6. u[0] \in Slots \cup {Nil}
    BY <1>1, <1>4, <2>2, <2>3 DEF FreeStack
  <2>7. /\ \A i : InStack(i, n - 1, [k \in 1..(n - 1) |-> L[k]]) => InStack(i, n, L)
        /\ ~InStack(ref, n - 1, [k \in 1..(n - 1) |-> L[k]])
    BY <1>1, <2>2 DEF InStack
  <2>. QED
    BY <1>2, <2>1, <2>5, <2>6, <2>7 DEF u
<1>. QED
  BY <1>3, <1>4

\* What luaL_unref adds.
Pushed(n, L, ref) == [k \in 1..(n + 1) |-> IF k = n + 1 THEN ref ELSE L[k]]

LEMMA UnrefFrees ==
  ASSUME NEW V, NEW t \in [Slots -> V], NEW n, NEW L, FreeStack(t, n, L),
         NEW ref \in Slots \ {0}, ~InStack(ref, n, L)
  PROVE  LET u == AfterUnref(t, ref)
         IN  /\ \A i \in Slots \ {0, ref} : u[i] = t[i]
             /\ u[0] = ref /\ u[ref] = t[0] /\ t[0] \in Slots \cup {Nil}
             /\ DOMAIN u = Slots
             /\ FreeStack(u, n + 1, Pushed(n, L, ref))
             /\ \A i : InStack(i, n + 1, Pushed(n, L, ref)) <=> i = ref \/ InStack(i, n, L)
<1>. DEFINE u == AfterUnref(t, ref)
            P == Pushed(n, L, ref)
<1>1. n \in Nat /\ 0 \in Slots
  BY LuaRefsAssumption DEF FreeStack, Slots
<1>2. /\ \A i \in Slots \ {0, ref} : u[i] = t[i]
      /\ u[0] = ref /\ u[ref] = t[0] /\ DOMAIN u = Slots
  BY <1>1 DEF AfterUnref
<1>3. P \in [1..(n + 1) -> Slots \ {0}] /\ P[n + 1] = ref /\ \A k \in 1..n : P[k] = L[k]
  BY <1>1 DEF FreeStack, Pushed
<1>. HIDE DEF u, P
<1>4. \A k \in 1..n : L[k] \in Slots \ {0, ref}
  BY DEF FreeStack, InStack
<1>5. \A j, k \in 1..(n + 1) : P[j] = P[k] => j = k
  BY <1>1, <1>3, <1>4 DEF FreeStack
<1>6. \A k \in 1..(n + 1) : IF k = 1 THEN u[P[k]] \in {0, Nil} ELSE u[P[k]] = P[k - 1]
  <2>1. ASSUME NEW k \in 1..n PROVE IF k = 1 THEN u[P[k]] \in {0, Nil} ELSE u[P[k]] = P[k - 1]
    BY <1>1, <1>2, <1>3, <1>4 DEF FreeStack
  <2>2. IF n + 1 = 1 THEN u[ref] \in {0, Nil} ELSE u[ref] = P[n]
    BY <1>1, <1>2, <1>3 DEF FreeStack
  <2>. QED
    BY <1>1, <1>3, <2>1, <2>2
<1>7. FreeStack(u, n + 1, P)
  BY <1>1, <1>2, <1>3, <1>5, <1>6 DEF FreeStack
<1>8. t[0] \in Slots \cup {Nil}
  BY <1>1, <1>4 DEF FreeStack
<1>9. \A i : InStack(i, n + 1, P) <=> i = ref \/ InStack(i, n, L)
  BY <1>1, <1>3 DEF InStack
<1>. QED
  BY <1>2, <1>7, <1>8, <1>9 DEF u, P
=============================================================================
