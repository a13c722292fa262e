--------------------- MODULE LuaCallbackDispatcher_proof ---------------------
(***************************************************************************)
(* Proofs about signals and Lua functions, for any number of signals,      *)
(* functions, objects, methods and registry slots.  The heart of them is   *)
(* that luaL_ref never returns the slot of a method or of a cached table,  *)
(* although Disconnect frees slot 0, the head of the free list itself.     *)
(***************************************************************************)
EXTENDS LuaCallbackDispatcher, LuaRefs_proof, FiniteSetTheorems,
        SequenceTheorems

RegistryType == [Slots -> LuaFunctions \cup QObjects \cup Slots \cup {Nil}]

\* The function that method m calls.
FunctionOf(m) == registry[luaCBackMethods[m].ref]

FreeList == \E n, L : FreeStack(registry, n, L)

MethodsHoldFunctions == \A m \in DOMAIN luaCBackMethods : FunctionOf(m) \in LuaFunctions

TablesAreHeld == \A o \in DOMAIN objRefs : registry[objRefs[o]] = o

TypesFit == \A c \in connections : luaCBackMethods[c.method].types = c.signal

RegistryInv ==
  /\ FreeList
  /\ MethodsHoldFunctions
  /\ TablesAreHeld
  /\ TypesFit
  /\ IsFiniteSet(connections)

\* The step of ReferencesHold.
SlotsHold ==
  /\ \A m \in DOMAIN luaCBackMethods :
       LET ref == luaCBackMethods[m].ref IN registry'[ref] = registry[ref]
  /\ \A o \in DOMAIN objRefs' : registry'[objRefs'[o]] = o

LEMMA MethodsTyped ==
  ASSUME TypeOK
  PROVE  /\ registry \in RegistryType /\ 0 \in Slots
         /\ DOMAIN luaCBackMethods = 1..Len(luaCBackMethods) /\ Len(luaCBackMethods) \in Nat
         /\ \A m \in DOMAIN luaCBackMethods :
              luaCBackMethods[m].ref \in Refs /\ luaCBackMethods[m].types \in Signals
<1>1. DOMAIN luaCBackMethods = 1..Len(luaCBackMethods) /\ Len(luaCBackMethods) \in Nat
  BY LenProperties DEF TypeOK
<1>2. \A m \in DOMAIN luaCBackMethods : luaCBackMethods[m] \in Method
  BY <1>1, ElementOfSeq DEF TypeOK
<1>. QED
  BY <1>1, <1>2, LuaRefsAssumption DEF TypeOK, RegistryType, Method, Slots

\* luaL_ref returns a slot that no method and no cached table has.
LEMMA RefIsNew ==
  ASSUME TypeOK, RegistryInv, NEW ref \in NewRefs(registry),
         NEW v \in LuaFunctions \cup QObjects
  PROVE  LET u == AfterRef(registry, ref, v)
         IN  /\ ref \in Refs
             /\ \A m \in DOMAIN luaCBackMethods : luaCBackMethods[m].ref # ref
             /\ \A o \in DOMAIN objRefs : objRefs[o] # ref
             /\ MethodOf(ref) = 0
             /\ u \in RegistryType /\ u[ref] = v
             /\ \A i \in Refs \ {ref} : u[i] = registry[i]
             /\ \E n, L : FreeStack(u, n, L)
<1>. DEFINE u == AfterRef(registry, ref, v)
<1>1. PICK n, L : FreeStack(registry, n, L)
  BY DEF RegistryInv, FreeList
<1>2. ref \in Refs /\ ~Contents(registry[ref])
  BY <1>1, RefReturns DEF Refs
<1>3. \A x \in LuaFunctions \cup QObjects : Contents(x)
  BY DispatcherAssumption DEF Contents
<1>4. \A m \in DOMAIN luaCBackMethods : luaCBackMethods[m].ref # ref
  BY <1>2, <1>3 DEF RegistryInv, MethodsHoldFunctions, FunctionOf
<1>5. \A o \in DOMAIN objRefs : objRefs[o] # ref
  BY <1>2, <1>3 DEF RegistryInv, TablesAreHeld, TypeOK
<1>6. MethodOf(ref) = 0
  BY <1>4 DEF MethodOf, TypeOK
<1>7. registry \in RegistryType
  BY MethodsTyped
<1>8. /\ u[ref] = v
      /\ \A i \in Slots \ {0, ref} : u[i] = registry[i]
      /\ u[0] \in Slots \cup {Nil}
      /\ DOMAIN u = Slots
      /\ FreeStack(u, Below(n), Rest(n, L))
  <2>1. PICK V : registry \in [Slots -> V]
    BY <1>7 DEF RegistryType
  <2>. QED
    BY <1>1, <2>1, RefTakes
<1>9. u \in RegistryType
  <2>1. \E x : u = [registry EXCEPT ![0] = x, ![ref] = v]
    BY DEF AfterRef
  <2>2. \A i \in Slots : u[i] \in LuaFunctions \cup QObjects \cup Slots \cup {Nil}
    BY <1>2, <1>7, <1>8 DEF RegistryType, Refs
  <2>. HIDE DEF u
  <2>. QED
    BY <1>7, <1>8, <2>1, <2>2 DEF RegistryType
<1>. QED
  BY <1>2, <1>4, <1>5, <1>6, <1>8, <1>9 DEF Refs

-----------------------------------------------------------------------------
(***************************************************************************)
(* What each operation does.                                               *)
(***************************************************************************)
\* The number of the next method.
IsNext(m) == m = Len(luaCBackMethods) + 1

\* qlua.connect makes a method for every connection, with a slot of its own.
Makes(s, f, new, ref) ==
  /\ ref \in Refs
  /\ luaCBackMethods' = Append(luaCBackMethods, [ref |-> ref, types |-> s])
  /\ cbackToMethodIndex' = With(cbackToMethodIndex, ref, new)
  /\ registry'[ref] = f
  /\ \A i \in Refs \ {ref} : registry'[i] = registry[i]
  /\ \A m \in DOMAIN luaCBackMethods : luaCBackMethods[m].ref # ref
  /\ \A o \in DOMAIN objRefs : objRefs[o] # ref

LEMMA ConnectMakes ==
  ASSUME TypeOK, RegistryInv, NEW s \in Signals, NEW f \in LuaFunctions, Connect(s, f),
         NEW new, IsNext(new)
  PROVE  /\ new <= MaxMethods
         /\ \E ref : Makes(s, f, new, ref)
         /\ registry' \in RegistryType /\ FreeList'
         /\ connections' = connections \cup {Connection(s, new)}
<1>1. PICK ref \in NewRefs(registry) :
        LET known  == MethodOf(ref)
            method == IF known # 0 THEN known ELSE Len(luaCBackMethods) + 1
        IN  /\ method <= MaxMethods
            /\ registry' = AfterRef(registry, ref, f)
            /\ IF known # 0
               THEN UNCHANGED <<luaCBackMethods, cbackToMethodIndex>>
               ELSE /\ cbackToMethodIndex' = With(cbackToMethodIndex, ref, method)
                    /\ luaCBackMethods' = Append(luaCBackMethods, [ref |-> ref, types |-> s])
            /\ connections' = connections \cup {Connection(s, method)}
  BY DEF Connect
<1>2. /\ ref \in Refs
      /\ \A m \in DOMAIN luaCBackMethods : luaCBackMethods[m].ref # ref
      /\ \A o \in DOMAIN objRefs : objRefs[o] # ref
      /\ MethodOf(ref) = 0
  BY RefIsNew
<1>3. LET u == AfterRef(registry, ref, f)
      IN  /\ u \in RegistryType /\ u[ref] = f
          /\ \A i \in Refs \ {ref} : u[i] = registry[i]
          /\ \E n, L : FreeStack(u, n, L)
  BY RefIsNew
<1>. QED
  BY <1>1, <1>2, <1>3 DEF FreeList, IsNext, Makes

\* The connections of a signal to the method of another are nobody's.
LEMMA ConnectionTyped ==
  ASSUME TypeOK, RegistryInv, NEW s \in Signals, NEW m \in Nat
  PROVE  Connection(s, m) \in [signal : Signals, method : {m}, copy : Nat]
<1>1. Copies(s, m) \subseteq connections
  BY DEF Copies
<1>2. Cardinality(Copies(s, m)) \in Nat
  BY <1>1, FS_Subset, FS_CardinalityType DEF RegistryInv
<1>. QED
  BY <1>2 DEF Connection

\* What the step of a connection adds to the methods.
LEMMA ConnectAdds ==
  ASSUME TypeOK, RegistryInv, NEW s \in Signals, NEW f \in LuaFunctions, Connect(s, f),
         NEW new, IsNext(new)
  PROVE  /\ Len(luaCBackMethods)' = new /\ DOMAIN luaCBackMethods' = 1..new
         /\ new \notin DOMAIN luaCBackMethods
         /\ DOMAIN luaCBackMethods \subseteq 1..new
         /\ \A m \in 1..new : m # new => m \in DOMAIN luaCBackMethods
         /\ luaCBackMethods'[new].types = s /\ FunctionOf(new)' = f
         /\ \A m \in DOMAIN luaCBackMethods :
              /\ luaCBackMethods'[m] = luaCBackMethods[m]
              /\ FunctionOf(m)' = FunctionOf(m)
         /\ connections' = connections \cup {Connection(s, new)}
         /\ Connection(s, new) \in [signal : {s}, method : {new}, copy : Nat]
<1>. PICK ref : Makes(s, f, new, ref)
  BY ConnectMakes
<1>1. /\ ref \in Refs
      /\ luaCBackMethods' = Append(luaCBackMethods, [ref |-> ref, types |-> s])
      /\ registry'[ref] = f
      /\ \A i \in Refs \ {ref} : registry'[i] = registry[i]
      /\ \A m \in DOMAIN luaCBackMethods : luaCBackMethods[m].ref # ref
  BY DEF Makes
<1>2. /\ luaCBackMethods \in Seq(Method) /\ Len(luaCBackMethods) \in Nat
      /\ DOMAIN luaCBackMethods = 1..Len(luaCBackMethods)
      /\ \A m \in DOMAIN luaCBackMethods : luaCBackMethods[m].ref \in Refs
  BY MethodsTyped DEF TypeOK
<1>3. /\ Len(luaCBackMethods)' = new /\ DOMAIN luaCBackMethods' = 1..new
      /\ luaCBackMethods'[new] = [ref |-> ref, types |-> s]
      /\ \A m \in DOMAIN luaCBackMethods : luaCBackMethods'[m] = luaCBackMethods[m]
  BY <1>1, <1>2, AppendProperties DEF Method, IsNext
<1>4. connections' = connections \cup {Connection(s, new)}
  BY ConnectMakes
<1>5. Connection(s, new) \in [signal : {s}, method : {new}, copy : Nat]
  BY <1>2, ConnectionTyped DEF Connection, IsNext
<1>6. FunctionOf(new)' = f
  BY <1>1, <1>3 DEF FunctionOf
<1>7. \A m \in DOMAIN luaCBackMethods : FunctionOf(m)' = FunctionOf(m)
  BY <1>1, <1>2, <1>3 DEF FunctionOf
<1>8. /\ new \notin DOMAIN luaCBackMethods /\ DOMAIN luaCBackMethods \subseteq 1..new
      /\ \A m \in 1..new : m # new => m \in DOMAIN luaCBackMethods
  BY <1>2 DEF IsNext
<1>. QED
  BY <1>3, <1>4, <1>5, <1>6, <1>7, <1>8

LEMMA ConnectKeeps ==
  ASSUME TypeOK, RegistryInv, NEW s \in Signals, NEW f \in LuaFunctions, Connect(s, f)
  PROVE  TypeOK' /\ RegistryInv' /\ SlotsHold
<1>. PICK new : IsNext(new)
  BY DEF IsNext
<1>1. /\ Len(luaCBackMethods)' = new /\ DOMAIN luaCBackMethods' = 1..new
      /\ new \notin DOMAIN luaCBackMethods
      /\ \A m \in 1..new : m # new => m \in DOMAIN luaCBackMethods
      /\ luaCBackMethods'[new].types = s /\ FunctionOf(new)' = f
      /\ \A m \in DOMAIN luaCBackMethods :
           /\ luaCBackMethods'[m] = luaCBackMethods[m]
           /\ FunctionOf(m)' = FunctionOf(m)
  BY ConnectAdds
<1>2. /\ connections' = connections \cup {Connection(s, new)}
      /\ Connection(s, new) \in [signal : {s}, method : {new}, copy : Nat]
  BY ConnectAdds
<1>. PICK ref : Makes(s, f, new, ref)
  BY ConnectMakes
<1>3. /\ ref \in Refs
      /\ luaCBackMethods' = Append(luaCBackMethods, [ref |-> ref, types |-> s])
      /\ cbackToMethodIndex' = With(cbackToMethodIndex, ref, new)
      /\ registry'[ref] = f
      /\ \A i \in Refs \ {ref} : registry'[i] = registry[i]
      /\ \A m \in DOMAIN luaCBackMethods : luaCBackMethods[m].ref # ref
      /\ \A o \in DOMAIN objRefs : objRefs[o] # ref
  BY DEF Makes
<1>4. new <= MaxMethods /\ registry' \in RegistryType /\ FreeList' /\ new \in 1..new
  BY ConnectMakes, MethodsTyped DEF IsNext
<1>5. /\ luaCBackMethods \in Seq(Method) /\ DOMAIN luaCBackMethods \subseteq 1..new
      /\ luaCBackMethods'[new].ref = ref
  BY <1>3, MethodsTyped, AppendProperties DEF TypeOK, Method, IsNext
<1>6. objRefs' = objRefs /\ discarded' = discarded
      /\ wanted' = [wanted EXCEPT ![s][f] = @ + 1]
  BY DEF Connect
<1>7. luaCBackMethods' \in Seq(Method)
  BY <1>3, <1>5 DEF Method
<1>8. /\ DOMAIN cbackToMethodIndex' \subseteq Refs
      /\ \A r \in DOMAIN cbackToMethodIndex' :
           /\ cbackToMethodIndex'[r] \in DOMAIN luaCBackMethods'
           /\ luaCBackMethods'[cbackToMethodIndex'[r]].ref = r
  <2>1. DOMAIN cbackToMethodIndex' = DOMAIN cbackToMethodIndex \cup {ref}
    BY <1>3 DEF With
  <2>2. cbackToMethodIndex'[ref] = new /\ new \in 1..new
    BY <1>3, <1>4 DEF With
  <2>3. \A r \in DOMAIN cbackToMethodIndex \ {ref} :
          cbackToMethodIndex'[r] = cbackToMethodIndex[r]
    BY <1>3 DEF With
  <2>4. \A r \in DOMAIN cbackToMethodIndex :
          /\ cbackToMethodIndex[r] \in DOMAIN luaCBackMethods
          /\ luaCBackMethods[cbackToMethodIndex[r]].ref = r /\ r \in Refs
    BY DEF TypeOK
  <2>5. ASSUME NEW r \in DOMAIN cbackToMethodIndex'
        PROVE  /\ r \in Refs /\ cbackToMethodIndex'[r] \in 1..new
               /\ luaCBackMethods'[cbackToMethodIndex'[r]].ref = r
    <3>1. CASE r = ref
      BY <1>3, <1>5, <2>2, <3>1
    <3>2. CASE r # ref
      <4>. DEFINE m == cbackToMethodIndex[r]
      <4>1. /\ cbackToMethodIndex'[r] = m /\ m \in DOMAIN luaCBackMethods
            /\ luaCBackMethods[m].ref = r /\ r \in Refs
        BY <2>1, <2>3, <2>4, <2>5, <3>2
      <4>. HIDE DEF m
      <4>2. luaCBackMethods'[m] = luaCBackMethods[m] /\ m \in 1..new
        BY <1>1, <1>5, <4>1
      <4>. QED
        BY <4>1, <4>2
    <3>. QED
      BY <3>1, <3>2
  <2>. QED
    BY <1>1, <2>5
<1>9. connections' \subseteq [signal : Signals, method : DOMAIN luaCBackMethods', copy : Nat]
  <2>1. connections \subseteq [signal : Signals, method : 1..new, copy : Nat]
    BY <1>5 DEF TypeOK
  <2>. QED
    BY <1>1, <1>2, <1>4, <2>1
<1>10. wanted' \in [Signals -> [LuaFunctions -> Nat]]
  BY <1>6 DEF TypeOK
<1>11. TypeOK'
  BY <1>1, <1>4, <1>6, <1>7, <1>8, <1>9, <1>10 DEF TypeOK, RegistryType
<1>12. MethodsHoldFunctions' /\ TypesFit'
  <2>1. ASSUME NEW m \in 1..new PROVE FunctionOf(m)' \in LuaFunctions
    BY <1>1 DEF RegistryInv, MethodsHoldFunctions
  <2>2. \A c \in connections : c.method \in DOMAIN luaCBackMethods
    BY DEF TypeOK
  <2>3. TypesFit'
    BY <1>1, <1>2, <2>2 DEF RegistryInv, TypesFit
  <2>. QED
    BY <1>1, <2>1, <2>3 DEF MethodsHoldFunctions
<1>13. TablesAreHeld'
  BY <1>3, <1>6 DEF RegistryInv, TablesAreHeld, TypeOK
<1>14. IsFiniteSet(connections')
  BY <1>2, FS_AddElement DEF RegistryInv
<1>15. SlotsHold
  BY <1>3, <1>13, MethodsTyped DEF SlotsHold, TablesAreHeld
<1>. QED
  BY <1>4, <1>11, <1>12, <1>13, <1>14, <1>15 DEF RegistryInv

\* qlua.disconnect changes no slot but that of the free list.
LEMMA DisconnectKeeps ==
  ASSUME TypeOK, RegistryInv, NEW s \in Signals, NEW f \in LuaFunctions, Disconnect(s, f)
  PROVE  /\ TypeOK' /\ RegistryInv' /\ SlotsHold
         /\ \A m \in DOMAIN luaCBackMethods : FunctionOf(m)' = FunctionOf(m)
<1>1. /\ luaCBackMethods' = luaCBackMethods /\ cbackToMethodIndex' = cbackToMethodIndex
      /\ objRefs' = objRefs /\ connections' \subseteq connections
      /\ wanted' = [wanted EXCEPT ![s][f] = 0] /\ discarded' = discarded \cup {f}
      /\ registry' = AfterUnrefs(s, f)
  BY DEF Disconnect
<1>2. /\ registry' \in RegistryType /\ FreeList'
      /\ \A i \in Refs : registry'[i] = registry[i]
  <2>1. CASE Matches(f) = {}
    BY <1>1, <2>1, MethodsTyped DEF AfterUnrefs, RegistryInv, FreeList
  <2>2. CASE Matches(f) # {}
    <3>1. registry' = [registry EXCEPT ![0] = 0]
      BY <1>1, <2>2, MethodsTyped DEF AfterUnrefs, AfterUnref, RegistryType
    <3>2. registry' \in RegistryType /\ \A i \in Refs : registry'[i] = registry[i]
      BY <3>1, MethodsTyped DEF RegistryType, Refs
    <3>3. FreeStack(registry', 0, NoSlots)
      BY <3>1, MethodsTyped DEF FreeStack, NoSlots, RegistryType
    <3>. QED
      BY <3>2, <3>3 DEF FreeList
  <2>. QED
    BY <2>1, <2>2
<1>3. /\ \A m \in DOMAIN luaCBackMethods : luaCBackMethods[m].ref \in Refs
      /\ \A o \in DOMAIN objRefs : objRefs[o] \in Refs
  BY MethodsTyped DEF TypeOK
<1>4. TypeOK'
  BY <1>1, <1>2 DEF TypeOK, RegistryType
<1>5. \A m \in DOMAIN luaCBackMethods : FunctionOf(m)' = FunctionOf(m)
  BY <1>1, <1>2, <1>3 DEF FunctionOf
<1>6. IsFiniteSet(connections')
  BY <1>1, FS_Subset DEF RegistryInv
<1>7. MethodsHoldFunctions' /\ TablesAreHeld' /\ TypesFit'
  BY <1>1, <1>2, <1>3, <1>5
     DEF RegistryInv, MethodsHoldFunctions, TablesAreHeld, TypesFit
<1>8. SlotsHold
  BY <1>1, <1>2, <1>3, <1>7 DEF SlotsHold, TablesAreHeld
<1>. QED
  BY <1>2, <1>4, <1>5, <1>6, <1>7, <1>8 DEF RegistryInv

\* Caching a table takes a slot of its own.
LEMMA CacheKeeps ==
  ASSUME TypeOK, RegistryInv, NEW o \in QObjects, CacheQObject(o)
  PROVE  /\ TypeOK' /\ RegistryInv' /\ SlotsHold
         /\ \A m \in DOMAIN luaCBackMethods : FunctionOf(m)' = FunctionOf(m)
<1>1. PICK ref \in NewRefs(registry) :
        registry' = AfterRef(registry, ref, o) /\ objRefs' = With(objRefs, o, ref)
  BY DEF CacheQObject
<1>2. /\ luaCBackMethods' = luaCBackMethods /\ cbackToMethodIndex' = cbackToMethodIndex
      /\ connections' = connections /\ wanted' = wanted /\ discarded' = discarded
  BY DEF CacheQObject
<1>3. /\ ref \in Refs /\ registry' \in RegistryType /\ FreeList' /\ registry'[ref] = o
      /\ \A i \in Refs \ {ref} : registry'[i] = registry[i]
      /\ \A m \in DOMAIN luaCBackMethods : luaCBackMethods[m].ref \in Refs \ {ref}
      /\ \A p \in DOMAIN objRefs : objRefs[p] \in Refs \ {ref}
  BY <1>1, RefIsNew, MethodsTyped DEF FreeList, TypeOK
<1>4. /\ DOMAIN objRefs' = DOMAIN objRefs \cup {o} /\ objRefs'[o] = ref
      /\ \A p \in DOMAIN objRefs \ {o} : objRefs'[p] = objRefs[p]
  BY <1>1 DEF With
<1>5. TypeOK'
  BY <1>2, <1>3, <1>4 DEF TypeOK, RegistryType
<1>6. \A m \in DOMAIN luaCBackMethods : FunctionOf(m)' = FunctionOf(m)
  BY <1>2, <1>3 DEF FunctionOf
<1>7. TablesAreHeld'
  BY <1>3, <1>4 DEF RegistryInv, TablesAreHeld
<1>8. MethodsHoldFunctions' /\ TypesFit'
  BY <1>2, <1>6 DEF RegistryInv, MethodsHoldFunctions, TypesFit
<1>9. SlotsHold
  BY <1>3, <1>7 DEF SlotsHold, TablesAreHeld
<1>. QED
  BY <1>2, <1>3, <1>5, <1>6, <1>7, <1>8, <1>9 DEF RegistryInv

\* The slot of a cached table is freed once: it is not free before.
LEMMA RemovalKeeps ==
  ASSUME TypeOK, RegistryInv, NEW o, ReferenceRemoved(o)
  PROVE  /\ registry' \in RegistryType /\ FreeList' /\ TablesAreHeld'
         /\ DOMAIN objRefs' = DOMAIN objRefs \ {o}
         /\ \A p \in DOMAIN objRefs \ {o} : objRefs'[p] = objRefs[p]
         /\ \A m \in DOMAIN luaCBackMethods :
              registry'[luaCBackMethods[m].ref] = registry[luaCBackMethods[m].ref]
<1>1. CASE o \notin DOMAIN objRefs
  BY <1>1, MethodsTyped DEF ReferenceRemoved, RegistryInv, FreeList, TablesAreHeld
<1>2. CASE o \in DOMAIN objRefs
  <2>. DEFINE ref == objRefs[o]
  <2>1. PICK n, L : FreeStack(registry, n, L)
    BY DEF RegistryInv, FreeList
  <2>2. registry' = AfterUnref(registry, ref) /\ objRefs' = Without(objRefs, o)
    BY <1>2 DEF ReferenceRemoved
  <2>3. ref \in Refs /\ registry[ref] = o /\ Contents(registry[ref]) /\ o \in QObjects
    BY <1>2, DispatcherAssumption DEF TypeOK, RegistryInv, TablesAreHeld, Contents
  <2>4. ~InStack(ref, n, L)
    BY <2>1, <2>3, FreeSlotsAreLinks
  <2>5. registry \in RegistryType /\ 0 \in Slots
    BY MethodsTyped
  <2>6. PICK V : registry \in [Slots -> V]
    BY <2>5 DEF RegistryType
  <2>7. ref \in Slots \ {0}
    BY <2>3 DEF Refs
  <2>. HIDE DEF ref
  <2>8. /\ \A i \in Slots \ {0, ref} : registry'[i] = registry[i]
        /\ registry'[0] = ref /\ registry'[ref] = registry[0]
        /\ registry[0] \in Slots \cup {Nil}
        /\ FreeStack(registry', n + 1, Pushed(n, L, ref))
    BY <2>1, <2>2, <2>4, <2>6, <2>7, UnrefFrees
  <2>9. registry' \in RegistryType
    <3>1. \A i \in Slots : registry'[i] \in LuaFunctions \cup QObjects \cup Slots \cup {Nil}
      BY <2>5, <2>7, <2>8 DEF RegistryType
    <3>. QED
      BY <2>2, <2>5, <3>1 DEF RegistryType, AfterUnref
  <2>10. /\ DOMAIN objRefs' = DOMAIN objRefs \ {o}
         /\ \A p \in DOMAIN objRefs \ {o} : objRefs'[p] = objRefs[p]
    BY <2>2 DEF Without
  <2>11. \A p \in DOMAIN objRefs \ {o} : objRefs[p] \in Refs \ {ref}
    BY <2>3 DEF TypeOK, RegistryInv, TablesAreHeld
  <2>12. TablesAreHeld'
    BY <2>8, <2>10, <2>11 DEF RegistryInv, TablesAreHeld, Refs
  <2>13. \A m \in DOMAIN luaCBackMethods : luaCBackMethods[m].ref \in Refs \ {ref}
    BY <2>3, MethodsTyped, DispatcherAssumption
       DEF RegistryInv, MethodsHoldFunctions, FunctionOf
  <2>. QED
    BY <2>8, <2>9, <2>10, <2>12, <2>13 DEF FreeList, Refs
<1>. QED
  BY <1>1, <1>2

\* Fewer connections, and what is left of the registry after a removal.
LEMMA FewerKeep ==
  ASSUME TypeOK, RegistryInv, NEW o,
         ReferenceRemoved(o) \/ UNCHANGED <<registry, objRefs>>,
         luaCBackMethods' = luaCBackMethods, cbackToMethodIndex' = cbackToMethodIndex,
         connections' \subseteq connections, discarded' \subseteq LuaFunctions,
         wanted' \in [Signals -> [LuaFunctions -> Nat]]
  PROVE  /\ TypeOK' /\ RegistryInv' /\ SlotsHold
         /\ \A m \in DOMAIN luaCBackMethods : FunctionOf(m)' = FunctionOf(m)
<1>1. /\ registry' \in RegistryType /\ FreeList' /\ TablesAreHeld'
      /\ DOMAIN objRefs' \subseteq DOMAIN objRefs
      /\ \A p \in DOMAIN objRefs' : objRefs'[p] = objRefs[p]
      /\ \A m \in DOMAIN luaCBackMethods :
           registry'[luaCBackMethods[m].ref] = registry[luaCBackMethods[m].ref]
  <2>1. CASE ReferenceRemoved(o)
    BY <2>1, RemovalKeeps
  <2>2. CASE UNCHANGED <<registry, objRefs>>
    BY <2>2, MethodsTyped DEF RegistryInv, FreeList, TablesAreHeld
  <2>. QED
    BY <2>1, <2>2
<1>2. TypeOK'
  BY <1>1 DEF TypeOK, RegistryType
<1>3. \A m \in DOMAIN luaCBackMethods : FunctionOf(m)' = FunctionOf(m)
  BY <1>1 DEF FunctionOf
<1>4. MethodsHoldFunctions' /\ TypesFit'
  BY <1>3 DEF RegistryInv, MethodsHoldFunctions, TypesFit
<1>5. IsFiniteSet(connections')
  BY FS_Subset DEF RegistryInv
<1>6. SlotsHold
  BY <1>1 DEF SlotsHold, TablesAreHeld
<1>. QED
  BY <1>1, <1>2, <1>3, <1>4, <1>5, <1>6 DEF RegistryInv

LEMMA Dropped ==
  ASSUME TypeOK, NEW signals, ConnectionsDropped(signals)
  PROVE  /\ connections' \subseteq connections /\ discarded' \subseteq LuaFunctions
         /\ wanted' \in [Signals -> [LuaFunctions -> Nat]]
BY DEF ConnectionsDropped, TypeOK

LEMMA RegistryInit == Init => TypeOK /\ RegistryInv
<1>. SUFFICES ASSUME Init PROVE TypeOK /\ RegistryInv
  OBVIOUS
<1>1. FreeList
  BY EmptyStack DEF Init, FreeList
<1>2. IsFiniteSet(connections)
  BY FS_EmptySet DEF Init
<1>3. Len(luaCBackMethods) = 0 /\ luaCBackMethods \in Seq(Method)
  BY EmptySeq DEF Init
<1>4. TypeOK
  BY <1>3, LuaRefsAssumption, DispatcherAssumption DEF Init, TypeOK, EmptyTable
<1>. QED
  BY <1>1, <1>2, <1>4
     DEF Init, RegistryInv, MethodsHoldFunctions, TablesAreHeld, TypesFit

LEMMA RegistryStep ==
  ASSUME TypeOK, RegistryInv, [Next]_vars
  PROVE  /\ TypeOK' /\ RegistryInv' /\ SlotsHold
<1>1. ASSUME NEW s \in Signals, NEW f \in LuaFunctions, Connect(s, f) \/ Disconnect(s, f)
      PROVE  TypeOK' /\ RegistryInv' /\ SlotsHold
  BY <1>1, ConnectKeeps, DisconnectKeeps
<1>2. ASSUME NEW o \in QObjects, CacheQObject(o) PROVE TypeOK' /\ RegistryInv' /\ SlotsHold
  BY <1>2, CacheKeeps
<1>3. ASSUME NEW o \in QObjects, RemoveObject(o) PROVE TypeOK' /\ RegistryInv' /\ SlotsHold
  <2>1. discarded' \subseteq LuaFunctions /\ wanted' \in [Signals -> [LuaFunctions -> Nat]]
    BY <1>3 DEF RemoveObject, TypeOK
  <2>. QED
    BY <1>3, <2>1, FewerKeep DEF RemoveObject
<1>4. CASE \/ \E s \in Signals : Destroyed(s)
           \/ UNCHANGED vars
  <2>1. /\ registry' = registry /\ objRefs' = objRefs
        /\ luaCBackMethods' = luaCBackMethods /\ cbackToMethodIndex' = cbackToMethodIndex
        /\ connections' \subseteq connections /\ discarded' \subseteq LuaFunctions
        /\ wanted' \in [Signals -> [LuaFunctions -> Nat]]
    BY <1>4, Dropped DEF Destroyed, vars, TypeOK
  <2>. QED
    BY <2>1, FewerKeep
<1>. QED
  BY <1>1, <1>2, <1>3, <1>4 DEF Next

(***************************************************************************)
(* Every variable keeps its type: the map from references to methods and   *)
(* the connections never name a method that is not there.                  *)
(***************************************************************************)
THEOREM TypeCorrect == Spec => []TypeOK
<1>1. TypeOK /\ RegistryInv /\ [Next]_vars => (TypeOK /\ RegistryInv)'
  BY RegistryStep
<1>. QED
  BY <1>1, RegistryInit, PTL DEF Spec

(***************************************************************************)
(* Whatever a signal is connected to finds a function where its reference  *)
(* points and converts the arguments by the types of this very signal.     *)
(***************************************************************************)
THEOREM SignalsInvokeFunctions == Spec => []InvokesAFunction
<1>1. TypeOK /\ RegistryInv /\ [Next]_vars => (TypeOK /\ RegistryInv)'
  BY RegistryStep
<1>2. TypeOK /\ RegistryInv => InvokesAFunction
  BY DEF TypeOK, RegistryInv, MethodsHoldFunctions, FunctionOf, TypesFit, InvokesAFunction
<1>. QED
  BY <1>1, <1>2, RegistryInit, PTL DEF Spec

(***************************************************************************)
(* No connect, disconnect or removal of an object changes what the         *)
(* reference of a method or of a cached table yields.                      *)
(***************************************************************************)
THEOREM SlotsAreOwn == Spec => ReferencesHold
<1>1. TypeOK /\ RegistryInv /\ [Next]_vars => (TypeOK /\ RegistryInv)'
  BY RegistryStep
<1>2. TypeOK /\ RegistryInv /\ [Next]_vars =>
        [/\ \A m \in DOMAIN luaCBackMethods :
              LET ref == luaCBackMethods[m].ref IN registry'[ref] = registry[ref]
         /\ \A o \in DOMAIN objRefs' : registry'[objRefs'[o]] = o]_vars
  BY RegistryStep DEF SlotsHold
<1>. QED
  BY <1>1, <1>2, RegistryInit, PTL DEF Spec, ReferencesHold

-----------------------------------------------------------------------------
(***************************************************************************)
(* What is called, if scripts use every function for one signal and once.  *)
(***************************************************************************)
CallSet(s, f) == {c \in connections : c.signal = s /\ FunctionOf(c.method) = f}

IsOn(m) == \E c \in connections : c.method = m

\* All methods of a function are connected, to one signal, or none is, and
\* then the function is no more in use.
AllOn(f) ==
  \E s \in Signals : \A m \in Matches(f) : IsOn(m) /\ luaCBackMethods[m].types = s

AllOff(f) ==
  /\ \A m \in Matches(f) : ~IsOn(m)
  /\ Matches(f) # {} => f \in discarded

FreshInv ==
  /\ CalledAsOftenAsConnected
  /\ \A f \in LuaFunctions : AllOn(f) \/ AllOff(f)

CallsFact ==
  RegistryInv => \A s, f :
    /\ IsFiniteSet(CallSet(s, f)) /\ Calls(s, f) = Cardinality(CallSet(s, f))
    /\ Calls(s, f) = 0 <=> CallSet(s, f) = {}

LEMMA CallsAre == CallsFact
<1>. SUFFICES ASSUME RegistryInv, NEW s, NEW f
              PROVE  /\ IsFiniteSet(CallSet(s, f)) /\ Calls(s, f) = Cardinality(CallSet(s, f))
                     /\ Calls(s, f) = 0 <=> CallSet(s, f) = {}
  BY DEF CallsFact
<1>1. IsFiniteSet(CallSet(s, f))
  BY FS_Subset DEF RegistryInv, CallSet
<1>2. Calls(s, f) = Cardinality(CallSet(s, f))
  BY DEF Calls, CallSet, FunctionOf
<1>. QED
  BY <1>1, <1>2, FS_EmptySet

\* A function that is connected to a signal is wanted by that one only.
LEMMA OnIsWanted ==
  ASSUME TypeOK, RegistryInv, FreshInv,
         NEW f \in LuaFunctions, NEW m \in Matches(f), IsOn(m)
  PROVE  /\ luaCBackMethods[m].types \in Signals
         /\ wanted[luaCBackMethods[m].types][f] # 0
         /\ CallSet(luaCBackMethods[m].types, f) # {}
<1>1. PICK c \in connections : c.method = m
  BY DEF IsOn
<1>2. c.signal = luaCBackMethods[m].types /\ c.signal \in Signals
  BY <1>1 DEF RegistryInv, TypesFit, TypeOK
<1>3. FunctionOf(m) = f
  BY DEF Matches, FunctionOf
<1>4. c \in CallSet(c.signal, f)
  BY <1>1, <1>3 DEF CallSet
<1>. QED
  BY <1>2, <1>4, CallsAre DEF CallsFact, FreshInv, CalledAsOftenAsConnected

LEMMA MatchesAre == \A f : Matches(f) = {m \in DOMAIN luaCBackMethods : FunctionOf(m) = f}
BY DEF Matches, FunctionOf

LEMMA ConnectFresh ==
  ASSUME Fresh, TypeOK, RegistryInv, FreshInv,
         NEW s \in Signals, NEW f \in LuaFunctions, Connect(s, f)
  PROVE  FreshInv'
<1>. PICK new : IsNext(new)
  BY DEF IsNext
<1>1. /\ DOMAIN luaCBackMethods' = 1..new /\ new \in 1..new
      /\ new \notin DOMAIN luaCBackMethods
      /\ DOMAIN luaCBackMethods \subseteq 1..new
      /\ \A m \in 1..new : m # new => m \in DOMAIN luaCBackMethods
      /\ luaCBackMethods'[new].types = s /\ FunctionOf(new)' = f
      /\ \A m \in DOMAIN luaCBackMethods :
           /\ luaCBackMethods'[m] = luaCBackMethods[m]
           /\ FunctionOf(m)' = FunctionOf(m)
  BY ConnectAdds, MethodsTyped DEF IsNext
<1>2. PICK c : /\ c = Connection(s, new) /\ c.signal = s /\ c.method = new
               /\ connections' = connections \cup {c}
  BY ConnectAdds
<1>3. \A d \in connections : d.method \in DOMAIN luaCBackMethods /\ d # c
  BY <1>1, <1>2 DEF TypeOK
<1>4. /\ wanted' = [wanted EXCEPT ![s][f] = @ + 1] /\ discarded' = discarded
      /\ f \notin discarded /\ \A t \in Signals \ {s} : wanted[t][f] = 0
  BY DEF Connect
<1>5. RegistryInv' /\ CallsFact /\ CallsFact'
  BY ConnectKeeps, CallsAre, PTL
<1>6. CalledAsOftenAsConnected'
  <2>. SUFFICES ASSUME NEW t \in Signals, NEW g \in LuaFunctions
                PROVE  Calls(t, g)' = wanted'[t][g]
    BY DEF CalledAsOftenAsConnected
  <2>1. Calls(t, g) = wanted[t][g]
    BY DEF FreshInv, CalledAsOftenAsConnected
  <2>2. CASE t = s /\ g = f
    <3>1. CallSet(s, f)' = CallSet(s, f) \cup {c} /\ c \notin CallSet(s, f)
      BY <1>1, <1>2, <1>3 DEF CallSet
    <3>2. Cardinality(CallSet(s, f)') = Cardinality(CallSet(s, f)) + 1
      BY <1>5, <3>1, FS_AddElement DEF CallsFact
    <3>3. wanted'[s][f] = wanted[s][f] + 1
      BY <1>4 DEF TypeOK
    <3>. QED
      BY <1>5, <2>1, <2>2, <3>2, <3>3 DEF CallsFact
  <2>3. CASE ~(t = s /\ g = f)
    <3>1. CallSet(t, g)' = CallSet(t, g)
      BY <1>1, <1>2, <1>3, <2>3 DEF CallSet
    <3>2. wanted'[t][g] = wanted[t][g]
      BY <1>4, <2>3 DEF TypeOK
    <3>. QED
      BY <1>5, <2>1, <3>1, <3>2 DEF CallsFact
  <2>. QED
    BY <2>2, <2>3
<1>7. /\ \A m \in DOMAIN luaCBackMethods : IsOn(m)' <=> IsOn(m)
      /\ IsOn(new)'
  BY <1>1, <1>2, <1>3 DEF IsOn
<1>8. \A g : Matches(g)' = IF g = f THEN Matches(g) \cup {new} ELSE Matches(g)
  <2>1. \A g : Matches(g)' = {m \in 1..new : FunctionOf(m)' = g}
    BY <1>1 DEF Matches, FunctionOf
  <2>. QED
    BY <1>1, <2>1, MatchesAre
<1>9. ASSUME NEW g \in LuaFunctions PROVE (AllOn(g) \/ AllOff(g))'
  <2>1. Matches(g) \subseteq DOMAIN luaCBackMethods
    BY DEF Matches
  <2>2. AllOn(g) \/ AllOff(g)
    BY DEF FreshInv
  <2>3. CASE g # f
    BY <1>1, <1>4, <1>7, <1>8, <2>1, <2>2, <2>3 DEF AllOn, AllOff
  <2>4. CASE g = f
    <3>1. AllOn(f)
      BY <1>4, <2>2, <2>4 DEF AllOff, AllOn
    <3>2. \A m \in Matches(f) : IsOn(m) /\ luaCBackMethods[m].types = s
      BY <1>4, <3>1, OnIsWanted DEF AllOn
    <3>3. \A m \in Matches(f)' : IsOn(m)' /\ luaCBackMethods'[m].types = s
      BY <1>1, <1>7, <1>8, <2>1, <2>4, <3>2
    <3>. QED
      BY <2>4, <3>3 DEF AllOn
  <2>. QED
    BY <2>3, <2>4
<1>. QED
  BY <1>6, <1>9 DEF FreshInv

\* A step after which signals no longer call functions, those of the pairs in
\* `gone`, and nothing else about calls changes.
Drops(gone) ==
  /\ luaCBackMethods' = luaCBackMethods
  /\ \A m \in DOMAIN luaCBackMethods : FunctionOf(m)' = FunctionOf(m)
  /\ connections' = {c \in connections : <<c.signal, FunctionOf(c.method)>> \notin gone}
  /\ \A s \in Signals, f \in LuaFunctions :
       wanted'[s][f] = IF <<s, f>> \in gone THEN 0 ELSE wanted[s][f]
  /\ discarded \subseteq discarded'
  /\ \A s \in Signals, f \in LuaFunctions :
       <<s, f>> \in gone /\ wanted[s][f] # 0 => f \in discarded'

LEMMA DropsFresh ==
  ASSUME TypeOK, RegistryInv, FreshInv, RegistryInv', NEW gone, Drops(gone)
  PROVE  FreshInv'
<1>1. \A c \in connections : c.method \in DOMAIN luaCBackMethods /\ c.signal \in Signals
  BY DEF TypeOK
<1>2. CallsFact /\ CallsFact'
  BY CallsAre, PTL
<1>3. CalledAsOftenAsConnected'
  <2>. SUFFICES ASSUME NEW s \in Signals, NEW f \in LuaFunctions
                PROVE  Calls(s, f)' = wanted'[s][f]
    BY DEF CalledAsOftenAsConnected
  <2>1. CallSet(s, f)' = IF <<s, f>> \in gone THEN {} ELSE CallSet(s, f)
    BY <1>1 DEF CallSet, Drops
  <2>2. Calls(s, f) = wanted[s][f]
    BY DEF FreshInv, CalledAsOftenAsConnected
  <2>3. wanted'[s][f] = IF <<s, f>> \in gone THEN 0 ELSE wanted[s][f]
    BY DEF Drops
  <2>. QED
    BY <1>2, <2>1, <2>2, <2>3 DEF CallsFact
<1>4. ASSUME NEW f \in LuaFunctions PROVE (AllOn(f) \/ AllOff(f))'
  <2>1. Matches(f)' = Matches(f) /\ \A m \in Matches(f) : FunctionOf(m) = f
    BY DEF Drops, Matches, FunctionOf
  <2>2. luaCBackMethods' = luaCBackMethods /\ discarded \subseteq discarded'
    BY DEF Drops
  <2>3. \A m : IsOn(m)' => IsOn(m)
    BY DEF IsOn, Drops
  <2>4. CASE AllOff(f)
    BY <2>1, <2>2, <2>3, <2>4 DEF AllOff
  <2>5. CASE AllOn(f) /\ Matches(f) # {}
    <3>1. PICK s \in Signals : \A m \in Matches(f) : IsOn(m) /\ luaCBackMethods[m].types = s
      BY <2>5 DEF AllOn
    <3>2. \A c \in connections : c.method \in Matches(f) => c.signal = s
      BY <3>1 DEF RegistryInv, TypesFit
    <3>3. CASE <<s, f>> \in gone
      <4>1. \A m \in Matches(f) : ~IsOn(m)'
        BY <2>1, <3>2, <3>3 DEF IsOn, Drops
      <4>2. wanted[s][f] # 0
        BY <2>5, <3>1, OnIsWanted
      <4>. QED
        BY <2>1, <3>3, <4>1, <4>2 DEF AllOff, Drops
    <3>4. CASE <<s, f>> \notin gone
      <4>1. \A m \in Matches(f) : IsOn(m)'
        BY <2>1, <3>1, <3>2, <3>4 DEF IsOn, Drops
      <4>. QED
        BY <2>1, <2>2, <3>1, <4>1 DEF AllOn
    <3>. QED
      BY <3>3, <3>4
  <2>6. CASE Matches(f) = {}
    BY <2>1, <2>6 DEF AllOff
  <2>. QED
    BY <2>4, <2>5, <2>6 DEF FreshInv
<1>. QED
  BY <1>3, <1>4 DEF FreshInv

LEMMA DisconnectFresh ==
  ASSUME TypeOK, RegistryInv, FreshInv,
         NEW s \in Signals, NEW f \in LuaFunctions, Disconnect(s, f)
  PROVE  FreshInv'
<1>1. RegistryInv' /\ \A m \in DOMAIN luaCBackMethods : FunctionOf(m)' = FunctionOf(m)
  BY DisconnectKeeps
<1>2. /\ connections' =
           {c \in connections : ~(c.signal = s /\ c.method \in Disconnected(s, f))}
      /\ wanted' = [wanted EXCEPT ![s][f] = 0] /\ discarded' = discarded \cup {f}
      /\ luaCBackMethods' = luaCBackMethods
  BY DEF Disconnect
\* The methods of f are all connected to this signal, or none of them is.
<1>3. ASSUME NEW c \in connections, c.signal = s
      PROVE  c.method \in Disconnected(s, f) <=> FunctionOf(c.method) = f
  <2>1. c.method \in DOMAIN luaCBackMethods /\ luaCBackMethods[c.method].types = s
    BY <1>3 DEF TypeOK, RegistryInv, TypesFit
  <2>2. c.method \in Disconnected(s, f) => FunctionOf(c.method) = f
    BY DEF Disconnected, Matches, FunctionOf
  <2>3. ASSUME FunctionOf(c.method) = f PROVE c.method \in Disconnected(s, f)
    <3>1. c.method \in Matches(f) /\ IsOn(c.method)
      BY <2>1, <2>3, MatchesAre DEF IsOn
    <3>2. AllOn(f)
      BY <3>1 DEF FreshInv, AllOff
    <3>3. \A m \in Matches(f) : IsOn(m) /\ luaCBackMethods[m].types = s
      BY <2>1, <3>1, <3>2 DEF AllOn
    <3>4. \A m \in Matches(f) : IsConnected(s, m)
      BY <3>3 DEF IsOn, IsConnected, Copies, RegistryInv, TypesFit
    <3>. QED
      BY <3>1, <3>4 DEF Disconnected
  <2>. QED
    BY <2>2, <2>3
<1>4. connections' = {c \in connections : <<c.signal, FunctionOf(c.method)>> \notin {<<s, f>>}}
  BY <1>2, <1>3
<1>5. \A t \in Signals, g \in LuaFunctions :
        wanted'[t][g] = IF <<t, g>> \in {<<s, f>>} THEN 0 ELSE wanted[t][g]
  BY <1>2 DEF TypeOK
<1>6. Drops({<<s, f>>})
  BY <1>1, <1>2, <1>4, <1>5 DEF Drops
<1>. QED
  BY <1>1, <1>6, DropsFresh

LEMMA DroppedFresh ==
  ASSUME TypeOK, RegistryInv, FreshInv, RegistryInv', NEW signals,
         ConnectionsDropped(signals), luaCBackMethods' = luaCBackMethods,
         \A m \in DOMAIN luaCBackMethods : FunctionOf(m)' = FunctionOf(m)
  PROVE  FreshInv'
<1>. DEFINE gone == signals \X LuaFunctions
<1>1. \A c \in connections :
        <<c.signal, FunctionOf(c.method)>> \in gone <=> c.signal \in signals
  BY DEF RegistryInv, MethodsHoldFunctions, TypeOK
<1>2. connections' = {c \in connections : <<c.signal, FunctionOf(c.method)>> \notin gone}
  BY <1>1 DEF ConnectionsDropped
<1>3. \A s \in Signals, f \in LuaFunctions :
        wanted'[s][f] = IF <<s, f>> \in gone THEN 0 ELSE wanted[s][f]
  BY DEF ConnectionsDropped
<1>4. \A s \in Signals, f \in LuaFunctions :
        <<s, f>> \in gone /\ wanted[s][f] # 0 => f \in discarded'
  BY DEF ConnectionsDropped, TypeOK
<1>5. Drops(gone)
  BY <1>2, <1>3, <1>4 DEF Drops, ConnectionsDropped
<1>. QED
  BY <1>5, DropsFresh

LEMMA FreshStep ==
  ASSUME Fresh, TypeOK, RegistryInv, FreshInv, [Next]_vars
  PROVE  FreshInv'
<1>1. RegistryInv'
  BY RegistryStep
<1>2. ASSUME NEW s \in Signals, NEW f \in LuaFunctions, Connect(s, f) \/ Disconnect(s, f)
      PROVE  FreshInv'
  BY <1>2, ConnectFresh, DisconnectFresh
<1>3. ASSUME luaCBackMethods' = luaCBackMethods, connections' = connections,
             wanted' = wanted, discarded' = discarded,
             \A m \in DOMAIN luaCBackMethods : FunctionOf(m)' = FunctionOf(m)
      PROVE  FreshInv'
  <2>1. Drops({})
    BY <1>3 DEF Drops
  <2>. QED
    BY <1>1, <2>1, DropsFresh
<1>4. ASSUME NEW o \in QObjects, CacheQObject(o) PROVE FreshInv'
  BY <1>3, <1>4, CacheKeeps DEF CacheQObject
<1>5. ASSUME NEW o \in QObjects, RemoveObject(o) PROVE FreshInv'
  <2>1. \A m \in DOMAIN luaCBackMethods : FunctionOf(m)' = FunctionOf(m)
    BY <1>5, RemovalKeeps DEF RemoveObject, FunctionOf
  <2>. QED
    BY <1>3, <1>5, <2>1 DEF RemoveObject
<1>6. ASSUME NEW s \in Signals, Destroyed(s) PROVE FreshInv'
  BY <1>1, <1>6, DroppedFresh DEF Destroyed, FunctionOf
<1>7. CASE UNCHANGED vars
  BY <1>3, <1>7 DEF vars, FunctionOf
<1>. QED
  BY <1>2, <1>4, <1>5, <1>6, <1>7 DEF Next

LEMMA FreshStart == Init => FreshInv
<1>. SUFFICES ASSUME Init PROVE FreshInv
  OBVIOUS
<1>1. \A s, f : Calls(s, f) = 0
  BY RegistryInit, CallsAre DEF Init, CallSet, CallsFact
<1>2. \A f : Matches(f) = {}
  BY DEF Init, Matches
<1>. QED
  BY <1>1, <1>2 DEF Init, FreshInv, CalledAsOftenAsConnected, AllOff

(***************************************************************************)
(* A signal calls a function as often as scripts connected it since they   *)
(* last disconnected it, if they connect a function to one signal only and *)
(* never again once they have disconnected it.  Without that it does not   *)
(* hold, which the run signals_disconnect shows.                           *)
(***************************************************************************)
THEOREM FreshFunctionsAreCalled == Fresh => (Spec => []CalledAsOftenAsConnected)
<1>. SUFFICES ASSUME Fresh PROVE Spec => []CalledAsOftenAsConnected
  OBVIOUS
<1>1. Init => TypeOK /\ RegistryInv /\ FreshInv
  BY RegistryInit, FreshStart
<1>2. TypeOK /\ RegistryInv /\ FreshInv /\ [Next]_vars => (TypeOK /\ RegistryInv /\ FreshInv)'
  BY RegistryStep, FreshStep
<1>3. FreshInv => CalledAsOftenAsConnected
  BY DEF FreshInv
<1>. QED
  BY <1>1, <1>2, <1>3, PTL DEF Spec
=============================================================================
