-------------------------- MODULE QluaObjects_proof --------------------------
(***************************************************************************)
(* Proofs about QObjects in Lua, for any number of objects, signals,       *)
(* tables and registry slots.  Types and owners are right whatever the     *)
(* program hands to Lua; that tables have their methods holds for programs *)
(* that keep to one table of an object (OneTable), and without that it     *)
(* does not, which the run qlua_tables shows.                              *)
(***************************************************************************)
EXTENDS QluaObjects, LuaCallbackDispatcher_proof

\* A table that a step neither makes, nor removes, nor makes anybody else's.
Kept(t) ==
  /\ table'[t] = Nil <=> table[t] = Nil
  /\ table[t] # Nil =>
       /\ table'[t].obj = table[t].obj /\ table'[t].mode = table[t].mode
       /\ table'[t].cached = table[t].cached /\ table'[t].methods = table[t].methods

TablesTyped == table \in [Tables -> TableType \cup {Nil}]

\* AddQObject gives out the table that is cached ...
Reuses(o) ==
  /\ o \in DOMAIN objRefs
  /\ \A t \in Tables : Kept(t)
  /\ \A t \in Tables : table[t] # Nil => (Reachable(t)' <=> Reachable(t))
  /\ UNCHANGED <<vars, objMethods>>

\* ... or makes one.
MakesTable(o, cache, deleteMode, t) ==
  /\ o \notin DOMAIN objRefs
  /\ table[t] = Nil /\ table'[t] = NewTable(o, cache, deleteMode)
  /\ \A u \in Tables \ {t} : table'[u] = table[u]
  /\ objMethods' = objMethods \cup {o}
  /\ IF cache THEN CacheQObject(o) ELSE UNCHANGED vars

LEMMA NewTableTyped ==
  ASSUME NEW o \in QObjects, NEW cache \in BOOLEAN, NEW deleteMode \in Modes
  PROVE  NewTable(o, cache, deleteMode) \in TableType /\ NewTable(o, cache, deleteMode) # Nil
<1>1. PICK methods \in {"Valid", "Dangling", "Missing"} :
        methods = IF o \in objMethods THEN "Missing" ELSE "Valid"
  BY Zenon
<1>2. NewTable(o, cache, deleteMode) =
        [obj |-> o, mode |-> deleteMode, cached |-> cache, held |-> TRUE, methods |-> methods]
  BY <1>1 DEF NewTable
<1>3. NewTable(o, cache, deleteMode) \in TableType
  BY <1>2 DEF TableType
<1>. QED
  BY <1>3, TableAssumption

LEMMA AddCases ==
  ASSUME TablesTyped, NEW o \in QObjects, NEW cache \in BOOLEAN, NEW deleteMode \in Modes,
         AddQObject(o, cache, deleteMode)
  PROVE  /\ TablesTyped'
         /\ ~closing /\ o \in alive \ doomed
         /\ alive' = alive /\ doomed' = doomed /\ closing' = closing
         /\ Reuses(o) \/ \E t \in Tables : MakesTable(o, cache, deleteMode, t)
<1>1. /\ ~closing /\ o \in alive \ doomed
      /\ alive' = alive /\ doomed' = doomed /\ closing' = closing
  BY DEF AddQObject
<1>2. CASE o \in DOMAIN objRefs
  <2>1. /\ table' = [t \in Tables |-> IF t \in TablesOf(o) /\ table[t].cached
                                      THEN [table[t] EXCEPT !.held = TRUE]
                                      ELSE table[t]]
        /\ UNCHANGED <<vars, objMethods>>
    BY <1>2 DEF AddQObject
  <2>2. ASSUME NEW t \in Tables
        PROVE  /\ table'[t] \in TableType \cup {Nil} /\ Kept(t)
               /\ table[t] # Nil => (Reachable(t)' <=> Reachable(t))
    <3>1. CASE t \in TablesOf(o) /\ table[t].cached
      <4>1. table[t] \in TableType /\ table'[t] = [table[t] EXCEPT !.held = TRUE]
        BY <2>1, <3>1 DEF TablesTyped, TablesOf
      <4>2. /\ table'[t] \in TableType
            /\ table'[t].obj = table[t].obj /\ table'[t].mode = table[t].mode
            /\ table'[t].cached = table[t].cached /\ table'[t].methods = table[t].methods
        BY <4>1 DEF TableType
      <4>. QED
        BY <3>1, <4>1, <4>2, TableAssumption DEF Kept, Reachable
    <3>2. CASE ~(t \in TablesOf(o) /\ table[t].cached)
      <4>1. table'[t] = table[t]
        BY <2>1, <3>2
      <4>. QED
        BY <4>1 DEF TablesTyped, Kept, Reachable
    <3>. QED
      BY <3>1, <3>2
  <2>3. TablesTyped'
    BY <2>1, <2>2 DEF TablesTyped
  <2>. QED
    BY <1>1, <1>2, <2>1, <2>2, <2>3 DEF Reuses
<1>3. CASE o \notin DOMAIN objRefs
  <2>1. /\ \E t \in Tables : table[t] = Nil
        /\ table' = [table EXCEPT ![Unused] = NewTable(o, cache, deleteMode)]
        /\ objMethods' = objMethods \cup {o}
        /\ IF cache THEN CacheQObject(o) ELSE UNCHANGED vars
    BY <1>3 DEF AddQObject
  <2>2. Unused \in Tables /\ table[Unused] = Nil
    BY <2>1 DEF Unused
  <2>3. TablesTyped' /\ MakesTable(o, cache, deleteMode, Unused)
    BY <1>3, <2>1, <2>2, NewTableTyped DEF TablesTyped, MakesTable
  <2>. QED
    BY <1>1, <2>2, <2>3
<1>. QED
  BY <1>2, <1>3

\* What DeleteObject does to the tables.
LEMMA RemoveCases ==
  ASSUME TablesTyped, NEW t \in Tables, table[t] # Nil, NEW o, o = table[t].obj,
         table' = RemoveTable(o, t)
  PROVE  /\ TablesTyped' /\ table'[t] = Nil
         /\ \A u \in Tables : table[u] = Nil => table'[u] = Nil
         /\ \A u \in Tables \ {t} : table[u] # Nil =>
              /\ table'[u] # Nil
              /\ table'[u].obj = table[u].obj /\ table'[u].mode = table[u].mode
              /\ table[u].obj = o => ~table'[u].cached
              /\ table[u].obj # o => table'[u] = table[u]
<1>1. table'[t] = Nil
  BY DEF RemoveTable
<1>2. ASSUME NEW u \in Tables \ {t}, u \notin TablesOf(o) PROVE table'[u] = table[u]
  BY <1>2 DEF RemoveTable
<1>3. ASSUME NEW u \in Tables \ {t}, u \in TablesOf(o)
      PROVE  /\ table'[u] \in TableType
             /\ table'[u].obj = table[u].obj /\ table'[u].mode = table[u].mode
             /\ ~table'[u].cached
  <2>1. table[u] \in TableType
    BY <1>3 DEF TablesTyped, TablesOf
  <2>2. table'[u] = [table[u] EXCEPT !.cached = FALSE,
                                    !.methods = IF @ = "Valid" THEN "Dangling" ELSE @]
    BY <1>3 DEF RemoveTable
  <2>. QED
    BY <2>1, <2>2 DEF TableType
<1>4. TablesTyped'
  <2>1. \A u \in Tables : table'[u] \in TableType \cup {Nil}
    BY <1>1, <1>2, <1>3 DEF TablesTyped
  <2>. QED
    BY <2>1 DEF TablesTyped, RemoveTable
<1>. QED
  BY <1>1, <1>2, <1>3, <1>4, TableAssumption DEF TablesOf

-----------------------------------------------------------------------------
\* The operations one by one.
LEMMA ObjectsCases ==
  ASSUME ObjectsNext
  PROVE  \/ \E o \in QObjects, cache \in BOOLEAN, mode \in Modes : Expose(o, cache, mode)
         \/ \E o \in QObjects, t \in Tables, own \in BOOLEAN : ReturnQObject(t, o, own)
         \/ \E o \in QObjects, s \in Signals : Invoke(s, o)
         \/ \E o \in QObjects : ProcessEvents(o) \/ CppDelete(o) \/ NewQObject(o)
         \/ \E t \in Tables : Forget(t)
         \/ \E t \in Tables : Finalize(t)
         \/ \E s \in Signals, f \in LuaFunctions : QtConnect(s, f) \/ QtDisconnect(s, f)
         \/ Close
BY DEF ObjectsNext

(***************************************************************************)
(* The callbacks: what LuaCallbackDispatcher promises holds in its company.*)
(***************************************************************************)
LEMMA DispatcherStep ==
  ASSUME TypeOK, RegistryInv, TablesTyped, [ObjectsNext]_allVars
  PROVE  /\ TypeOK' /\ RegistryInv' /\ SlotsHold
         /\ Fresh /\ FreshInv => FreshInv'
<1>. DEFINE Goal == /\ TypeOK' /\ RegistryInv' /\ SlotsHold
                    /\ Fresh /\ FreshInv => FreshInv'
<1>1. ASSUME UNCHANGED vars PROVE Goal
  BY <1>1, RegistryStep, FreshStep
<1>2. ASSUME NEW o \in QObjects, NEW cache \in BOOLEAN, NEW mode \in Modes,
             AddQObject(o, cache, mode)
      PROVE  Goal
  <2>1. CASE CacheQObject(o)
    <3>1. Next
      BY <2>1 DEF Next
    <3>. QED
      BY <3>1, RegistryStep, FreshStep
  <2>. QED
    BY <1>1, <1>2, <2>1, AddCases DEF Reuses, MakesTable
<1>3. ASSUME NEW t \in Tables, Finalize(t) PROVE Goal
  <2>. DEFINE o == table[t].obj
              mode == table[t].mode
  <2>1. /\ ReferenceRemoved(o)
        /\ ConnectionsDropped(SignalsOf(o)) \/ UNCHANGED <<connections, wanted, discarded>>
        /\ luaCBackMethods' = luaCBackMethods /\ cbackToMethodIndex' = cbackToMethodIndex
    BY <1>3 DEF Finalize, DeleteObject
  <2>. HIDE DEF o
  <2>2. /\ connections' \subseteq connections /\ discarded' \subseteq LuaFunctions
        /\ wanted' \in [Signals -> [LuaFunctions -> Nat]]
    BY <2>1, Dropped DEF TypeOK
  <2>3. /\ TypeOK' /\ RegistryInv' /\ SlotsHold
        /\ \A m \in DOMAIN luaCBackMethods : FunctionOf(m)' = FunctionOf(m)
    BY <2>1, <2>2, FewerKeep
  <2>4. ASSUME FreshInv, ConnectionsDropped(SignalsOf(o)) PROVE FreshInv'
    BY <2>1, <2>3, <2>4, DroppedFresh
  <2>5. ASSUME FreshInv, UNCHANGED <<connections, wanted, discarded>> PROVE FreshInv'
    <3>1. Drops({})
      BY <2>1, <2>3, <2>5 DEF Drops
    <3>. QED
      BY <2>3, <2>5, <3>1, DropsFresh
  <2>. QED
    BY <2>1, <2>3, <2>4, <2>5
<1>4. ASSUME NEW o \in QObjects, Dies(o) PROVE Goal
  <2>1. /\ UNCHANGED <<registry, objRefs>> /\ ConnectionsDropped(SignalsOf(o))
        /\ luaCBackMethods' = luaCBackMethods /\ cbackToMethodIndex' = cbackToMethodIndex
    BY <1>4 DEF Dies
  <2>2. /\ connections' \subseteq connections /\ discarded' \subseteq LuaFunctions
        /\ wanted' \in [Signals -> [LuaFunctions -> Nat]]
    BY <2>1, Dropped
  <2>3. /\ TypeOK' /\ RegistryInv' /\ SlotsHold
        /\ \A m \in DOMAIN luaCBackMethods : FunctionOf(m)' = FunctionOf(m)
    BY <2>1, <2>2, FewerKeep
  <2>. QED
    BY <2>1, <2>3, DroppedFresh
<1>5. ASSUME NEW s \in Signals, NEW f \in LuaFunctions, Connect(s, f) \/ Disconnect(s, f)
      PROVE  Goal
  <2>1. Next
    BY <1>5 DEF Next
  <2>. QED
    BY <2>1, RegistryStep, FreshStep
<1>6. CASE UNCHANGED allVars
  BY <1>1, <1>6 DEF allVars
<1>7. CASE ObjectsNext
  <2>1. ASSUME NEW o \in QObjects, NEW cache \in BOOLEAN, NEW mode \in Modes,
               Expose(o, cache, mode)
        PROVE  Goal
    BY <1>2, <2>1 DEF Expose
  <2>2. ASSUME NEW o \in QObjects, NEW t \in Tables, NEW own \in BOOLEAN,
               ReturnQObject(t, o, own)
        PROVE  Goal
    BY <1>2, <2>2 DEF ReturnQObject, Modes
  <2>3. ASSUME NEW o \in QObjects, NEW s \in Signals, Invoke(s, o) PROVE Goal
    BY <1>2, <2>3 DEF Invoke, Modes
  <2>4. ASSUME NEW o \in QObjects, ProcessEvents(o) \/ CppDelete(o) \/ NewQObject(o)
        PROVE  Goal
    BY <1>1, <1>4, <2>4 DEF ProcessEvents, CppDelete, NewQObject
  <2>5. ASSUME NEW t \in Tables, Forget(t) PROVE Goal
    BY <1>1, <2>5 DEF Forget
  <2>6. ASSUME NEW s \in Signals, NEW f \in LuaFunctions,
               QtConnect(s, f) \/ QtDisconnect(s, f)
        PROVE  Goal
    BY <1>5, <2>6 DEF QtConnect, QtDisconnect
  <2>7. ASSUME Close PROVE Goal
    BY <1>1, <2>7 DEF Close
  <2>. HIDE DEF Goal
  <2>8. Goal
    BY <1>3, <1>7, <2>1, <2>2, <2>3, <2>4, <2>5, <2>6, <2>7, ObjectsCases
  <2>. QED
    BY <2>8 DEF Goal
<1>. QED
  BY <1>6, <1>7

-----------------------------------------------------------------------------
(***************************************************************************)
(* Tables and owners.                                                      *)
(***************************************************************************)
\* The registry refers to the one cached table of an object.
CachedInv ==
  \A o \in QObjects :
    /\ o \in DOMAIN objRefs <=> \E t \in TablesOf(o) : table[t].cached
    /\ \A t, u \in TablesOf(o) : table[t].cached /\ table[u].cached => t = u

\* At most one table is to delete an object, and that one is Lua's.
OwnersInv ==
  \A o \in QObjects :
    /\ \A t, u \in Deleters(o) : t = u
    /\ Deleters(o) # {} => o \in alive \ doomed /\ owner[o] = "lua"
    /\ owner[o] = "cpp" => o \in alive \ doomed
    /\ o \in alive /\ owner[o] = "lua" => Deleters(o) # {} \/ o \in doomed

ObjectsTyped ==
  /\ doomed \subseteq alive /\ alive \subseteq QObjects
  /\ owner \in [QObjects -> {"cpp", "lua", "nobody"}]
  /\ objMethods \subseteq QObjects
  /\ TablesTyped
  /\ closing \in BOOLEAN
  /\ DOMAIN objRefs \subseteq QObjects

\* With one table of an object at a time.
OneTableInv ==
  /\ \A t, u \in Tables : table[t] # Nil /\ table[u] # Nil /\ table[t].obj = table[u].obj
                            => t = u
  /\ \A o \in QObjects : o \in objMethods <=> TablesOf(o) # {}
  /\ \A o \in doomed : TablesOf(o) = {}
  /\ \A t \in Tables : table[t] # Nil =>
       table[t].methods = "Valid" /\ (Reachable(t) => table[t].obj \in alive)

ObjectsInv ==
  /\ ObjectsTyped /\ CachedInv /\ OwnersInv
  /\ OneTable => OneTableInv

LEMMA KeptTables ==
  ASSUME \A t \in Tables : Kept(t)
  PROVE  \A o : TablesOf(o)' = TablesOf(o) /\ Deleters(o)' = Deleters(o)
BY DEF Kept, TablesOf, Deleters

\* Where the tables stay what they are.
LEMMA KeptInv ==
  ASSUME ObjectsInv, \A t \in Tables : Kept(t), TablesTyped', objRefs' = objRefs
  PROVE  /\ CachedInv'
         /\ alive' = alive /\ doomed' = doomed /\ owner' = owner => OwnersInv'
         /\ /\ OneTable
            /\ objMethods' = objMethods /\ doomed' \subseteq doomed
            /\ \A t \in Tables : /\ table[t] # Nil /\ Reachable(t)'
                                 => Reachable(t) /\ table[t].obj \in alive'
            => OneTableInv'
<1>1. \A o : TablesOf(o)' = TablesOf(o) /\ Deleters(o)' = Deleters(o)
  BY KeptTables
<1>2. CachedInv'
  BY <1>1 DEF ObjectsInv, CachedInv, Kept, TablesOf
<1>3. ASSUME alive' = alive, doomed' = doomed, owner' = owner PROVE OwnersInv'
  BY <1>1, <1>3 DEF ObjectsInv, OwnersInv
<1>4. ASSUME OneTable, objMethods' = objMethods, doomed' \subseteq doomed,
             \A t \in Tables : table[t] # Nil /\ Reachable(t)' =>
                                 Reachable(t) /\ table[t].obj \in alive'
      PROVE  OneTableInv'
  BY <1>1, <1>4 DEF ObjectsInv, OneTableInv, Kept
<1>. QED
  BY <1>2, <1>3, <1>4

LEMMA ReusesKeeps ==
  ASSUME ObjectsInv, NEW o \in QObjects, Reuses(o), TablesTyped',
         alive' = alive, doomed' = doomed, owner' = owner, closing' = closing
  PROVE  ObjectsInv'
<1>1. /\ \A t \in Tables : Kept(t)
      /\ \A t \in Tables : table[t] # Nil => (Reachable(t)' <=> Reachable(t))
      /\ objRefs' = objRefs /\ objMethods' = objMethods
  BY DEF Reuses, vars
<1>2. ObjectsTyped'
  BY <1>1 DEF ObjectsInv, ObjectsTyped
<1>3. OneTable => OneTableInv'
  <2>1. OneTable => \A t \in Tables : table[t] # Nil /\ Reachable(t)' =>
                                        Reachable(t) /\ table[t].obj \in alive'
    BY <1>1 DEF ObjectsInv, OneTableInv
  <2>. QED
    BY <1>1, <2>1, KeptInv
<1>. QED
  BY <1>1, <1>2, <1>3, KeptInv DEF ObjectsInv

LEMMA MakesKeeps ==
  ASSUME ObjectsInv, NEW o \in QObjects, NEW cache \in BOOLEAN, NEW mode \in Modes,
         NEW t \in Tables, MakesTable(o, cache, mode, t), TablesTyped',
         OneTable => TablesOf(o) = {},
         o \in alive \ doomed, alive' = alive, doomed' = doomed, closing' = closing,
         \/ owner' = owner /\ mode = "QOBJ_NO_DELETE"
         \/ /\ owner[o] = "cpp"
            /\ owner' = [owner EXCEPT ![o] = IF mode = "QOBJ_NO_DELETE" THEN @ ELSE "lua"]
  PROVE  ObjectsInv'
<1>1. /\ o \notin DOMAIN objRefs /\ table[t] = Nil /\ table'[t] # Nil
      /\ table'[t].obj = o /\ table'[t].mode = mode /\ table'[t].cached = cache
      /\ OneTable => table'[t].methods = "Valid"
      /\ \A u \in Tables \ {t} : table'[u] = table[u]
      /\ objMethods' = objMethods \cup {o}
  BY NewTableTyped DEF MakesTable, NewTable, ObjectsInv, OneTableInv
<1>2. DOMAIN objRefs' = IF cache THEN DOMAIN objRefs \cup {o} ELSE DOMAIN objRefs
  BY DEF MakesTable, CacheQObject, With, vars
<1>3. /\ TablesOf(o)' = TablesOf(o) \cup {t} /\ t \notin TablesOf(o)
      /\ \A p \in QObjects \ {o} : TablesOf(p)' = TablesOf(p) /\ t \notin TablesOf(p)
  BY <1>1 DEF TablesOf
<1>4. /\ Deleters(o)' = IF mode = "QOBJ_NO_DELETE" THEN Deleters(o) ELSE Deleters(o) \cup {t}
      /\ \A p \in QObjects \ {o} : Deleters(p)' = Deleters(p)
  BY <1>1, <1>3 DEF Deleters, TablesOf
<1>5. ObjectsTyped'
  BY <1>1, <1>2 DEF ObjectsInv, ObjectsTyped
<1>6. CachedInv'
  <2>1. ASSUME NEW p \in QObjects, NEW u \in TablesOf(p), NEW w \in TablesOf(p)
        PROVE  /\ u # t /\ table'[u] = table[u]
    BY <1>1, <1>3 DEF TablesOf
  <2>. QED
    BY <1>1, <1>2, <1>3, <2>1 DEF ObjectsInv, CachedInv
<1>7. OwnersInv'
  BY <1>1, <1>4 DEF ObjectsInv, ObjectsTyped, OwnersInv
<1>8. OneTable => OneTableInv'
  BY <1>1, <1>3 DEF ObjectsInv, OneTableInv, TablesOf, Reachable
<1>. QED
  BY <1>5, <1>6, <1>7, <1>8 DEF ObjectsInv

LEMMA FinalizeKeeps ==
  ASSUME ObjectsInv, NEW t \in Tables, Finalize(t)
  PROVE  ObjectsInv'
<1>. PICK o, mode : o = table[t].obj /\ mode = table[t].mode
  OBVIOUS
<1>1. /\ table[t] # Nil /\ table' = RemoveTable(o, t)
      /\ objMethods' = objMethods \ {o} /\ owner' = owner /\ closing' = closing
      /\ alive' = IF IsDeleted(mode) THEN alive \ {o} ELSE alive
      /\ doomed' = IF IsDeleted(mode) THEN doomed \ {o}
                   ELSE IF IsDoomed(mode) THEN doomed \cup {o} ELSE doomed
      /\ ReferenceRemoved(o)
  BY DEF Finalize, DeleteObject, MethodsRemoved
<1>2. table[t] \in TableType /\ TablesTyped
  BY <1>1 DEF ObjectsInv, ObjectsTyped, TablesTyped
<1>3. o \in QObjects /\ mode \in Modes
  BY <1>2 DEF TableType
<1>4. DOMAIN objRefs' = DOMAIN objRefs \ {o}
  BY <1>1 DEF ReferenceRemoved, Without
<1>5. /\ TablesTyped' /\ table'[t] = Nil
      /\ \A u \in Tables : table[u] = Nil => table'[u] = Nil
      /\ \A u \in Tables \ {t} : table[u] # Nil =>
           /\ table'[u] # Nil
           /\ table'[u].obj = table[u].obj /\ table'[u].mode = table[u].mode
           /\ table[u].obj = o => ~table'[u].cached
           /\ table[u].obj # o => table'[u] = table[u]
  BY <1>1, <1>2, RemoveCases
<1>6. /\ t \in TablesOf(o) /\ TablesOf(o)' = TablesOf(o) \ {t}
      /\ \A p \in QObjects \ {o} : TablesOf(p)' = TablesOf(p) /\ t \notin TablesOf(p)
  BY <1>1, <1>5 DEF TablesOf
<1>7. /\ Deleters(o)' = Deleters(o) \ {t}
      /\ \A p \in QObjects \ {o} : Deleters(p)' = Deleters(p)
  BY <1>5, <1>6 DEF Deleters, TablesOf
<1>8. IF mode = "QOBJ_NO_DELETE" THEN t \notin Deleters(o)
      ELSE Deleters(o) = {t} /\ o \in alive \ doomed /\ owner[o] = "lua"
  BY <1>3, <1>6 DEF ObjectsInv, OwnersInv, Deleters
<1>9. /\ mode = "QOBJ_NO_DELETE" => alive' = alive /\ doomed' = doomed
      /\ mode = "QOBJ_IMMEDIATE_DELETE" => alive' = alive \ {o} /\ doomed' = doomed \ {o}
      /\ mode = "QOBJ_DELETE_LATER" => alive' = alive /\ doomed' = doomed \cup {o}
  BY <1>1 DEF IsDeleted, IsDoomed
<1>10. ObjectsTyped'
  BY <1>1, <1>3, <1>4, <1>5, <1>8, <1>9 DEF ObjectsInv, ObjectsTyped, Modes
<1>11. CachedInv'
  <2>1. ASSUME NEW u \in TablesOf(o)' PROVE ~table'[u].cached
    BY <1>5, <1>6 DEF TablesOf
  <2>2. ASSUME NEW p \in QObjects \ {o}, NEW u \in TablesOf(p) PROVE table'[u] = table[u]
    BY <1>5, <1>6 DEF TablesOf
  <2>. QED
    BY <1>3, <1>4, <1>6, <2>1, <2>2 DEF ObjectsInv, CachedInv
<1>12. OwnersInv'
  <2>1. ASSUME NEW p \in QObjects \ {o}
        PROVE  /\ Deleters(p)' = Deleters(p) /\ owner'[p] = owner[p]
               /\ p \in alive' <=> p \in alive
               /\ p \in doomed' <=> p \in doomed
    BY <1>1, <1>7
  <2>2. /\ \A u, w \in Deleters(o)' : u = w
        /\ Deleters(o)' # {} => o \in alive' \ doomed' /\ owner'[o] = "lua"
        /\ owner'[o] = "cpp" => o \in alive' \ doomed'
        /\ o \in alive' /\ owner'[o] = "lua" => Deleters(o)' # {} \/ o \in doomed'
    <3>1. CASE mode = "QOBJ_NO_DELETE"
      BY <1>1, <1>3, <1>7, <1>8, <1>9, <3>1 DEF ObjectsInv, OwnersInv
    <3>2. CASE mode # "QOBJ_NO_DELETE"
      BY <1>1, <1>3, <1>7, <1>8, <1>9, <3>2 DEF Modes
    <3>. QED
      BY <3>1, <3>2
  <2>. QED
    BY <2>1, <2>2 DEF ObjectsInv, OwnersInv
<1>13. OneTable => OneTableInv'
  <2>. SUFFICES ASSUME OneTable PROVE OneTableInv'
    OBVIOUS
  <2>1. OneTableInv
    BY DEF ObjectsInv
  <2>2. \A u \in Tables \ {t} : table[u] # Nil => table[u].obj # o
    BY <1>1, <2>1 DEF OneTableInv
  <2>3. \A u \in Tables \ {t} : table'[u] = table[u]
    BY <1>5, <2>2
  <2>4. TablesOf(o)' = {}
    BY <1>6, <2>2 DEF TablesOf
  <2>5. \A p \in QObjects \ {o} : TablesOf(p)' = TablesOf(p)
    BY <1>6
  <2>6. \A p \in doomed' : p # o => p \in doomed
    BY <1>1
  <2>7. \A u \in Tables : table'[u] # Nil =>
          /\ u # t /\ table'[u] = table[u] /\ table[u].obj # o
          /\ table[u].obj \in alive' <=> table[u].obj \in alive
          /\ Reachable(u)' <=> Reachable(u)
    BY <1>1, <1>5, <2>2, <2>3 DEF Reachable
  <2>8. \A u, w \in Tables : table'[u] # Nil /\ table'[w] # Nil /\ table'[u].obj = table'[w].obj
                               => u = w
    BY <2>1, <2>7 DEF OneTableInv
  <2>9. \A p \in QObjects : p \in objMethods' <=> TablesOf(p)' # {}
    BY <1>1, <2>1, <2>4, <2>5 DEF OneTableInv
  <2>10. \A p \in doomed' : TablesOf(p)' = {}
    BY <1>10, <2>1, <2>4, <2>5, <2>6 DEF OneTableInv, ObjectsTyped
  <2>11. \A u \in Tables : table'[u] # Nil =>
           table'[u].methods = "Valid" /\ (Reachable(u)' => table'[u].obj \in alive')
    BY <2>1, <2>7 DEF OneTableInv
  <2>. QED
    BY <2>8, <2>9, <2>10, <2>11 DEF OneTableInv
<1>. QED
  BY <1>10, <1>11, <1>12, <1>13 DEF ObjectsInv

\* Where no table changes.
LEMMA SameTables ==
  ASSUME ObjectsInv, table' = table, objRefs' = objRefs
  PROVE  /\ \A t \in Tables : Kept(t) /\ (Reachable(t)' <=> Reachable(t))
         /\ TablesTyped' /\ CachedInv'
         /\ \A o : TablesOf(o)' = TablesOf(o) /\ Deleters(o)' = Deleters(o)
<1>1. \A t \in Tables : Kept(t) /\ (Reachable(t)' <=> Reachable(t))
  BY DEF Kept, Reachable
<1>2. TablesTyped'
  BY DEF ObjectsInv, ObjectsTyped, TablesTyped
<1>. QED
  BY <1>1, <1>2, KeptInv, KeptTables

LEMMA DiesKeeps ==
  ASSUME ObjectsInv, NEW o \in QObjects, Dies(o),
         \/ o \in doomed /\ owner' = owner
         \/ /\ owner[o] = "cpp" /\ owner' = [owner EXCEPT ![o] = "nobody"]
            /\ \A t \in TablesOf(o) : ~Reachable(t)
  PROVE  ObjectsInv'
<1>1. /\ alive' = alive \ {o} /\ doomed' = doomed \ {o} /\ objRefs' = objRefs
      /\ objMethods' = objMethods /\ table' = table /\ closing' = closing
  BY DEF Dies
<1>2. /\ \A t \in Tables : Kept(t) /\ (Reachable(t)' <=> Reachable(t))
      /\ TablesTyped' /\ CachedInv'
      /\ \A p : TablesOf(p)' = TablesOf(p) /\ Deleters(p)' = Deleters(p)
  BY <1>1, SameTables
<1>3. ObjectsTyped'
  BY <1>1, <1>2 DEF ObjectsInv, ObjectsTyped
<1>4. /\ Deleters(o) = {} /\ owner'[o] # "cpp"
      /\ \A p \in QObjects \ {o} : owner'[p] = owner[p]
  BY DEF ObjectsInv, OwnersInv, ObjectsTyped
<1>5. OwnersInv'
  BY <1>1, <1>2, <1>4 DEF ObjectsInv, OwnersInv
<1>6. OneTable => OneTableInv'
  <2>1. OneTable => \A t \in TablesOf(o) : ~Reachable(t)
    BY DEF ObjectsInv, OneTableInv
  <2>2. OneTable => \A t \in Tables : table[t] # Nil /\ Reachable(t)' =>
                                        Reachable(t) /\ table[t].obj \in alive'
    BY <1>1, <1>2, <2>1 DEF ObjectsInv, OneTableInv, TablesOf
  <2>3. doomed' \subseteq doomed
    BY <1>1
  <2>. QED
    BY <1>1, <1>2, <2>2, <2>3, KeptInv
<1>. QED
  BY <1>2, <1>3, <1>5, <1>6 DEF ObjectsInv

LEMMA NewKeeps ==
  ASSUME ObjectsInv, NEW o \in QObjects, NewQObject(o)
  PROVE  ObjectsInv'
<1>1. /\ o \notin alive /\ alive' = alive \cup {o} /\ owner' = [owner EXCEPT ![o] = "cpp"]
      /\ doomed' = doomed /\ objMethods' = objMethods /\ table' = table
      /\ closing' = closing /\ objRefs' = objRefs
  BY DEF NewQObject, vars
<1>2. /\ \A t \in Tables : Kept(t) /\ (Reachable(t)' <=> Reachable(t))
      /\ TablesTyped' /\ CachedInv'
      /\ \A p : TablesOf(p)' = TablesOf(p) /\ Deleters(p)' = Deleters(p)
  BY <1>1, SameTables
<1>3. ObjectsTyped'
  BY <1>1, <1>2 DEF ObjectsInv, ObjectsTyped
<1>4. /\ Deleters(o) = {} /\ owner'[o] = "cpp" /\ o \notin doomed
      /\ \A p \in QObjects \ {o} : owner'[p] = owner[p]
  BY <1>1 DEF ObjectsInv, OwnersInv, ObjectsTyped
<1>5. OwnersInv'
  BY <1>1, <1>2, <1>4 DEF ObjectsInv, OwnersInv
<1>6. OneTable => OneTableInv'
  <2>1. OneTable => \A t \in Tables : table[t] # Nil /\ Reachable(t)' =>
                                        Reachable(t) /\ table[t].obj \in alive'
    BY <1>1, <1>2 DEF ObjectsInv, OneTableInv
  <2>. QED
    BY <1>1, <1>2, <2>1, KeptInv
<1>. QED
  BY <1>2, <1>3, <1>5, <1>6 DEF ObjectsInv

LEMMA ForgetKeeps ==
  ASSUME ObjectsInv, NEW t \in Tables, Forget(t)
  PROVE  ObjectsInv'
<1>1. /\ table[t] # Nil /\ table' = [table EXCEPT ![t].held = FALSE]
      /\ alive' = alive /\ doomed' = doomed /\ owner' = owner /\ closing' = closing
      /\ objMethods' = objMethods /\ objRefs' = objRefs
  BY DEF Forget, vars
<1>2. TablesTyped /\ table[t] \in TableType
  BY <1>1 DEF ObjectsInv, ObjectsTyped, TablesTyped
<1>3. table'[t] = [table[t] EXCEPT !.held = FALSE] /\ DOMAIN table' = Tables
      /\ \A u \in Tables \ {t} : table'[u] = table[u]
  BY <1>1, <1>2 DEF TablesTyped
<1>4. /\ table'[t] \in TableType /\ table'[t].held = FALSE
      /\ table'[t].obj = table[t].obj /\ table'[t].mode = table[t].mode
      /\ table'[t].cached = table[t].cached /\ table'[t].methods = table[t].methods
  BY <1>2, <1>3 DEF TableType
<1>5. TablesTyped'
  BY <1>2, <1>3, <1>4, <1>1 DEF TablesTyped
<1>6. \A u \in Tables : Kept(u) /\ (table[u] # Nil /\ Reachable(u)' => Reachable(u))
  BY <1>1, <1>3, <1>4, TableAssumption DEF Kept, Reachable
<1>7. ObjectsTyped'
  BY <1>1, <1>5 DEF ObjectsInv, ObjectsTyped
<1>8. OneTable => OneTableInv'
  <2>1. OneTable => \A u \in Tables : table[u] # Nil /\ Reachable(u)' =>
                                        Reachable(u) /\ table[u].obj \in alive'
    BY <1>1, <1>6 DEF ObjectsInv, OneTableInv
  <2>. QED
    BY <1>1, <1>5, <1>6, <2>1, KeptInv
<1>. QED
  BY <1>1, <1>5, <1>6, <1>7, <1>8, KeptInv DEF ObjectsInv

LEMMA CallbacksKeep ==
  ASSUME ObjectsInv, UNCHANGED <<alive, doomed, owner, objMethods, table>>,
         objRefs' = objRefs, closing' \in BOOLEAN
  PROVE  ObjectsInv'
<1>1. /\ \A t \in Tables : Kept(t) /\ (Reachable(t)' <=> Reachable(t))
      /\ TablesTyped' /\ CachedInv'
  BY SameTables
<1>2. ObjectsTyped'
  BY <1>1 DEF ObjectsInv, ObjectsTyped
<1>3. OneTable => \A t \in Tables : table[t] # Nil /\ Reachable(t)' =>
                                      Reachable(t) /\ table[t].obj \in alive'
  BY <1>1 DEF ObjectsInv, OneTableInv
<1>. QED
  BY <1>1, <1>2, <1>3, KeptInv DEF ObjectsInv

LEMMA AddKeeps ==
  ASSUME ObjectsInv, NEW o \in QObjects, NEW cache \in BOOLEAN, NEW mode \in Modes,
         MayAdd(o), AddQObject(o, cache, mode),
         \/ owner' = owner /\ mode = "QOBJ_NO_DELETE"
         \/ /\ owner[o] = "cpp"
            /\ o \in DOMAIN objRefs => mode = "QOBJ_NO_DELETE"
            /\ owner' = [owner EXCEPT ![o] = IF mode = "QOBJ_NO_DELETE" THEN @ ELSE "lua"]
  PROVE  ObjectsInv'
<1>1. /\ TablesTyped' /\ o \in alive \ doomed
      /\ alive' = alive /\ doomed' = doomed /\ closing' = closing
      /\ Reuses(o) \/ \E t \in Tables : MakesTable(o, cache, mode, t)
  BY AddCases DEF ObjectsInv, ObjectsTyped
<1>2. CASE Reuses(o)
  <2>1. owner' = owner
    BY <1>2 DEF Reuses, ObjectsInv, ObjectsTyped
  <2>. QED
    BY <1>1, <1>2, <2>1, ReusesKeeps
<1>3. ASSUME NEW t \in Tables, MakesTable(o, cache, mode, t) PROVE ObjectsInv'
  <2>1. OneTable => TablesOf(o) = {}
    BY <1>3 DEF MakesTable, MayAdd
  <2>. QED
    BY <1>1, <1>3, <2>1, MakesKeeps
<1>. QED
  BY <1>1, <1>2, <1>3

LEMMA ObjectsStep ==
  ASSUME ObjectsInv, [ObjectsNext]_allVars
  PROVE  ObjectsInv'
<1>1. ASSUME NEW o \in QObjects, NEW cache \in BOOLEAN, NEW mode \in Modes,
             Expose(o, cache, mode)
      PROVE  ObjectsInv'
  BY <1>1, AddKeeps DEF Expose
<1>2. ASSUME NEW o \in QObjects, NEW t \in Tables, NEW own \in BOOLEAN,
             ReturnQObject(t, o, own)
      PROVE  ObjectsInv'
  BY <1>2, AddKeeps DEF ReturnQObject, Modes
<1>3. ASSUME NEW o \in QObjects, NEW s \in Signals, Invoke(s, o) PROVE ObjectsInv'
  BY <1>3, AddKeeps DEF Invoke, Modes
<1>4. ASSUME NEW o \in QObjects, ProcessEvents(o) \/ CppDelete(o) \/ NewQObject(o)
      PROVE  ObjectsInv'
  BY <1>4, DiesKeeps, NewKeeps DEF ProcessEvents, CppDelete
<1>5. ASSUME NEW t \in Tables, Forget(t) \/ Finalize(t) PROVE ObjectsInv'
  BY <1>5, ForgetKeeps, FinalizeKeeps
<1>6. ASSUME NEW s \in Signals, NEW f \in LuaFunctions,
             QtConnect(s, f) \/ QtDisconnect(s, f)
      PROVE  ObjectsInv'
  <2>1. UNCHANGED objectVars /\ objRefs' = objRefs
    BY <1>6 DEF QtConnect, QtDisconnect, Connect, Disconnect
  <2>. QED
    BY <2>1, CallbacksKeep DEF objectVars, ObjectsInv, ObjectsTyped
<1>7. ASSUME Close \/ UNCHANGED allVars PROVE ObjectsInv'
  BY <1>7, CallbacksKeep DEF Close, vars, allVars, objectVars, ObjectsInv, ObjectsTyped
<1>. QED
  BY <1>1, <1>2, <1>3, <1>4, <1>5, <1>6, <1>7, ObjectsCases

LEMMA ObjectsStart == ObjectsInit => TypeOK /\ RegistryInv /\ ObjectsInv
<1>. SUFFICES ASSUME ObjectsInit PROVE TypeOK /\ RegistryInv /\ ObjectsInv
  OBVIOUS
<1>1. TypeOK /\ RegistryInv
  BY RegistryInit DEF ObjectsInit
<1>2. \A t \in Tables : table[t] = Nil
  BY DEF ObjectsInit
<1>3. ASSUME NEW o PROVE TablesOf(o) = {} /\ Deleters(o) = {}
  <2>1. TablesOf(o) = {}
    BY <1>2 DEF TablesOf
  <2>. QED
    BY <2>1 DEF Deleters
<1>4. ObjectsTyped
  <2>1. alive = QObjects /\ doomed = {} /\ objMethods = {} /\ closing = FALSE
        /\ owner \in [QObjects -> {"cpp", "lua", "nobody"}]
    BY DEF ObjectsInit
  <2>2. TablesTyped
    BY DEF ObjectsInit, TablesTyped
  <2>3. DOMAIN objRefs \subseteq QObjects
    BY <1>1 DEF TypeOK
  <2>. QED
    BY <2>1, <2>2, <2>3 DEF ObjectsTyped
<1>5. CachedInv /\ OwnersInv /\ OneTableInv
  BY <1>2, <1>3 DEF ObjectsInit, Init, CachedInv, OwnersInv, OneTableInv
<1>. QED
  BY <1>1, <1>4, <1>5 DEF ObjectsInv

LEMMA ObjectsInvariant == ObjectsSpec => [](TypeOK /\ RegistryInv /\ ObjectsInv)
<1>1. TypeOK /\ RegistryInv /\ ObjectsInv /\ [ObjectsNext]_allVars
        => (TypeOK /\ RegistryInv /\ ObjectsInv)'
  <2>. SUFFICES ASSUME TypeOK, RegistryInv, ObjectsInv, [ObjectsNext]_allVars
                PROVE  TypeOK' /\ RegistryInv' /\ ObjectsInv'
    OBVIOUS
  <2>1. TablesTyped
    BY DEF ObjectsInv, ObjectsTyped
  <2>. QED
    BY <2>1, DispatcherStep, ObjectsStep
<1>. QED
  BY <1>1, ObjectsStart, PTL DEF ObjectsSpec

-----------------------------------------------------------------------------
(***************************************************************************)
(* Every variable keeps its type, a doomed object is there until the event *)
(* loop deletes it, and the registry refers to the one cached table of an  *)
(* object, however many tables the object has.                             *)
(***************************************************************************)
THEOREM ObjectsTypeCorrect == ObjectsSpec => []ObjectsTypeOK
<1>1. ASSUME TypeOK, ObjectsInv PROVE ObjectsTypeOK
  <2>1. ASSUME NEW o \in QObjects
        PROVE  Cardinality({t \in TablesOf(o) : table[t].cached}) =
                 IF o \in DOMAIN objRefs THEN 1 ELSE 0
    <3>. DEFINE C == {t \in TablesOf(o) : table[t].cached}
    <3>1. CASE o \in DOMAIN objRefs
      <4>1. \E t : C = {t}
        <5>1. PICK t \in TablesOf(o) : table[t].cached
          BY <1>1, <3>1 DEF ObjectsInv, CachedInv
        <5>2. \A u \in C : u = t
          BY <1>1, <5>1 DEF ObjectsInv, CachedInv
        <5>. QED
          BY <5>1, <5>2
      <4>. HIDE DEF C
      <4>2. Cardinality(C) = 1
        BY <4>1, FS_Singleton
      <4>. QED
        BY <3>1, <4>2 DEF C
    <3>2. CASE o \notin DOMAIN objRefs
      <4>1. C = {}
        BY <1>1, <3>2 DEF ObjectsInv, CachedInv
      <4>. HIDE DEF C
      <4>2. Cardinality(C) = 0
        BY <4>1, FS_EmptySet
      <4>. QED
        BY <3>2, <4>2 DEF C
    <3>. QED
      BY <3>1, <3>2
  <2>. QED
    BY <1>1, <2>1 DEF ObjectsInv, ObjectsTyped, TablesTyped, ObjectsTypeOK
<1>. QED
  BY <1>1, ObjectsInvariant, PTL

(***************************************************************************)
(* What the program owns is there until the program deletes it; what Lua   *)
(* owns has one table that will delete it, or is being deleted later.      *)
(***************************************************************************)
THEOREM OwnershipIsKept == ObjectsSpec => []OneDeleter
<1>1. ASSUME ObjectsInv PROVE OneDeleter
  <2>1. ASSUME NEW o \in QObjects PROVE Cardinality(Deleters(o)) <= 1
    <3>1. Deleters(o) = {} \/ \E t : Deleters(o) = {t}
      <4>1. \A t, u \in Deleters(o) : t = u
        BY <1>1 DEF ObjectsInv, OwnersInv
      <4>. QED
        BY <4>1
    <3>2. Cardinality(Deleters(o)) = 0 \/ Cardinality(Deleters(o)) = 1
      BY <3>1, FS_EmptySet, FS_Singleton
    <3>. QED
      BY <3>2
  <2>. QED
    BY <1>1, <2>1 DEF ObjectsInv, OwnersInv, OneDeleter
<1>. QED
  BY <1>1, ObjectsInvariant, PTL

(***************************************************************************)
(* Whichever way a script came by an object it can call its methods, and   *)
(* the object is there, if the program keeps to one table of an object.    *)
(***************************************************************************)
THEOREM TablesHaveMethods == OneTable => (ObjectsSpec => []HasItsMethods)
<1>. SUFFICES ASSUME OneTable PROVE ObjectsSpec => []HasItsMethods
  OBVIOUS
<1>1. ObjectsInv => HasItsMethods
  BY DEF ObjectsInv, OneTableInv, HasItsMethods
<1>. QED
  BY <1>1, ObjectsInvariant, PTL

(***************************************************************************)
(* Signals invoke functions, of their own types, also while objects that   *)
(* emit them come and go and their tables are collected.                   *)
(***************************************************************************)
THEOREM ObjectsSignalsInvoke == ObjectsSpec => []InvokesAFunction
<1>1. TypeOK /\ RegistryInv => InvokesAFunction
  BY DEF TypeOK, RegistryInv, MethodsHoldFunctions, FunctionOf, TypesFit, InvokesAFunction
<1>. QED
  BY <1>1, ObjectsInvariant, PTL

(***************************************************************************)
(* With scripts that use every function for one signal and once, a signal  *)
(* calls it as often as it was connected, whatever becomes of objects.     *)
(***************************************************************************)
THEOREM ObjectsFunctionsAreCalled == Fresh => (ObjectsSpec => []CalledAsOftenAsConnected)
<1>. SUFFICES ASSUME Fresh PROVE ObjectsSpec => []CalledAsOftenAsConnected
  OBVIOUS
<1>1. ObjectsInit => FreshInv
  BY FreshStart DEF ObjectsInit
<1>2. TypeOK /\ RegistryInv /\ ObjectsInv /\ FreshInv /\ [ObjectsNext]_allVars => FreshInv'
  BY DispatcherStep DEF ObjectsInv, ObjectsTyped
<1>3. FreshInv => CalledAsOftenAsConnected
  BY DEF FreshInv
<1>. QED
  BY <1>1, <1>2, <1>3, ObjectsInvariant, PTL DEF ObjectsSpec
=============================================================================
