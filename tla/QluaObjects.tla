---------------------------- MODULE QluaObjects ----------------------------
(***************************************************************************)
(* QObjects in Lua (qlua/LuaContext.cpp), on top of the callbacks of       *)
(* LuaCallbackDispatcher, with which they share the registry.  AddQObject  *)
(* wraps an object in a table: closures that point into objMethods_, and a *)
(* userdata whose __gc, DeleteObject, drops what the context knows of the  *)
(* object and deletes it if the table was made with a delete mode.         *)
(*                                                                         *)
(* The hazard: what DeleteObject drops is kept by object, not by table,    *)
(* and the collector decides when it runs.                                 *)
(***************************************************************************)
EXTENDS LuaCallbackDispatcher

CONSTANTS
  Emitter,    \* Emitter[s]: the QObject that emits a signal
  MaxTables,  \* bound: tables of QObjects at a time
  OneTable    \* whether the program hands an object to Lua again only when
              \* there is no table of it left, or a cached one

Tables == 1..MaxTables

ASSUME QluaObjectsAssumption ==
  /\ Emitter \in [Signals -> QObjects]
  /\ MaxTables \in Nat /\ OneTable \in BOOLEAN

VARIABLES
  alive,        \* the QObjects that exist
  doomed,       \* those deleteLater() has been called for
  owner,        \* owner[o]: who is to delete it: "cpp", "lua", or "nobody"
                \* once the program has
  objMethods,   \* the keys of objMethods_
  table,        \* the tables of QObjects, or Nil
  closing       \* ~LuaContext has begun

objectVars == <<alive, doomed, owner, objMethods, table, closing>>

allVars == <<vars, objectVars>>

-----------------------------------------------------------------------------
(***************************************************************************)
(* A table: `methods` tells whether its closures point to lists that are   *)
(* there (Valid), to lists that have been freed (Dangling), or were never  *)
(* made (Missing); `held`, whether scripts have it.                        *)
(***************************************************************************)
Modes == {"QOBJ_NO_DELETE", "QOBJ_IMMEDIATE_DELETE", "QOBJ_DELETE_LATER"}

TableType ==
  [obj : QObjects, mode : Modes, cached : BOOLEAN, held : BOOLEAN,
   methods : {"Valid", "Dangling", "Missing"}]

ASSUME TableAssumption == Nil \notin TableType

Unused == CHOOSE t \in Tables : table[t] = Nil

TablesOf(o) == {t \in Tables : table[t] # Nil /\ table[t].obj = o}

\* objRefs_ refers to the table that was made with `cache`, in the registry.
Reachable(t) == table[t].held \/ table[t].cached

\* lua_pushcclosure only if objMethods_[obj][name].size() == 1.
NewTable(o, cache, deleteMode) ==
  [obj |-> o, mode |-> deleteMode, cached |-> cache, held |-> TRUE,
   methods |-> IF o \in objMethods THEN "Missing" ELSE "Valid"]

AddQObject(o, cache, deleteMode) ==
  /\ ~closing
  /\ o \in alive \ doomed
  /\ IF o \in DOMAIN objRefs
     THEN /\ table' = [t \in Tables |-> IF t \in TablesOf(o) /\ table[t].cached
                                        THEN [table[t] EXCEPT !.held = TRUE]
                                        ELSE table[t]]
          /\ UNCHANGED <<vars, objMethods>>
     ELSE /\ \E t \in Tables : table[t] = Nil
          /\ table' = [table EXCEPT ![Unused] = NewTable(o, cache, deleteMode)]
          /\ objMethods' = objMethods \cup {o}
          /\ IF cache THEN CacheQObject(o) ELSE UNCHANGED vars
  /\ UNCHANGED <<alive, doomed, closing>>

\* What a program can know of: it does not see the collector.
MayAdd(o) ==
  \/ o \in DOMAIN objRefs
  \/ OneTable /\ TablesOf(o) = {}
  \/ ~OneTable /\ \A t \in TablesOf(o) : ~Reachable(t)

\* The program gives an object of its own to Lua, in a delete mode for good.
Expose(o, cache, deleteMode) ==
  /\ owner[o] = "cpp"
  /\ MayAdd(o)
  /\ o \in DOMAIN objRefs => deleteMode = "QOBJ_NO_DELETE"
  /\ AddQObject(o, cache, deleteMode)
  /\ owner' = [owner EXCEPT ![o] = IF deleteMode = "QOBJ_NO_DELETE" THEN @ ELSE "lua"]

\* HandleReturnValue of a method of table t that returns o, ownQObjects being
\* what scripts last set with qlua.ownQObjects(): the delete mode it asks for
\* arrives in the parameter called cache.
ReturnQObject(t, o, ownQObjects) ==
  /\ table[t] # Nil /\ table[t].held /\ table[t].methods = "Valid"
  /\ MayAdd(o)
  /\ AddQObject(o, ownQObjects, "QOBJ_NO_DELETE")
  /\ UNCHANGED owner

\* LuaCBackMethod::Invoke of a signal with the argument o.
Invoke(s, o) ==
  /\ \E c \in connections : c.signal = s
  /\ MayAdd(o)
  /\ AddQObject(o, FALSE, "QOBJ_NO_DELETE")
  /\ UNCHANGED owner

Forget(t) ==
  /\ ~closing
  /\ table[t] # Nil /\ table[t].held
  /\ table' = [table EXCEPT ![t].held = FALSE]
  /\ UNCHANGED <<vars, alive, doomed, owner, objMethods, closing>>

-----------------------------------------------------------------------------
(***************************************************************************)
(* DeleteObject, the __gc of a table: RemoveObject(obj) forgets the        *)
(* methods and the cached table of the object, whichever table they belong *)
(* to, and `delete` makes Qt drop the connections of its signals.          *)
(***************************************************************************)
MethodsKept(o) == objMethods  \* mutant: objMethods_.remove forgotten

MethodsRemoved(o) == objMethods \ {o}

RemoveTable(o, t) ==
  [u \in Tables |->
     IF u = t THEN Nil
     ELSE IF u \notin TablesOf(o) THEN table[u]
     ELSE [table[u] EXCEPT !.cached = FALSE,
                           !.methods = IF @ = "Valid" THEN "Dangling" ELSE @]]

SignalsOf(o) == {s \in Signals : Emitter[s] = o}

DeletedAtOnce(deleteMode) ==  \* mutant: `delete` unless told to do it later
  deleteMode # "QOBJ_DELETE_LATER"

IsDeleted(deleteMode) == deleteMode = "QOBJ_IMMEDIATE_DELETE"

NeverDoomed(deleteMode) == FALSE  \* mutant: no deleteLater()

IsDoomed(deleteMode) == deleteMode = "QOBJ_DELETE_LATER"

DeleteObject(t) ==
  LET o    == table[t].obj
      mode == table[t].mode
  IN  /\ objMethods' = MethodsRemoved(o)
      /\ table' = RemoveTable(o, t)
      /\ alive' = IF IsDeleted(mode) THEN alive \ {o} ELSE alive
      /\ doomed' = IF IsDeleted(mode) THEN doomed \ {o}
                   ELSE IF IsDoomed(mode) THEN doomed \cup {o} ELSE doomed
      /\ ReferenceRemoved(o)
      /\ IF IsDeleted(mode) THEN ConnectionsDropped(SignalsOf(o))
         ELSE UNCHANGED <<connections, wanted, discarded>>
      /\ UNCHANGED <<luaCBackMethods, cbackToMethodIndex>>

Finalize(t) ==
  /\ table[t] # Nil
  /\ ~Reachable(t) \/ closing
  /\ DeleteObject(t)
  /\ UNCHANGED <<owner, closing>>

\* lua_close runs every __gc that is left.
Close ==
  /\ ~closing
  /\ closing' = TRUE
  /\ UNCHANGED <<vars, alive, doomed, owner, objMethods, table>>

-----------------------------------------------------------------------------
\* A QObject ends outside Lua: its connections go with it.
Dies(o) ==
  /\ alive' = alive \ {o}
  /\ doomed' = doomed \ {o}
  /\ ConnectionsDropped(SignalsOf(o))
  /\ UNCHANGED <<registry, luaCBackMethods, cbackToMethodIndex, objRefs>>
  /\ UNCHANGED <<objMethods, table, closing>>

\* The event loop carries out a deleteLater().
ProcessEvents(o) == o \in doomed /\ Dies(o) /\ UNCHANGED owner

\* The program deletes an object of its own that scripts have no table of.
CppDelete(o) ==
  /\ o \in alive /\ owner[o] = "cpp"
  /\ \A t \in TablesOf(o) : ~Reachable(t)
  /\ owner' = [owner EXCEPT ![o] = "nobody"]
  /\ Dies(o)

\* The program makes an object, at the address of one that is gone.
NewQObject(o) ==
  /\ o \notin alive
  /\ OneTable => TablesOf(o) = {}
  /\ alive' = alive \cup {o}
  /\ owner' = [owner EXCEPT ![o] = "cpp"]
  /\ UNCHANGED <<vars, doomed, objMethods, table, closing>>

QtConnect(s, f) ==
  /\ ~closing /\ Emitter[s] \in alive
  /\ Connect(s, f)
  /\ UNCHANGED objectVars

QtDisconnect(s, f) ==
  /\ ~closing /\ Emitter[s] \in alive
  /\ Disconnect(s, f)
  /\ UNCHANGED objectVars

-----------------------------------------------------------------------------
ObjectsInit ==
  /\ Init
  /\ alive = QObjects
  /\ doomed = {}
  /\ owner = [o \in QObjects |-> "cpp"]
  /\ objMethods = {}
  /\ table = [t \in Tables |-> Nil]
  /\ closing = FALSE

ObjectsNext ==
  \/ \E o \in QObjects :
       \/ \E cache \in BOOLEAN, deleteMode \in Modes : Expose(o, cache, deleteMode)
       \/ \E t \in Tables, ownQObjects \in BOOLEAN : ReturnQObject(t, o, ownQObjects)
       \/ \E s \in Signals : Invoke(s, o)
       \/ ProcessEvents(o) \/ CppDelete(o) \/ NewQObject(o)
  \/ \E t \in Tables : Forget(t) \/ Finalize(t)
  \/ \E s \in Signals, f \in LuaFunctions : QtConnect(s, f) \/ QtDisconnect(s, f)
  \/ Close

ObjectsSpec == ObjectsInit /\ [][ObjectsNext]_allVars

\* Scripts allocate, which drives the collector, and lua_close runs to its end.
\* Nothing is assumed of the event loop: a program need not run one.
ObjectsFairness == \A t \in Tables : WF_allVars(Finalize(t))

FairObjectsSpec == ObjectsSpec /\ ObjectsFairness

-----------------------------------------------------------------------------
(***************************************************************************)
(* Types of the variables; what the registry caches has a cached table.    *)
(***************************************************************************)
ObjectsTypeOK ==
  /\ TypeOK
  /\ doomed \subseteq alive /\ alive \subseteq QObjects
  /\ owner \in [QObjects -> {"cpp", "lua", "nobody"}]
  /\ objMethods \subseteq QObjects
  /\ table \in [Tables -> TableType \cup {Nil}]
  /\ closing \in BOOLEAN
  /\ \A o \in QObjects :
       Cardinality({t \in TablesOf(o) : table[t].cached}) = IF o \in DOMAIN objRefs THEN 1 ELSE 0

(***************************************************************************)
(* LuaContext.cpp:121 "create Lua table wrapping QObject: methods and      *)
(* property are added to this table": whichever way a script came by an    *)
(* object it can call its methods, and the object is there.                *)
(***************************************************************************)
HasItsMethods ==
  \A t \in Tables : (table[t] # Nil /\ Reachable(t) /\ ~closing) =>
     table[t].methods = "Valid" /\ table[t].obj \in alive

(***************************************************************************)
(* doxygen.h:94-101, README:81: a QObject has one owner.  What the program *)
(* owns is there until the program deletes it, whatever tables come and    *)
(* go; what Lua owns lives until the one table with a delete mode is gone. *)
(***************************************************************************)
Deleters(o) == {t \in TablesOf(o) : table[t].mode # "QOBJ_NO_DELETE"}

OneDeleter ==
  /\ \A o \in QObjects :
       /\ Cardinality(Deleters(o)) <= 1
       /\ Deleters(o) # {} => o \in alive \ doomed /\ owner[o] = "lua"
       /\ owner[o] = "cpp" => o \in alive \ doomed
       /\ o \in alive /\ owner[o] = "lua" => Deleters(o) # {} \/ o \in doomed

(***************************************************************************)
(* doxygen.h:94-101 "To have a QObject deleted when the Lua table is       *)
(* garbage collected ...": an object given to Lua for good is deleted, or  *)
(* left to the event loop by deleteLater(), once nothing keeps its table,  *)
(* and at the latest in lua_close; whichever other tables of it came and   *)
(* went, and whoever connected to its signals.                             *)
(***************************************************************************)
Abandoned(o) ==
  /\ o \in alive /\ owner[o] = "lua"
  /\ closing \/ \A t \in TablesOf(o) : ~Reachable(t)

AbandonedIsDeleted == \A o \in QObjects : Abandoned(o) ~> o \notin alive \/ o \in doomed
=============================================================================
