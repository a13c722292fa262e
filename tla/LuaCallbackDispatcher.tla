----------------------- MODULE LuaCallbackDispatcher -----------------------
(***************************************************************************)
(* Qt signals connected to Lua functions (qlua/LuaCallbackDispatcher.cpp,  *)
(* QtConnect and QtDisconnect of qlua/LuaContext.cpp).  A connection goes  *)
(* to a method number of the dispatcher, the method holds a reference into *)
(* the Lua registry, and the slot holds the function: what a signal calls  *)
(* is right only as long as all three agree, while methods are never       *)
(* removed and other users of the registry (the tables of cached QObjects) *)
(* take and free slots of the same free list.                              *)
(***************************************************************************)
EXTENDS LuaRefs, Sequences, FiniteSets

CONSTANTS
  Signals,       \* (QObject, signal) pairs; each has a signature of its own
  LuaFunctions,
  QObjects,      \* those AddQObject caches
  MaxMethods,    \* bound: dynamic methods created
  Fresh          \* whether scripts connect a function to one signal only,
                 \* and never again once they have disconnected it

ASSUME DispatcherAssumption ==
  /\ MaxMethods \in Nat /\ Fresh \in BOOLEAN
  /\ LuaFunctions \cap QObjects = {}
  /\ (LuaFunctions \cup QObjects) \cap Int = {} /\ Nil \notin LuaFunctions \cup QObjects

VARIABLES
  registry,           \* the array part of the Lua registry
  luaCBackMethods,    \* [ref, types]: types names the signal they are taken from
  cbackToMethodIndex, \* a function from references to positions in it
  connections,        \* Qt's: [signal, method, copy], copies of one numbered from 0
  objRefs,            \* a function from cached QObjects to references
  wanted,             \* history: how often scripts connected a function to a
                      \* signal since they last disconnected it
  discarded           \* history: the functions disconnected so far

vars == <<registry, luaCBackMethods, cbackToMethodIndex, connections, objRefs,
          wanted, discarded>>

With(f, x, y) == [z \in DOMAIN f \cup {x} |-> IF z = x THEN y ELSE f[z]]

Without(f, x) == [z \in DOMAIN f \ {x} |-> f[z]]

-----------------------------------------------------------------------------
\* cbackToMethodIndex_.value(luaCBackRef, -1); 0 stands for -1.
MethodOf(ref) ==
  IF ref \in DOMAIN cbackToMethodIndex THEN cbackToMethodIndex[ref] ELSE 0

\* QMetaObject::connect: Qt keeps as many copies of a connection as were made.
Copies(s, m) == {c \in connections : c.signal = s /\ c.method = m}

Connection(s, m) == [signal |-> s, method |-> m, copy |-> Cardinality(Copies(s, m))]

\* qlua.connect with a function: luaL_ref, then LuaCallbackDispatcher::Connect.
Connect(s, f) ==
  /\ Fresh => f \notin discarded /\ \A t \in Signals \ {s} : wanted[t][f] = 0
  /\ \E ref \in NewRefs(registry) :
       LET known  == MethodOf(ref)
           method == IF known # 0 THEN known ELSE Len(luaCBackMethods) + 1
       IN  /\ method <= MaxMethods
           /\ registry' = AfterRef(registry, ref, f)
           /\ IF known # 0
              THEN UNCHANGED <<luaCBackMethods, cbackToMethodIndex>>
              ELSE /\ cbackToMethodIndex' = With(cbackToMethodIndex, ref, method)
                   /\ luaCBackMethods' = Append(luaCBackMethods, [ref |-> ref, types |-> s])
           /\ connections' = connections \cup {Connection(s, method)}
  /\ wanted' = [wanted EXCEPT ![s][f] = @ + 1]
  /\ UNCHANGED <<objRefs, discarded>>

-----------------------------------------------------------------------------
(***************************************************************************)
(* LuaCallbackDispatcher::Disconnect compares the function with that of    *)
(* every method.  A match is disconnected only as long as every earlier    *)
(* match was connected to this very signal: `ok = ok && disconnect(...)`.  *)
(* luaL_unref gets lua_tointeger of the function, 0.                       *)
(***************************************************************************)
Matches(f) == {m \in DOMAIN luaCBackMethods : registry[luaCBackMethods[m].ref] = f}

IsConnected(s, m) == Copies(s, m) # {}

OnlyTheFirst(s, f) ==  \* mutant: break after a match
  {m \in Matches(f) : \A k \in Matches(f) : k >= m}

\* The matches QMetaObject::disconnect is called for.
Disconnected(s, f) ==
  {m \in Matches(f) : \A k \in Matches(f) : k < m => IsConnected(s, k)}

AfterUnrefMethods(s, f) ==  \* mutant: luaL_unref(..., (*i)->CBackRef())
  LET refs == {luaCBackMethods[m].ref : m \in Matches(f)}
      last == CHOOSE r \in refs : \A q \in refs : r >= q
  IN  IF refs = {} THEN registry ELSE AfterUnref(registry, last)

AfterUnrefs(s, f) == IF Matches(f) = {} THEN registry ELSE AfterUnref(registry, 0)

Disconnect(s, f) ==
  /\ connections' =
       {c \in connections : ~(c.signal = s /\ c.method \in Disconnected(s, f))}
  /\ registry' = AfterUnrefs(s, f)
  /\ wanted' = [wanted EXCEPT ![s][f] = 0]
  /\ discarded' = discarded \cup {f}
  /\ UNCHANGED <<luaCBackMethods, cbackToMethodIndex, objRefs>>

-----------------------------------------------------------------------------
\* AddQObject(..., cache): the table of an object that is not there yet.
CacheQObject(o) ==
  /\ o \notin DOMAIN objRefs
  /\ \E ref \in NewRefs(registry) :
       /\ registry' = AfterRef(registry, ref, o)
       /\ objRefs' = With(objRefs, o, ref)
  /\ UNCHANGED <<luaCBackMethods, cbackToMethodIndex, connections, wanted, discarded>>

ReferenceKept(o) ==  \* mutant: objRefs_.remove forgotten
  /\ registry' = IF o \in DOMAIN objRefs THEN AfterUnref(registry, objRefs[o]) ELSE registry
  /\ UNCHANGED objRefs

\* RemoveObject, called by the __gc of a table of the object: the reference.
ReferenceRemoved(o) ==
  IF o \in DOMAIN objRefs
  THEN /\ registry' = AfterUnref(registry, objRefs[o])
       /\ objRefs' = Without(objRefs, o)
  ELSE UNCHANGED <<registry, objRefs>>

RemoveObject(o) ==
  /\ ReferenceRemoved(o)
  /\ UNCHANGED <<luaCBackMethods, cbackToMethodIndex, connections, wanted, discarded>>

\* The QObject that emits `signals` is destroyed: Qt drops its connections.
ConnectionsDropped(signals) ==
  /\ connections' = {c \in connections : c.signal \notin signals}
  /\ wanted' = [s \in Signals |->
                  IF s \in signals THEN [f \in LuaFunctions |-> 0] ELSE wanted[s]]
  /\ discarded' = discarded \cup {f \in LuaFunctions : \E s \in signals : wanted[s][f] > 0}

Destroyed(s) ==
  /\ ConnectionsDropped({s})
  /\ UNCHANGED <<registry, luaCBackMethods, cbackToMethodIndex, objRefs>>

-----------------------------------------------------------------------------
Init ==
  /\ registry = EmptyTable
  /\ luaCBackMethods = <<>>
  /\ cbackToMethodIndex = <<>>
  /\ connections = {}
  /\ objRefs = <<>>
  /\ wanted = [s \in Signals |-> [f \in LuaFunctions |-> 0]]
  /\ discarded = {}

Next ==
  \/ \E s \in Signals, f \in LuaFunctions : Connect(s, f) \/ Disconnect(s, f)
  \/ \E o \in QObjects : CacheQObject(o) \/ RemoveObject(o)
  \/ \E s \in Signals : Destroyed(s)

Spec == Init /\ [][Next]_vars

-----------------------------------------------------------------------------
(***************************************************************************)
(* Types of the variables; a connection goes to a method there is.         *)
(***************************************************************************)
Refs == Slots \ {0}

Method == [ref : Refs, types : Signals]

TypeOK ==
  /\ registry \in [Slots -> LuaFunctions \cup QObjects \cup Slots \cup {Nil}]
  /\ luaCBackMethods \in Seq(Method) /\ Len(luaCBackMethods) <= MaxMethods
  /\ DOMAIN cbackToMethodIndex \subseteq Refs
  /\ \A r \in DOMAIN cbackToMethodIndex :
       /\ cbackToMethodIndex[r] \in DOMAIN luaCBackMethods
       /\ luaCBackMethods[cbackToMethodIndex[r]].ref = r
  /\ connections \subseteq [signal : Signals, method : DOMAIN luaCBackMethods, copy : Nat]
  /\ DOMAIN objRefs \subseteq QObjects /\ \A o \in DOMAIN objRefs : objRefs[o] \in Refs
  /\ wanted \in [Signals -> [LuaFunctions -> Nat]]
  /\ discarded \subseteq LuaFunctions

(***************************************************************************)
(* Invoke (LuaCallbackDispatcher.cpp:98): whatever a signal is connected   *)
(* to finds a function, not a number or a table, where its reference       *)
(* points, and converts the arguments by the types of this very signal.    *)
(***************************************************************************)
InvokesAFunction ==
  \A c \in connections :
    LET method == luaCBackMethods[c.method]
    IN  /\ registry[method.ref] \in LuaFunctions
        /\ method.types = c.signal

(***************************************************************************)
(* The registry slots of methods and of cached tables are their own: no    *)
(* connect, disconnect or RemoveObject changes what another reference      *)
(* yields, even though Disconnect frees a reference that is not one.       *)
(***************************************************************************)
ReferencesHold ==
  [][/\ \A m \in DOMAIN luaCBackMethods :
          LET ref == luaCBackMethods[m].ref IN registry'[ref] = registry[ref]
     /\ \A o \in DOMAIN objRefs' : registry'[objRefs'[o]] = o]_vars

(***************************************************************************)
(* LuaContext.cpp:265-268 "connecting twice the same function will cause   *)
(* the function to be called twice", LuaCallbackDispatcher.h:117           *)
(* "Disconnect signal from Lua function": a signal calls a function as     *)
(* often as scripts connected it since they last disconnected it.          *)
(***************************************************************************)
Calls(s, f) ==
  Cardinality({c \in connections :
                 c.signal = s /\ registry[luaCBackMethods[c.method].ref] = f})

CalledAsOftenAsConnected ==
  \A s \in Signals, f \in LuaFunctions : Calls(s, f) = wanted[s][f]

(***************************************************************************)
(* LuaCallbackDispatcher.h:117 "Disconnect signal from Lua function".      *)
(***************************************************************************)
DisconnectedIsSilent ==
  \A s \in Signals, f \in LuaFunctions : wanted[s][f] = 0 => Calls(s, f) = 0
=============================================================================
