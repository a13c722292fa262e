------------------------------- MODULE LuaRefs -------------------------------
(***************************************************************************)
(* Lua's reference tables (luaL_ref and luaL_unref of the vendored LuaJIT, *)
(* src/lib_aux.c): a table with values in its positive slots, whose unused *)
(* slots form a linked list that starts in slot 0.  luabind keeps one with *)
(* weak values (src/weak_ref.cpp) and uses the registry as another.        *)
(***************************************************************************)
EXTENDS Integers

CONSTANTS
  MaxRef,  \* bound: the largest slot
  Nil

ASSUME LuaRefsAssumption == MaxRef \in Nat /\ Nil \notin Int

Slots == 0..MaxRef

EmptyTable == [i \in Slots |-> Nil]

\* lua_tointeger of slot 0; 0 for anything but a number.
FreeHead(t) == IF t[0] \in Nat THEN t[0] ELSE 0

\* lua_objlen: any n with a value in slot n (or n = 0) and none in slot n + 1.
\* With a nil among the values there are several, and which one the binary
\* search of lj_tab_len finds depends on the size of the array part.
Borders(t) == {n \in 0..(MaxRef - 1) : (n = 0 \/ t[n] # Nil) /\ t[n + 1] = Nil}

NewRefsFromLength(t) ==  \* mutant: ref++ forgotten
  IF FreeHead(t) # 0 THEN {FreeHead(t)} ELSE Borders(t)

\* luaL_ref: the slots it may return, and the table once `v` is stored there.
NewRefs(t) == IF FreeHead(t) # 0 THEN {FreeHead(t)} ELSE {n + 1 : n \in Borders(t)}

AfterRefNotUnlinking(t, ref, v) == [t EXCEPT ![ref] = v]  \* mutant: head kept

AfterRef(t, ref, v) ==
  [t EXCEPT ![0] = IF FreeHead(t) # 0 THEN t[ref] ELSE @, ![ref] = v]

\* luaL_unref of a reference that is not negative.
AfterUnref(t, ref) == [t EXCEPT ![ref] = t[0], ![0] = ref]
=============================================================================
