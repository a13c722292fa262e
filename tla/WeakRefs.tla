------------------------------ MODULE WeakRefs ------------------------------
(***************************************************************************)
(* The self-references of C++ objects whose class has a wrapper            *)
(* (src/weak_ref.cpp).  The constructor stores a weak reference to the Lua *)
(* instance in the object (inject_backref); it is how C++ finds the Lua    *)
(* part again, to dispatch a virtual call or to hand the object to Lua.    *)
(*                                                                         *)
(* The hazard: the reference is a slot of a table with weak values, and    *)
(* two parties empty slots: ~impl, through the free list, and the garbage  *)
(* collector, behind its back, an arbitrary time before ~impl runs.        *)
(***************************************************************************)
EXTENDS LuaRefs

CONSTANTS
  Wrappers,    \* C++ objects that inherit wrap_base, with their Lua parts
  NoRef,
  Incremental  \* whether Lua code runs between the atomic phase of a
               \* collection and its finalizers; not so when the collector
               \* is stopped and run by collectgarbage('collect')

ASSUME WeakRefsAssumption ==
  /\ Incremental \in BOOLEAN
  /\ NoRef \notin Int
  /\ Nil \notin Wrappers /\ Wrappers \cap Int = {}

VARIABLES
  weak,    \* the weak table
  ref,     \* ref[w]: m_impl->ref of a living object, or NoRef
  part,    \* part[w]: its instance: "none", "live", "condemned" or "gone"
  used,    \* the instances Lua code can reach
  owner,   \* owner[w]: who will delete the object: "lua", "cpp" or "nobody"
  strong   \* strong[w]: what m_strong_ref holds, or NoRef

vars == <<weak, ref, part, used, owner, strong>>

Alive(w) == ref[w] # NoRef

Condemned == {w \in Wrappers : part[w] = "condemned"}

\* Finalizers run one per collection step, with Lua code in between.
LuaRuns == Incremental \/ Condemned = {}

\* weak_ref::get: the value in the slot.
Get(w) == weak[ref[w]]

-----------------------------------------------------------------------------
\* constructor.hpp: new T, then inject_backref.  A new object may take the
\* name of one that is dead and whose instance is gone.
Construct(w) ==
  /\ LuaRuns
  /\ part[w] \in {"none", "gone"} /\ ~Alive(w) /\ w \notin used
  /\ \E r \in NewRefs(weak) :
       /\ weak' = AfterRef(weak, r, w)
       /\ ref' = [ref EXCEPT ![w] = r]
  /\ part' = [part EXCEPT ![w] = "live"]
  /\ used' = used \cup {w}
  /\ owner' = [owner EXCEPT ![w] = "lua"]
  /\ UNCHANGED strong

Forget(w) ==
  /\ LuaRuns
  /\ w \in used
  /\ used' = used \ {w}
  /\ UNCHANGED <<weak, ref, part, owner, strong>>

AdoptWithoutStrongRef(w) ==  \* mutant: no adjust_backref_ownership
  /\ LuaRuns
  /\ w \in used /\ Alive(w) /\ owner[w] # "cpp"
  /\ owner' = [owner EXCEPT ![w] = "cpp"]
  /\ UNCHANGED <<weak, ref, part, used, strong>>

\* adopt(_n): the holder releases the object; adjust_backref_ownership keeps
\* the instance alive by a strong reference to what the weak one yields.
Adopt(w) ==
  /\ LuaRuns
  /\ w \in used /\ Alive(w) /\ owner[w] # "cpp"
  /\ owner' = [owner EXCEPT ![w] = "cpp"]
  /\ strong' = [strong EXCEPT ![w] = Get(w)]
  /\ UNCHANGED <<weak, ref, part, used>>

\* A pointer to the object is converted to Lua (get_back_reference).
Return(w) ==
  /\ LuaRuns
  /\ Alive(w)
  /\ used' = used \cup ({Get(w)} \cap Wrappers)
  /\ UNCHANGED <<weak, ref, part, owner, strong>>

\* adopt(result): move_back_reference gives up the strong reference; the
\* holder is not told, so nobody owns the object any more.
ReturnAdopted(w) ==
  /\ LuaRuns
  /\ owner[w] = "cpp" /\ strong[w] # NoRef
  /\ used' = used \cup ({Get(w)} \cap Wrappers)
  /\ strong' = [strong EXCEPT ![w] = NoRef]
  /\ owner' = [owner EXCEPT ![w] = "nobody"]
  /\ UNCHANGED <<weak, ref, part>>

DestroyKeepingRef(w) ==  \* mutant: m_impl survives its object
  /\ weak' = AfterUnref(weak, ref[w])
  /\ strong' = [strong EXCEPT ![w] = NoRef]
  /\ UNCHANGED ref

\* ~wrap_base: ~impl frees the slot.
Destroy(w) ==
  /\ weak' = AfterUnref(weak, ref[w])
  /\ ref' = [ref EXCEPT ![w] = NoRef]
  /\ strong' = [strong EXCEPT ![w] = NoRef]

CppDelete(w) ==
  /\ LuaRuns
  /\ Alive(w) /\ owner[w] = "cpp"
  /\ Destroy(w)
  /\ UNCHANGED <<part, used, owner>>

-----------------------------------------------------------------------------
(***************************************************************************)
(* The collector.  The atomic phase condemns every unreachable instance at *)
(* once and clears the weak slots that hold them; the finalizers run later *)
(* and delete the objects Lua still owns.                                  *)
(***************************************************************************)
Garbage ==
  {w \in Wrappers : part[w] = "live" /\ w \notin used
                      /\ \A u \in Wrappers : strong[u] # w}

AtomicPhase ==
  /\ Condemned = {}
  /\ Garbage # {}
  /\ part' = [w \in Wrappers |-> IF w \in Garbage THEN "condemned" ELSE part[w]]
  /\ weak' = [i \in Slots |-> IF weak[i] \in Garbage THEN Nil ELSE weak[i]]
  /\ UNCHANGED <<ref, used, owner, strong>>

\* destroy_instance: ~pointer_holder deletes what an auto_ptr still holds.
Finalize(w) ==
  /\ part[w] = "condemned"
  /\ part' = [part EXCEPT ![w] = "gone"]
  /\ IF owner[w] = "lua" THEN Destroy(w) ELSE UNCHANGED <<weak, ref, strong>>
  /\ UNCHANGED <<used, owner>>

-----------------------------------------------------------------------------
Init ==
  /\ weak = EmptyTable
  /\ ref = [w \in Wrappers |-> NoRef]
  /\ part = [w \in Wrappers |-> "none"]
  /\ used = {}
  /\ owner = [w \in Wrappers |-> "nobody"]
  /\ strong = [w \in Wrappers |-> NoRef]

Next ==
  \/ \E w \in Wrappers :
       \/ Construct(w) \/ Forget(w) \/ Adopt(w) \/ Return(w)
       \/ ReturnAdopted(w) \/ CppDelete(w) \/ Finalize(w)
  \/ AtomicPhase

Spec == Init /\ [][Next]_vars

-----------------------------------------------------------------------------
(***************************************************************************)
(* Types of the variables.                                                 *)
(***************************************************************************)
Value == Wrappers \cup Slots \cup {Nil}

TypeOK ==
  /\ weak \in [Slots -> Value]
  /\ ref \in [Wrappers -> (Slots \ {0}) \cup {NoRef}]
  /\ part \in [Wrappers -> {"none", "live", "condemned", "gone"}]
  /\ used \subseteq Wrappers
  /\ owner \in [Wrappers -> {"lua", "cpp", "nobody"}]
  /\ strong \in [Wrappers -> Value \cup {NoRef}]

(***************************************************************************)
(* docs.rst:1498 "object identity is preserved": as long as its instance   *)
(* has not been condemned, a living object finds it, and no other, by its  *)
(* weak reference.                                                         *)
(***************************************************************************)
IdentityPreserved ==
  \A w \in Wrappers : (Alive(w) /\ part[w] = "live") => Get(w) = w

(***************************************************************************)
(* The instance of an object that C++ owns is kept from the collector, so  *)
(* that a virtual call on the object always finds its Lua part.            *)
(***************************************************************************)
AdoptedKeepsItsPart ==
  \A w \in Wrappers : (Alive(w) /\ owner[w] = "cpp") => part[w] = "live"

(***************************************************************************)
(* The free list names no slot that a living, owned object refers to, and  *)
(* no slot twice: luaL_ref never gives two objects the same slot.          *)
(***************************************************************************)
FreeSlotsAreFree ==
  \A i, j \in Slots : (weak[i] \in Nat /\ weak[i] # 0) =>
    /\ \A w \in Wrappers : ref[w] = weak[i] => owner[w] = "nobody"
    /\ weak[j] = weak[i] => i = j
=============================================================================
