-------------------------- MODULE InstanceLifetime --------------------------
(***************************************************************************)
(* Who owns a C++ object, and how long the Lua instances (object_rep) that *)
(* stand for it live: pointer_holder (detail/instance_holder.hpp), the     *)
(* adopt policy (adopt_policy.hpp, back_reference.hpp), the dependency     *)
(* policy, the shared_ptr converter and destroy_instance, the __gc of an   *)
(* instance (src/object_rep.cpp).                                          *)
(*                                                                         *)
(* A self-reference (m_self) is taken to yield the object's instance until *)
(* that has been finalized, and nil after; WeakRefs is about whether it    *)
(* does.  Instances are numbered in the order of their creation.           *)
(***************************************************************************)
EXTENDS Integers, FiniteSets

CONSTANTS
  Objects,     \* C++ objects
  Wrapped,     \* those that inherit wrap_base
  SharedHeld,  \* those whose class_ has a smart pointer other than auto_ptr
  Adoptable,   \* those of a class some function with an adopt policy takes
  MaxReps,     \* bound: instances created
  RepSize,     \* sizeof(object_rep), in bytes
  Address,     \* Address[r]: where instance r is in memory
  Asserts,     \* whether assert is compiled in; a release build has NDEBUG
  MaxDeps,     \* bound: dependencies added to an instance
  Careless,    \* whether scripts pass to adopt(_n) an object that the program
               \* or another instance owns
  Throwing,    \* the instances whose __finalize raises an error
  MayClose,    \* whether lua_close happens
  None

Reps == 1..MaxReps

Kinds == {"auto", "shared", "raw"}

HolderType == [obj : Objects, kind : Kinds, owns : BOOLEAN, weak : BOOLEAN]

ASSUME InstanceLifetimeAssumption ==
  /\ MaxReps \in Nat /\ MaxDeps \in Nat
  /\ Asserts \in BOOLEAN /\ Careless \in BOOLEAN
  /\ Wrapped \subseteq Objects /\ SharedHeld \subseteq Objects
  /\ Adoptable \subseteq Objects
  /\ Throwing \subseteq Reps
  /\ MayClose \in BOOLEAN
  /\ None \notin Int /\ None \notin HolderType

\* Instances do not overlap in memory.
ASSUME AddressAssumption ==
  /\ RepSize \in Nat /\ Address \in [Reps -> Nat]
  /\ \A r, q \in Reps :
       /\ Address[r] < Address[q] => Address[r] + RepSize <= Address[q]
       /\ Address[r] = Address[q] => r = q

VARIABLES
  object,   \* object[o]: "none", "alive" or "dead"
  claims,   \* claims[o]: how many times the C++ program owns o
  holder,   \* holder[r]: the pointer_holder of an instance, or None
  created,  \* the instances created so far are 1..created
  roots,    \* the instances Lua code can reach
  self,     \* self[o]: the instance m_self of a wrapped object refers to
  strong,   \* strong[o]: the instance its m_strong_ref refers to, or None
  registry, \* what Lua's registry has for the addresses (char*)n + i
  m_dependency_cnt,  \* of an instance; it keeps the last value when it is gone
  patients, \* history: patients[n], the instances n was made dependent on
  shared,   \* the instances some shared_ptr_deleter keeps
  closing,  \* lua_close has begun
  deleted,  \* deleted[o]: how many times the destructor of o ran
  returned  \* history: the objects that adopt(result) gave to Lua

dependencyVars == <<registry, m_dependency_cnt, patients>>

vars == <<object, claims, holder, created, roots, self, strong, dependencyVars,
          shared, closing, deleted, returned>>

-----------------------------------------------------------------------------
\* A holder keeps its pointer `p` (for an auto_ptr: until it is released)
\* and `weak`, a plain copy that outlives it.
Holder(o, kind, owns) == [obj |-> o, kind |-> kind, owns |-> owns, weak |-> FALSE]

Live(r) == holder[r] # None

Owns(r, o) == Live(r) /\ holder[r].obj = o /\ holder[r].owns

\* pointer_holder::get finds no pointer at all.
YieldsNull(r) == ~holder[r].owns /\ ~holder[r].weak /\ holder[r].kind # "raw"

SelfUnchecked(o) == {self[o]}  \* mutant: nil is not told from an instance

\* weak_ref::get of a wrapped object.
SelfOf(o) == IF self[o] # None /\ Live(self[o]) THEN {self[o]} ELSE {}

\* The light userdata (char*)n + i that n takes as keys for its dependencies.
KeysOf(n, count) == {Address[n] + i : i \in 0..(count - 1)}

Keys == UNION {KeysOf(n, MaxDeps) : n \in Reps}

\* The registry and the stack are roots of the collector.
Reachable(r) ==
  \/ r \in roots \cup shared
  \/ \E o \in Objects : strong[o] = r
  \/ \E key \in Keys : registry[key] = r

NewRep(h) ==
  /\ created < MaxReps
  /\ created' = created + 1
  /\ holder' = [holder EXCEPT ![created + 1] = h]
  /\ roots' = roots \cup {created + 1}

LuaRuns == ~closing

-----------------------------------------------------------------------------
\* The C++ program makes an object of its own.
NewInCpp(o) ==
  /\ LuaRuns
  /\ object[o] = "none" /\ o \notin Wrapped
  /\ object' = [object EXCEPT ![o] = "alive"]
  /\ claims' = [claims EXCEPT ![o] = 1]
  /\ UNCHANGED <<holder, created, roots, self, strong, dependencyVars, shared,
                 closing, deleted, returned>>

\* construct::operator(): new T, inject_backref, then the holder.
Construct(o) ==
  /\ LuaRuns
  /\ object[o] = "none"
  /\ object' = [object EXCEPT ![o] = "alive"]
  /\ NewRep(Holder(o, IF o \in SharedHeld THEN "shared" ELSE "auto", TRUE))
  /\ self' = IF o \in Wrapped THEN [self EXCEPT ![o] = created + 1] ELSE self
  /\ UNCHANGED <<claims, strong, dependencyVars, shared, closing, deleted, returned>>

\* pointer_converter to Lua: the object's own instance if it has a back
\* reference (nil once that is gone), else a new one that does not own it.
ReturnPointer(o) ==
  /\ LuaRuns
  /\ object[o] = "alive"
  /\ IF o \in Wrapped
     THEN /\ roots' = roots \cup SelfOf(o)
          /\ UNCHANGED <<holder, created>>
     ELSE NewRep(Holder(o, "raw", FALSE))
  /\ UNCHANGED <<object, claims, self, strong, dependencyVars, shared, closing,
                 deleted, returned>>

\* adopt(result): a function gives up an object of the program.
ReturnAdopted(o) ==
  /\ LuaRuns
  /\ o \in Adoptable /\ object[o] = "alive" /\ claims[o] > 0
  /\ claims' = [claims EXCEPT ![o] = @ - 1]
  /\ IF o \in Wrapped
     THEN /\ strong[o] # None       \* assert(m_strong_ref.is_valid())
          /\ roots' = roots \cup SelfOf(o)
          /\ strong' = [strong EXCEPT ![o] = None]
          /\ UNCHANGED <<holder, created>>
     ELSE /\ NewRep(Holder(o, "auto", TRUE))
          /\ UNCHANGED strong
  /\ returned' = returned \cup {o}
  /\ UNCHANGED <<object, self, dependencyVars, shared, closing, deleted>>

-----------------------------------------------------------------------------
\* instance_holder::release: weak is set first, then an auto_ptr lets go of
\* its pointer and anything else throws.  The second time the pointer is null,
\* and so is weak from then on.
ReleasedWithoutOwnership(h) ==  \* mutant: release_ownership(p) forgotten
  [h EXCEPT !.weak = TRUE]

ReleasedInWrongOrder(h) ==  \* mutant: release_ownership(p) before weak = p
  IF h.kind = "auto" THEN [h EXCEPT !.weak = FALSE, !.owns = FALSE] ELSE h

Released(h) ==
  IF h.kind = "auto" THEN [h EXCEPT !.weak = h.owns, !.owns = FALSE]
  ELSE [h EXCEPT !.weak = TRUE]

\* What adjust_backref_ownership makes of the strong reference.
StrongNotSet(o) == strong[o]  \* mutant: m_strong_ref.set forgotten

StrongAfterAdopt(o) == IF o \in Wrapped /\ SelfOf(o) # {} THEN self[o] ELSE strong[o]

OwnedElsewhere(r) ==
  LET o == holder[r].obj
  IN  claims[o] > 0 \/ \E q \in Reps \ {r} : Owns(q, o)

\* adopt(_n): the pointer is taken before the holder is released.  match()
\* accepts an instance that yields null, and the function is called with it.
Adopt(r) ==
  /\ LuaRuns
  /\ r \in roots /\ Live(r) /\ holder[r].obj \in Adoptable
  /\ holder' = [holder EXCEPT ![r] = Released(@)]
  /\ IF holder[r].kind # "auto" \/ YieldsNull(r)
     THEN UNCHANGED <<claims, strong>>    \* the exception; a null pointer
     ELSE LET o == holder[r].obj
          IN  /\ object[o] = "alive" /\ (OwnedElsewhere(r) => Careless)
              /\ claims' = [claims EXCEPT ![o] = @ + 1]
              /\ strong' = [strong EXCEPT ![o] = StrongAfterAdopt(o)]
  /\ UNCHANGED <<object, created, roots, self, dependencyVars, shared, closing,
                 deleted, returned>>

\* The program deletes what it owns; ~wrap_base drops m_strong_ref.
CppDelete(o) ==
  /\ LuaRuns
  /\ claims[o] > 0
  /\ claims' = [claims EXCEPT ![o] = @ - 1]
  /\ object' = [object EXCEPT ![o] = "dead"]
  /\ deleted' = [deleted EXCEPT ![o] = @ + 1]
  /\ strong' = [strong EXCEPT ![o] = None]
  /\ UNCHANGED <<holder, created, roots, self, dependencyVars, shared, closing,
                 returned>>

-----------------------------------------------------------------------------
\* An argument shared_ptr<T>: its deleter keeps the instance by a handle.
TakeShared(r) ==
  /\ LuaRuns
  /\ r \in roots /\ Live(r)
  /\ shared' = shared \cup {r}
  /\ UNCHANGED <<object, claims, holder, created, roots, self, strong,
                 dependencyVars, closing, deleted, returned>>

\* A shared_ptr made that way is converted back: the handle is pushed.
ReturnShared(r) ==
  /\ LuaRuns
  /\ r \in shared
  /\ roots' = roots \cup {r}
  /\ UNCHANGED <<object, claims, holder, created, self, strong, dependencyVars,
                 shared, closing, deleted, returned>>

DropShared(r) ==
  /\ LuaRuns
  /\ r \in shared
  /\ shared' = shared \ {r}
  /\ UNCHANGED <<object, claims, holder, created, roots, self, strong,
                 dependencyVars, closing, deleted, returned>>

\* dependency(A, B): nurse->add_dependency(L, patient).
AddedUncounted(n, p) ==  \* mutant: ++m_dependency_cnt forgotten
  /\ registry' = [registry EXCEPT ![Address[n] + m_dependency_cnt[n]] = p]
  /\ UNCHANGED m_dependency_cnt

DependencyAdded(n, p) ==
  /\ registry' = [registry EXCEPT ![Address[n] + m_dependency_cnt[n]] = p]
  /\ m_dependency_cnt' = [m_dependency_cnt EXCEPT ![n] = @ + 1]

AddDependency(n, p) ==
  /\ LuaRuns
  /\ n \in roots /\ p \in roots /\ Live(n) /\ Live(p)
  /\ Asserts => m_dependency_cnt[n] < RepSize
  /\ m_dependency_cnt[n] < MaxDeps
  /\ DependencyAdded(n, p)
  /\ patients' = [patients EXCEPT ![n] = @ \cup {p}]
  /\ UNCHANGED <<object, claims, holder, created, roots, self, strong, shared,
                 closing, deleted, returned>>

Forget(r) ==
  /\ LuaRuns
  /\ r \in roots
  /\ roots' = roots \ {r}
  /\ UNCHANGED <<object, claims, holder, created, self, strong, dependencyVars,
                 shared, closing, deleted, returned>>

-----------------------------------------------------------------------------
(***************************************************************************)
(* destroy_instance.  __finalize is called unprotected: when it raises an  *)
(* error nothing after it runs, and Lua calls no finalizer twice.          *)
(***************************************************************************)
DestructorOf(r) ==
  IF holder[r].owns
  THEN /\ object' = [object EXCEPT ![holder[r].obj] = "dead"]
       /\ deleted' = [deleted EXCEPT ![holder[r].obj] = @ + 1]
       /\ strong' = [strong EXCEPT ![holder[r].obj] = None]
  ELSE UNCHANGED <<object, deleted, strong>>

DependenciesKept(r) == registry  \* mutant: release_dependency_refs forgotten

DependenciesReleased(r) ==
  [key \in Keys |-> IF key \in KeysOf(r, m_dependency_cnt[r]) THEN None ELSE registry[key]]

DestroyInstance(r) ==
  /\ holder' = [holder EXCEPT ![r] = None]
  /\ roots' = roots \ {r}
  /\ IF r \in Throwing
     THEN UNCHANGED <<object, deleted, strong, registry>>
     ELSE DestructorOf(r) /\ registry' = DependenciesReleased(r)
  /\ UNCHANGED <<claims, created, self, shared, closing, m_dependency_cnt,
                 patients, returned>>

Collect(r) ==
  /\ LuaRuns
  /\ Live(r) /\ ~Reachable(r)
  /\ DestroyInstance(r)

\* lua_close finalizes every instance, the newest first.
Close ==
  /\ MayClose /\ ~closing
  /\ closing' = TRUE
  /\ UNCHANGED <<object, claims, holder, created, roots, self, strong, dependencyVars, shared,
                 deleted, returned>>

CloseFinalizes(r) ==
  /\ closing
  /\ Live(r) /\ \A q \in Reps : q > r => ~Live(q)
  /\ DestroyInstance(r)

-----------------------------------------------------------------------------
Init ==
  /\ object = [o \in Objects |-> "none"]
  /\ claims = [o \in Objects |-> 0]
  /\ holder = [r \in Reps |-> None]
  /\ created = 0
  /\ roots = {}
  /\ self = [o \in Objects |-> None]
  /\ strong = [o \in Objects |-> None]
  /\ registry = [key \in Keys |-> None]
  /\ m_dependency_cnt = [r \in Reps |-> 0]
  /\ patients = [r \in Reps |-> {}]
  /\ shared = {}
  /\ closing = FALSE
  /\ deleted = [o \in Objects |-> 0]
  /\ returned = {}

Next ==
  \/ \E o \in Objects :
       \/ NewInCpp(o) \/ Construct(o) \/ ReturnPointer(o)
       \/ ReturnAdopted(o) \/ CppDelete(o)
  \/ \E r \in Reps :
       \/ Adopt(r) \/ TakeShared(r) \/ ReturnShared(r) \/ DropShared(r)
       \/ Forget(r) \/ Collect(r) \/ CloseFinalizes(r)
  \/ \E n, p \in Reps : AddDependency(n, p)
  \/ Close

Spec == Init /\ [][Next]_vars

\* As long as Lua code runs it allocates, and allocation drives the collector.
Fairness == \A r \in Reps : WF_vars(Collect(r))

FairSpec == Spec /\ Fairness

-----------------------------------------------------------------------------
(***************************************************************************)
(* Types of the variables; a script never holds what has been finalized.   *)
(***************************************************************************)
TypeOK ==
  /\ object \in [Objects -> {"none", "alive", "dead"}]
  /\ claims \in [Objects -> Nat]
  /\ holder \in [Reps -> HolderType \cup {None}]
  /\ created \in 0..MaxReps
  /\ \A r \in Reps : Live(r) => r <= created
  /\ \A r \in roots : r \in Reps /\ Live(r)
  /\ shared \subseteq 1..created
  /\ self \in [Objects -> Reps \cup {None}]
  /\ strong \in [Objects -> Reps \cup {None}]
  /\ registry \in [Keys -> Reps \cup {None}]
  /\ m_dependency_cnt \in [Reps -> 0..MaxDeps]
  /\ patients \in [Reps -> SUBSET Reps]
  /\ closing \in BOOLEAN
  /\ deleted \in [Objects -> Nat]
  /\ returned \subseteq Objects

(***************************************************************************)
(* An object has at most one owner, the C++ program or one instance, and   *)
(* whoever owns it owns a living object: through constructors, adoption in *)
(* both directions, adoptions that throw, and collections, nothing is ever *)
(* deleted twice.                                                          *)
(***************************************************************************)
Owners(o) == {r \in Reps : Owns(r, o)}

OneOwner ==
  \A o \in Objects :
    /\ claims[o] + Cardinality(Owners(o)) <= 1
    /\ (claims[o] > 0 \/ Owners(o) # {}) => object[o] = "alive"
    /\ deleted[o] <= 1

(***************************************************************************)
(* The instance of a wrapped object is kept while C++ owns the object (the *)
(* purpose of m_strong_ref): its virtual calls reach the Lua class, and    *)
(* adopt(result) has an instance to return (the assert of                  *)
(* move_back_reference).                                                   *)
(***************************************************************************)
AdoptedKeepsItsPart ==
  \A o \in Wrapped : (claims[o] > 0 /\ ~closing) =>
    strong[o] # None /\ strong[o] = self[o] /\ Live(strong[o])

(***************************************************************************)
(* instance_holder.hpp:121-123 "weak will hold a possibly stale pointer to *)
(* the object owned by p once p has released it's owership", and the check *)
(* of not_null (test_adopt.cpp:42-45): an instance a script holds is not   *)
(* converted to a null pointer, whoever has adopted its object.  Only an   *)
(* object that C++ has given back by adopt(result) is an exception: the    *)
(* next adoption sets weak to the null pointer that is left in p.          *)
(***************************************************************************)
NullOnlyAfterReturn ==
  \A r \in roots : YieldsNull(r) => holder[r].obj \in returned

(***************************************************************************)
(* docs.rst:1921 "the self-object will be kept alive as long as the result *)
(* is still alive": while Lua runs, everything an instance depends on is   *)
(* there until the instance has been finalized, in whatever order          *)
(* dependencies are added, repeated and released around it.  A build       *)
(* without assert promises this as long as no instance was ever given more *)
(* dependencies than it has bytes: any more take the keys of others.       *)
(***************************************************************************)
InRoom == \A n \in Reps : m_dependency_cnt[n] <= RepSize

PatientKeptWhileRunning ==
  InRoom /\ ~closing => \A n \in Reps : Live(n) => \A p \in patients[n] : Live(p)

(***************************************************************************)
(* Once scripts and C++ have let go for good, everything is collected: a   *)
(* chain of dependencies comes undone link by link, in any build, and an   *)
(* object Lua owns is deleted; unless instances depend on each other in a  *)
(* circle, or a __finalize that raised an error left its references.       *)
(***************************************************************************)
LetGo == roots = {} /\ shared = {} /\ \A o \in Objects : strong[o] = None

DependOnEachOther ==
  \E circle \in (SUBSET Reps) \ {{}} :
    \A n \in circle : \E key \in KeysOf(n, m_dependency_cnt[n]) : registry[key] \in circle

EverythingCollected ==
  <>[](LetGo /\ ~closing /\ ~DependOnEachOther) => <>[](\A r \in Reps : ~Live(r))
=============================================================================
