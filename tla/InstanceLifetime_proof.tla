----------------------- MODULE InstanceLifetime_proof -----------------------
(***************************************************************************)
(* Proofs about ownership, for any number of objects and instances.        *)
(***************************************************************************)
EXTENDS InstanceLifetime, FiniteSetTheorems, TLAPS

-----------------------------------------------------------------------------
(***************************************************************************)
(* The inductive invariant: one conjunct per party that could be wrong     *)
(* about an object.                                                        *)
(***************************************************************************)
\* C++ and the instances: who owns o, and how often o has been deleted.
OwnedOnce(o) ==
  /\ object[o] = "none" => /\ claims[o] = 0 /\ deleted[o] = 0
                           /\ \A r \in Reps : Live(r) => holder[r].obj # o
  /\ object[o] = "alive" => deleted[o] = 0
  /\ object[o] = "dead" => deleted[o] = 1
  /\ claims[o] = 0 \/ (claims[o] = 1 /\ object[o] = "alive")
  /\ \A r \in Reps : Owns(r, o) => object[o] = "alive" /\ claims[o] = 0
  /\ \A r, q \in Reps : Owns(r, o) /\ Owns(q, o) => r = q

OwnInv == \A o \in Objects : OwnedOnce(o)

\* A wrapped object has no instance but its own.
SelfInv ==
  \A r \in Reps : Live(r) /\ holder[r].obj \in Wrapped => self[holder[r].obj] = r

\* What a shared_ptr or the registry keeps has not been collected.
SharedLive == \A r \in shared : Live(r)

RegistryLive == \A key \in Keys : registry[key] # None => Live(registry[key])

KeptLive == ~closing => SharedLive /\ RegistryLive

\* Every patient of an instance is under one of its keys.
Keeps(n, p) ==
  \E i \in 0..(m_dependency_cnt[n] - 1) : registry[Address[n] + i] = p

PatientsRegistered ==
  /\ \A n \in Reps : patients[n] # {} => n <= created
  /\ InRoom => \A n \in Reps : Live(n) => \A p \in patients[n] : Keeps(n, p)

-----------------------------------------------------------------------------
(***************************************************************************)
(* Type correctness.                                                       *)
(***************************************************************************)
LEMMA HolderTyped ==
  ASSUME NEW o \in Objects, NEW kind \in Kinds, NEW owns \in BOOLEAN
  PROVE  Holder(o, kind, owns) \in HolderType /\ Holder(o, kind, owns) # None
<1>1. Holder(o, kind, owns) \in HolderType
  BY DEF Holder, HolderType
<1>. QED
  BY <1>1, InstanceLifetimeAssumption

LEMMA ReleasedTyped ==
  ASSUME NEW h \in HolderType
  PROVE  Released(h) \in HolderType /\ Released(h) # None
         /\ Released(h).obj = h.obj /\ Released(h).kind = h.kind
<1>1. Released(h) \in HolderType
  BY DEF Released, HolderType
<1>2. Released(h).obj = h.obj /\ Released(h).kind = h.kind
  BY DEF Released, HolderType
<1>. QED
  BY <1>1, <1>2, InstanceLifetimeAssumption

LEMMA NewRepTyped ==
  ASSUME TypeOK, NEW h \in HolderType, NewRep(h)
  PROVE  /\ created + 1 \in Reps
         /\ holder[created + 1] = None
         /\ holder' \in [Reps -> HolderType \cup {None}]
         /\ created' \in 0..MaxReps
         /\ \A r \in Reps : holder'[r] # None => r <= created'
         /\ \A r \in roots' : r \in Reps /\ holder'[r] # None
         /\ shared \subseteq 1..created'
<1>1. created + 1 \in Reps /\ created' = created + 1 /\ h # None
  BY InstanceLifetimeAssumption DEF TypeOK, NewRep, Reps
<1>2. holder[created + 1] = None
  BY <1>1, InstanceLifetimeAssumption DEF TypeOK, Live, Reps
<1>3. holder' = [holder EXCEPT ![created + 1] = h] /\ roots' = roots \cup {created + 1}
  BY DEF NewRep
<1>4. \A r \in Reps : holder'[r] = IF r = created + 1 THEN h ELSE holder[r]
  BY <1>1, <1>3 DEF TypeOK
<1>5. holder' \in [Reps -> HolderType \cup {None}]
  BY <1>3 DEF TypeOK
<1>6. created' \in 0..MaxReps /\ shared \subseteq 1..created'
  BY <1>1, InstanceLifetimeAssumption DEF TypeOK, Reps
<1>7. \A r \in Reps : holder'[r] # None => r <= created'
  BY <1>1, <1>4, InstanceLifetimeAssumption DEF TypeOK, Live, Reps
<1>8. \A r \in roots' : r \in Reps /\ holder'[r] # None
  BY <1>1, <1>3, <1>4 DEF TypeOK, Live
<1>. QED
  BY <1>1, <1>2, <1>5, <1>6, <1>7, <1>8

LEMMA DestroyTyped ==
  ASSUME TypeOK, NEW r \in Reps, Live(r), DestroyInstance(r),
         roots' = roots \ {r}, shared' = shared
  PROVE  TypeOK'
<1>1. holder[r] \in HolderType /\ holder[r].obj \in Objects
  BY DEF TypeOK, Live, HolderType
<1>2. holder' = [holder EXCEPT ![r] = None] /\ roots' = roots \ {r}
      /\ UNCHANGED <<claims, created, self, shared, closing, returned>>
  BY DEF DestroyInstance
<1>3. object' \in [Objects -> {"none", "alive", "dead"}]
      /\ deleted' \in [Objects -> Nat] /\ strong' \in [Objects -> Reps \cup {None}]
      /\ registry' \in [Keys -> Reps \cup {None}]
      /\ m_dependency_cnt' = m_dependency_cnt /\ patients' = patients
  <2>1. CASE r \in Throwing
    BY <2>1 DEF DestroyInstance, TypeOK
  <2>2. CASE r \notin Throwing /\ holder[r].owns
    BY <1>1, <2>2 DEF DestroyInstance, DestructorOf, DependenciesReleased, TypeOK
  <2>3. CASE r \notin Throwing /\ ~holder[r].owns
    BY <1>1, <2>3 DEF DestroyInstance, DestructorOf, DependenciesReleased, TypeOK
  <2>. QED
    BY <2>1, <2>2, <2>3
<1>4. holder' \in [Reps -> HolderType \cup {None}]
  BY <1>2 DEF TypeOK
<1>5. \A q \in Reps : holder'[q] = IF q = r THEN None ELSE holder[q]
  BY <1>2 DEF TypeOK
<1>6. (\A q \in Reps : Live(q) => q <= created)'
  BY <1>2, <1>5 DEF TypeOK, Live
<1>7. (\A q \in roots : q \in Reps /\ Live(q))'
  BY <1>2, <1>5 DEF TypeOK, Live
<1>. QED
  BY <1>2, <1>3, <1>4, <1>6, <1>7 DEF TypeOK

\* add_dependency takes a key the registry has a place for.
LEMMA AddedTyped ==
  ASSUME TypeOK, NEW n \in Reps, NEW p \in Reps, AddDependency(n, p)
  PROVE  /\ Address[n] + m_dependency_cnt[n] \in Keys
         /\ registry' \in [Keys -> Reps \cup {None}]
         /\ m_dependency_cnt' \in [Reps -> 0..MaxDeps]
<1>1. m_dependency_cnt[n] \in 0..(MaxDeps - 1) /\ MaxDeps \in Nat
  BY InstanceLifetimeAssumption DEF AddDependency, TypeOK
<1>2. Address[n] + m_dependency_cnt[n] \in KeysOf(n, MaxDeps)
  BY <1>1 DEF KeysOf
<1>3. m_dependency_cnt[n] + 1 \in 0..MaxDeps
  BY <1>1
<1>. QED
  BY <1>2, <1>3 DEF Keys, AddDependency, DependencyAdded, TypeOK

LEMMA TypeInit == Init => TypeOK
<1>. SUFFICES ASSUME Init PROVE TypeOK
  OBVIOUS
<1>1. created \in 0..MaxReps /\ shared \subseteq 1..created
  BY InstanceLifetimeAssumption DEF Init
<1>2. 0 \in 0..MaxDeps
  BY InstanceLifetimeAssumption
<1>. QED
  BY <1>1, <1>2 DEF Init, TypeOK, Live

LEMMA TypeStep == TypeOK /\ KeptLive /\ [Next]_vars => TypeOK'
<1>. SUFFICES ASSUME TypeOK, KeptLive, [Next]_vars PROVE TypeOK'
  OBVIOUS
<1>. USE InstanceLifetimeAssumption DEF dependencyVars
<1>1. ASSUME NEW o \in Objects, NewInCpp(o) PROVE TypeOK'
  BY <1>1 DEF NewInCpp, TypeOK, Live
<1>2. ASSUME NEW o \in Objects, Construct(o) PROVE TypeOK'
  <2>. DEFINE h == Holder(o, IF o \in SharedHeld THEN "shared" ELSE "auto", TRUE)
  <2>1. h \in HolderType
    BY HolderTyped DEF Kinds
  <2>2. NewRep(h)
    BY <1>2 DEF Construct
  <2>. HIDE DEF h
  <2>3. self' \in [Objects -> Reps \cup {None}]
    BY <1>2, <2>1, <2>2, NewRepTyped DEF Construct, TypeOK
  <2>. QED
    BY <1>2, <2>1, <2>2, <2>3, NewRepTyped DEF Construct, TypeOK, Live
<1>3. ASSUME NEW o \in Objects, ReturnPointer(o) PROVE TypeOK'
  <2>1. CASE o \in Wrapped
    <3>1. \A r \in SelfOf(o) : r \in Reps /\ Live(r)
      BY DEF SelfOf, TypeOK
    <3>. QED
      BY <1>3, <2>1, <3>1 DEF ReturnPointer, TypeOK, Live
  <2>2. CASE o \notin Wrapped
    <3>1. Holder(o, "raw", FALSE) \in HolderType
      BY HolderTyped DEF Kinds
    <3>. QED
      BY <1>3, <2>2, <3>1, NewRepTyped DEF ReturnPointer, TypeOK, Live
  <2>. QED
    BY <2>1, <2>2
<1>4. ASSUME NEW o \in Objects, ReturnAdopted(o) PROVE TypeOK'
  <2>1. claims' \in [Objects -> Nat]
    BY <1>4 DEF ReturnAdopted, TypeOK
  <2>2. CASE o \in Wrapped
    <3>1. \A r \in SelfOf(o) : r \in Reps /\ Live(r)
      BY DEF SelfOf, TypeOK
    <3>. QED
      BY <1>4, <2>1, <2>2, <3>1 DEF ReturnAdopted, TypeOK, Live
  <2>3. CASE o \notin Wrapped
    <3>1. Holder(o, "auto", TRUE) \in HolderType
      BY HolderTyped DEF Kinds
    <3>. QED
      BY <1>4, <2>1, <2>3, <3>1, NewRepTyped DEF ReturnAdopted, TypeOK, Live
  <2>. QED
    BY <2>2, <2>3
<1>5. ASSUME NEW r \in Reps, Adopt(r) PROVE TypeOK'
  <2>1. holder[r] \in HolderType /\ holder[r].obj \in Objects
    BY <1>5 DEF Adopt, TypeOK, Live, HolderType
  <2>2. holder' = [holder EXCEPT ![r] = Released(holder[r])]
    BY <1>5 DEF Adopt
  <2>3. \A q \in Reps : holder'[q] # None <=> holder[q] # None
    BY <1>5, <2>1, <2>2, ReleasedTyped DEF Adopt, Live, TypeOK
  <2>4. holder' \in [Reps -> HolderType \cup {None}]
    BY <2>1, <2>2, ReleasedTyped DEF TypeOK
  <2>5. claims' \in [Objects -> Nat] /\ strong' \in [Objects -> Reps \cup {None}]
    BY <1>5, <2>1 DEF Adopt, StrongAfterAdopt, TypeOK
  <2>. QED
    BY <1>5, <2>3, <2>4, <2>5 DEF Adopt, TypeOK, Live
<1>6. ASSUME NEW o \in Objects, CppDelete(o) PROVE TypeOK'
  BY <1>6 DEF CppDelete, TypeOK, Live
<1>7. ASSUME NEW r \in Reps, TakeShared(r) PROVE TypeOK'
  BY <1>7 DEF TakeShared, TypeOK, Live, Reps
<1>8. ASSUME NEW r \in Reps, ReturnShared(r) PROVE TypeOK'
  BY <1>8 DEF ReturnShared, LuaRuns, KeptLive, SharedLive, TypeOK, Live
<1>9. ASSUME NEW r \in Reps, DropShared(r) PROVE TypeOK'
  BY <1>9 DEF DropShared, TypeOK, Live
<1>10. ASSUME NEW r \in Reps, Forget(r) PROVE TypeOK'
  BY <1>10 DEF Forget, TypeOK, Live
<1>11. ASSUME NEW n \in Reps, NEW p \in Reps, AddDependency(n, p) PROVE TypeOK'
  BY <1>11, AddedTyped DEF AddDependency, DependencyAdded, TypeOK, Live
<1>12. ASSUME NEW r \in Reps, Collect(r) \/ CloseFinalizes(r) PROVE TypeOK'
  BY <1>12, DestroyTyped DEF Collect, CloseFinalizes, DestroyInstance
<1>13. CASE Close
  BY <1>13 DEF Close, TypeOK, Live
<1>14. CASE UNCHANGED vars
  BY <1>14 DEF vars, TypeOK, Live
<1>. QED
  BY <1>1, <1>2, <1>3, <1>4, <1>5, <1>6, <1>7, <1>8, <1>9, <1>10, <1>11, <1>12,
     <1>13, <1>14 DEF Next

-----------------------------------------------------------------------------
(***************************************************************************)
(* What is kept is there: nothing reachable is collected.                  *)
(***************************************************************************)
\* Every step but a finalization keeps the instances.
LEMMA LiveStays ==
  ASSUME TypeOK, [Next]_vars, NEW q \in Reps, Live(q),
         \A r \in Reps : ~Collect(r) /\ ~CloseFinalizes(r)
  PROVE  Live(q)'
<1>1. ASSUME NEW h \in HolderType, NewRep(h) PROVE holder'[q] = holder[q]
  BY <1>1, NewRepTyped DEF NewRep, TypeOK, Live
<1>2. ASSUME NEW o \in Objects, Construct(o) PROVE holder'[q] = holder[q]
  <2>. DEFINE h == Holder(o, IF o \in SharedHeld THEN "shared" ELSE "auto", TRUE)
  <2>1. h \in HolderType
    BY HolderTyped DEF Kinds
  <2>2. NewRep(h)
    BY <1>2 DEF Construct
  <2>. HIDE DEF h
  <2>. QED
    BY <1>1, <2>1, <2>2
<1>3. ASSUME NEW o \in Objects, ReturnPointer(o) \/ ReturnAdopted(o)
      PROVE  holder'[q] = holder[q]
  <2>1. Holder(o, "raw", FALSE) \in HolderType /\ Holder(o, "auto", TRUE) \in HolderType
    BY HolderTyped DEF Kinds
  <2>. QED
    BY <1>1, <1>3, <2>1 DEF ReturnPointer, ReturnAdopted
<1>4. ASSUME NEW r \in Reps, Adopt(r) PROVE holder'[q] # None
  <2>1. holder' = [holder EXCEPT ![r] = Released(holder[r])] /\ Released(holder[r]) # None
    BY <1>4, ReleasedTyped DEF Adopt, TypeOK, Live
  <2>. QED
    BY <2>1 DEF TypeOK, Live
<1>5. ASSUME NEW r \in Reps, Collect(r) \/ CloseFinalizes(r) PROVE FALSE
  BY <1>5
<1>6. CASE \E o \in Objects : NewInCpp(o) \/ CppDelete(o)
  BY <1>6 DEF NewInCpp, CppDelete, Live
<1>7. CASE \E r \in Reps : TakeShared(r) \/ ReturnShared(r) \/ DropShared(r) \/ Forget(r)
  BY <1>7 DEF TakeShared, ReturnShared, DropShared, Forget, Live
<1>8. CASE Close \/ \E n, p \in Reps : AddDependency(n, p)
  BY <1>8 DEF Close, AddDependency, Live
<1>9. CASE UNCHANGED vars
  BY <1>9 DEF vars, Live
<1>. QED
  BY <1>2, <1>3, <1>4, <1>5, <1>6, <1>7, <1>8, <1>9 DEF Next, Live

LEMMA KeptInit == Init => KeptLive
BY DEF Init, KeptLive, SharedLive, RegistryLive

\* Who writes the registry.
LEMMA RegistrySteps ==
  ASSUME [Next]_vars
  PROVE  \/ UNCHANGED dependencyVars
         \/ \E n, p \in Reps : AddDependency(n, p)
         \/ \E r \in Reps : Collect(r) \/ CloseFinalizes(r)
BY DEF Next, vars, NewInCpp, Construct, ReturnPointer, ReturnAdopted, CppDelete, Adopt,
       TakeShared, ReturnShared, DropShared, Forget, Close

LEMMA KeptStep == TypeOK /\ KeptLive /\ [Next]_vars => KeptLive'
<1>. SUFFICES ASSUME TypeOK, KeptLive, [Next]_vars, ~closing'
              PROVE  SharedLive' /\ RegistryLive'
  BY DEF KeptLive
<1>1. ~closing
  BY DEF Next, vars, NewInCpp, Construct, ReturnPointer, ReturnAdopted, CppDelete,
         Adopt, TakeShared, ReturnShared, DropShared, Forget, Collect,
         CloseFinalizes, DestroyInstance, AddDependency, Close
<1>2. SharedLive /\ RegistryLive
  BY <1>1 DEF KeptLive
<1>3. \A r \in Reps : ~CloseFinalizes(r)
  BY <1>1 DEF CloseFinalizes
<1>4. shared \subseteq Reps /\ registry \in [Keys -> Reps \cup {None}]
  BY InstanceLifetimeAssumption DEF TypeOK, Reps
<1>5. ASSUME NEW r \in Reps, Collect(r)
      PROVE  SharedLive' /\ RegistryLive'
  <2>1. r \notin shared /\ \A key \in Keys : registry[key] # r
    BY <1>5 DEF Collect, Reachable
  <2>2. shared' = shared /\ \A q \in Reps \ {r} : holder'[q] = holder[q]
    BY <1>5 DEF Collect, DestroyInstance, TypeOK
  <2>3. \A key \in Keys : registry'[key] \in {None, registry[key]}
    BY <1>4, <1>5 DEF Collect, DestroyInstance, DependenciesReleased
  <2>4. SharedLive'
    BY <1>2, <1>4, <2>1, <2>2 DEF SharedLive, Live
  <2>5. RegistryLive'
    <3>. SUFFICES ASSUME NEW key \in Keys, registry'[key] # None
                  PROVE  holder'[registry'[key]] # None
      BY DEF RegistryLive, Live
    <3>1. registry'[key] = registry[key] /\ registry[key] \in Reps \ {r}
      BY <1>4, <2>1, <2>3
    <3>. QED
      BY <1>2, <2>2, <3>1 DEF RegistryLive, Live
  <2>. QED
    BY <2>4, <2>5
<1>6. ASSUME \A r \in Reps : ~Collect(r)
      PROVE  SharedLive' /\ RegistryLive'
  <2>1. \A q \in Reps : Live(q) => Live(q)'
    BY <1>3, <1>6, LiveStays
  <2>2. \A q \in shared' : q \in Reps /\ Live(q)
    BY <1>2, <1>3, <1>4, <1>6
       DEF Next, vars, NewInCpp, Construct, ReturnPointer, ReturnAdopted, CppDelete,
           Adopt, TakeShared, ReturnShared, DropShared, Forget, AddDependency, Close,
           SharedLive
  <2>3. SharedLive'
    BY <2>1, <2>2 DEF SharedLive, Live
  <2>4. \A key \in Keys : registry'[key] # None =>
          registry'[key] \in Reps /\ Live(registry'[key])
    <3>1. CASE registry' = registry
      BY <1>2, <1>4, <3>1 DEF RegistryLive
    <3>2. ASSUME NEW n \in Reps, NEW p \in Reps, AddDependency(n, p)
          PROVE  \A key \in Keys : registry'[key] # None =>
                   registry'[key] \in Reps /\ Live(registry'[key])
      <4>1. \A key \in Keys : registry'[key] \in {registry[key], p}
        BY <1>4, <3>2 DEF AddDependency, DependencyAdded
      <4>. QED
        BY <1>2, <1>4, <3>2, <4>1 DEF AddDependency, RegistryLive
    <3>. QED
      BY <1>3, <1>6, <3>1, <3>2, RegistrySteps DEF dependencyVars
  <2>5. RegistryLive'
    BY <2>1, <2>4 DEF RegistryLive, Live
  <2>. QED
    BY <2>3, <2>5
<1>. QED
  BY <1>5, <1>6

-----------------------------------------------------------------------------
(***************************************************************************)
(* Patients: as long as nobody takes more keys than its own, those of two  *)
(* instances are different.                                                *)
(***************************************************************************)
LEMMA KeysApart ==
  ASSUME NEW n \in Reps, NEW m \in Reps, NEW i \in Nat, NEW j \in Nat,
         i < RepSize, j < RepSize, Address[n] + i = Address[m] + j
  PROVE  n = m /\ i = j
<1>1. Address[n] \in Nat /\ Address[m] \in Nat /\ RepSize \in Nat
  BY InstanceLifetimeAssumption, AddressAssumption
<1>2. ~(Address[n] < Address[m]) /\ ~(Address[m] < Address[n])
  BY <1>1, InstanceLifetimeAssumption, AddressAssumption
<1>3. Address[n] = Address[m]
  BY <1>1, <1>2
<1>. QED
  BY <1>1, <1>3, InstanceLifetimeAssumption, AddressAssumption

LEMMA RegisteredInit == Init => PatientsRegistered
BY DEF Init, PatientsRegistered

\* Instances come into being without patients.
LEMMA LiveComes ==
  ASSUME TypeOK, [Next]_vars, NEW n \in Reps, ~Live(n), holder'[n] # None
  PROVE  n > created
<1>1. ASSUME NEW h \in HolderType, NewRep(h) PROVE n = created + 1
  BY <1>1, NewRepTyped DEF NewRep, TypeOK, Live
<1>2. ASSUME NEW o \in Objects, Construct(o) PROVE n = created + 1
  <2>. PICK h \in HolderType : NewRep(h)
    BY <1>2, HolderTyped DEF Construct, Kinds
  <2>. QED
    BY <1>1
<1>3. ASSUME NEW o \in Objects, ReturnPointer(o) \/ ReturnAdopted(o)
      PROVE  n = created + 1
  <2>1. Holder(o, "raw", FALSE) \in HolderType /\ Holder(o, "auto", TRUE) \in HolderType
    BY HolderTyped DEF Kinds
  <2>2. PICK h \in HolderType : NewRep(h)
    BY <1>3, <2>1 DEF ReturnPointer, ReturnAdopted, Live
  <2>. QED
    BY <1>1, <2>2
<1>4. ASSUME NEW r \in Reps, Adopt(r) \/ Collect(r) \/ CloseFinalizes(r) PROVE FALSE
  BY <1>4 DEF Adopt, Collect, CloseFinalizes, DestroyInstance, TypeOK, Live
<1>5. \/ \E o \in Objects : Construct(o) \/ ReturnPointer(o) \/ ReturnAdopted(o)
      \/ \E r \in Reps : Adopt(r) \/ Collect(r) \/ CloseFinalizes(r)
  BY DEF Next, vars, NewInCpp, CppDelete, TakeShared, ReturnShared, DropShared, Forget,
         AddDependency, Close, Live
<1>. QED
  BY <1>2, <1>3, <1>4, <1>5 DEF TypeOK

LEMMA CreatedGrows == ASSUME TypeOK, [Next]_vars PROVE created' \in Nat /\ created <= created'
<1>1. created \in Nat
  BY DEF TypeOK
<1>2. created' \in {created, created + 1}
  BY DEF Next, vars, NewInCpp, Construct, ReturnPointer, ReturnAdopted, CppDelete, Adopt,
         TakeShared, ReturnShared, DropShared, Forget, AddDependency, Close, Collect,
         CloseFinalizes, DestroyInstance, NewRep
<1>. QED
  BY <1>1, <1>2

LEMMA RegisteredStep ==
  TypeOK /\ PatientsRegistered /\ [Next]_vars => PatientsRegistered'
<1>. SUFFICES ASSUME TypeOK, PatientsRegistered, [Next]_vars PROVE PatientsRegistered'
  OBVIOUS
<1>1. /\ created \in Nat /\ created' \in Nat /\ created <= created'
      /\ m_dependency_cnt \in [Reps -> 0..MaxDeps] /\ MaxDeps \in Nat /\ RepSize \in Nat
  BY CreatedGrows, InstanceLifetimeAssumption, AddressAssumption DEF TypeOK
<1>2. ASSUME UNCHANGED dependencyVars PROVE PatientsRegistered'
  <2>1. /\ registry' = registry /\ patients' = patients
        /\ m_dependency_cnt' = m_dependency_cnt
    BY <1>2 DEF dependencyVars
  <2>2. \A n \in Reps : patients'[n] # {} => n <= created'
    BY <1>1, <2>1 DEF PatientsRegistered, Reps
  <2>3. ASSUME NEW n \in Reps, NEW p \in patients'[n], InRoom', holder'[n] # None
        PROVE  Keeps(n, p)'
    <3>1. Live(n)
      BY <1>1, <2>1, <2>3, LiveComes DEF PatientsRegistered, Reps
    <3>2. InRoom
      BY <2>1, <2>3 DEF InRoom
    <3>3. Keeps(n, p)
      BY <2>1, <2>3, <3>1, <3>2 DEF PatientsRegistered
    <3>. QED
      BY <2>1, <3>3 DEF Keeps
  <2>. QED
    BY <2>2, <2>3 DEF PatientsRegistered, Live
<1>3. ASSUME NEW m \in Reps, NEW q \in Reps, AddDependency(m, q) PROVE PatientsRegistered'
  <2>1. /\ registry' = [registry EXCEPT ![Address[m] + m_dependency_cnt[m]] = q]
        /\ m_dependency_cnt' = [m_dependency_cnt EXCEPT ![m] = @ + 1]
        /\ patients' = [patients EXCEPT ![m] = @ \cup {q}]
        /\ holder' = holder /\ created' = created /\ Live(m)
        /\ Address[m] + m_dependency_cnt[m] \in Keys
    BY <1>3, AddedTyped DEF AddDependency, DependencyAdded
  <2>2. \A n \in Reps : patients'[n] # {} => n <= created'
    BY <2>1 DEF PatientsRegistered, TypeOK
  <2>3. ASSUME NEW n \in Reps, NEW p \in patients'[n], InRoom', Live(n)
        PROVE  Keeps(n, p)'
    <3>1. InRoom /\ m_dependency_cnt[m] < RepSize
      <4>1. m_dependency_cnt'[m] = m_dependency_cnt[m] + 1
            /\ \A k \in Reps : k # m => m_dependency_cnt'[k] = m_dependency_cnt[k]
        BY <1>1, <2>1
      <4>. QED
        BY <1>1, <2>3, <4>1 DEF InRoom
    <3>2. CASE n = m /\ p = q
      <4>1. m_dependency_cnt[m] \in 0..(m_dependency_cnt'[m] - 1)
        BY <1>1, <2>1
      <4>2. registry'[Address[m] + m_dependency_cnt[m]] = q
        BY <2>1 DEF TypeOK
      <4>. QED
        BY <3>2, <4>1, <4>2 DEF Keeps
    <3>3. CASE ~(n = m /\ p = q)
      <4>1. p \in patients[n]
        BY <2>1, <2>3, <3>3 DEF TypeOK
      <4>2. Keeps(n, p)
        BY <2>3, <3>1, <4>1 DEF PatientsRegistered
      <4>. PICK i \in 0..(m_dependency_cnt[n] - 1) : registry[Address[n] + i] = p
        BY <4>2 DEF Keeps
      <4>3. i \in Nat /\ m_dependency_cnt[n] \in Nat /\ m_dependency_cnt[m] \in Nat
            /\ i < m_dependency_cnt[n] /\ m_dependency_cnt[n] <= RepSize
        BY <1>1, <3>1 DEF InRoom
      <4>4. i < RepSize /\ (n = m => i # m_dependency_cnt[m])
        BY <1>1, <4>3
      <4>5. Address[n] + i # Address[m] + m_dependency_cnt[m]
        BY <3>1, <4>3, <4>4, KeysApart
      <4>6. registry'[Address[n] + i] = p
        <5>1. Address[n] + i \in Keys
          <6>1. i \in 0..(MaxDeps - 1)
            BY <1>1, <4>3
          <6>. QED
            BY <6>1 DEF Keys, KeysOf
        <5>. QED
          BY <2>1, <4>5, <5>1 DEF TypeOK
      <4>7. i \in 0..(m_dependency_cnt'[n] - 1)
        <5>1. m_dependency_cnt'[n] \in {m_dependency_cnt[n], m_dependency_cnt[n] + 1}
          BY <1>1, <2>1
        <5>. QED
          BY <4>3, <5>1
      <4>. QED
        BY <4>6, <4>7 DEF Keeps
    <3>. QED
      BY <3>2, <3>3
  <2>. QED
    BY <2>1, <2>2, <2>3 DEF PatientsRegistered, Live
<1>4. ASSUME NEW r \in Reps, Collect(r) \/ CloseFinalizes(r) PROVE PatientsRegistered'
  <2>1. /\ registry' \in {registry, DependenciesReleased(r)}
        /\ m_dependency_cnt' = m_dependency_cnt /\ patients' = patients
        /\ holder' = [holder EXCEPT ![r] = None] /\ created' = created
    BY <1>4 DEF Collect, CloseFinalizes, DestroyInstance
  <2>2. \A n \in Reps : patients'[n] # {} => n <= created'
    BY <2>1 DEF PatientsRegistered
  <2>3. ASSUME NEW n \in Reps, NEW p \in patients'[n], InRoom', holder'[n] # None
        PROVE  Keeps(n, p)'
    <3>1. n # r /\ Live(n) /\ InRoom /\ p \in patients[n]
      BY <2>1, <2>3 DEF TypeOK, Live, InRoom
    <3>2. Keeps(n, p)
      BY <3>1 DEF PatientsRegistered
    <3>. PICK i \in 0..(m_dependency_cnt[n] - 1) : registry[Address[n] + i] = p
      BY <3>2 DEF Keeps
    <3>3. i \in Nat /\ i < RepSize /\ i \in 0..(MaxDeps - 1)
      BY <1>1, <3>1 DEF InRoom
    <3>4. Address[n] + i \in Keys
      BY <3>3 DEF Keys, KeysOf
    <3>5. Address[n] + i \notin KeysOf(r, m_dependency_cnt[r])
      <4>. SUFFICES ASSUME NEW j \in 0..(m_dependency_cnt[r] - 1),
                           Address[n] + i = Address[r] + j
                    PROVE  FALSE
        BY DEF KeysOf
      <4>1. j \in Nat /\ j < RepSize
        BY <1>1, <3>1 DEF InRoom
      <4>. QED
        BY <3>1, <3>3, <4>1, KeysApart
    <3>6. registry'[Address[n] + i] = p
      BY <2>1, <3>4, <3>5 DEF DependenciesReleased
    <3>. QED
      BY <2>1, <3>6 DEF Keeps
  <2>. QED
    BY <2>2, <2>3 DEF PatientsRegistered, Live
<1>. QED
  BY <1>2, <1>3, <1>4, RegistrySteps

LEMMA PatientsKept ==
  TypeOK /\ KeptLive /\ PatientsRegistered => PatientKeptWhileRunning
<1>. SUFFICES ASSUME TypeOK, KeptLive, PatientsRegistered, InRoom, ~closing,
                     NEW n \in Reps, Live(n), NEW p \in patients[n]
              PROVE  Live(p)
  BY DEF PatientKeptWhileRunning
<1>1. Keeps(n, p)
  BY DEF PatientsRegistered
<1>. PICK i \in 0..(m_dependency_cnt[n] - 1) : registry[Address[n] + i] = p
  BY <1>1 DEF Keeps
<1>2. Address[n] + i \in Keys
  <2>1. i \in 0..(MaxDeps - 1)
    BY InstanceLifetimeAssumption, AddressAssumption DEF TypeOK
  <2>. QED
    BY <2>1 DEF Keys, KeysOf
<1>3. p # None
  BY InstanceLifetimeAssumption, AddressAssumption DEF TypeOK, Reps
<1>. QED
  BY <1>2, <1>3 DEF KeptLive, RegistryLive

-----------------------------------------------------------------------------
(***************************************************************************)
(* One owner.                                                              *)
(***************************************************************************)
LEMMA OwnInit == Init => OwnInv
BY DEF Init, OwnInv, OwnedOnce, Live, Owns

\* A new instance takes the place of none.
LEMMA OwnNewRep ==
  ASSUME TypeOK, OwnInv, NEW h \in HolderType, NewRep(h)
  PROVE  /\ created + 1 \in Reps /\ ~Live(created + 1)
         /\ \A r \in Reps : holder'[r] = IF r = created + 1 THEN h ELSE holder[r]
BY NewRepTyped DEF TypeOK, NewRep, Live

LEMMA OwnDestroy ==
  ASSUME TypeOK, OwnInv, NEW r \in Reps, Live(r), DestroyInstance(r)
  PROVE  OwnInv'
<1>1. holder[r] \in HolderType /\ holder[r].obj \in Objects
  BY DEF TypeOK, Live, HolderType
<1>2. claims' = claims /\ \A q \in Reps : holder'[q] = IF q = r THEN None ELSE holder[q]
  BY DEF DestroyInstance, TypeOK
<1>3. CASE object' = object /\ deleted' = deleted
  BY <1>2, <1>3 DEF OwnInv, OwnedOnce, Live, Owns
<1>4. CASE ~(object' = object /\ deleted' = deleted)
  <2>. PICK o \in Objects : o = holder[r].obj
    BY <1>1
  <2>1. Owns(r, o)
    BY <1>4 DEF DestroyInstance, DestructorOf, Owns
  <2>2. object' = [object EXCEPT ![o] = "dead"] /\ deleted' = [deleted EXCEPT ![o] = @ + 1]
    BY <1>4 DEF DestroyInstance, DestructorOf
  <2>3. object[o] = "alive" /\ claims[o] = 0 /\ deleted[o] = 0
    BY <1>1, <2>1 DEF OwnInv, OwnedOnce
  <2>4. \A q \in Reps : q # r => ~Owns(q, o)
    BY <1>1, <2>1 DEF OwnInv, OwnedOnce
  <2>5. object'[o] = "dead" /\ deleted'[o] = 1
        /\ \A u \in Objects : u # o => object'[u] = object[u] /\ deleted'[u] = deleted[u]
    BY <1>1, <2>2, <2>3 DEF TypeOK
  <2>6. \A q \in Reps, u \in Objects : Owns(q, u)' => q # r /\ Owns(q, u)
    BY <1>2 DEF Owns, Live
  <2>7. OwnedOnce(o)'
    BY <1>2, <2>3, <2>4, <2>5, <2>6 DEF OwnedOnce
  <2>8. ASSUME NEW u \in Objects, u # o PROVE OwnedOnce(u)'
    <3>1. OwnedOnce(u)
      BY DEF OwnInv
    <3>. QED
      BY <1>2, <2>5, <2>6, <2>8, <3>1 DEF OwnedOnce, Live
  <2>. QED
    BY <1>1, <2>7, <2>8 DEF OwnInv
<1>. QED
  BY <1>3, <1>4

LEMMA OwnStep ==
  ASSUME ~Careless, TypeOK, OwnInv, [Next]_vars PROVE OwnInv'
<1>1. ASSUME NEW o \in Objects, NewInCpp(o) PROVE OwnInv'
  <2>1. OwnedOnce(o)'
    BY <1>1 DEF NewInCpp, OwnInv, OwnedOnce, TypeOK, Live, Owns
  <2>2. ASSUME NEW u \in Objects, u # o PROVE OwnedOnce(u)'
    BY <1>1, <2>2 DEF NewInCpp, OwnInv, OwnedOnce, TypeOK, Live, Owns
  <2>. QED
    BY <2>1, <2>2 DEF OwnInv
<1>2. ASSUME NEW o \in Objects, Construct(o) PROVE OwnInv'
  <2>. PICK h \in HolderType : NewRep(h) /\ h.obj = o
    BY <1>2, HolderTyped DEF Construct, Kinds, Holder
  <2>1. created + 1 \in Reps /\ ~Live(created + 1)
        /\ \A r \in Reps : holder'[r] = IF r = created + 1 THEN h ELSE holder[r]
    BY OwnNewRep
  <2>2. OwnedOnce(o)'
    BY <1>2, <2>1 DEF Construct, OwnInv, OwnedOnce, TypeOK, Live, Owns
  <2>3. ASSUME NEW u \in Objects, u # o PROVE OwnedOnce(u)'
    <3>1. /\ object'[u] = object[u] /\ claims' = claims /\ deleted' = deleted
          /\ OwnedOnce(u)
      BY <1>2, <2>3 DEF Construct, OwnInv, TypeOK
    <3>2. \A r \in Reps :
            holder'[r] # None /\ holder'[r].obj = u => Live(r) /\ holder'[r] = holder[r]
      BY <2>1, <2>3 DEF Live
    <3>. QED
      BY <3>1, <3>2 DEF OwnedOnce, Live, Owns
  <2>. QED
    BY <2>2, <2>3 DEF OwnInv
<1>3. ASSUME NEW o \in Objects, ReturnPointer(o) PROVE OwnInv'
  <2>1. CASE o \in Wrapped
    BY <1>3, <2>1 DEF ReturnPointer, OwnInv, OwnedOnce, Live, Owns
  <2>2. CASE o \notin Wrapped
    <3>. PICK h \in HolderType : NewRep(h) /\ h.obj = o /\ ~h.owns
      BY <1>3, <2>2, HolderTyped DEF ReturnPointer, Kinds, Holder
    <3>1. created + 1 \in Reps /\ ~Live(created + 1)
          /\ \A r \in Reps : holder'[r] = IF r = created + 1 THEN h ELSE holder[r]
      BY OwnNewRep
    <3>2. \A r \in Reps, u \in Objects : Owns(r, u)' => Owns(r, u)
      BY <3>1 DEF Owns, Live
    <3>3. \A r \in Reps : holder'[r] # None =>
            (Live(r) /\ holder'[r] = holder[r]) \/ holder'[r].obj = o
      BY <3>1 DEF Live
    <3>. QED
      BY <1>3, <3>2, <3>3 DEF ReturnPointer, OwnInv, OwnedOnce, Live
  <2>. QED
    BY <2>1, <2>2
<1>4. ASSUME NEW o \in Objects, ReturnAdopted(o) PROVE OwnInv'
  <2>1. claims[o] = 1 /\ object[o] = "alive" /\ \A r \in Reps : ~Owns(r, o)
    BY <1>4 DEF ReturnAdopted, OwnInv, OwnedOnce
  <2>2. claims'[o] = 0 /\ \A u \in Objects : u # o => claims'[u] = claims[u]
    BY <1>4, <2>1 DEF ReturnAdopted, TypeOK
  <2>3. object' = object /\ deleted' = deleted
    BY <1>4 DEF ReturnAdopted
  <2>4. CASE o \in Wrapped
    <3>1. holder' = holder
      BY <1>4, <2>4 DEF ReturnAdopted
    <3>. QED
      BY <2>1, <2>2, <2>3, <3>1 DEF OwnInv, OwnedOnce, Live, Owns
  <2>5. CASE o \notin Wrapped
    <3>. PICK h \in HolderType : NewRep(h) /\ h.obj = o
      BY <1>4, <2>5, HolderTyped DEF ReturnAdopted, Kinds, Holder
    <3>1. created + 1 \in Reps /\ ~Live(created + 1)
          /\ \A r \in Reps : holder'[r] = IF r = created + 1 THEN h ELSE holder[r]
      BY OwnNewRep
    <3>2. OwnedOnce(o)'
      BY <2>1, <2>2, <2>3, <3>1 DEF OwnInv, OwnedOnce, Live, Owns
    <3>3. ASSUME NEW u \in Objects, u # o PROVE OwnedOnce(u)'
      BY <2>2, <2>3, <3>1, <3>3 DEF OwnInv, OwnedOnce, Live, Owns
    <3>. QED
      BY <3>2, <3>3 DEF OwnInv
  <2>. QED
    BY <2>4, <2>5
<1>5. ASSUME NEW r \in Reps, Adopt(r) PROVE OwnInv'
  <2>1. holder[r] \in HolderType /\ Live(r)
    BY <1>5 DEF Adopt, TypeOK, Live
  <2>. PICK o \in Objects : o = holder[r].obj
    BY <2>1 DEF HolderType
  <2>2. /\ \A q \in Reps : q # r => holder'[q] = holder[q]
        /\ holder'[r] = Released(holder[r])
        /\ object' = object /\ deleted' = deleted
    BY <1>5 DEF Adopt, TypeOK
  <2>3. holder'[r] # None /\ holder'[r].obj = o
    BY <2>1, <2>2, ReleasedTyped
  <2>4. \A q \in Reps, u \in Objects : Owns(q, u)' => Owns(q, u)
    <3>1. holder'[r].owns => holder[r].owns
      BY <2>1, <2>2 DEF Released, HolderType
    <3>. QED
      BY <2>1, <2>2, <2>3, <3>1 DEF Owns, Live
  <2>5. \A q \in Reps : holder'[q] # None => Live(q) /\ holder'[q].obj = holder[q].obj
    BY <2>1, <2>2, <2>3 DEF Live
  <2>6. CASE holder[r].kind = "auto" /\ ~YieldsNull(r)
    <3>1. object[o] = "alive" /\ claims[o] = 0 /\ \A q \in Reps : Owns(q, o) => q = r
      <4>1. object[o] = "alive" /\ ~OwnedElsewhere(r)
        BY <1>5, <2>6 DEF Adopt
      <4>2. claims[o] = 0
        BY <4>1 DEF OwnedElsewhere, OwnInv, OwnedOnce
      <4>. QED
        BY <4>1, <4>2 DEF OwnedElsewhere
    <3>2. \A q \in Reps : ~Owns(q, o)'
      <4>1. ~holder'[r].owns
        BY <2>1, <2>2, <2>6 DEF Released, HolderType
      <4>. QED
        BY <2>4, <3>1, <4>1 DEF Owns
    <3>3. claims'[o] = 1 /\ \A u \in Objects : u # o => claims'[u] = claims[u]
      BY <1>5, <2>6, <3>1 DEF Adopt, TypeOK
    <3>4. OwnedOnce(o)'
      BY <2>2, <3>1, <3>2, <3>3 DEF OwnInv, OwnedOnce, TypeOK
    <3>5. ASSUME NEW u \in Objects, u # o PROVE OwnedOnce(u)'
      BY <2>2, <2>4, <2>5, <3>3, <3>5 DEF OwnInv, OwnedOnce, Live
    <3>. QED
      BY <3>4, <3>5 DEF OwnInv
  <2>7. CASE holder[r].kind # "auto" \/ YieldsNull(r)
    <3>1. claims' = claims
      BY <1>5, <2>7 DEF Adopt
    <3>. QED
      BY <2>2, <2>4, <2>5, <3>1 DEF OwnInv, OwnedOnce, Live
  <2>. QED
    BY <2>6, <2>7
<1>6. ASSUME NEW o \in Objects, CppDelete(o) PROVE OwnInv'
  <2>1. OwnedOnce(o)'
    BY <1>6 DEF CppDelete, OwnInv, OwnedOnce, TypeOK, Live, Owns
  <2>2. ASSUME NEW u \in Objects, u # o PROVE OwnedOnce(u)'
    BY <1>6, <2>2 DEF CppDelete, OwnInv, OwnedOnce, TypeOK, Live, Owns
  <2>. QED
    BY <2>1, <2>2 DEF OwnInv
<1>7. ASSUME NEW r \in Reps, Collect(r) \/ CloseFinalizes(r) PROVE OwnInv'
  BY <1>7, OwnDestroy DEF Collect, CloseFinalizes
<1>8. CASE UNCHANGED <<object, claims, holder, deleted>>
  BY <1>8 DEF OwnInv, OwnedOnce, Live, Owns
<1>9. ASSUME NEW r \in Reps, TakeShared(r) \/ ReturnShared(r) \/ DropShared(r) \/ Forget(r)
      PROVE  UNCHANGED <<object, claims, holder, deleted>>
  BY <1>9 DEF TakeShared, ReturnShared, DropShared, Forget
<1>10. ASSUME Close \/ (\E n, p \in Reps : AddDependency(n, p)) \/ UNCHANGED vars
       PROVE  UNCHANGED <<object, claims, holder, deleted>>
  BY <1>10 DEF Close, AddDependency, vars
<1>. QED
  BY <1>1, <1>2, <1>3, <1>4, <1>5, <1>6, <1>7, <1>8, <1>9, <1>10 DEF Next

LEMMA OwnedOnceSuffices == TypeOK /\ OwnInv => OneOwner
<1>. SUFFICES ASSUME TypeOK, OwnInv, NEW o \in Objects
              PROVE  /\ claims[o] + Cardinality(Owners(o)) <= 1
                     /\ (claims[o] > 0 \/ Owners(o) # {}) => object[o] = "alive"
                     /\ deleted[o] <= 1
  BY DEF OneOwner
<1>1. OwnedOnce(o)
  BY DEF OwnInv
<1>2. (claims[o] > 0 \/ Owners(o) # {}) => object[o] = "alive"
  BY <1>1 DEF OwnedOnce, Owners
<1>3. deleted[o] <= 1
  BY <1>1 DEF OwnedOnce, TypeOK
<1>4. CASE Owners(o) = {}
  BY <1>1, <1>2, <1>3, <1>4, FS_EmptySet DEF OwnedOnce
<1>5. CASE Owners(o) # {}
  <2>. PICK r \in Reps : Owns(r, o)
    BY <1>5 DEF Owners
  <2>1. Owners(o) = {r}
    BY <1>1 DEF OwnedOnce, Owners
  <2>2. claims[o] = 0
    BY <1>1 DEF OwnedOnce
  <2>3. Cardinality(Owners(o)) = 1
    BY <2>1, FS_Singleton
  <2>. QED
    BY <1>2, <1>3, <2>2, <2>3
<1>. QED
  BY <1>4, <1>5

-----------------------------------------------------------------------------
(***************************************************************************)
(* The instance of a wrapped object stays while C++ owns the object.       *)
(***************************************************************************)
PartInv == SelfInv /\ AdoptedKeepsItsPart

LEMMA PartInit == Init => PartInv
BY InstanceLifetimeAssumption
   DEF Init, PartInv, SelfInv, AdoptedKeepsItsPart, Live

LEMMA PartDestroy ==
  ASSUME TypeOK, OwnInv, PartInv, NEW r \in Reps, Collect(r) \/ CloseFinalizes(r)
  PROVE  PartInv'
<1>1. /\ Live(r) /\ DestroyInstance(r)
      /\ \A q \in Reps : holder'[q] = IF q = r THEN None ELSE holder[q]
      /\ self' = self /\ claims' = claims /\ closing' = closing
  BY DEF Collect, CloseFinalizes, DestroyInstance, TypeOK
<1>2. SelfInv'
  BY <1>1 DEF PartInv, SelfInv, Live
<1>3. ASSUME NEW o \in Wrapped, claims[o] > 0, ~closing
      PROVE  strong'[o] # None /\ strong'[o] = self[o] /\ holder'[strong'[o]] # None
  <2>1. o \in Objects
    BY InstanceLifetimeAssumption
  <2>2. strong[o] # None /\ strong[o] = self[o] /\ Live(strong[o]) /\ strong[o] \in Reps
    BY <1>3, <2>1 DEF PartInv, AdoptedKeepsItsPart, TypeOK
  <2>3. strong[o] # r
    BY <1>3, <2>1 DEF Collect, CloseFinalizes, Reachable
  <2>4. ~Owns(r, o)
    BY <1>3, <2>1 DEF OwnInv, OwnedOnce
  <2>5. strong'[o] = strong[o]
    BY <1>1, <2>1, <2>4 DEF DestroyInstance, DestructorOf, Owns, TypeOK
  <2>. QED
    BY <1>1, <2>2, <2>3, <2>5 DEF Live
<1>. QED
  BY <1>1, <1>2, <1>3 DEF PartInv, AdoptedKeepsItsPart, Live

LEMMA PartStep ==
  ASSUME ~Careless, TypeOK, OwnInv, PartInv, [Next]_vars PROVE PartInv'
<1>. USE InstanceLifetimeAssumption
<1>1. ASSUME NEW o \in Objects, NewInCpp(o) PROVE PartInv'
  BY <1>1 DEF NewInCpp, PartInv, SelfInv, AdoptedKeepsItsPart, TypeOK, Live
<1>2. ASSUME NEW o \in Objects, Construct(o) PROVE PartInv'
  <2>. PICK h \in HolderType : NewRep(h) /\ h.obj = o /\ h.owns
    BY <1>2, HolderTyped DEF Construct, Kinds, Holder
  <2>1. created + 1 \in Reps /\ ~Live(created + 1)
        /\ \A r \in Reps : holder'[r] = IF r = created + 1 THEN h ELSE holder[r]
    BY OwnNewRep
  <2>2. \A r \in Reps : Live(r) => holder[r].obj # o
    BY <1>2 DEF Construct, OwnInv, OwnedOnce
  <2>3. claims' = claims /\ strong' = strong /\ closing' = closing /\ claims[o] = 0
    BY <1>2 DEF Construct, OwnInv, OwnedOnce
  <2>4. /\ \A u \in Objects : u # o => self'[u] = self[u]
        /\ o \in Wrapped => self'[o] = created + 1
    BY <1>2 DEF Construct, TypeOK
  <2>5. SelfInv'
    <3>. SUFFICES ASSUME NEW r \in Reps, holder'[r] # None, holder'[r].obj \in Wrapped
                  PROVE  self'[holder'[r].obj] = r
      BY DEF SelfInv, Live
    <3>1. CASE r = created + 1
      BY <2>1, <2>4, <3>1
    <3>2. CASE r # created + 1
      BY <2>1, <2>2, <2>4, <3>2 DEF PartInv, SelfInv, Live
    <3>. QED
      BY <3>1, <3>2
  <2>7. AdoptedKeepsItsPart'
    BY <2>1, <2>3, <2>4 DEF PartInv, AdoptedKeepsItsPart, TypeOK, Live
  <2>. QED
    BY <2>5, <2>7 DEF PartInv
<1>3. ASSUME NEW o \in Objects, NEW h \in HolderType, NewRep(h), h.obj = o, o \notin Wrapped,
             h.owns \/ h.kind = "raw", self' = self, strong' = strong, closing' = closing,
             \A u \in Wrapped : claims'[u] = claims[u]
      PROVE  PartInv'
  <2>1. created + 1 \in Reps /\ ~Live(created + 1)
        /\ \A r \in Reps : holder'[r] = IF r = created + 1 THEN h ELSE holder[r]
    BY <1>3, OwnNewRep
  <2>2. SelfInv'
    BY <1>3, <2>1 DEF PartInv, SelfInv, Live
  <2>3. AdoptedKeepsItsPart'
    BY <1>3, <2>1 DEF PartInv, AdoptedKeepsItsPart, TypeOK, Live
  <2>. QED
    BY <2>2, <2>3 DEF PartInv
<1>4. ASSUME NEW o \in Objects, ReturnPointer(o) PROVE PartInv'
  <2>1. CASE o \in Wrapped
    BY <1>4, <2>1 DEF ReturnPointer, PartInv, SelfInv, AdoptedKeepsItsPart, Live
  <2>2. CASE o \notin Wrapped
    <3>. PICK h \in HolderType : NewRep(h) /\ h.obj = o /\ h.kind = "raw"
      BY <1>4, <2>2, HolderTyped DEF ReturnPointer, Kinds, Holder
    <3>. QED
      BY <1>3, <1>4, <2>2 DEF ReturnPointer
  <2>. QED
    BY <2>1, <2>2
<1>5. ASSUME NEW o \in Objects, ReturnAdopted(o) PROVE PartInv'
  <2>1. /\ \A u \in Objects : u # o => claims'[u] = claims[u]
        /\ self' = self /\ closing' = closing /\ claims'[o] = 0
    BY <1>5 DEF ReturnAdopted, TypeOK, OwnInv, OwnedOnce
  <2>2. CASE o \in Wrapped
    <3>1. holder' = holder /\ \A u \in Objects : u # o => strong'[u] = strong[u]
      BY <1>5, <2>2 DEF ReturnAdopted, TypeOK
    <3>. QED
      BY <2>1, <3>1 DEF PartInv, SelfInv, AdoptedKeepsItsPart, Live
  <2>3. CASE o \notin Wrapped
    <3>. PICK h \in HolderType : NewRep(h) /\ h.obj = o /\ h.owns
      BY <1>5, <2>3, HolderTyped DEF ReturnAdopted, Kinds, Holder
    <3>1. strong' = strong
      BY <1>5, <2>3 DEF ReturnAdopted
    <3>. QED
      BY <1>3, <2>1, <2>3, <3>1
  <2>. QED
    BY <2>2, <2>3
<1>6. ASSUME NEW r \in Reps, Adopt(r) PROVE PartInv'
  <2>1. holder[r] \in HolderType /\ Live(r) /\ self' = self /\ closing' = closing
    BY <1>6 DEF Adopt, TypeOK, Live
  <2>. PICK o \in Objects : o = holder[r].obj
    BY <2>1 DEF HolderType
  <2>2. \A q \in Reps : holder'[q] = IF q = r THEN Released(holder[r]) ELSE holder[q]
    BY <1>6 DEF Adopt, TypeOK
  <2>3. Released(holder[r]) # None /\ Released(holder[r]).obj = o
    BY <2>1, ReleasedTyped
  <2>5. SelfInv'
    BY <2>1, <2>2, <2>3 DEF PartInv, SelfInv, Live
  <2>7. \A q \in Reps : Live(q) => holder'[q] # None
    BY <2>2, <2>3 DEF Live
  <2>8. CASE holder[r].kind = "auto" /\ ~YieldsNull(r)
    <3>1. /\ \A u \in Objects : u # o => claims'[u] = claims[u] /\ strong'[u] = strong[u]
          /\ strong'[o] = StrongAfterAdopt(o)
      BY <1>6, <2>8 DEF Adopt, TypeOK
    <3>2. o \in Wrapped => self[o] = r
      BY <2>1 DEF PartInv, SelfInv
    <3>3. r # None
      BY DEF Reps
    <3>4. o \in Wrapped => strong'[o] = r
      BY <2>1, <3>1, <3>2, <3>3 DEF StrongAfterAdopt, SelfOf
    <3>5. AdoptedKeepsItsPart'
      <4>. SUFFICES ASSUME NEW u \in Wrapped, claims'[u] > 0, ~closing'
                    PROVE  strong'[u] # None /\ strong'[u] = self'[u] /\ holder'[strong'[u]] # None
        BY DEF AdoptedKeepsItsPart, Live
      <4>1. CASE u = o
        BY <2>1, <2>7, <3>2, <3>3, <3>4, <4>1
      <4>2. CASE u # o
        BY <2>1, <2>7, <3>1, <4>2 DEF PartInv, AdoptedKeepsItsPart, TypeOK
      <4>. QED
        BY <4>1, <4>2
    <3>. QED
      BY <2>5, <3>5 DEF PartInv
  <2>9. CASE holder[r].kind # "auto" \/ YieldsNull(r)
    <3>1. claims' = claims /\ strong' = strong
      BY <1>6, <2>9 DEF Adopt
    <3>2. AdoptedKeepsItsPart'
      BY <2>1, <2>7, <3>1 DEF PartInv, AdoptedKeepsItsPart, TypeOK, Live
    <3>. QED
      BY <2>5, <3>2 DEF PartInv
  <2>. QED
    BY <2>8, <2>9
<1>7. ASSUME NEW o \in Objects, CppDelete(o) PROVE PartInv'
  <2>1. claims'[o] = 0 /\ \A u \in Objects : u # o => claims'[u] = claims[u] /\ strong'[u] = strong[u]
    BY <1>7 DEF CppDelete, TypeOK, OwnInv, OwnedOnce
  <2>. QED
    BY <1>7, <2>1 DEF CppDelete, PartInv, SelfInv, AdoptedKeepsItsPart, Live
<1>8. ASSUME NEW r \in Reps, Collect(r) \/ CloseFinalizes(r) PROVE PartInv'
  BY <1>8, PartDestroy
<1>9. ASSUME UNCHANGED <<claims, holder, self, strong>>, closing' = closing \/ closing'
      PROVE  PartInv'
  BY <1>9 DEF PartInv, SelfInv, AdoptedKeepsItsPart, Live
<1>10. ASSUME NEW r \in Reps, TakeShared(r) \/ ReturnShared(r) \/ DropShared(r) \/ Forget(r)
       PROVE  UNCHANGED <<claims, holder, self, strong, closing>>
  BY <1>10 DEF TakeShared, ReturnShared, DropShared, Forget
<1>11. ASSUME (\E n, p \in Reps : AddDependency(n, p)) \/ UNCHANGED vars
       PROVE  UNCHANGED <<claims, holder, self, strong, closing>>
  BY <1>11 DEF AddDependency, vars
<1>12. Close => UNCHANGED <<claims, holder, self, strong>> /\ closing'
  BY DEF Close
<1>. QED
  BY <1>1, <1>2, <1>4, <1>5, <1>6, <1>7, <1>8, <1>9, <1>10, <1>11, <1>12 DEF Next

-----------------------------------------------------------------------------
(***************************************************************************)
(* Null pointers.  A holder that was released and whose object never came  *)
(* back is of an object that C++ still owns, or has deleted: nobody adopts *)
(* it a second time.                                                       *)
(***************************************************************************)
YieldsUntilReturned(r) ==
  LET o == holder[r].obj
  IN  o \notin returned =>
        /\ ~YieldsNull(r)
        /\ holder[r].kind = "auto" /\ ~holder[r].owns => claims[o] > 0 \/ object[o] = "dead"

NullInv == \A r \in Reps : Live(r) => YieldsUntilReturned(r)

LEMMA NullInit == Init => NullInv
BY DEF Init, NullInv, Live

\* What other instances do to r: its holder stays, a claim stays or the object dies.
LEMMA NullFrame ==
  ASSUME TypeOK, NullInv, NEW r \in Reps, Live(r), holder'[r] = holder[r],
         returned \subseteq returned',
         LET o == holder[r].obj
         IN  o \notin returned' /\ claims[o] > 0 => claims'[o] > 0 \/ object'[o] = "dead",
         LET o == holder[r].obj IN object[o] = "dead" => object'[o] = "dead"
  PROVE  YieldsUntilReturned(r)'
BY DEF NullInv, YieldsUntilReturned, YieldsNull

LEMMA NullStep ==
  ASSUME ~Careless, TypeOK, OwnInv, NullInv, [Next]_vars PROVE NullInv'
<1>0. \A r \in Reps : Live(r) => holder[r] \in HolderType /\ holder[r].obj \in Objects
  BY DEF TypeOK, Live, HolderType
<1>1. ASSUME NEW o \in Objects, NewInCpp(o) PROVE NullInv'
  <2>. SUFFICES ASSUME NEW r \in Reps, Live(r) PROVE YieldsUntilReturned(r)'
    BY <1>1 DEF NewInCpp, NullInv, Live
  <2>1. holder[r].obj # o /\ holder[r].obj \in Objects
    BY <1>0, <1>1 DEF NewInCpp, OwnInv, OwnedOnce
  <2>. QED
    BY <1>1, <2>1, NullFrame DEF NewInCpp, TypeOK
<1>2. ASSUME NEW o \in Objects, NEW h \in HolderType, NewRep(h), h.owns \/ h.kind = "raw",
             returned \subseteq returned',
             \A u \in Objects : (\E r \in Reps : Live(r) /\ holder[r].obj = u) =>
               /\ u \notin returned' => claims'[u] = claims[u]
               /\ object'[u] = object[u]
      PROVE  NullInv'
  <2>1. created + 1 \in Reps /\ ~Live(created + 1)
        /\ \A r \in Reps : holder'[r] = IF r = created + 1 THEN h ELSE holder[r]
    BY <1>2, OwnNewRep
  <2>. SUFFICES ASSUME NEW r \in Reps, holder'[r] # None PROVE YieldsUntilReturned(r)'
    BY DEF NullInv, Live
  <2>2. CASE r = created + 1
    BY <1>2, <2>1, <2>2 DEF YieldsUntilReturned, YieldsNull
  <2>3. CASE r # created + 1
    <3>1. Live(r) /\ holder'[r] = holder[r] /\ holder[r].obj \in Objects
      BY <1>0, <2>1, <2>3 DEF Live
    <3>. QED
      BY <1>2, <3>1, NullFrame
  <2>. QED
    BY <2>2, <2>3
<1>3. ASSUME NEW o \in Objects, Construct(o) PROVE NullInv'
  <2>. PICK h \in HolderType : NewRep(h) /\ h.owns
    BY <1>3, HolderTyped DEF Construct, Kinds, Holder
  <2>1. \A r \in Reps : Live(r) => holder[r].obj # o
    BY <1>3 DEF Construct, OwnInv, OwnedOnce
  <2>2. \A u \in Objects : (\E r \in Reps : Live(r) /\ holder[r].obj = u) =>
          claims'[u] = claims[u] /\ object'[u] = object[u]
    BY <1>3, <2>1 DEF Construct, TypeOK
  <2>3. returned' = returned
    BY <1>3 DEF Construct
  <2>. QED
    BY <1>2, <2>2, <2>3
<1>4. ASSUME NEW o \in Objects, ReturnPointer(o) PROVE NullInv'
  <2>1. object' = object /\ claims' = claims /\ returned' = returned
    BY <1>4 DEF ReturnPointer
  <2>2. CASE o \in Wrapped
    <3>1. holder' = holder
      BY <1>4, <2>2 DEF ReturnPointer
    <3>. QED
      BY <2>1, <3>1 DEF NullInv, YieldsUntilReturned, YieldsNull, Live
  <2>3. CASE o \notin Wrapped
    <3>. PICK h \in HolderType : NewRep(h) /\ h.kind = "raw"
      BY <1>4, <2>3, HolderTyped DEF ReturnPointer, Kinds, Holder
    <3>. QED
      BY <1>2, <2>1
  <2>. QED
    BY <2>2, <2>3
<1>5. ASSUME NEW o \in Objects, ReturnAdopted(o) PROVE NullInv'
  <2>1. /\ object' = object /\ returned' = returned \cup {o}
        /\ \A u \in Objects : u # o => claims'[u] = claims[u]
    BY <1>5 DEF ReturnAdopted, TypeOK
  <2>2. CASE o \in Wrapped
    <3>1. holder' = holder
      BY <1>5, <2>2 DEF ReturnAdopted
    <3>. SUFFICES ASSUME NEW r \in Reps, Live(r) PROVE YieldsUntilReturned(r)'
      BY <3>1 DEF NullInv, Live
    <3>. QED
      BY <1>0, <2>1, <3>1, NullFrame
  <2>3. CASE o \notin Wrapped
    <3>. PICK h \in HolderType : NewRep(h) /\ h.owns
      BY <1>5, <2>3, HolderTyped DEF ReturnAdopted, Kinds, Holder
    <3>. QED
      BY <1>2, <2>1
  <2>. QED
    BY <2>2, <2>3
<1>6. ASSUME NEW r \in Reps, Adopt(r) PROVE NullInv'
  <2>1. holder[r] \in HolderType /\ Live(r)
    BY <1>0, <1>6 DEF Adopt
  <2>. PICK o \in Objects : o = holder[r].obj
    BY <2>1 DEF HolderType
  <2>2. /\ \A q \in Reps : holder'[q] = IF q = r THEN Released(holder[r]) ELSE holder[q]
        /\ object' = object /\ returned' = returned
    BY <1>6 DEF Adopt, TypeOK
  <2>3. Released(holder[r]).obj = o /\ Released(holder[r]).kind = holder[r].kind
    BY <2>1, ReleasedTyped
  <2>4. \A u \in Objects : claims[u] > 0 => claims'[u] > 0
    BY <1>6 DEF Adopt, TypeOK
  <2>5. ASSUME NEW q \in Reps, q # r, Live(q) PROVE YieldsUntilReturned(q)'
    BY <1>0, <2>2, <2>4, <2>5, NullFrame
  <2>6. YieldsUntilReturned(r)'
    <3>1. CASE holder[r].kind # "auto"
      BY <2>1, <2>2, <2>3, <3>1 DEF YieldsUntilReturned, YieldsNull, Released, HolderType
    <3>2. CASE holder[r].kind = "auto" /\ o \notin returned
      <4>1. ~YieldsNull(r)
        BY <2>1, <3>2 DEF NullInv, YieldsUntilReturned
      <4>2. /\ object[o] = "alive" /\ ~OwnedElsewhere(r) /\ claims'[o] = claims[o] + 1
        BY <1>6, <3>2, <4>1 DEF Adopt, TypeOK
      <4>3. claims[o] = 0 /\ claims'[o] > 0
        BY <4>2 DEF OwnedElsewhere, OwnInv, OwnedOnce
      <4>4. holder[r].owns
        BY <2>1, <3>2, <4>2, <4>3 DEF NullInv, YieldsUntilReturned
      <4>5. holder'[r].weak /\ holder'[r].obj = o
        BY <2>1, <2>2, <2>3, <3>2, <4>4 DEF Released, HolderType
      <4>. QED
        BY <4>3, <4>5 DEF YieldsUntilReturned, YieldsNull
    <3>3. CASE o \in returned
      BY <2>2, <2>3, <3>3 DEF YieldsUntilReturned
    <3>. QED
      BY <3>1, <3>2, <3>3
  <2>7. \A q \in Reps : q # r /\ holder'[q] # None => Live(q)
    BY <2>2 DEF Live
  <2>. QED
    BY <2>5, <2>6, <2>7 DEF NullInv, Live
<1>7. ASSUME NEW o \in Objects, CppDelete(o) PROVE NullInv'
  <2>1. /\ holder' = holder /\ returned' = returned /\ object'[o] = "dead"
        /\ \A u \in Objects : u # o => claims'[u] = claims[u] /\ object'[u] = object[u]
    BY <1>7 DEF CppDelete, TypeOK
  <2>. SUFFICES ASSUME NEW r \in Reps, Live(r) PROVE YieldsUntilReturned(r)'
    BY <2>1 DEF NullInv, Live
  <2>. QED
    BY <1>0, <2>1, NullFrame
<1>8. ASSUME NEW r \in Reps, Collect(r) \/ CloseFinalizes(r) PROVE NullInv'
  <2>1. /\ Live(r) /\ claims' = claims /\ returned' = returned
        /\ \A q \in Reps : holder'[q] = IF q = r THEN None ELSE holder[q]
        /\ DestroyInstance(r)
    BY <1>8 DEF Collect, CloseFinalizes, DestroyInstance, TypeOK
  <2>2. \A u \in Objects : object[u] = "dead" => object'[u] = "dead"
    BY <2>1 DEF DestroyInstance, DestructorOf, TypeOK
  <2>3. ASSUME NEW q \in Reps, q # r, Live(q) PROVE YieldsUntilReturned(q)'
    BY <1>0, <2>1, <2>2, <2>3, NullFrame
  <2>. QED
    BY <2>1, <2>3 DEF NullInv, Live
<1>9. CASE UNCHANGED <<object, claims, holder, returned>>
  BY <1>9 DEF NullInv, YieldsUntilReturned, YieldsNull, Live
<1>10. ASSUME NEW r \in Reps, TakeShared(r) \/ ReturnShared(r) \/ DropShared(r) \/ Forget(r)
       PROVE  UNCHANGED <<object, claims, holder, returned>>
  BY <1>10 DEF TakeShared, ReturnShared, DropShared, Forget
<1>11. ASSUME Close \/ (\E n, p \in Reps : AddDependency(n, p)) \/ UNCHANGED vars
       PROVE  UNCHANGED <<object, claims, holder, returned>>
  BY <1>11 DEF Close, AddDependency, vars
<1>. QED
  BY <1>1, <1>3, <1>4, <1>5, <1>6, <1>7, <1>8, <1>9, <1>10, <1>11 DEF Next

-----------------------------------------------------------------------------
(***************************************************************************)
(* The inductive invariant, and what follows from it.                      *)
(***************************************************************************)
LEMMA InstancesInvariant == Spec => [](TypeOK /\ KeptLive /\ PatientsRegistered)
<1>1. Init => TypeOK /\ KeptLive /\ PatientsRegistered
  BY TypeInit, KeptInit, RegisteredInit
<1>2. (TypeOK /\ KeptLive /\ PatientsRegistered) /\ [Next]_vars
        => (TypeOK /\ KeptLive /\ PatientsRegistered)'
  BY TypeStep, KeptStep, RegisteredStep
<1>. QED
  BY <1>1, <1>2, PTL DEF Spec

LEMMA OwnersInvariant == ASSUME ~Careless PROVE Spec => [](OwnInv /\ PartInv /\ NullInv)
<1>1. Init => OwnInv /\ PartInv /\ NullInv
  BY OwnInit, PartInit, NullInit
<1>2. TypeOK /\ (OwnInv /\ PartInv /\ NullInv) /\ [Next]_vars
        => (OwnInv /\ PartInv /\ NullInv)'
  BY OwnStep, PartStep, NullStep
<1>. QED
  BY <1>1, <1>2, InstancesInvariant, PTL DEF Spec

(***************************************************************************)
(* TypeOK is always true: scripts never hold what has been finalized.      *)
(***************************************************************************)
THEOREM TypeCorrect == Spec => []TypeOK
BY InstancesInvariant, PTL

(***************************************************************************)
(* Nothing is ever deleted twice, and whoever owns an object owns a living *)
(* one: adopt, adopt(result), the holders and the finalizers agree, an     *)
(* object that went there and back several times included, unless scripts  *)
(* give away what they do not own.                                         *)
(***************************************************************************)
THEOREM OwnershipIsExclusive == ASSUME ~Careless PROVE Spec => []OneOwner
BY InstancesInvariant, OwnersInvariant, OwnedOnceSuffices, PTL

(***************************************************************************)
(* The strong reference of an object that C++ owns is to its own instance, *)
(* which has not been collected: the assert of move_back_reference.        *)
(***************************************************************************)
THEOREM AdoptedPartStays == ASSUME ~Careless PROVE Spec => []AdoptedKeepsItsPart
BY OwnersInvariant, PTL DEF PartInv

(***************************************************************************)
(* An instance yields its object after any adoption, until the object has  *)
(* been given back by adopt(result): where the code's `weak` fails is this *)
(* one round trip.                                                         *)
(***************************************************************************)
THEOREM NullNeedsRoundTrip == ASSUME ~Careless PROVE Spec => []NullOnlyAfterReturn
<1>1. TypeOK /\ NullInv => NullOnlyAfterReturn
  BY DEF TypeOK, NullInv, YieldsUntilReturned, NullOnlyAfterReturn
<1>. QED
  BY <1>1, InstancesInvariant, OwnersInvariant, PTL

(***************************************************************************)
(* A patient stays until its nurse is finalized, whatever lies next to     *)
(* either in memory and in any build, as long as no instance was given     *)
(* more dependencies than it has bytes.                                    *)
(***************************************************************************)
THEOREM PatientsStay == Spec => []PatientKeptWhileRunning
BY InstancesInvariant, PatientsKept, PTL

(***************************************************************************)
(* With assert compiled in no instance ever is: the promise of the         *)
(* dependency policy holds without a condition on the program.             *)
(***************************************************************************)
THEOREM AssertKeepsPatients ==
  ASSUME Asserts
  PROVE  Spec => [](~closing => \A n \in Reps : Live(n) => \A p \in patients[n] : Live(p))
<1>1. Init => InRoom
  BY InstanceLifetimeAssumption, AddressAssumption DEF Init, InRoom
<1>2. TypeOK /\ InRoom /\ [Next]_vars => InRoom'
  <2>. SUFFICES ASSUME TypeOK, InRoom, [Next]_vars PROVE InRoom'
    OBVIOUS
  <2>1. ASSUME NEW n \in Reps, NEW p \in Reps, AddDependency(n, p) PROVE InRoom'
    <3>1. m_dependency_cnt' = [m_dependency_cnt EXCEPT ![n] = @ + 1]
          /\ m_dependency_cnt[n] < RepSize
      BY <2>1 DEF AddDependency, DependencyAdded
    <3>. QED
      BY <3>1, InstanceLifetimeAssumption, AddressAssumption DEF InRoom, TypeOK
  <2>2. ASSUME m_dependency_cnt' = m_dependency_cnt PROVE InRoom'
    BY <2>2 DEF InRoom
  <2>. QED
    BY <2>1, <2>2, RegistrySteps
       DEF dependencyVars, Collect, CloseFinalizes, DestroyInstance
<1>3. Spec => []InRoom
  BY <1>1, <1>2, InstancesInvariant, PTL DEF Spec
<1>4. InRoom /\ PatientKeptWhileRunning =>
        (~closing => \A n \in Reps : Live(n) => \A p \in patients[n] : Live(p))
  BY DEF PatientKeptWhileRunning
<1>. QED
  BY <1>3, <1>4, PatientsStay, PTL
=============================================================================
