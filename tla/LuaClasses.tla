----------------------------- MODULE LuaClasses -----------------------------
(***************************************************************************)
(* Classes and constructors in Lua: the member tables of classes, which    *)
(* register_ (src/class.cpp) and create_class (src/create_class.cpp) fill  *)
(* with copies of those of the bases, and the constructors of              *)
(* src/class_rep.cpp with the global variable `super`, through which the   *)
(* __init of a class that is written in Lua finds that of its base.        *)
(*                                                                         *)
(* The hazard: super is one variable, and there are as many constructors   *)
(* running as there are calls on the stack.  It is cleared by whichever    *)
(* returns first, and not at all by one that raises an error.              *)
(*                                                                         *)
(* disable_super_deprecation() has been called; the function super is at   *)
(* first, which raises an error, is Nil here, which does too.              *)
(***************************************************************************)
EXTENDS Integers, Sequences

CONSTANTS
  CppClasses,    \* classes registered by class_
  LuaClasses,    \* classes made by `class 'c' (base)`
  Bases,         \* Bases[c]: a sequence; for one made in Lua, of length 0 or 1
  Members,       \* the names of members, "__init" among them
  CppMembers,    \* CppMembers[c]: those class_ registers for c
  ScriptMembers, \* ScriptMembers[c]: those scripts write for c
  UsesSuper,     \* those made in Lua whose __init calls super(), not Base.__init(self)
  Instantiated,  \* bound: the classes scripts construct instances of
  MaxInstances,  \* bound: instances at a time
  SuperFirst,    \* whether an __init reads super before it constructs anything
  Nil

Classes == CppClasses \cup LuaClasses

Instances == 1..MaxInstances

NotCopied == {"__init", "__finalize"}

ASSUME LuaClassesAssumption ==
  /\ CppClasses \cap LuaClasses = {} /\ UsesSuper \subseteq LuaClasses
  /\ Bases \in [Classes -> Seq(Classes)]
  /\ \A c \in LuaClasses : Len(Bases[c]) <= 1
  /\ \A c \in CppClasses : \A i \in DOMAIN Bases[c] : Bases[c][i] \in CppClasses
  /\ "__init" \in Members
  /\ CppMembers \in [CppClasses -> SUBSET Members]
  /\ ScriptMembers \in [Classes -> SUBSET Members]
  /\ \A c \in CppClasses : ScriptMembers[c] \cap NotCopied = {}
  /\ Instantiated \subseteq Classes /\ MaxInstances \in Nat /\ SuperFirst \in BOOLEAN
  /\ Nil \notin Classes

VARIABLES
  defined,   \* the classes there are
  table,     \* m_table: table[c][m] is the class member m was written for, or Nil
  written,   \* history: the <<class, member>> that were written
  seen,      \* history: seen[c] is what was written for its bases when c was made
  super,     \* the global variable: Nil or super_callback with its upvalues
  frames,    \* the __init functions that are running, the innermost last
  instance   \* instance[i]: an object_rep, or Nil

vars == <<defined, table, written, seen, super, frames, instance>>

-----------------------------------------------------------------------------
(***************************************************************************)
(* Class tables.                                                           *)
(***************************************************************************)
Loading == frames = <<>> /\ \A i \in Instances : instance[i] = Nil

BasesOf(c) == {Bases[c][i] : i \in DOMAIN Bases[c]}

WrittenForBases(c) == written \cap (BasesOf(c) \X Members)

CopyOver(into, base) ==  \* mutant: lua_isnil(L, -1) not asked
  [m \in Members |-> IF base[m] # Nil THEN base[m] ELSE into[m]]

\* The names of a base that the table does not have yet.
CopyTable(into, base) ==
  [m \in Members |-> IF into[m] # Nil THEN into[m] ELSE base[m]]

OwnTable(c) == [m \in Members |-> IF m \in CppMembers[c] THEN c ELSE Nil]

\* The loop over m_bases: copied[i] is the table after i of them.
Registered(c) ==
  LET copied[i \in 0..Len(Bases[c])] ==
        IF i = 0 THEN OwnTable(c) ELSE CopyTable(copied[i - 1], table[Bases[c][i]])
  IN  copied[Len(Bases[c])]

\* class_registration::register_
Register(c) ==
  /\ Loading
  /\ c \in CppClasses \ defined /\ BasesOf(c) \subseteq defined
  /\ defined' = defined \cup {c}
  /\ table' = [table EXCEPT ![c] = Registered(c)]
  /\ written' = written \cup {<<c, m>> : m \in CppMembers[c]}
  /\ seen' = [seen EXCEPT ![c] = WrittenForBases(c)]
  /\ UNCHANGED <<super, frames, instance>>

\* copy_member_table: into the empty table of the new class.
MemberTable(base) ==
  [m \in Members |-> IF m \in NotCopied THEN Nil ELSE table[base][m]]

NoMembers == [m \in Members |-> Nil]

\* create_class::stage1, and stage2 if a base is given.
Derive(c) ==
  /\ Loading
  /\ c \in LuaClasses \ defined /\ BasesOf(c) \subseteq defined
  /\ defined' = defined \cup {c}
  /\ table' = [table EXCEPT ![c] = IF Bases[c] = <<>> THEN NoMembers
                                   ELSE MemberTable(Bases[c][1])]
  /\ seen' = [seen EXCEPT ![c] = WrittenForBases(c)]
  /\ UNCHANGED <<written, super, frames, instance>>

\* `function c:m() ... end`: lua_settable_dispatcher.
SetMember(c, m) ==
  /\ Loading
  /\ c \in defined /\ m \in ScriptMembers[c]
  /\ table' = [table EXCEPT ![c][m] = c]
  /\ written' = written \cup {<<c, m>>}
  /\ UNCHANGED <<defined, seen, super, frames, instance>>

-----------------------------------------------------------------------------
(***************************************************************************)
(* Constructors.  A frame is a call of an __init written in Lua: `by` is   *)
(* what returns after it, `callee` the value of super it has read, and     *)
(* `called` tells whether it has called the __init of its base.            *)
(***************************************************************************)
Closure(c, self) == [cls |-> c, self |-> self]

Frame(c, self, by) ==
  [cls |-> c, self |-> self, by |-> by, callee |-> Nil, called |-> FALSE]

Top == frames[Len(frames)]

BaseOf(c) == Bases[c][1]

\* What constructor_dispatcher and super_callback do when __init returns.
SuperKept(by, sup) == sup  \* mutant: super not cleared

SuperAfter(by, sup) == IF by = "script" THEN sup ELSE Nil

\* construct::operator(): new T, and a holder in place of any there was.
Constructed(rep) == [rep EXCEPT !.objects = @ + 1]

Finished(rep, by) ==
  IF by = "dispatcher" THEN [rep EXCEPT !.done = TRUE, !.held = TRUE] ELSE rep

\* What an error leaves of the stack: scripts catch it, if anywhere, around
\* a construction.
Unwound(calls) ==
  {SubSeq(calls, 1, n - 1) : n \in {k \in DOMAIN calls : calls[k].by = "dispatcher"}}

\* A call of the __init found in the table of c: one written in Lua begins,
\* one of a C++ class runs, or throws, and Nil is an error.
CallInit(c, self, by, below, reps, sup) ==
  LET init  == table[c]["__init"]
      calls == Append(below, Frame(IF init \in LuaClasses THEN init ELSE c, self, by))
  IN  \/ /\ init \in LuaClasses
         /\ frames' = calls /\ super' = sup /\ instance' = reps
      \/ /\ init \in CppClasses
         /\ frames' = below /\ super' = SuperAfter(by, sup)
         /\ instance' = [reps EXCEPT ![self] = Finished(Constructed(@), by)]
      \/ /\ init \notin LuaClasses
         /\ frames' \in Unwound(calls) /\ super' = sup /\ instance' = reps

\* What the dispatcher leaves in super before it calls __init.
SuperOfOthers(c, self) == super  \* mutant: super is set by super_callback only

SuperUnlessSet(c, self) ==  \* mutant: a super that is there is left
  IF c \in LuaClasses /\ Bases[c] # <<>> /\ super = Nil THEN Closure(c, self) ELSE super

SuperFor(c, self) ==
  IF c \in LuaClasses /\ Bases[c] # <<>> THEN Closure(c, self) ELSE super

NewInstance(c) == [cls |-> c, objects |-> 0, done |-> FALSE, held |-> FALSE]

\* A script that keeps to SuperFirst may construct arguments for super(...).
MayConstruct ==
  SuperFirst /\ frames # <<>> =>
    Top.called \/ Top.callee # Nil \/ Top.cls \notin UsesSuper

\* How the classes of a program are to be written for super to work: an __init
\* that calls Base.__init(self) calls none that uses super, which would find
\* the super of its caller or none.
Chained ==
  \A c \in LuaClasses \ UsesSuper : Bases[c] # <<>> => BaseOf(c) \notin UsesSuper

\* class_rep::constructor_dispatcher
Construct(c) ==
  /\ c \in defined \cap Instantiated /\ MayConstruct
  /\ \E i \in Instances :
       /\ instance[i] = Nil /\ \A j \in Instances : j < i => instance[j] # Nil
       /\ CallInit(c, i, "dispatcher", frames,
                   [instance EXCEPT ![i] = NewInstance(c)], SuperFor(c, i))
  /\ UNCHANGED <<defined, table, written, seen>>

ReadSuper ==
  /\ frames # <<>> /\ Top.cls \in UsesSuper /\ Bases[Top.cls] # <<>>
  /\ Top.callee = Nil /\ ~Top.called /\ super # Nil
  /\ frames' = [frames EXCEPT ![Len(frames)].callee = super]
  /\ UNCHANGED <<defined, table, written, seen, super, instance>>

\* super(...): super_callback, with the upvalues of the closure that was read.
SuperOfBase(c, self) ==
  IF Bases[c] = <<>> THEN Nil ELSE Closure(c, self)

CallSuper ==
  /\ frames # <<>> /\ Top.callee # Nil /\ ~Top.called
  /\ LET base == BaseOf(Top.callee.cls)
         self == Top.callee.self
     IN  CallInit(base, self, "super",
                  [frames EXCEPT ![Len(frames)].called = TRUE, ![Len(frames)].callee = Nil],
                  instance, SuperOfBase(base, self))
  /\ UNCHANGED <<defined, table, written, seen>>

\* Base.__init(self)
CallBaseInit ==
  /\ frames # <<>> /\ Top.cls \notin UsesSuper
  /\ Bases[Top.cls] # <<>> /\ ~Top.called
  /\ CallInit(BaseOf(Top.cls), Top.self, "script",
              [frames EXCEPT ![Len(frames)].called = TRUE], instance, super)
  /\ UNCHANGED <<defined, table, written, seen>>

\* An __init returns, after it has called that of its base.
Return ==
  /\ frames # <<>>
  /\ Top.called \/ Bases[Top.cls] = <<>>
  /\ frames' = SubSeq(frames, 1, Len(frames) - 1)
  /\ super' = SuperAfter(Top.by, super)
  /\ instance' = [instance EXCEPT ![Top.self] = Finished(@, Top.by)]
  /\ UNCHANGED <<defined, table, written, seen>>

Raise ==
  /\ frames' \in Unwound(frames)
  /\ UNCHANGED <<defined, table, written, seen, super, instance>>

-----------------------------------------------------------------------------
Forget(i) ==
  /\ instance[i] # Nil /\ instance[i].held
  /\ instance' = [instance EXCEPT ![i].held = FALSE]
  /\ UNCHANGED <<defined, table, written, seen, super, frames>>

ReachableFromStack(i) ==  \* mutant: the upvalue is a light userdata
  \/ instance[i].held
  \/ \E n \in DOMAIN frames : frames[n].self = i

\* The stack, and super, which is a global variable, are roots.
Reachable(i) ==
  \/ instance[i].held
  \/ super # Nil /\ super.self = i
  \/ \E n \in DOMAIN frames :
       frames[n].self = i \/ (frames[n].callee # Nil /\ frames[n].callee.self = i)

Finalize(i) ==
  /\ instance[i] # Nil /\ ~Reachable(i)
  /\ instance' = [instance EXCEPT ![i] = Nil]
  /\ UNCHANGED <<defined, table, written, seen, super, frames>>

-----------------------------------------------------------------------------
Init ==
  /\ defined = {}
  /\ table = [c \in Classes |-> NoMembers]
  /\ written = {}
  /\ seen = [c \in Classes |-> {}]
  /\ super = Nil
  /\ frames = <<>>
  /\ instance = [i \in Instances |-> Nil]

Next ==
  \/ \E c \in Classes :
       \/ Register(c) \/ Derive(c) \/ Construct(c)
       \/ \E m \in Members : SetMember(c, m)
  \/ ReadSuper \/ CallSuper \/ CallBaseInit \/ Return \/ Raise
  \/ \E i \in Instances : Forget(i) \/ Finalize(i)

Spec == Init /\ [][Next]_vars

\* Scripts allocate, which drives the collector.
Fairness == \A i \in Instances : WF_vars(Finalize(i))

FairSpec == Spec /\ Fairness

-----------------------------------------------------------------------------
(***************************************************************************)
(* Types of the variables; the instances of running constructors, and that *)
(* of super, exist.                                                        *)
(***************************************************************************)
ClosureType == [cls : Classes, self : Instances]

FrameType ==
  [cls : LuaClasses, self : Instances, by : {"dispatcher", "super", "script"},
   callee : ClosureType \cup {Nil}, called : BOOLEAN]

InstanceType == [cls : Classes, objects : Nat, done : BOOLEAN, held : BOOLEAN]

ASSUME NilAssumption == Nil \notin ClosureType \cup InstanceType

TypeOK ==
  /\ defined \subseteq Classes
  /\ table \in [Classes -> [Members -> Classes \cup {Nil}]]
  /\ written \subseteq defined \X Members
  /\ seen \in [Classes -> SUBSET written]
  /\ super \in ClosureType \cup {Nil}
  /\ frames \in Seq(FrameType)
  /\ instance \in [Instances -> InstanceType \cup {Nil}]
  /\ super # Nil => instance[super.self] # Nil
  /\ \A n \in DOMAIN frames : instance[frames[n].self] # Nil
  /\ \A i \in Instances : instance[i] # Nil => instance[i].cls \in defined

(***************************************************************************)
(* docs.rst:1387 "You can find all member functions in the base class":    *)
(* the tables, each a copy of other copies that were taken at different    *)
(* times, hold what a search through the hierarchy finds.  The search      *)
(* reads no table.  It asks of the bases of a class, in their order, what  *)
(* had been written for them when the class was made, and where nothing    *)
(* had, goes on to their bases; what a base is given later is not found.   *)
(***************************************************************************)
First(s) == CHOOSE i \in s : \A j \in s : i <= j

SearchBases[c \in defined] ==
  [m \in Members |->
     LET Found(b) == IF <<b, m>> \in seen[c] THEN b ELSE SearchBases[b][m]
         having == {i \in DOMAIN Bases[c] : Found(Bases[c][i]) # Nil}
     IN  IF having = {} \/ (c \in LuaClasses /\ m \in NotCopied) THEN Nil
         ELSE Found(Bases[c][First(having)])]

MembersAreInherited ==
  \A c \in defined : \A m \in Members :
    table[c][m] = IF <<c, m>> \in written THEN c ELSE SearchBases[c][m]

(***************************************************************************)
(* docs.rst:2479 "This is to make it easy for that constructor to call its *)
(* base class' constructor": an __init that may still call super finds in  *)
(* it, or has read from it, its own class and its own instance, whatever   *)
(* was constructed or has failed meanwhile.                                *)
(***************************************************************************)
SuperIsMine ==
  frames # <<>> /\ Top.cls \in UsesSuper /\ Bases[Top.cls] # <<>> /\ ~Top.called =>
    (IF Top.callee = Nil THEN super ELSE Top.callee) = Closure(Top.cls, Top.self)

(***************************************************************************)
(* An instance gets one holder, not a second one in place of the first,    *)
(* whose object would leak (construct::operator(), set_instance), and has  *)
(* it when its constructor returns, if it derives from a C++ class.        *)
(***************************************************************************)
BasesReach(s) ==
  \A c \in s \cap LuaClasses : Bases[c] # <<>> => BaseOf(c) \in s

\* C++ classes, and those whose chain of bases leads to one.
CppBased ==
  {c \in Classes : \A s \in SUBSET Classes :
                    c \in s /\ BasesReach(s) => s \cap CppClasses # {}}

InitialisedOnce ==
  \A i \in Instances : instance[i] # Nil =>
    /\ instance[i].objects <= 1
    /\ instance[i].done =>
         instance[i].objects = IF instance[i].cls \in CppBased THEN 1 ELSE 0

(***************************************************************************)
(* test_super_leak.cpp:36 "This used to leak the last created instance in  *)
(* one of the upvalues": an instance that was made without an error is     *)
(* collected once scripts have dropped it.                                 *)
(***************************************************************************)
Dropped(i) == instance[i] # Nil /\ instance[i].done /\ ~instance[i].held

DroppedIsCollected == \A i \in Instances : Dropped(i) ~> ~Dropped(i)
=============================================================================
