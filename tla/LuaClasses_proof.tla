-------------------------- MODULE LuaClasses_proof --------------------------
(***************************************************************************)
(* Proofs about LuaClasses: its types, that the loop of register_ and the  *)
(* copies made of copies leave in the tables of the classes what a search  *)
(* of the hierarchy would find, that an __init finds its own super, and    *)
(* that an instance is given one holder.                                   *)
(*                                                                         *)
(* A call of an __init has three outcomes (Begins, Runs and Fails), and    *)
(* the invariants are operators of the stack, the instances and super, so  *)
(* that they can be stated of those that a constructor, super(...) or      *)
(* Base.__init(self) hands to that call.                                   *)
(***************************************************************************)
EXTENDS LuaClasses, SequenceTheorems, WellFoundedInduction, TLAPS

USE DEF Classes, Instances

ByType == {"dispatcher", "super", "script"}

-----------------------------------------------------------------------------
(***************************************************************************)
(* What a class finds in its bases.                                        *)
(***************************************************************************)
LEMMA LeastExists ==
  ASSUME NEW S \in SUBSET Nat, S # {}
  PROVE  \E i \in S : \A j \in S : i <= j
<1>1. PICK n \in S : \A m \in S : ~ (<<m, n>> \in OpToRel(<, Nat))
  BY WFMin, NatLessThanWellFounded, Zenon
<1>2. \A m \in S : ~(m < n)
  BY <1>1 DEF OpToRel
<1>. QED  BY <1>2

LEMMA FirstIsLeast ==
  ASSUME NEW S \in SUBSET Nat, S # {}
  PROVE  First(S) \in S /\ \A j \in S : First(S) <= j
BY LeastExists, Zenon DEF First

LEMMA FirstIs ==
  ASSUME NEW S \in SUBSET Nat, NEW i \in S, \A j \in S : i <= j
  PROVE  First(S) = i
<1>1. PICK k : k = First(S)
  OBVIOUS
<1>2. k \in S /\ \A j \in S : k <= j
  BY <1>1, FirstIsLeast
<1>3. k <= i /\ i <= k /\ k \in Nat /\ i \in Nat
  BY <1>2
<1>. QED  BY <1>1, <1>3

TableType == [Classes -> [Members -> Classes \cup {Nil}]]

LEMMA BasesAreClasses ==
  ASSUME NEW c \in Classes
  PROVE  /\ Len(Bases[c]) \in Nat /\ DOMAIN Bases[c] = 1..Len(Bases[c])
         /\ \A i \in DOMAIN Bases[c] : Bases[c][i] \in BasesOf(c) /\ Bases[c][i] \in Classes
<1>1. Bases[c] \in Seq(Classes)
  BY LuaClassesAssumption
<1>. QED  BY <1>1, LenProperties, ElementOfSeq DEF BasesOf

\* The name m, in the table of c, after the first n of its bases.
Having(c, m, n) == {i \in 1..n : table[Bases[c][i]][m] # Nil}

Copied(c, m, n) ==
  IF m \in CppMembers[c] THEN c
  ELSE IF Having(c, m, n) = {} THEN Nil
  ELSE table[Bases[c][First(Having(c, m, n))]][m]

\* One more base.
LEMMA CopiedNext ==
  ASSUME NEW c \in CppClasses, NEW m \in Members, NEW n \in Nat, n > 0
  PROVE  Copied(c, m, n) = IF Copied(c, m, n - 1) # Nil THEN Copied(c, m, n - 1)
                           ELSE table[Bases[c][n]][m]
<1>1. c # Nil
  BY LuaClassesAssumption
<1>2. PICK less : less = Having(c, m, n - 1)
  OBVIOUS
<1>3. PICK more : more = Having(c, m, n)
  OBVIOUS
<1>4. /\ less \in SUBSET Nat /\ more \in SUBSET Nat
      /\ \A i \in less : i < n /\ i \in more /\ table[Bases[c][i]][m] # Nil
      /\ \A i \in more : i \in less \/ i = n
      /\ n \in more <=> table[Bases[c][n]][m] # Nil
  BY <1>2, <1>3 DEF Having
<1>5. CASE m \in CppMembers[c]
  BY <1>1, <1>5 DEF Copied
<1>6. CASE m \notin CppMembers[c] /\ less # {}
  <2>1. First(less) \in less /\ \A j \in less : First(less) <= j
    BY <1>4, <1>6, FirstIsLeast
  <2>2. PICK k : k = First(less)
    OBVIOUS
  <2>3. k \in more /\ \A j \in more : k <= j
    <3>1. k \in less /\ \A j \in less : k <= j
      BY <2>1, <2>2
    <3>2. k < n /\ k \in Nat
      BY <1>4, <3>1
    <3>. QED  BY <1>4, <3>1, <3>2
  <2>4. First(more) = k
    BY <1>4, <2>3, FirstIs
  <2>. QED  BY <1>2, <1>3, <1>4, <1>6, <2>1, <2>2, <2>3, <2>4 DEF Copied
<1>7. CASE m \notin CppMembers[c] /\ less = {} /\ n \in more
  <2>1. \A j \in more : n <= j
    BY <1>4, <1>7
  <2>2. First(more) = n
    BY <1>4, <1>7, <2>1, FirstIs
  <2>. QED  BY <1>2, <1>3, <1>7, <2>2 DEF Copied
<1>8. CASE m \notin CppMembers[c] /\ less = {} /\ n \notin more
  <2>1. more = {}
    BY <1>4, <1>8
  <2>. QED  BY <1>2, <1>3, <1>4, <1>8, <2>1 DEF Copied
<1>. QED  BY <1>5, <1>6, <1>7, <1>8

\* The loop of register_, as a function of itself, has one solution.
Looping(f, c) ==
  [i \in 0..Len(Bases[c]) |->
     IF i = 0 THEN OwnTable(c) ELSE CopyTable(f[i - 1], table[Bases[c][i]])]

CopiedTable(c, n) == [m \in Members |-> Copied(c, m, n)]

\* The rows that the loop goes through.
LEMMA CopiedTables ==
  ASSUME NEW c \in CppClasses, NEW f, NEW i \in Nat,
         i # 0 => f[i - 1] = CopiedTable(c, i - 1)
  PROVE  CopiedTable(c, i) = IF i = 0 THEN OwnTable(c)
                             ELSE CopyTable(f[i - 1], table[Bases[c][i]])
<1>1. CASE i = 0
  <2>1. \A m \in Members : Copied(c, m, 0) = IF m \in CppMembers[c] THEN c ELSE Nil
    <3>1. \A m \in Members : Having(c, m, 0) = {}
      BY DEF Having
    <3>. QED  BY <3>1 DEF Copied
  <2>. QED  BY <1>1, <2>1 DEF CopiedTable, OwnTable
<1>2. CASE i # 0
  <2>1. PICK j : j = i - 1
    OBVIOUS
  <2>2. \A m \in Members : f[j][m] = Copied(c, m, j)
    BY <1>2, <2>1 DEF CopiedTable
  <2>3. \A m \in Members : Copied(c, m, i) = IF f[j][m] # Nil THEN f[j][m]
                                            ELSE table[Bases[c][i]][m]
    BY <1>2, <2>1, <2>2, CopiedNext
  <2>4. CopiedTable(c, i) = CopyTable(f[j], table[Bases[c][i]])
    BY <2>3 DEF CopiedTable, CopyTable
  <2>. QED  BY <1>2, <2>1, <2>4
<1>. QED  BY <1>1, <1>2

LEMMA LoopHasSolution ==
  ASSUME NEW c \in CppClasses
  PROVE  \E f : f = Looping(f, c)
<1>1. PICK len : len = Len(Bases[c])
  OBVIOUS
<1>2. len \in Nat
  BY <1>1, LuaClassesAssumption, LenProperties
<1>3. PICK f : f = [i \in 0..len |-> CopiedTable(c, i)]
  OBVIOUS
<1>4. \A i \in 0..len : i \in Nat /\ f[i] = CopiedTable(c, i)
  BY <1>2, <1>3
<1>5. \A i \in 0..len : i # 0 => f[i - 1] = CopiedTable(c, i - 1)
  BY <1>2, <1>4
<1>6. \A i \in 0..len : f[i] = IF i = 0 THEN OwnTable(c)
                               ELSE CopyTable(f[i - 1], table[Bases[c][i]])
  BY <1>4, <1>5, CopiedTables
<1>7. f = [i \in 0..len |-> IF i = 0 THEN OwnTable(c)
                           ELSE CopyTable(f[i - 1], table[Bases[c][i]])]
  BY <1>3, <1>6
<1>. QED  BY <1>1, <1>7, Zenon DEF Looping

LEMMA LoopSolved ==
  ASSUME NEW c \in CppClasses, NEW f, f = Looping(f, c)
  PROVE  \A i \in 0..Len(Bases[c]) : f[i] = CopiedTable(c, i)
<1>1. PICK len : len = Len(Bases[c])
  OBVIOUS
<1>2. len \in Nat
  BY <1>1, LuaClassesAssumption, LenProperties
<1>3. \A i \in 0..len : f[i] = IF i = 0 THEN OwnTable(c)
                               ELSE CopyTable(f[i - 1], table[Bases[c][i]])
  BY <1>1, Zenon DEF Looping
<1>4. PICK wrong : wrong = {i \in 0..len : f[i] # CopiedTable(c, i)}
  OBVIOUS
<1>5. ASSUME wrong # {}
      PROVE  FALSE
  <2>1. wrong \in SUBSET Nat
    BY <1>2, <1>4
  <2>2. PICK i \in wrong : \A j \in wrong : i <= j
    BY <1>5, <2>1, LeastExists
  <2>3. i \in 0..len /\ i \in Nat /\ f[i] # CopiedTable(c, i)
    BY <1>4, <2>1, <2>2
  <2>4. i # 0 => f[i - 1] = CopiedTable(c, i - 1)
    <3>1. ASSUME i # 0
          PROVE  i - 1 \in 0..len /\ i - 1 \notin wrong
      BY <1>2, <2>2, <2>3, <3>1
    <3>. QED  BY <1>4, <3>1
  <2>. QED  BY <1>3, <2>3, <2>4, CopiedTables
<1>. QED  BY <1>1, <1>4, <1>5

LEMMA RegisteredIs ==
  ASSUME NEW c \in CppClasses
  PROVE  Registered(c) = CopiedTable(c, Len(Bases[c]))
<1>1. PICK f : f = Looping(f, c)
  BY LoopHasSolution, Zenon
<1>2. PICK copied : copied = CHOOSE g : g = Looping(g, c)
  OBVIOUS
<1>3. copied = Looping(copied, c)
  BY <1>1, <1>2, Zenon
<1>4. Registered(c) = copied[Len(Bases[c])]
  BY <1>2, Zenon DEF Registered, Looping
<1>5. Len(Bases[c]) \in 0..Len(Bases[c])
  BY LuaClassesAssumption, LenProperties
<1>. QED  BY <1>3, <1>4, <1>5, LoopSolved

\* What a class that has been registered finds in its bases, all of them.
FromBases(c, m) ==
  IF Having(c, m, Len(Bases[c])) = {} THEN Nil
  ELSE table[Bases[c][First(Having(c, m, Len(Bases[c])))]][m]

LEMMA FromBasesIsFirst ==
  ASSUME NEW c \in Classes, NEW m \in Members
  PROVE  \/ /\ \A i \in DOMAIN Bases[c] : table[Bases[c][i]][m] = Nil
            /\ FromBases(c, m) = Nil
         \/ \E i \in DOMAIN Bases[c] :
              /\ table[Bases[c][i]][m] # Nil
              /\ FromBases(c, m) = table[Bases[c][i]][m]
<1>. DEFINE having == Having(c, m, Len(Bases[c]))
<1>1. having \in SUBSET Nat /\ DOMAIN Bases[c] = 1..Len(Bases[c])
  BY BasesAreClasses DEF Having
<1>2. CASE having = {}
  BY <1>1, <1>2 DEF FromBases, Having
<1>3. CASE having # {}
  <2>1. First(having) \in having
    <3>. HIDE DEF having
    <3>. QED  BY <1>1, <1>3, FirstIsLeast
  <2>2. FromBases(c, m) = table[Bases[c][First(having)]][m]
    BY <1>3 DEF FromBases
  <2>3. First(having) \in DOMAIN Bases[c] /\ table[Bases[c][First(having)]][m] # Nil
    BY <1>1, <2>1 DEF Having
  <2>. QED  BY <2>2, <2>3
<1>. QED  BY <1>2, <1>3

LEMMA FromBasesType ==
  ASSUME table \in TableType, NEW c \in Classes, NEW m \in Members
  PROVE  FromBases(c, m) \in Classes \cup {Nil}
<1>1. \A i \in DOMAIN Bases[c] : Bases[c][i] \in Classes
  BY BasesAreClasses
<1>. QED  BY <1>1, FromBasesIsFirst DEF TableType

\* The loop of register_ (class.cpp:168-206) leaves its own members to a class
\* and takes every other name from the first base to have it, for any number
\* of bases and whatever their tables hold.
THEOREM FirstBaseWins ==
  ASSUME NEW c \in CppClasses
  PROVE  /\ DOMAIN Registered(c) = Members
         /\ \A m \in Members :
              Registered(c)[m] = IF m \in CppMembers[c] THEN c ELSE FromBases(c, m)
BY RegisteredIs DEF CopiedTable, Copied, FromBases

\* What a base is, of a class that has one.
LEMMA BaseOfType ==
  ASSUME NEW c \in Classes, Bases[c] # <<>>
  PROVE  /\ BaseOf(c) \in Classes /\ 1 \in DOMAIN Bases[c]
         /\ c \in CppClasses => BaseOf(c) \in CppClasses
<1>1. Bases[c] \in Seq(Classes)
  BY LuaClassesAssumption
<1>2. 1 \in DOMAIN Bases[c]
  BY <1>1, LenProperties, EmptySeq
<1>. QED  BY <1>1, <1>2, LuaClassesAssumption, ElementOfSeq, LenProperties DEF BaseOf

-----------------------------------------------------------------------------
(***************************************************************************)
(* The stack.                                                              *)
(***************************************************************************)

\* What is left of calls when an error is caught around a construction.
Cut(left, calls) ==
  /\ Len(left) \in Nat /\ Len(left) < Len(calls)
  /\ DOMAIN left = 1..Len(left)
  /\ \A n \in 1..Len(left) : left[n] = calls[n]
  /\ calls[Len(left) + 1].by = "dispatcher"

LEMMA UnwoundIsCut ==
  ASSUME NEW S, NEW calls \in Seq(S), NEW left \in Unwound(calls)
  PROVE  left \in Seq(S) /\ Cut(left, calls)
<1>1. PICK k \in DOMAIN calls : /\ calls[k].by = "dispatcher"
                                /\ left = SubSeq(calls, 1, k - 1)
  BY DEF Unwound
<1>2. k \in 1..Len(calls) /\ Len(calls) \in Nat
  BY LenProperties
<1>3. \A n \in 1..(k - 1) : calls[n] \in S
  BY <1>2, ElementOfSeq
<1>4. /\ left \in Seq(S)
      /\ Len(left) = k - 1
      /\ \A n \in 1..(k - 1) : left[n] = calls[n]
  <2>1. 1 \in Int /\ k - 1 \in Int
    BY <1>2
  <2>2. /\ SubSeq(calls, 1, k - 1) \in Seq(S)
        /\ Len(SubSeq(calls, 1, k - 1)) = IF 1 <= k - 1 THEN (k - 1) - 1 + 1 ELSE 0
        /\ \A n \in 1..((k - 1) - 1 + 1) : SubSeq(calls, 1, k - 1)[n] = calls[1 + n - 1]
    BY <2>1, <1>3, SubSeqProperties
  <2>. QED  BY <2>2, <1>1, <1>2
<1>5. DOMAIN left = 1..Len(left)
  BY <1>4, LenProperties
<1>. QED  BY <1>1, <1>2, <1>4, <1>5 DEF Cut

\* Returning takes the last frame off.
LEMMA FrontOfFrames ==
  ASSUME NEW S, NEW calls \in Seq(S), calls # <<>>
  PROVE  /\ Len(calls) \in Nat /\ Len(calls) > 0
         /\ SubSeq(calls, 1, Len(calls) - 1) \in Seq(S)
         /\ Len(SubSeq(calls, 1, Len(calls) - 1)) = Len(calls) - 1
         /\ \A n \in 1..(Len(calls) - 1) :
              SubSeq(calls, 1, Len(calls) - 1)[n] = calls[n]
<1>1. Len(calls) \in Nat /\ DOMAIN calls = 1..Len(calls) /\ Len(calls) > 0
  BY LenProperties, EmptySeq
<1>2. \A n \in 1..(Len(calls) - 1) : calls[n] \in S
  BY <1>1, ElementOfSeq
<1>3. PICK k : k = Len(calls) - 1
  OBVIOUS
<1>4. 1 \in Int /\ k \in Int /\ \A n \in 1..k : calls[n] \in S
  BY <1>1, <1>2, <1>3
<1>5. /\ SubSeq(calls, 1, k) \in Seq(S)
      /\ Len(SubSeq(calls, 1, k)) = IF 1 <= k THEN k - 1 + 1 ELSE 0
      /\ \A n \in 1..(k - 1 + 1) : SubSeq(calls, 1, k)[n] = calls[1 + n - 1]
  BY <1>4, SubSeqProperties
<1>6. Len(SubSeq(calls, 1, k)) = k /\ \A n \in 1..k : SubSeq(calls, 1, k)[n] = calls[n]
  BY <1>1, <1>3, <1>5
<1>. QED  BY <1>1, <1>3, <1>5, <1>6

-----------------------------------------------------------------------------
(***************************************************************************)
(* Calls of __init.                                                        *)
(***************************************************************************)

\* A class written in Lua has its own __init or none; one of C++ has never
\* one that is written in Lua.
Inits ==
  /\ \A c \in LuaClasses : table[c]["__init"] \in {c, Nil}
  /\ \A c \in CppClasses : table[c]["__init"] \notin LuaClasses

Begins(c, self, by, below, reps, sup) ==
  /\ c \in LuaClasses
  /\ frames' = Append(below, Frame(c, self, by)) /\ super' = sup /\ instance' = reps

Runs(c, self, by, below, reps, sup) ==
  /\ c \in CppClasses
  /\ frames' = below /\ super' = SuperAfter(by, sup)
  /\ instance' = [reps EXCEPT ![self] = Finished(Constructed(@), by)]

Fails(by, below, reps, sup) ==
  /\ frames' \in Seq(FrameType) /\ super' = sup /\ instance' = reps
  /\ \/ frames' = below /\ by = "dispatcher"
     \/ Cut(frames', below)

LEMMA CallInitOutcomes ==
  ASSUME Inits,
         NEW c \in Classes, NEW self \in Instances, NEW by \in ByType,
         NEW below \in Seq(FrameType), NEW reps, NEW sup,
         CallInit(c, self, by, below, reps, sup)
  PROVE  \/ Begins(c, self, by, below, reps, sup)
         \/ Runs(c, self, by, below, reps, sup)
         \/ Fails(by, below, reps, sup)
<1>. DEFINE init  == table[c]["__init"]
            new   == Frame(IF init \in LuaClasses THEN init ELSE c, self, by)
            calls == Append(below, new)
<1>1. CASE init \in LuaClasses /\ frames' = calls /\ super' = sup /\ instance' = reps
  <2>1. c \in LuaClasses /\ init = c
    BY <1>1, LuaClassesAssumption DEF Inits
  <2>. QED  BY <1>1, <2>1 DEF Begins
<1>2. CASE /\ init \in CppClasses
           /\ frames' = below /\ super' = SuperAfter(by, sup)
           /\ instance' = [reps EXCEPT ![self] = Finished(Constructed(@), by)]
  <2>1. c \in CppClasses
    BY <1>2, LuaClassesAssumption DEF Inits
  <2>. QED  BY <1>2, <2>1 DEF Runs
<1>3. ASSUME init \notin LuaClasses, frames' \in Unwound(calls),
             super' = sup, instance' = reps
      PROVE  Fails(by, below, reps, sup)
  <2>. DEFINE S == FrameType \cup {new}
  <2>1. below \in Seq(S)
    <3>. HIDE DEF new
    <3>. QED  BY SeqMonotonic
  <2>2. /\ calls \in Seq(S)
        /\ Len(calls) = Len(below) + 1
        /\ \A n \in 1..Len(below) : calls[n] = below[n]
        /\ calls[Len(below) + 1] = new
    <3>. HIDE DEF new
    <3>. QED  BY <2>1, AppendProperties
  <2>3. PICK left : left = frames'
    OBVIOUS
  <2>4. left \in Seq(S) /\ Cut(left, calls)
    <3>1. left \in Unwound(calls)
      BY <1>3, <2>3
    <3>. HIDE DEF calls, S
    <3>. QED  BY <3>1, <2>2, UnwoundIsCut
  <2>5. /\ Len(below) \in Nat /\ DOMAIN below = 1..Len(below)
        /\ \A n \in 1..Len(below) : below[n] \in FrameType
    BY LenProperties, ElementOfSeq
  <2>6. /\ Len(left) \in Nat /\ Len(left) <= Len(below)
        /\ DOMAIN left = 1..Len(left)
        /\ \A n \in 1..Len(left) : left[n] = below[n]
    <3>. HIDE DEF calls
    <3>. QED  BY <2>2, <2>4, <2>5 DEF Cut
  <2>7. left \in Seq(FrameType)
    <3>1. \A n \in 1..Len(left) : left[n] \in FrameType
      BY <2>5, <2>6
    <3>2. left \in [1..Len(left) -> S]
      BY <2>4, LenProperties
    <3>3. left \in [1..Len(left) -> FrameType]
      <4>. HIDE DEF S
      <4>. QED  BY <3>1, <3>2
    <3>4. [1..Len(left) -> FrameType] \in {[1..n -> FrameType] : n \in Nat}
      BY <2>6
    <3>5. left \in UNION {[1..n -> FrameType] : n \in Nat}
      BY <3>3, <3>4, Zenon
    <3>. QED  BY <3>5, SeqDef, Zenon
  <2>8. CASE Len(left) = Len(below)
    <3>1. left = below
      BY <2>5, <2>6, <2>7, <2>8, SeqEqual
    <3>2. new.by = "dispatcher"
      <4>. HIDE DEF new, calls
      <4>. QED  BY <2>2, <2>4, <2>8 DEF Cut
    <3>3. by = "dispatcher"
      BY <3>2 DEF Frame
    <3>. QED  BY <3>1, <3>3, <1>3, <2>3, <2>7 DEF Fails
  <2>9. CASE Len(left) < Len(below)
    <3>1. Cut(left, below)
      <4>. HIDE DEF new, calls
      <4>. QED  BY <2>2, <2>4, <2>5, <2>6, <2>9 DEF Cut
    <3>. QED  BY <3>1, <1>3, <2>3, <2>7 DEF Fails
  <2>10. Len(left) = Len(below) \/ Len(left) < Len(below)
    <3>1. Len(left) \in Nat /\ Len(below) \in Nat /\ Len(left) <= Len(below)
      BY <2>5, <2>6, Zenon
    <3>. QED  BY ONLY <3>1
  <2>. QED  BY <2>8, <2>9, <2>10, Zenon
<1>. QED  BY <1>1, <1>2, <1>3 DEF CallInit

-----------------------------------------------------------------------------
(***************************************************************************)
(* Types.  The instances of the stack and of super exist, and only the     *)
(* __init of a class that has a base reads super.                          *)
(***************************************************************************)
Usable(x, reps) == x # Nil => Bases[x.cls] # <<>> /\ reps[x.self] # Nil

FrameLives(f, reps) ==
  /\ reps[f.self] # Nil
  /\ Usable(f.callee, reps)
  /\ f.callee # Nil => f.cls \in UsesSuper /\ Bases[f.cls] # <<>>

StackTyped(fs, reps, sup, known) ==
  /\ fs \in Seq(FrameType)
  /\ reps \in [Instances -> InstanceType \cup {Nil}]
  /\ sup \in ClosureType \cup {Nil}
  /\ \A i \in Instances : reps[i] # Nil => reps[i].cls \in known
  /\ Usable(sup, reps)
  /\ \A n \in 1..Len(fs) : FrameLives(fs[n], reps)

TablesTyped ==
  /\ defined \subseteq Classes
  /\ table \in TableType
  /\ written \subseteq defined \X Members
  /\ seen \in [Classes -> SUBSET written]
  /\ \A c \in defined : BasesOf(c) \subseteq defined

ClassesInv ==
  /\ TablesTyped
  /\ Inits
  /\ StackTyped(frames, instance, super, defined)

LEMMA TypeFollows ==
  ASSUME ClassesInv
  PROVE  TypeOK
<1>1. DOMAIN frames = 1..Len(frames)
  BY LenProperties DEF ClassesInv, StackTyped
<1>. QED  BY <1>1 DEF ClassesInv, StackTyped, TablesTyped, TableType, TypeOK, Usable,
                      FrameLives

LEMMA InstanceUpdates ==
  ASSUME NEW rep \in InstanceType, NEW by \in ByType
  PROVE  /\ Constructed(rep) \in InstanceType
         /\ Constructed(rep).cls = rep.cls
         /\ Constructed(rep).objects = rep.objects + 1
         /\ Constructed(rep).done <=> rep.done
         /\ Finished(rep, by) \in InstanceType
         /\ Finished(rep, by).cls = rep.cls
         /\ Finished(rep, by).objects = rep.objects
         /\ Finished(rep, by).done <=> rep.done \/ by = "dispatcher"
<1>1. rep = [cls |-> rep.cls, objects |-> rep.objects, done |-> rep.done, held |-> rep.held]
      /\ rep.cls \in Classes /\ rep.objects \in Nat
      /\ rep.done \in BOOLEAN /\ rep.held \in BOOLEAN
  BY DEF InstanceType
<1>2. Constructed(rep) = [cls |-> rep.cls, objects |-> rep.objects + 1,
                          done |-> rep.done, held |-> rep.held]
  BY <1>1 DEF Constructed
<1>3. by = "dispatcher" =>
        Finished(rep, by) = [cls |-> rep.cls, objects |-> rep.objects,
                             done |-> TRUE, held |-> TRUE]
  BY <1>1 DEF Finished
<1>4. by # "dispatcher" => Finished(rep, by) = rep
  BY DEF Finished
<1>5. Constructed(rep) \in InstanceType
  BY <1>1, <1>2 DEF InstanceType
<1>6. Finished(rep, by) \in InstanceType
  <2>1. [cls |-> rep.cls, objects |-> rep.objects, done |-> TRUE, held |-> TRUE] \in InstanceType
    BY <1>1 DEF InstanceType
  <2>. QED  BY <1>3, <1>4, <2>1
<1>7. CASE by = "dispatcher"
  <2>1. /\ Finished(rep, by).cls = rep.cls /\ Finished(rep, by).objects = rep.objects
        /\ Finished(rep, by).done
    BY <1>3, <1>7
  <2>. QED  BY <1>2, <1>5, <1>6, <1>7, <2>1
<1>. QED  BY <1>2, <1>4, <1>5, <1>6, <1>7

LEMMA FrameTyped ==
  ASSUME NEW c \in LuaClasses, NEW self \in Instances, NEW by \in ByType
  PROVE  /\ Frame(c, self, by) \in FrameType
         /\ Frame(c, self, by).cls = c
         /\ Frame(c, self, by).self = self
         /\ Frame(c, self, by).by = by
         /\ Frame(c, self, by).callee = Nil
         /\ ~Frame(c, self, by).called
BY DEF Frame, FrameType, ByType

LEMMA ClosureTyped ==
  ASSUME NEW c \in Classes, NEW self \in Instances
  PROVE  /\ Closure(c, self) \in ClosureType /\ Closure(c, self) # Nil
         /\ Closure(c, self).cls = c /\ Closure(c, self).self = self
BY NilAssumption DEF Closure, ClosureType

\* A call of an __init keeps the types.
LEMMA CallInitTyped ==
  ASSUME Inits, NEW known,
         NEW c \in Classes, NEW self \in Instances, NEW by \in ByType,
         NEW below, NEW reps, NEW sup, StackTyped(below, reps, sup, known),
         reps[self] # Nil,
         CallInit(c, self, by, below, reps, sup)
  PROVE  StackTyped(frames', instance', super', known)
<1>1. /\ below \in Seq(FrameType)
      /\ Len(below) \in Nat /\ DOMAIN below = 1..Len(below)
      /\ \A n \in 1..Len(below) : below[n] \in FrameType
  BY LenProperties, ElementOfSeq DEF StackTyped
<1>2. CASE Begins(c, self, by, below, reps, sup)
  <2>1. PICK new : new = Frame(c, self, by)
    OBVIOUS
  <2>2. new \in FrameType /\ new.self = self /\ new.callee = Nil
    BY <1>2, <2>1, FrameTyped DEF Begins
  <2>3. frames' = Append(below, new) /\ super' = sup /\ instance' = reps
    BY <1>2, <2>1 DEF Begins
  <2>4. /\ frames' \in Seq(FrameType) /\ Len(frames') = Len(below) + 1
        /\ \A n \in 1..Len(below) : frames'[n] = below[n]
        /\ frames'[Len(below) + 1] = new
    BY <1>1, <2>2, <2>3, AppendProperties
  <2>5. \A n \in 1..Len(frames') : FrameLives(frames'[n], reps)
    BY <1>1, <2>2, <2>4 DEF StackTyped, FrameLives, Usable
  <2>. QED  BY <2>3, <2>4, <2>5 DEF StackTyped
<1>3. CASE Runs(c, self, by, below, reps, sup)
  <2>1. PICK rep : rep = Finished(Constructed(reps[self]), by)
    OBVIOUS
  <2>2. rep \in InstanceType /\ rep.cls = reps[self].cls /\ rep # Nil
    <3>1. reps[self] \in InstanceType
      BY DEF StackTyped
    <3>. QED  BY <2>1, <3>1, InstanceUpdates, NilAssumption
  <2>3. instance' = [reps EXCEPT ![self] = rep] /\ frames' = below
    BY <1>3, <2>1 DEF Runs
  <2>4. \A i \in Instances : (reps[i] # Nil <=> instance'[i] # Nil)
                             /\ (reps[i] # Nil => instance'[i].cls = reps[i].cls)
    BY <2>2, <2>3 DEF StackTyped
  <2>5. super' \in {sup, Nil}
    BY <1>3 DEF Runs, SuperAfter
  <2>6. instance' \in [Instances -> InstanceType \cup {Nil}]
    BY <2>2, <2>3 DEF StackTyped
  <2>7. Usable(super', instance')
    BY <2>4, <2>5 DEF StackTyped, Usable, ClosureType
  <2>8. ASSUME NEW n \in 1..Len(below)
        PROVE  FrameLives(below[n], instance')
    <3>1. below[n] \in FrameType /\ FrameLives(below[n], reps)
      BY <1>1 DEF StackTyped
    <3>. QED  BY <2>4, <3>1 DEF FrameLives, Usable, FrameType, ClosureType
  <2>. QED  BY <2>3, <2>4, <2>5, <2>6, <2>7, <2>8 DEF StackTyped
<1>4. CASE Fails(by, below, reps, sup)
  <2>1. /\ Len(frames') <= Len(below)
        /\ \A n \in 1..Len(frames') : frames'[n] = below[n]
    BY <1>1, <1>4 DEF Fails, Cut
  <2>2. frames' \in Seq(FrameType) /\ super' = sup /\ instance' = reps
    BY <1>4 DEF Fails
  <2>3. Len(frames') \in Nat
    BY <2>2, LenProperties
  <2>4. ASSUME NEW n \in 1..Len(frames')
        PROVE  FrameLives(frames'[n], reps)
    <3>1. n \in 1..Len(below) /\ frames'[n] = below[n]
      BY <1>1, <2>1, <2>3
    <3>. QED  BY <3>1 DEF StackTyped
  <2>. QED  BY <2>2, <2>4 DEF StackTyped
<1>5. \/ Begins(c, self, by, below, reps, sup)
      \/ Runs(c, self, by, below, reps, sup)
      \/ Fails(by, below, reps, sup)
  BY <1>1, CallInitOutcomes
<1>. QED  BY <1>2, <1>3, <1>4, <1>5

LEMMA MoreIsKnown ==
  ASSUME NEW fs, NEW reps, NEW sup, NEW less, NEW more, less \subseteq more,
         StackTyped(fs, reps, sup, less)
  PROVE  StackTyped(fs, reps, sup, more)
BY DEF StackTyped

\* The members of a class of C++, and of one that has just been derived.
LEMMA RegisteredType ==
  ASSUME TablesTyped, Inits, NEW c \in CppClasses
  PROVE  /\ Registered(c) \in [Members -> Classes \cup {Nil}]
         /\ Registered(c)["__init"] \notin LuaClasses
<1>1. \A m \in Members : FromBases(c, m) \in Classes \cup {Nil}
  BY FromBasesType DEF TablesTyped
<1>2. FromBases(c, "__init") \notin LuaClasses
  <2>1. "__init" \in Members /\ Nil \notin LuaClasses
    BY LuaClassesAssumption
  <2>2. \A i \in DOMAIN Bases[c] : Bases[c][i] \in CppClasses
    BY LuaClassesAssumption
  <2>. QED  BY <2>1, <2>2, FromBasesIsFirst DEF Inits
<1>3. "__init" \in Members /\ c \in Classes /\ c \notin LuaClasses
  BY LuaClassesAssumption
<1>4. /\ Registered(c) = [m \in Members |-> Registered(c)[m]]
      /\ \A m \in Members :
           Registered(c)[m] = IF m \in CppMembers[c] THEN c ELSE FromBases(c, m)
  BY RegisteredIs, FirstBaseWins DEF CopiedTable
<1>5. \A m \in Members : Registered(c)[m] \in Classes \cup {Nil}
  BY <1>1, <1>3, <1>4
<1>. QED  BY <1>2, <1>3, <1>4, <1>5

LEMMA DerivedType ==
  ASSUME TablesTyped, NEW c \in LuaClasses,
         NEW row, row = IF Bases[c] = <<>> THEN NoMembers ELSE MemberTable(Bases[c][1])
  PROVE  row \in [Members -> Classes \cup {Nil}] /\ row["__init"] = Nil
<1>1. "__init" \in Members
  BY LuaClassesAssumption
<1>2. CASE Bases[c] = <<>>
  BY <1>1, <1>2 DEF NoMembers
<1>3. CASE Bases[c] # <<>>
  <2>1. Bases[c][1] \in Classes
    BY <1>3, BaseOfType DEF BaseOf
  <2>. QED  BY <1>1, <1>3, <2>1 DEF MemberTable, NotCopied, TablesTyped, TableType
<1>. QED  BY <1>2, <1>3

LEMMA RegisterTyped ==
  ASSUME ClassesInv, NEW c \in Classes, Register(c)
  PROVE  ClassesInv'
<1>1. /\ c \in CppClasses /\ BasesOf(c) \subseteq defined
      /\ defined' = defined \cup {c} /\ c \notin LuaClasses
      /\ table' = [table EXCEPT ![c] = Registered(c)]
      /\ written' = written \cup {<<c, m>> : m \in CppMembers[c]}
  BY LuaClassesAssumption DEF Register
<1>2. /\ table' \in TableType
      /\ \A d \in Classes : table'[d] = IF d = c THEN Registered(c) ELSE table[d]
  <2>1. PICK row : row = Registered(c)
    OBVIOUS
  <2>2. table \in TableType /\ row \in [Members -> Classes \cup {Nil}]
    BY <1>1, <2>1, RegisteredType DEF ClassesInv, TablesTyped
  <2>3. table' = [table EXCEPT ![c] = row]
    BY <1>1, <2>1
  <2>. QED  BY <2>1, <2>2, <2>3 DEF TableType
<1>3. Inits'
  <2>1. Registered(c)["__init"] \notin LuaClasses
    BY <1>1, RegisteredType DEF ClassesInv
  <2>. QED  BY <1>1, <1>2, <2>1 DEF ClassesInv, Inits
<1>4. written' \subseteq defined' \X Members
  <2>1. CppMembers[c] \subseteq Members
    BY <1>1, LuaClassesAssumption
  <2>. QED  BY <1>1, <2>1 DEF ClassesInv, TablesTyped
<1>5. TablesTyped'
  <2>1. \A d \in defined' : BasesOf(d) \subseteq defined'
    BY <1>1 DEF ClassesInv, TablesTyped
  <2>2. defined' \subseteq Classes
    BY <1>1 DEF ClassesInv, TablesTyped
  <2>3. seen' \in [Classes -> SUBSET written']
    <3>1. seen' = [seen EXCEPT ![c] = WrittenForBases(c)] /\ written \subseteq written'
      BY <1>1 DEF Register
    <3>. QED  BY <3>1 DEF WrittenForBases, ClassesInv, TablesTyped
  <2>. QED  BY <1>2, <1>4, <2>1, <2>2, <2>3 DEF TablesTyped
<1>6. StackTyped(frames, instance, super, defined')
  BY <1>1, MoreIsKnown DEF ClassesInv
<1>. QED  BY <1>3, <1>5, <1>6 DEF ClassesInv, Register

LEMMA DeriveTyped ==
  ASSUME ClassesInv, NEW c \in Classes, Derive(c)
  PROVE  ClassesInv'
<1>1. /\ c \in LuaClasses /\ BasesOf(c) \subseteq defined
      /\ defined' = defined \cup {c} /\ written' = written /\ c \notin CppClasses
  BY LuaClassesAssumption DEF Derive
<1>2. PICK row : row = IF Bases[c] = <<>> THEN NoMembers ELSE MemberTable(Bases[c][1])
  OBVIOUS
<1>3. row \in [Members -> Classes \cup {Nil}] /\ row["__init"] = Nil
  BY <1>1, <1>2, DerivedType DEF ClassesInv
<1>4. table' = [table EXCEPT ![c] = row]
  BY <1>2 DEF Derive
<1>5. /\ table' \in TableType
      /\ \A d \in Classes : table'[d] = IF d = c THEN row ELSE table[d]
  <2>1. table \in TableType
    BY DEF ClassesInv, TablesTyped
  <2>. QED  BY <1>3, <1>4, <2>1 DEF TableType
<1>6. Inits'
  BY <1>1, <1>3, <1>5 DEF ClassesInv, Inits
<1>7. TablesTyped'
  <2>1. \A d \in defined' : BasesOf(d) \subseteq defined'
    BY <1>1 DEF ClassesInv, TablesTyped
  <2>2. defined' \subseteq Classes /\ written' \subseteq defined' \X Members
    BY <1>1 DEF ClassesInv, TablesTyped
  <2>3. seen' \in [Classes -> SUBSET written']
    <3>1. seen' = [seen EXCEPT ![c] = WrittenForBases(c)] /\ written \subseteq written'
      BY <1>1 DEF Derive
    <3>. QED  BY <3>1 DEF WrittenForBases, ClassesInv, TablesTyped
  <2>. QED  BY <1>5, <2>1, <2>2, <2>3 DEF TablesTyped
<1>8. StackTyped(frames, instance, super, defined')
  BY <1>1, MoreIsKnown DEF ClassesInv
<1>. QED  BY <1>6, <1>7, <1>8 DEF ClassesInv, Derive

LEMMA SetMemberTyped ==
  ASSUME ClassesInv, NEW c \in Classes, NEW m \in Members, SetMember(c, m)
  PROVE  ClassesInv'
<1>1. /\ c \in defined /\ m \in ScriptMembers[c]
      /\ table' = [table EXCEPT ![c][m] = c]
      /\ written' = written \cup {<<c, m>>} /\ defined' = defined
  BY DEF SetMember
<1>2. /\ table' \in TableType
      /\ \A d \in Classes, n \in Members :
           table'[d][n] = IF d = c /\ n = m THEN c ELSE table[d][n]
  BY <1>1 DEF ClassesInv, TablesTyped, TableType
<1>3. c \in CppClasses => m # "__init"
  BY <1>1, LuaClassesAssumption DEF NotCopied
<1>4. Inits'
  <2>1. /\ \A d \in Classes :
             table'[d]["__init"] = IF d = c /\ m = "__init" THEN c ELSE table[d]["__init"]
        /\ CppClasses \cap LuaClasses = {}
    BY <1>2, LuaClassesAssumption
  <2>. QED  BY <1>3, <2>1 DEF ClassesInv, Inits
<1>5. TablesTyped'
  <2>1. seen' \in [Classes -> SUBSET written']
    BY <1>1 DEF ClassesInv, TablesTyped, SetMember
  <2>. QED  BY <1>1, <1>2, <2>1 DEF ClassesInv, TablesTyped
<1>. QED  BY <1>4, <1>5 DEF ClassesInv, SetMember

\* The constructors leave the tables alone.
LEMMA TablesKept ==
  ASSUME ClassesInv, UNCHANGED <<defined, table, written, seen>>,
         StackTyped(frames', instance', super', defined)
  PROVE  ClassesInv'
<1>1. TablesTyped' /\ Inits'
  BY DEF ClassesInv, TablesTyped, Inits
<1>. QED  BY <1>1 DEF ClassesInv

\* The innermost frame, and what it has read of super.
LEMMA TopTyped ==
  ASSUME NEW known, StackTyped(frames, instance, super, known), frames # <<>>
  PROVE  /\ Len(frames) \in Nat /\ Len(frames) > 0 /\ DOMAIN frames = 1..Len(frames)
         /\ Top \in FrameType /\ Top = frames[Len(frames)] /\ FrameLives(Top, instance)
         /\ Top.callee # Nil => /\ Top.callee \in ClosureType
                                /\ Bases[Top.callee.cls] # <<>>
                                /\ BaseOf(Top.callee.cls) \in Classes
         /\ Bases[Top.cls] # <<>> => BaseOf(Top.cls) \in Classes
<1>1. /\ Len(frames) \in Nat /\ Len(frames) > 0 /\ DOMAIN frames = 1..Len(frames)
      /\ Top \in FrameType /\ Top = frames[Len(frames)] /\ FrameLives(Top, instance)
  BY LenProperties, EmptySeq, ElementOfSeq DEF StackTyped, Top
<1>2. Top.cls \in Classes
  BY <1>1 DEF FrameType
<1>3. ASSUME Top.callee # Nil
      PROVE  /\ Top.callee \in ClosureType /\ Top.callee.cls \in Classes
             /\ Bases[Top.callee.cls] # <<>>
  BY <1>1, <1>3 DEF FrameLives, Usable, FrameType, ClosureType
<1>. QED  BY <1>1, <1>2, <1>3, BaseOfType

\* What a constructor hands to the __init.
LEMMA ConstructTyped ==
  ASSUME ClassesInv, NEW c \in Classes, Construct(c)
  PROVE  ClassesInv'
<1>1. PICK i \in Instances :
        /\ instance[i] = Nil
        /\ CallInit(c, i, "dispatcher", frames,
                    [instance EXCEPT ![i] = NewInstance(c)], SuperFor(c, i))
  BY DEF Construct
<1>2. PICK reps : reps = [instance EXCEPT ![i] = NewInstance(c)]
  OBVIOUS
<1>3. PICK sup : sup = SuperFor(c, i)
  OBVIOUS
<1>4. c \in defined /\ UNCHANGED <<defined, table, written, seen>>
  BY DEF Construct
<1>5. StackTyped(frames, instance, super, defined) /\ Inits
  BY DEF ClassesInv
<1>6. NewInstance(c) \in InstanceType /\ NewInstance(c) # Nil /\ NewInstance(c).cls = c
  <2>1. NewInstance(c) \in InstanceType
    BY DEF NewInstance, InstanceType
  <2>. QED  BY <2>1, NilAssumption DEF NewInstance
<1>7. /\ reps \in [Instances -> InstanceType \cup {Nil}]
      /\ \A j \in Instances : reps[j] = IF j = i THEN NewInstance(c) ELSE instance[j]
  BY <1>2, <1>5, <1>6 DEF StackTyped
<1>8. sup \in ClosureType \cup {Nil} /\ Usable(sup, reps)
  <2>1. CASE c \in LuaClasses /\ Bases[c] # <<>>
    <3>1. sup = Closure(c, i)
      BY <1>3, <2>1 DEF SuperFor
    <3>. QED  BY <1>6, <1>7, <2>1, <3>1, ClosureTyped DEF Usable
  <2>2. CASE ~(c \in LuaClasses /\ Bases[c] # <<>>)
    <3>1. sup = super
      BY <1>3, <2>2 DEF SuperFor
    <3>. QED  BY <1>5, <1>6, <1>7, <3>1 DEF StackTyped, Usable, ClosureType
  <2>. QED  BY <2>1, <2>2
<1>9. ASSUME NEW n \in 1..Len(frames)
      PROVE  FrameLives(frames[n], reps)
  <2>1. frames[n] \in FrameType /\ FrameLives(frames[n], instance)
    BY <1>5, ElementOfSeq DEF StackTyped
  <2>. QED  BY <1>6, <1>7, <2>1 DEF FrameLives, Usable, FrameType, ClosureType
<1>10. StackTyped(frames, reps, sup, defined)
  BY <1>4, <1>5, <1>6, <1>7, <1>8, <1>9 DEF StackTyped
<1>11. CallInit(c, i, "dispatcher", frames, reps, sup)
  BY <1>1, <1>2, <1>3
<1>12. StackTyped(frames', instance', super', defined)
  <2>1. "dispatcher" \in ByType /\ reps[i] # Nil
    BY <1>6, <1>7 DEF ByType
  <2>. QED  BY <1>5, <1>10, <1>11, <2>1, CallInitTyped
<1>. QED  BY <1>4, <1>12, TablesKept

\* A change of the innermost frame that keeps its class and its instance.
LEMMA TopChanged ==
  ASSUME NEW known, NEW sup, StackTyped(frames, instance, super, known), frames # <<>>,
         sup \in ClosureType \cup {Nil}, Usable(sup, instance),
         NEW top \in FrameType, FrameLives(top, instance),
         NEW fs, fs = [frames EXCEPT ![Len(frames)] = top]
  PROVE  /\ StackTyped(fs, instance, sup, known)
         /\ Len(fs) = Len(frames) /\ fs[Len(frames)] = top
         /\ \A n \in 1..(Len(frames) - 1) : fs[n] = frames[n]
<1>1. /\ frames \in Seq(FrameType) /\ Len(frames) \in Nat /\ Len(frames) > 0
  BY TopTyped DEF StackTyped
<1>2. /\ fs \in Seq(FrameType) /\ Len(fs) = Len(frames)
      /\ \A n \in 1..Len(frames) : fs[n] = IF n = Len(frames) THEN top ELSE frames[n]
  BY <1>1, ExceptSeq
<1>3. \A n \in 1..Len(fs) : FrameLives(fs[n], instance)
  BY <1>1, <1>2 DEF StackTyped
<1>4. /\ instance \in [Instances -> InstanceType \cup {Nil}]
      /\ \A i \in Instances : instance[i] # Nil => instance[i].cls \in known
  BY DEF StackTyped
<1>5. StackTyped(fs, instance, sup, known)
  BY <1>2, <1>3, <1>4 DEF StackTyped
<1>6. fs[Len(frames)] = top /\ \A n \in 1..(Len(frames) - 1) : fs[n] = frames[n]
  <2>. Len(frames) \in 1..Len(frames) /\ 1..(Len(frames) - 1) \subseteq 1..Len(frames)
    BY <1>1
  <2>1. \A n \in 1..(Len(frames) - 1) : n # Len(frames)
    BY <1>1
  <2>. QED  BY ONLY <1>2, <2>1, Len(frames) \in 1..Len(frames),
                    1..(Len(frames) - 1) \subseteq 1..Len(frames)
<1>. QED  BY <1>2, <1>5, <1>6

ReadTop == [Top EXCEPT !.callee = super]

CallingSuper == [Top EXCEPT !.called = TRUE, !.callee = Nil]

CallingBase == [Top EXCEPT !.called = TRUE]

LEMMA TopUpdates ==
  ASSUME NEW known, StackTyped(frames, instance, super, known), frames # <<>>
  PROVE  /\ ReadTop \in FrameType /\ CallingSuper \in FrameType /\ CallingBase \in FrameType
         /\ \A f \in {ReadTop, CallingSuper, CallingBase} :
              f.cls = Top.cls /\ f.self = Top.self /\ f.by = Top.by
         /\ ReadTop.callee = super /\ CallingSuper.callee = Nil
         /\ CallingBase.callee = Top.callee
         /\ ReadTop.called = Top.called
         /\ CallingSuper.called /\ CallingBase.called
<1>. PICK f : f = Top
  OBVIOUS
<1>1. f \in FrameType /\ super \in ClosureType \cup {Nil}
  BY TopTyped DEF StackTyped
<1>2. /\ ReadTop \in FrameType /\ ReadTop.cls = f.cls /\ ReadTop.self = f.self
      /\ ReadTop.by = f.by /\ ReadTop.callee = super /\ ReadTop.called = f.called
  BY <1>1 DEF ReadTop, FrameType
<1>3. /\ CallingSuper \in FrameType /\ CallingSuper.cls = f.cls /\ CallingSuper.self = f.self
      /\ CallingSuper.by = f.by /\ CallingSuper.callee = Nil /\ CallingSuper.called
  <2>1. PICK g : g = [f EXCEPT !.called = TRUE]
    OBVIOUS
  <2>2. /\ g \in FrameType /\ g.cls = f.cls /\ g.self = f.self /\ g.by = f.by /\ g.called
    BY <1>1, <2>1 DEF FrameType
  <2>3. CallingSuper = [g EXCEPT !.callee = Nil]
    BY <1>1, <2>1 DEF CallingSuper
  <2>. QED  BY <2>2, <2>3 DEF FrameType
<1>4. /\ CallingBase \in FrameType /\ CallingBase.cls = f.cls /\ CallingBase.self = f.self
      /\ CallingBase.by = f.by /\ CallingBase.callee = f.callee /\ CallingBase.called
  BY <1>1 DEF CallingBase, FrameType
<1>. QED  BY <1>2, <1>3, <1>4

\* The stack that the calls of the base's __init are made on.
LEMMA TopIsReplaced ==
  ASSUME NEW known, StackTyped(frames, instance, super, known), frames # <<>>
  PROVE  /\ [frames EXCEPT ![Len(frames)].callee = super] = [frames EXCEPT ![Len(frames)] = ReadTop]
         /\ [frames EXCEPT ![Len(frames)].called = TRUE, ![Len(frames)].callee = Nil] =
              [frames EXCEPT ![Len(frames)] = CallingSuper]
         /\ [frames EXCEPT ![Len(frames)].called = TRUE] =
              [frames EXCEPT ![Len(frames)] = CallingBase]
<1>1. Len(frames) \in DOMAIN frames /\ frames[Len(frames)] = Top
  BY TopTyped
<1>2. frames \in [DOMAIN frames -> FrameType]
  BY LenProperties DEF StackTyped
<1>. QED  BY <1>1, <1>2 DEF ReadTop, CallingSuper, CallingBase

LEMMA ReadSuperTyped ==
  ASSUME ClassesInv, ReadSuper
  PROVE  ClassesInv'
<1>1. /\ frames # <<>> /\ Top.cls \in UsesSuper /\ Bases[Top.cls] # <<>>
      /\ UNCHANGED <<defined, table, written, seen, super, instance>>
  BY DEF ReadSuper
<1>2. StackTyped(frames, instance, super, defined)
  BY DEF ClassesInv
<1>3. frames' = [frames EXCEPT ![Len(frames)] = ReadTop]
  BY <1>1, <1>2, TopIsReplaced DEF ReadSuper
<1>4. ReadTop \in FrameType /\ FrameLives(ReadTop, instance)
  BY <1>1, <1>2, TopTyped, TopUpdates DEF FrameLives, StackTyped
<1>5. super \in ClosureType \cup {Nil} /\ Usable(super, instance)
  BY <1>2 DEF StackTyped
<1>6. StackTyped(frames', instance, super, defined)
  BY <1>1, <1>2, <1>3, <1>4, <1>5, TopChanged
<1>. QED  BY <1>1, <1>6, TablesKept

\* What super(...) and Base.__init(self) hand to the __init of the base.
CallingSuperStack == [frames EXCEPT ![Len(frames)] = CallingSuper]

CallingBaseStack == [frames EXCEPT ![Len(frames)] = CallingBase]

LEMMA CallSuperIs ==
  ASSUME NEW known, StackTyped(frames, instance, super, known), CallSuper,
         NEW base, base = BaseOf(Top.callee.cls), NEW self, self = Top.callee.self
  PROVE  /\ frames # <<>> /\ Top.callee # Nil /\ ~Top.called
         /\ base \in Classes /\ self \in Instances /\ instance[self] # Nil
         /\ CallInit(base, self, "super", CallingSuperStack, instance, SuperOfBase(base, self))
         /\ StackTyped(CallingSuperStack, instance, SuperOfBase(base, self), known)
         /\ Len(CallingSuperStack) = Len(frames)
         /\ CallingSuperStack[Len(frames)] = CallingSuper
         /\ \A n \in 1..(Len(frames) - 1) : CallingSuperStack[n] = frames[n]
         /\ UNCHANGED <<defined, table, written, seen>>
<1>1. /\ frames # <<>> /\ Top.callee # Nil /\ ~Top.called
      /\ UNCHANGED <<defined, table, written, seen>>
  BY DEF CallSuper
<1>2. /\ base \in Classes /\ self \in Instances /\ instance[self] # Nil
  BY <1>1, TopTyped DEF ClosureType, FrameLives, Usable
<1>3. CallInit(base, self, "super", CallingSuperStack, instance, SuperOfBase(base, self))
  BY <1>1, TopIsReplaced DEF CallSuper, CallingSuperStack
<1>4. PICK sup : sup = SuperOfBase(base, self)
  OBVIOUS
<1>5. sup \in ClosureType \cup {Nil} /\ Usable(sup, instance)
  BY <1>2, <1>4, ClosureTyped DEF SuperOfBase, Usable
<1>6. CallingSuper \in FrameType /\ FrameLives(CallingSuper, instance)
  BY <1>1, TopTyped, TopUpdates DEF FrameLives, Usable
<1>. QED  BY <1>1, <1>2, <1>3, <1>4, <1>5, <1>6, TopChanged DEF CallingSuperStack

LEMMA CallBaseInitIs ==
  ASSUME NEW known, StackTyped(frames, instance, super, known), CallBaseInit,
         NEW base, base = BaseOf(Top.cls), NEW self, self = Top.self
  PROVE  /\ frames # <<>> /\ Top.cls \notin UsesSuper /\ Bases[Top.cls] # <<>> /\ ~Top.called
         /\ base \in Classes /\ self \in Instances /\ instance[self] # Nil
         /\ CallInit(base, self, "script", CallingBaseStack, instance, super)
         /\ StackTyped(CallingBaseStack, instance, super, known)
         /\ Len(CallingBaseStack) = Len(frames)
         /\ CallingBaseStack[Len(frames)] = CallingBase
         /\ \A n \in 1..(Len(frames) - 1) : CallingBaseStack[n] = frames[n]
         /\ UNCHANGED <<defined, table, written, seen>>
<1>1. /\ frames # <<>> /\ Top.cls \notin UsesSuper /\ Bases[Top.cls] # <<>> /\ ~Top.called
      /\ UNCHANGED <<defined, table, written, seen>>
  BY DEF CallBaseInit
<1>2. /\ base \in Classes /\ self \in Instances /\ instance[self] # Nil
  BY <1>1, TopTyped DEF FrameType, FrameLives
<1>3. CallInit(base, self, "script", CallingBaseStack, instance, super)
  BY <1>1, TopIsReplaced DEF CallBaseInit, CallingBaseStack
<1>4. super \in ClosureType \cup {Nil} /\ Usable(super, instance)
  BY DEF StackTyped
<1>5. CallingBase \in FrameType /\ FrameLives(CallingBase, instance)
  BY <1>1, TopTyped, TopUpdates DEF FrameLives, Usable
<1>. QED  BY <1>1, <1>2, <1>3, <1>4, <1>5, TopChanged DEF CallingBaseStack

LEMMA CallSuperTyped ==
  ASSUME ClassesInv, CallSuper
  PROVE  ClassesInv'
<1>. PICK base : base = BaseOf(Top.callee.cls)
  OBVIOUS
<1>. PICK self : self = Top.callee.self
  OBVIOUS
<1>1. StackTyped(frames, instance, super, defined) /\ Inits /\ "super" \in ByType
  BY DEF ClassesInv, ByType
<1>2. /\ base \in Classes /\ self \in Instances /\ instance[self] # Nil
      /\ CallInit(base, self, "super", CallingSuperStack, instance, SuperOfBase(base, self))
      /\ StackTyped(CallingSuperStack, instance, SuperOfBase(base, self), defined)
      /\ UNCHANGED <<defined, table, written, seen>>
  BY <1>1, CallSuperIs
<1>3. StackTyped(frames', instance', super', defined)
  BY <1>1, <1>2, CallInitTyped
<1>. QED  BY <1>2, <1>3, TablesKept

LEMMA CallBaseInitTyped ==
  ASSUME ClassesInv, CallBaseInit
  PROVE  ClassesInv'
<1>. PICK base : base = BaseOf(Top.cls)
  OBVIOUS
<1>. PICK self : self = Top.self
  OBVIOUS
<1>1. StackTyped(frames, instance, super, defined) /\ Inits /\ "script" \in ByType
  BY DEF ClassesInv, ByType
<1>2. /\ base \in Classes /\ self \in Instances /\ instance[self] # Nil
      /\ CallInit(base, self, "script", CallingBaseStack, instance, super)
      /\ StackTyped(CallingBaseStack, instance, super, defined)
      /\ UNCHANGED <<defined, table, written, seen>>
  BY <1>1, CallBaseInitIs
<1>3. StackTyped(frames', instance', super', defined)
  BY <1>1, <1>2, CallInitTyped
<1>. QED  BY <1>2, <1>3, TablesKept

\* Fewer frames, and the same instances with the same classes.
LEMMA FewerFramesTyped ==
  ASSUME NEW known, StackTyped(frames, instance, super, known),
         NEW left \in Seq(FrameType), Len(left) <= Len(frames),
         \A n \in 1..Len(left) : left[n] = frames[n],
         NEW reps \in [Instances -> InstanceType \cup {Nil}],
         \A i \in Instances : /\ instance[i] # Nil <=> reps[i] # Nil
                              /\ instance[i] # Nil => reps[i].cls = instance[i].cls,
         NEW sup \in {super, Nil}
  PROVE  StackTyped(left, reps, sup, known)
<1>1. /\ Len(left) \in Nat /\ Len(frames) \in Nat
      /\ \A n \in 1..Len(left) : frames[n] \in FrameType
  BY LenProperties, ElementOfSeq DEF StackTyped
<1>2. ASSUME NEW n \in 1..Len(left)
      PROVE  FrameLives(left[n], reps)
  <2>1. frames[n] \in FrameType /\ FrameLives(frames[n], instance)
    BY <1>1 DEF StackTyped
  <2>. QED  BY <2>1 DEF FrameLives, Usable, FrameType, ClosureType
<1>3. Usable(sup, reps) /\ sup \in ClosureType \cup {Nil}
  BY DEF StackTyped, Usable, ClosureType
<1>. QED  BY <1>2, <1>3 DEF StackTyped

\* Return, as a change of one instance.
LEMMA ReturnIs ==
  ASSUME NEW known, StackTyped(frames, instance, super, known), Return
  PROVE  /\ frames # <<>> /\ Len(frames) \in Nat /\ Len(frames) > 0
         /\ Top.called \/ Bases[Top.cls] = <<>>
         /\ frames' \in Seq(FrameType) /\ Len(frames') = Len(frames) - 1
         /\ \A n \in 1..Len(frames') : frames'[n] = frames[n]
         /\ Top.self \in Instances /\ instance[Top.self] \in InstanceType
         /\ instance' \in [Instances -> InstanceType \cup {Nil}]
         /\ instance' = [instance EXCEPT ![Top.self] = Finished(instance[Top.self], Top.by)]
         /\ \A i \in Instances : /\ instance[i] # Nil <=> instance'[i] # Nil
                                 /\ instance[i] # Nil => instance'[i].cls = instance[i].cls
         /\ super' \in {super, Nil}
<1>1. /\ frames # <<>>
      /\ Top.called \/ Bases[Top.cls] = <<>>
      /\ frames' = SubSeq(frames, 1, Len(frames) - 1)
      /\ instance' = [instance EXCEPT ![Top.self] = Finished(@, Top.by)]
      /\ super' \in {super, Nil}
  BY DEF Return, SuperAfter
<1>2. /\ frames' \in Seq(FrameType) /\ Len(frames') = Len(frames) - 1
      /\ \A n \in 1..Len(frames') : frames'[n] = frames[n]
      /\ Len(frames) \in Nat /\ Len(frames) > 0
  <2>1. frames \in Seq(FrameType)
    BY DEF StackTyped
  <2>. QED  BY <1>1, <2>1, FrontOfFrames
<1>3. /\ Top.self \in Instances /\ Top.by \in ByType /\ instance[Top.self] \in InstanceType
      /\ instance \in [Instances -> InstanceType \cup {Nil}]
  <2>1. Top \in FrameType /\ FrameLives(Top, instance)
    BY <1>1, TopTyped
  <2>2. Top.self \in Instances /\ Top.by \in ByType /\ instance[Top.self] # Nil
    BY <2>1 DEF FrameType, ByType, FrameLives
  <2>. QED  BY <2>2 DEF StackTyped
<1>4. PICK rep : rep = Finished(instance[Top.self], Top.by)
  OBVIOUS
<1>5. rep \in InstanceType /\ rep.cls = instance[Top.self].cls /\ rep # Nil
  BY <1>3, <1>4, InstanceUpdates, NilAssumption
<1>6. instance' = [instance EXCEPT ![Top.self] = rep]
  BY <1>1, <1>4
<1>7. /\ instance' \in [Instances -> InstanceType \cup {Nil}]
      /\ \A i \in Instances : /\ instance[i] # Nil <=> instance'[i] # Nil
                              /\ instance[i] # Nil => instance'[i].cls = instance[i].cls
  BY <1>3, <1>5, <1>6, NilAssumption
<1>. QED  BY <1>1, <1>2, <1>3, <1>4, <1>6, <1>7

LEMMA ReturnTyped ==
  ASSUME ClassesInv, Return
  PROVE  ClassesInv'
<1>1. StackTyped(frames, instance, super, defined)
      /\ UNCHANGED <<defined, table, written, seen>>
  BY DEF ClassesInv, Return
<1>2. /\ Len(frames) \in Nat
      /\ frames' \in Seq(FrameType) /\ Len(frames') = Len(frames) - 1
      /\ \A n \in 1..Len(frames') : frames'[n] = frames[n]
      /\ instance' \in [Instances -> InstanceType \cup {Nil}]
      /\ \A i \in Instances : /\ instance[i] # Nil <=> instance'[i] # Nil
                              /\ instance[i] # Nil => instance'[i].cls = instance[i].cls
      /\ super' \in {super, Nil}
  BY <1>1, ReturnIs
<1>3. Len(frames') <= Len(frames)
  BY <1>2
<1>4. StackTyped(frames', instance', super', defined)
  BY <1>1, <1>2, <1>3, FewerFramesTyped
<1>. QED  BY <1>1, <1>4, TablesKept

LEMMA RaiseIs ==
  ASSUME NEW known, StackTyped(frames, instance, super, known), Raise
  PROVE  /\ frames' \in Seq(FrameType) /\ Cut(frames', frames)
         /\ Len(frames) \in Nat
         /\ UNCHANGED <<defined, table, written, seen, super, instance>>
<1>1. frames \in Seq(FrameType) /\ Len(frames) \in Nat
  BY LenProperties DEF StackTyped
<1>2. PICK left : left = frames'
  OBVIOUS
<1>3. left \in Unwound(frames)
  BY <1>2 DEF Raise
<1>4. left \in Seq(FrameType) /\ Cut(left, frames)
  BY <1>1, <1>3, UnwoundIsCut
<1>. QED  BY <1>1, <1>2, <1>4 DEF Raise

LEMMA RaiseTyped ==
  ASSUME ClassesInv, Raise
  PROVE  ClassesInv'
<1>1. StackTyped(frames, instance, super, defined)
  BY DEF ClassesInv
<1>2. /\ frames' \in Seq(FrameType) /\ Len(frames') <= Len(frames)
      /\ \A n \in 1..Len(frames') : frames'[n] = frames[n]
      /\ UNCHANGED <<defined, table, written, seen, super, instance>>
  BY <1>1, RaiseIs DEF Cut
<1>3. instance \in [Instances -> InstanceType \cup {Nil}] /\ super \in {super, Nil}
  BY <1>1 DEF StackTyped
<1>4. StackTyped(frames', instance, super, defined)
  BY <1>1, <1>2, <1>3, FewerFramesTyped
<1>. QED  BY <1>2, <1>4, TablesKept

LEMMA ForgetTyped ==
  ASSUME ClassesInv, NEW i \in Instances, Forget(i)
  PROVE  ClassesInv'
<1>1. StackTyped(frames, instance, super, defined)
  BY DEF ClassesInv
<1>2. PICK rep : rep = [instance[i] EXCEPT !.held = FALSE]
  OBVIOUS
<1>3. /\ instance[i] \in InstanceType /\ instance' = [instance EXCEPT ![i] = rep]
      /\ UNCHANGED <<defined, table, written, seen, super, frames>>
  BY <1>1, <1>2 DEF Forget, StackTyped
<1>4. rep \in InstanceType /\ rep.cls = instance[i].cls /\ rep # Nil
  BY <1>2, <1>3, NilAssumption DEF InstanceType
<1>5. /\ instance' \in [Instances -> InstanceType \cup {Nil}]
      /\ \A j \in Instances : /\ instance[j] # Nil <=> instance'[j] # Nil
                              /\ instance[j] # Nil => instance'[j].cls = instance[j].cls
  BY <1>1, <1>3, <1>4, NilAssumption DEF StackTyped
<1>6. /\ frames \in Seq(FrameType) /\ Len(frames) <= Len(frames) /\ super \in {super, Nil}
  BY <1>1, LenProperties DEF StackTyped
<1>7. StackTyped(frames, instance', super, defined)
  BY <1>1, <1>5, <1>6, FewerFramesTyped
<1>. QED  BY <1>3, <1>7, TablesKept

LEMMA FinalizeTyped ==
  ASSUME ClassesInv, NEW i \in Instances, Finalize(i)
  PROVE  ClassesInv'
<1>1. StackTyped(frames, instance, super, defined)
  BY DEF ClassesInv
<1>2. /\ ~Reachable(i) /\ instance' = [instance EXCEPT ![i] = Nil]
      /\ UNCHANGED <<defined, table, written, seen, super, frames>>
  BY DEF Finalize
<1>3. /\ DOMAIN frames = 1..Len(frames)
      /\ \A n \in 1..Len(frames) : frames[n] \in FrameType
  BY <1>1, LenProperties, ElementOfSeq DEF StackTyped
<1>4. Usable(super, instance')
  BY <1>1, <1>2 DEF Reachable, Usable, StackTyped, ClosureType
<1>5. ASSUME NEW n \in 1..Len(frames)
      PROVE  FrameLives(frames[n], instance')
  <2>1. frames[n] \in FrameType /\ FrameLives(frames[n], instance)
    BY <1>1, <1>3 DEF StackTyped
  <2>2. /\ frames[n].self # i
        /\ frames[n].callee # Nil => frames[n].callee.self # i
    BY <1>2, <1>3 DEF Reachable
  <2>. QED  BY <1>1, <1>2, <2>1, <2>2 DEF FrameLives, Usable, FrameType, ClosureType, StackTyped
<1>6. StackTyped(frames, instance', super, defined)
  BY <1>1, <1>2, <1>4, <1>5 DEF StackTyped
<1>. QED  BY <1>2, <1>6, TablesKept

LEMMA InitTyped == Init => ClassesInv
<1>. SUFFICES ASSUME Init
              PROVE  ClassesInv
  OBVIOUS
<1>1. "__init" \in Members
  BY LuaClassesAssumption
<1>2. TablesTyped
  BY DEF Init, TablesTyped, TableType, NoMembers
<1>3. Inits
  BY <1>1, LuaClassesAssumption DEF Init, Inits, NoMembers
<1>4. StackTyped(frames, instance, super, defined)
  BY EmptySeq, LenProperties DEF Init, StackTyped, Usable
<1>. QED  BY <1>2, <1>3, <1>4 DEF ClassesInv

LEMMA ClassesInvInductive == ClassesInv /\ [Next]_vars => ClassesInv'
<1>. SUFFICES ASSUME ClassesInv, [Next]_vars
              PROVE  ClassesInv'
  OBVIOUS
<1>1. ASSUME NEW c \in Classes, Register(c) \/ Derive(c) \/ Construct(c)
      PROVE  ClassesInv'
  BY <1>1, RegisterTyped, DeriveTyped, ConstructTyped
<1>2. ASSUME NEW c \in Classes, NEW m \in Members, SetMember(c, m)
      PROVE  ClassesInv'
  BY <1>2, SetMemberTyped
<1>3. CASE ReadSuper \/ CallSuper \/ CallBaseInit \/ Return \/ Raise
  BY <1>3, ReadSuperTyped, CallSuperTyped, CallBaseInitTyped, ReturnTyped, RaiseTyped
<1>4. ASSUME NEW i \in Instances, Forget(i) \/ Finalize(i)
      PROVE  ClassesInv'
  BY <1>4, ForgetTyped, FinalizeTyped
<1>5. CASE UNCHANGED vars
  BY <1>5 DEF vars, ClassesInv, TablesTyped, Inits, StackTyped
<1>. QED  BY <1>1, <1>2, <1>3, <1>4, <1>5 DEF Next

\* The variables have their types, and what super and the running
\* constructors refer to exists: an instance is not collected under its
\* constructor, nor under the one that super would call.
THEOREM TypeCorrect == Spec => []TypeOK
<1>1. Spec => []ClassesInv
  BY InitTyped, ClassesInvInductive, PTL DEF Spec
<1>. QED  BY <1>1, TypeFollows, PTL

-----------------------------------------------------------------------------
(***************************************************************************)
(* Member tables.  SearchBases is a function of itself.  That there is one *)
(* that solves its equation is part of the invariant: a class is made when *)
(* its bases are, so that the search of a new class follows from those of  *)
(* the classes there were.  The rest of the invariant says that the tables *)
(* agree with whatever solves the equation.                                *)
(***************************************************************************)

\* One step of the search: what it finds at a base, in the bases in their
\* order, and for all classes, if f is what it finds for each.
FoundAt(f, known, b, m) == IF <<b, m>> \in known THEN b ELSE f[b][m]

FoundIn(f, known, c, m) == {i \in DOMAIN Bases[c] : FoundAt(f, known, Bases[c][i], m) # Nil}

Found(f, known, c, m) ==
  IF FoundIn(f, known, c, m) = {} \/ (c \in LuaClasses /\ m \in NotCopied) THEN Nil
  ELSE FoundAt(f, known, Bases[c][First(FoundIn(f, known, c, m))], m)

SearchedRow(f, known, c) == [m \in Members |-> Found(f, known, c, m)]

Searching(f, made, known) == [c \in made |-> SearchedRow(f, known[c], c)]

LEMMA SearchIsSolution ==
  ASSUME \E f : f = Searching(f, defined, seen)
  PROVE  SearchBases = Searching(SearchBases, defined, seen)
<1>1. PICK s : s = CHOOSE f : f = Searching(f, defined, seen)
  OBVIOUS
<1>2. s = Searching(s, defined, seen)
  BY <1>1, Zenon
<1>3. SearchBases = s
  BY <1>1, Zenon DEF SearchBases, Searching, SearchedRow, Found, FoundIn, FoundAt
<1>. QED  BY <1>2, <1>3

Matches(f, made, tables, wrote) ==
  \A c \in made : \A m \in Members :
    tables[c][m] = IF <<c, m>> \in wrote THEN c ELSE f[c][m]

SearchSolved == \E f : f = Searching(f, defined, seen)

SearchMatches ==
  \A f : f = Searching(f, defined, seen) => Matches(f, defined, table, written)

SearchInv == ClassesInv /\ SearchSolved /\ SearchMatches

\* The search of a class depends on those of its bases.
LEMMA RowsAgree ==
  ASSUME NEW f, NEW g, NEW known, NEW c \in Classes,
         \A b \in BasesOf(c) : f[b] = g[b]
  PROVE  SearchedRow(f, known, c) = SearchedRow(g, known, c)
<1>1. \A i \in DOMAIN Bases[c] : f[Bases[c][i]] = g[Bases[c][i]]
  BY BasesAreClasses
<1>2. ASSUME NEW m \in Members
      PROVE  Found(f, known, c, m) = Found(g, known, c, m)
  <2>1. \A i \in DOMAIN Bases[c] :
          FoundAt(f, known, Bases[c][i], m) = FoundAt(g, known, Bases[c][i], m)
    BY <1>1 DEF FoundAt
  <2>2. FoundIn(f, known, c, m) = FoundIn(g, known, c, m)
    BY <2>1 DEF FoundIn
  <2>3. PICK s : s = FoundIn(f, known, c, m)
    OBVIOUS
  <2>4. s \in SUBSET Nat /\ s \subseteq DOMAIN Bases[c]
    BY <2>3, BasesAreClasses DEF FoundIn
  <2>5. s # {} => First(s) \in DOMAIN Bases[c]
    BY <2>4, FirstIsLeast
  <2>. QED  BY <2>1, <2>2, <2>3, <2>5 DEF Found
<1>. QED  BY <1>2 DEF SearchedRow

\* What the search of a class that is being made finds in its bases is what
\* is in their tables.
LEMMA FoundIsInTables ==
  ASSUME NEW f, NEW c \in Classes, BasesOf(c) \subseteq defined,
         Matches(f, defined, table, written), NEW m \in Members
  PROVE  Found(f, WrittenForBases(c), c, m) =
           IF c \in LuaClasses /\ m \in NotCopied THEN Nil ELSE FromBases(c, m)
<1>1. PICK known : known = WrittenForBases(c)
  OBVIOUS
<1>2. ASSUME NEW i \in DOMAIN Bases[c]
      PROVE  FoundAt(f, known, Bases[c][i], m) = table[Bases[c][i]][m]
  <2>1. PICK b : b = Bases[c][i]
    OBVIOUS
  <2>2. b \in BasesOf(c) /\ b \in defined
    BY <2>1, BasesAreClasses
  <2>3. <<b, m>> \in known <=> <<b, m>> \in written
    BY <1>1, <2>2 DEF WrittenForBases
  <2>4. table[b][m] = IF <<b, m>> \in written THEN b ELSE f[b][m]
    BY <2>2 DEF Matches
  <2>5. FoundAt(f, known, b, m) = table[b][m]
    BY <2>3, <2>4 DEF FoundAt
  <2>. QED  BY <2>1, <2>5
<1>3. FoundIn(f, known, c, m) = Having(c, m, Len(Bases[c]))
  BY <1>2, BasesAreClasses DEF FoundIn, Having
<1>4. PICK s : s = Having(c, m, Len(Bases[c]))
  OBVIOUS
<1>5. s \in SUBSET Nat /\ s \subseteq DOMAIN Bases[c]
  BY <1>4, BasesAreClasses DEF Having
<1>6. s # {} => First(s) \in DOMAIN Bases[c]
  BY <1>5, FirstIsLeast
<1>. QED  BY <1>1, <1>2, <1>3, <1>4, <1>6 DEF Found, FromBases

\* A new class leaves the search of the others alone.
Makes(c) ==
  /\ c \in Classes \ defined /\ BasesOf(c) \subseteq defined
  /\ defined' = defined \cup {c}
  /\ seen' = [seen EXCEPT ![c] = WrittenForBases(c)]

LEMMA SeenByOthers ==
  ASSUME TablesTyped, NEW c, Makes(c)
  PROVE  /\ seen'[c] = WrittenForBases(c)
         /\ \A d \in defined : d # c /\ d \in Classes /\ seen'[d] = seen[d]
                              /\ BasesOf(d) \subseteq defined
BY DEF TablesTyped, Makes

LEMMA SearchExtends ==
  ASSUME TablesTyped, SearchSolved, NEW c, Makes(c)
  PROVE  SearchSolved'
<1>1. PICK g : g = Searching(g, defined, seen)
  BY Zenon DEF SearchSolved
<1>2. \A d \in defined : g[d] = SearchedRow(g, seen[d], d)
  BY <1>1, Zenon DEF Searching
<1>3. PICK row : row = SearchedRow(g, seen'[c], c)
  OBVIOUS
<1>4. PICK f : f = [d \in defined \cup {c} |-> IF d = c THEN row ELSE g[d]]
  OBVIOUS
<1>5. f[c] = row /\ \A d \in defined : f[d] = g[d]
  BY <1>4, SeenByOthers
<1>6. ASSUME NEW d \in defined \cup {c}
      PROVE  f[d] = SearchedRow(f, seen'[d], d)
  <2>1. d \in Classes /\ BasesOf(d) \subseteq defined
    BY SeenByOthers DEF Makes
  <2>2. SearchedRow(f, seen'[d], d) = SearchedRow(g, seen'[d], d)
    BY <1>5, <2>1, RowsAgree
  <2>. QED  BY <1>2, <1>3, <1>5, <2>2, SeenByOthers
<1>7. f = [d \in defined \cup {c} |-> SearchedRow(f, seen'[d], d)]
  BY <1>4, <1>6
<1>8. f = Searching(f, defined', seen')
  BY <1>7 DEF Searching, Makes
<1>. QED  BY <1>8 DEF SearchSolved

LEMMA SearchRestricts ==
  ASSUME TablesTyped, SearchMatches, NEW c, Makes(c),
         NEW f, f = Searching(f, defined', seen')
  PROVE  /\ Matches(f, defined, table, written)
         /\ \A m \in Members : f[c][m] = Found(f, WrittenForBases(c), c, m)
<1>1. \A d \in defined \cup {c} : f[d] = SearchedRow(f, seen'[d], d)
  BY Zenon DEF Searching, Makes
<1>2. PICK g : g = [d \in defined |-> f[d]]
  OBVIOUS
<1>3. \A d \in defined : g[d] = f[d]
  BY <1>2
<1>4. ASSUME NEW d \in defined
      PROVE  g[d] = SearchedRow(g, seen[d], d)
  <2>1. d \in Classes /\ BasesOf(d) \subseteq defined /\ seen'[d] = seen[d]
    BY SeenByOthers
  <2>2. SearchedRow(f, seen[d], d) = SearchedRow(g, seen[d], d)
    BY <1>3, <2>1, RowsAgree
  <2>. QED  BY <1>1, <1>3, <2>1, <2>2
<1>5. g = [d \in defined |-> SearchedRow(g, seen[d], d)]
  BY <1>2, <1>4
<1>6. g = Searching(g, defined, seen)
  BY <1>5 DEF Searching
<1>7. Matches(g, defined, table, written)
  BY <1>6 DEF SearchMatches
<1>8. Matches(f, defined, table, written)
  BY <1>3, <1>7 DEF Matches
<1>9. f[c] = SearchedRow(f, WrittenForBases(c), c)
  BY <1>1, SeenByOthers
<1>. QED  BY <1>8, <1>9 DEF SearchedRow

\* A new class whose table holds its own members and those of its bases.
LEMMA MadeMatches ==
  ASSUME SearchInv, NEW c, Makes(c), NEW row, NEW own \in SUBSET Members,
         table' = [table EXCEPT ![c] = row],
         written' = written \cup {<<c, m>> : m \in own},
         \A m \in Members :
           row[m] = IF m \in own THEN c
                    ELSE IF c \in LuaClasses /\ m \in NotCopied THEN Nil
                    ELSE FromBases(c, m)
  PROVE  SearchMatches'
<1>1. TablesTyped /\ SearchMatches
  BY DEF SearchInv, ClassesInv
<1>2. ASSUME NEW f, f = Searching(f, defined', seen')
      PROVE  Matches(f, defined', table', written')
  <2>1. /\ Matches(f, defined, table, written)
        /\ \A m \in Members : f[c][m] = Found(f, WrittenForBases(c), c, m)
    BY <1>1, <1>2, SearchRestricts
  <2>2. /\ c \in Classes /\ c \notin defined /\ BasesOf(c) \subseteq defined
        /\ defined' = defined \cup {c}
    BY DEF Makes
  <2>3. table'[c] = row /\ \A d \in defined : table'[d] = table[d]
    BY <1>1, <2>2 DEF TablesTyped, TableType
  <2>4. /\ \A m \in Members : <<c, m>> \in written' <=> m \in own
        /\ \A d \in defined : \A m \in Members :
             <<d, m>> \in written' <=> <<d, m>> \in written
    <3>1. \A m \in Members : <<c, m>> \notin written
      BY <1>1, <2>2 DEF TablesTyped
    <3>2. c \notin defined
      BY <2>2
    <3>. QED  BY <3>1, <3>2
  <2>5. \A m \in Members :
          f[c][m] = IF c \in LuaClasses /\ m \in NotCopied THEN Nil ELSE FromBases(c, m)
    BY <2>1, <2>2, FoundIsInTables
  <2>6. \A m \in Members : table'[c][m] = IF <<c, m>> \in written' THEN c ELSE f[c][m]
    BY <2>3, <2>4, <2>5
  <2>7. ASSUME NEW d \in defined, NEW m \in Members
        PROVE  table'[d][m] = IF <<d, m>> \in written' THEN d ELSE f[d][m]
    <3>1. table[d][m] = IF <<d, m>> \in written THEN d ELSE f[d][m]
      BY <2>1 DEF Matches
    <3>2. table'[d] = table[d]
      BY <2>3
    <3>3. <<d, m>> \in written' <=> <<d, m>> \in written
      BY <2>4
    <3>. QED  BY <3>1, <3>2, <3>3
  <2>. QED  BY <2>2, <2>6, <2>7 DEF Matches
<1>. QED  BY <1>2 DEF SearchMatches

LEMMA RegisterInherits ==
  ASSUME SearchInv, NEW c \in Classes, Register(c)
  PROVE  SearchSolved' /\ SearchMatches'
<1>1. /\ c \in CppClasses /\ c \notin LuaClasses /\ Makes(c)
      /\ table' = [table EXCEPT ![c] = Registered(c)]
      /\ written' = written \cup {<<c, m>> : m \in CppMembers[c]}
      /\ CppMembers[c] \in SUBSET Members
  BY LuaClassesAssumption DEF Register, Makes
<1>2. PICK row : row = Registered(c)
  OBVIOUS
<1>3. \A m \in Members : row[m] = IF m \in CppMembers[c] THEN c ELSE FromBases(c, m)
  BY <1>1, <1>2, FirstBaseWins
<1>4. SearchMatches'
  BY <1>1, <1>2, <1>3, MadeMatches
<1>. QED  BY <1>1, <1>4, SearchExtends DEF SearchInv, ClassesInv

LEMMA DeriveInherits ==
  ASSUME SearchInv, NEW c \in Classes, Derive(c)
  PROVE  SearchSolved' /\ SearchMatches'
<1>1. c \in LuaClasses /\ Makes(c) /\ written' = written
  BY DEF Derive, Makes
<1>2. PICK row : row = IF Bases[c] = <<>> THEN NoMembers ELSE MemberTable(Bases[c][1])
  OBVIOUS
<1>3. table' = [table EXCEPT ![c] = row]
  BY <1>2 DEF Derive
<1>4. Len(Bases[c]) <= 1 /\ Bases[c] \in Seq(Classes)
  BY <1>1, LuaClassesAssumption
<1>5. ASSUME NEW m \in Members
      PROVE  row[m] = IF m \in NotCopied THEN Nil ELSE FromBases(c, m)
  <2>1. CASE Bases[c] = <<>>
    <3>1. FromBases(c, m) = Nil
      BY <1>4, <2>1, EmptySeq, LenProperties, FromBasesIsFirst
    <3>. QED  BY <1>2, <2>1, <3>1 DEF NoMembers
  <2>2. CASE Bases[c] # <<>>
    <3>1. DOMAIN Bases[c] = {1}
      BY <1>4, <2>2, EmptySeq, LenProperties
    <3>2. FromBases(c, m) = table[Bases[c][1]][m]
      BY <3>1, FromBasesIsFirst
    <3>. QED  BY <1>2, <2>2, <3>2 DEF MemberTable
  <2>. QED  BY <2>1, <2>2
<1>6. SearchMatches'
  <2>1. PICK own : own = {}
    OBVIOUS
  <2>2. written' = written \cup {<<c, m>> : m \in own} /\ own \in SUBSET Members
    BY <1>1, <2>1
  <2>3. \A m \in Members :
          row[m] = IF m \in own THEN c
                   ELSE IF c \in LuaClasses /\ m \in NotCopied THEN Nil
                   ELSE FromBases(c, m)
    BY <1>1, <1>5, <2>1
  <2>. QED  BY <1>1, <1>3, <2>2, <2>3, MadeMatches
<1>. QED  BY <1>1, <1>6, SearchExtends DEF SearchInv, ClassesInv

LEMMA SetMemberInherits ==
  ASSUME SearchInv, NEW c \in Classes, NEW m \in Members, SetMember(c, m)
  PROVE  SearchSolved' /\ SearchMatches'
<1>1. /\ table' = [table EXCEPT ![c][m] = c] /\ written' = written \cup {<<c, m>>}
      /\ defined' = defined /\ seen' = seen
  BY DEF SetMember
<1>2. defined \subseteq Classes /\ table \in TableType
  BY DEF SearchInv, ClassesInv, TablesTyped
<1>3. \A d \in defined : \A n \in Members :
        /\ table'[d][n] = IF d = c /\ n = m THEN c ELSE table[d][n]
        /\ <<d, n>> \in written' <=> <<d, n>> \in written \/ (d = c /\ n = m)
  <2>1. \A d \in defined : \A n \in Members :
          table'[d][n] = IF d = c /\ n = m THEN c ELSE table[d][n]
    BY <1>1, <1>2 DEF TableType
  <2>2. \A d \in defined : \A n \in Members :
          <<d, n>> \in written' <=> <<d, n>> \in written \/ (d = c /\ n = m)
    BY <1>1
  <2>. QED  BY <2>1, <2>2
<1>4. ASSUME NEW f, Matches(f, defined, table, written)
      PROVE  Matches(f, defined, table', written')
  <2>1. ASSUME NEW d \in defined, NEW n \in Members
        PROVE  table'[d][n] = IF <<d, n>> \in written' THEN d ELSE f[d][n]
    <3>1. table[d][n] = IF <<d, n>> \in written THEN d ELSE f[d][n]
      BY <1>4 DEF Matches
    <3>2. /\ table'[d][n] = IF d = c /\ n = m THEN c ELSE table[d][n]
          /\ <<d, n>> \in written' <=> <<d, n>> \in written \/ (d = c /\ n = m)
      BY <1>3
    <3>. QED  BY <3>1, <3>2
  <2>. QED  BY <2>1 DEF Matches
<1>5. SearchMatches'
  BY <1>1, <1>4 DEF SearchInv, SearchMatches
<1>6. SearchSolved'
  BY <1>1 DEF SearchInv, SearchSolved
<1>. QED  BY <1>5, <1>6

LEMMA SearchInvInductive == SearchInv /\ [Next]_vars => SearchInv'
<1>. SUFFICES ASSUME SearchInv, [Next]_vars
              PROVE  SearchSolved' /\ SearchMatches'
  BY ClassesInvInductive DEF SearchInv
<1>1. ASSUME NEW c \in Classes, Register(c) \/ Derive(c)
      PROVE  SearchSolved' /\ SearchMatches'
  BY <1>1, RegisterInherits, DeriveInherits
<1>2. ASSUME NEW c \in Classes, NEW m \in Members, SetMember(c, m)
      PROVE  SearchSolved' /\ SearchMatches'
  BY <1>2, SetMemberInherits
<1>3. ASSUME UNCHANGED <<defined, table, written, seen>>
      PROVE  SearchSolved' /\ SearchMatches'
  BY <1>3 DEF SearchInv, SearchSolved, SearchMatches
<1>4. ASSUME NEW c \in Classes, Construct(c)
      PROVE  SearchSolved' /\ SearchMatches'
  BY <1>3, <1>4 DEF Construct
<1>5. CASE ReadSuper \/ CallSuper \/ CallBaseInit \/ Return \/ Raise
  BY <1>3, <1>5 DEF ReadSuper, CallSuper, CallBaseInit, Return, Raise
<1>6. ASSUME NEW i \in Instances, Forget(i) \/ Finalize(i)
      PROVE  SearchSolved' /\ SearchMatches'
  BY <1>3, <1>6 DEF Forget, Finalize
<1>7. CASE UNCHANGED vars
  BY <1>3, <1>7 DEF vars
<1>. QED  BY <1>1, <1>2, <1>4, <1>5, <1>6, <1>7 DEF Next

LEMMA SearchInvIsEnough ==
  ASSUME SearchInv
  PROVE  MembersAreInherited
<1>1. PICK f : f = SearchBases
  OBVIOUS
<1>2. f = Searching(f, defined, seen)
  BY <1>1, SearchIsSolution, Zenon DEF SearchInv, SearchSolved
<1>3. Matches(f, defined, table, written)
  BY <1>2 DEF SearchInv, SearchMatches
<1>. QED  BY <1>1, <1>3 DEF Matches, MembersAreInherited

\* The table of a class holds what a search of the hierarchy finds that
\* reads no table, whatever its bases were given, and in whichever order,
\* before or after it was made.
THEOREM MembersAreFound == Spec => []MembersAreInherited
<1>1. Init => SearchInv
  <2>. SUFFICES ASSUME Init
                PROVE  SearchInv
    OBVIOUS
  <2>1. defined = {}
    BY DEF Init
  <2>2. SearchSolved
    <3>1. PICK f : f = [c \in {} |-> Nil]
      OBVIOUS
    <3>2. f = Searching(f, defined, seen)
      BY <2>1, <3>1 DEF Searching
    <3>. QED  BY <3>2 DEF SearchSolved
  <2>3. SearchMatches
    BY <2>1 DEF SearchMatches, Matches
  <2>. QED  BY <2>2, <2>3, InitTyped DEF SearchInv
<1>. QED  BY <1>1, SearchInvInductive, SearchInvIsEnough, PTL DEF Spec

-----------------------------------------------------------------------------
(***************************************************************************)
(* super.  Two rules make it work: an __init reads super before it         *)
(* constructs anything (SuperFirst), and one that calls Base.__init(self)  *)
(* does not call one that uses super (Chained), for super is not set then. *)
(*                                                                         *)
(* The invariant speaks of all the frames that may still call super, not   *)
(* only of the innermost one: those below it have read super already.      *)
(***************************************************************************)
Pending(f) == f.cls \in UsesSuper /\ Bases[f.cls] # <<>> /\ ~f.called

HasRead(f) == f.callee = Closure(f.cls, f.self)

AllHaveRead(fs) == \A n \in 1..Len(fs) : Pending(fs[n]) => HasRead(fs[n])

SuperInv(fs, sup) ==
  \A n \in 1..Len(fs) : Pending(fs[n]) =>
    HasRead(fs[n]) \/ (/\ fs[n].callee = Nil /\ n = Len(fs)
                       /\ sup = Closure(fs[n].cls, fs[n].self))

MineInv == ClassesInv /\ SuperInv(frames, super)

LEMMA MineFollows ==
  ASSUME MineInv
  PROVE  SuperIsMine
<1>. SUFFICES ASSUME frames # <<>>, Top.cls \in UsesSuper, Bases[Top.cls] # <<>>, ~Top.called
              PROVE  (IF Top.callee = Nil THEN super ELSE Top.callee)
                       = Closure(Top.cls, Top.self)
  BY DEF SuperIsMine
<1>1. /\ Len(frames) \in 1..Len(frames) /\ Top = frames[Len(frames)] /\ Top \in FrameType
  BY TopTyped DEF MineInv, ClassesInv
<1>2. Closure(Top.cls, Top.self) # Nil
  BY <1>1, ClosureTyped DEF FrameType
<1>. QED  BY <1>1, <1>2 DEF MineInv, SuperInv, Pending, HasRead

LEMMA AllHaveReadIsEnough ==
  ASSUME NEW fs, NEW sup, AllHaveRead(fs)
  PROVE  SuperInv(fs, sup)
BY DEF AllHaveRead, SuperInv

\* Fewer frames, of which those that may still call super have read it.
LEMMA FewerHaveRead ==
  ASSUME NEW fs, AllHaveRead(fs), Len(fs) \in Nat,
         NEW left, Len(left) \in Nat, Len(left) <= Len(fs),
         \A n \in 1..Len(left) : left[n] = fs[n]
  PROVE  AllHaveRead(left)
BY DEF AllHaveRead

LEMMA CallInitSuper ==
  ASSUME Inits, NEW c \in Classes, NEW self \in Instances, NEW by \in ByType,
         NEW below \in Seq(FrameType), NEW reps, NEW sup,
         AllHaveRead(below),
         c \in UsesSuper /\ Bases[c] # <<>> => sup = Closure(c, self),
         CallInit(c, self, by, below, reps, sup)
  PROVE  SuperInv(frames', super')
<1>1. Len(below) \in Nat
  BY LenProperties
<1>2. CASE Begins(c, self, by, below, reps, sup)
  <2>1. PICK new : new = Frame(c, self, by)
    OBVIOUS
  <2>2. new \in FrameType /\ new.cls = c /\ new.self = self /\ new.callee = Nil
    BY <1>2, <2>1, FrameTyped DEF Begins
  <2>3. frames' = Append(below, new) /\ super' = sup
    BY <1>2, <2>1 DEF Begins
  <2>4. /\ Len(frames') = Len(below) + 1
        /\ \A n \in 1..Len(below) : frames'[n] = below[n]
        /\ frames'[Len(below) + 1] = new
    BY <2>2, <2>3, AppendProperties
  <2>5. ASSUME NEW n \in 1..Len(frames'), Pending(frames'[n])
        PROVE  HasRead(frames'[n]) \/
               (/\ frames'[n].callee = Nil /\ n = Len(frames')
                /\ super' = Closure(frames'[n].cls, frames'[n].self))
    <3>1. CASE n \in 1..Len(below)
      BY <2>4, <2>5, <3>1 DEF AllHaveRead
    <3>2. CASE n = Len(below) + 1
      <4>1. frames'[n] = new
        BY <2>4, <3>2
      <4>2. c \in UsesSuper /\ Bases[c] # <<>>
        BY <2>2, <2>5, <4>1 DEF Pending
      <4>. QED  BY <2>2, <2>3, <2>4, <3>2, <4>1, <4>2
    <3>. QED  BY <1>1, <2>4, <3>1, <3>2
  <2>. QED  BY <2>5 DEF SuperInv
<1>3. CASE Runs(c, self, by, below, reps, sup)
  BY <1>3, AllHaveReadIsEnough DEF Runs
<1>4. CASE Fails(by, below, reps, sup)
  <2>1. /\ Len(frames') \in Nat /\ Len(frames') <= Len(below)
        /\ \A n \in 1..Len(frames') : frames'[n] = below[n]
    BY <1>1, <1>4 DEF Fails, Cut
  <2>2. PICK left : left = frames'
    OBVIOUS
  <2>3. AllHaveRead(left)
    BY <1>1, <2>1, <2>2, FewerHaveRead
  <2>. QED  BY <2>2, <2>3, AllHaveReadIsEnough
<1>. QED  BY <1>2, <1>3, <1>4, CallInitOutcomes

\* The frames below the innermost one.
LEMMA OthersHaveRead ==
  ASSUME MineInv, frames # <<>>,
         NEW fs \in Seq(FrameType), Len(fs) = Len(frames), ~Pending(fs[Len(frames)]),
         \A n \in 1..(Len(frames) - 1) : fs[n] = frames[n]
  PROVE  AllHaveRead(fs)
<1>1. Len(frames) \in Nat
  BY TopTyped DEF MineInv, ClassesInv
<1>2. ASSUME NEW n \in 1..Len(fs), Pending(fs[n])
      PROVE  HasRead(fs[n])
  <2>1. n \in 1..(Len(frames) - 1)
    BY <1>1, <1>2
  <2>2. n \in 1..Len(frames) /\ n # Len(frames) /\ fs[n] = frames[n]
    BY <1>1, <2>1
  <2>. QED  BY <1>2, <2>2 DEF MineInv, SuperInv
<1>. QED  BY <1>2 DEF AllHaveRead

LEMMA ConstructSuper ==
  ASSUME MineInv, SuperFirst, NEW c \in Classes, Construct(c)
  PROVE  SuperInv(frames', super')
<1>1. PICK i \in Instances :
        CallInit(c, i, "dispatcher", frames,
                 [instance EXCEPT ![i] = NewInstance(c)], SuperFor(c, i))
  BY DEF Construct
<1>2. StackTyped(frames, instance, super, defined) /\ Inits /\ "dispatcher" \in ByType
  BY DEF MineInv, ClassesInv, ByType
<1>3. frames \in Seq(FrameType)
  BY <1>2 DEF StackTyped
<1>4. AllHaveRead(frames)
  <2>1. CASE frames = <<>>
    BY <2>1, EmptySeq DEF AllHaveRead
  <2>2. ASSUME frames # <<>>, NEW n \in 1..Len(frames), Pending(frames[n])
        PROVE  HasRead(frames[n])
    <3>1. Top.called \/ Top.callee # Nil \/ Top.cls \notin UsesSuper
      BY <2>2 DEF Construct, MayConstruct
    <3>2. n = Len(frames) => frames[n] = Top
      BY DEF Top
    <3>. QED  BY <2>2, <3>1, <3>2 DEF MineInv, SuperInv, Pending
  <2>. QED  BY <2>1, <2>2 DEF AllHaveRead
<1>5. c \in UsesSuper /\ Bases[c] # <<>> => SuperFor(c, i) = Closure(c, i)
  BY LuaClassesAssumption DEF SuperFor
<1>. QED  BY <1>1, <1>2, <1>3, <1>4, <1>5, CallInitSuper

LEMMA ReadSuperSuper ==
  ASSUME MineInv, ReadSuper
  PROVE  SuperInv(frames', super')
<1>1. /\ frames # <<>> /\ Top.cls \in UsesSuper /\ Bases[Top.cls] # <<>> /\ super' = super
      /\ Top.callee = Nil /\ ~Top.called
  BY DEF ReadSuper
<1>2. StackTyped(frames, instance, super, defined)
  BY DEF MineInv, ClassesInv
<1>3. frames' = [frames EXCEPT ![Len(frames)] = ReadTop]
  BY <1>1, <1>2, TopIsReplaced DEF ReadSuper
<1>4. /\ Len(frames) \in Nat /\ Len(frames) > 0 /\ Top = frames[Len(frames)]
      /\ Top \in FrameType
  BY <1>1, <1>2, TopTyped
<1>5. super = Closure(Top.cls, Top.self)
  <2>1. SuperIsMine
    BY MineFollows
  <2>. QED  BY <1>1, <2>1 DEF SuperIsMine
<1>6. HasRead(ReadTop)
  BY <1>1, <1>2, <1>5, TopUpdates DEF HasRead
<1>7. /\ Len(frames') = Len(frames) /\ frames'[Len(frames)] = ReadTop
      /\ \A n \in 1..(Len(frames) - 1) : frames'[n] = frames[n]
  <2>1. ReadTop \in FrameType /\ frames \in Seq(FrameType)
    BY <1>1, <1>2, TopUpdates DEF StackTyped
  <2>. QED  BY <1>3, <1>4, <2>1, ExceptSeq
<1>8. ASSUME NEW n \in 1..Len(frames'), Pending(frames'[n])
      PROVE  HasRead(frames'[n])
  <2>1. CASE n = Len(frames)
    BY <1>6, <1>7, <2>1
  <2>2. CASE n # Len(frames)
    <3>1. n \in 1..Len(frames) /\ frames'[n] = frames[n]
      BY <1>4, <1>7, <2>2
    <3>. QED  BY <1>8, <2>2, <3>1 DEF MineInv, SuperInv
  <2>. QED  BY <2>1, <2>2
<1>. QED  BY <1>8 DEF SuperInv

LEMMA CallSuperSuper ==
  ASSUME MineInv, CallSuper
  PROVE  SuperInv(frames', super')
<1>. PICK base : base = BaseOf(Top.callee.cls)
  OBVIOUS
<1>. PICK self : self = Top.callee.self
  OBVIOUS
<1>1. StackTyped(frames, instance, super, defined) /\ Inits /\ "super" \in ByType
  BY DEF MineInv, ClassesInv, ByType
<1>2. /\ frames # <<>> /\ base \in Classes /\ self \in Instances
      /\ CallInit(base, self, "super", CallingSuperStack, instance, SuperOfBase(base, self))
      /\ StackTyped(CallingSuperStack, instance, SuperOfBase(base, self), defined)
      /\ Len(CallingSuperStack) = Len(frames)
      /\ CallingSuperStack[Len(frames)] = CallingSuper
      /\ \A n \in 1..(Len(frames) - 1) : CallingSuperStack[n] = frames[n]
  BY <1>1, CallSuperIs
<1>3. CallingSuperStack \in Seq(FrameType)
  BY <1>2 DEF StackTyped
<1>4. ~Pending(CallingSuperStack[Len(frames)])
  BY <1>1, <1>2, TopUpdates DEF Pending
<1>5. AllHaveRead(CallingSuperStack)
  BY <1>2, <1>3, <1>4, OthersHaveRead
<1>6. Bases[base] # <<>> => SuperOfBase(base, self) = Closure(base, self)
  BY DEF SuperOfBase
<1>. QED  BY <1>1, <1>2, <1>3, <1>5, <1>6, CallInitSuper

LEMMA CallBaseInitSuper ==
  ASSUME MineInv, Chained, CallBaseInit
  PROVE  SuperInv(frames', super')
<1>. PICK base : base = BaseOf(Top.cls)
  OBVIOUS
<1>. PICK self : self = Top.self
  OBVIOUS
<1>1. StackTyped(frames, instance, super, defined) /\ Inits /\ "script" \in ByType
  BY DEF MineInv, ClassesInv, ByType
<1>2. /\ frames # <<>> /\ base \in Classes /\ self \in Instances
      /\ Top.cls \notin UsesSuper /\ Bases[Top.cls] # <<>>
      /\ CallInit(base, self, "script", CallingBaseStack, instance, super)
      /\ StackTyped(CallingBaseStack, instance, super, defined)
      /\ Len(CallingBaseStack) = Len(frames)
      /\ CallingBaseStack[Len(frames)] = CallingBase
      /\ \A n \in 1..(Len(frames) - 1) : CallingBaseStack[n] = frames[n]
  BY <1>1, CallBaseInitIs
<1>3. CallingBaseStack \in Seq(FrameType)
  BY <1>2 DEF StackTyped
<1>4. ~Pending(CallingBaseStack[Len(frames)])
  BY <1>1, <1>2, TopUpdates DEF Pending
<1>5. AllHaveRead(CallingBaseStack)
  BY <1>2, <1>3, <1>4, OthersHaveRead
<1>6. base \notin UsesSuper
  <2>1. Top.cls \in LuaClasses
    BY <1>1, <1>2, TopTyped DEF FrameType
  <2>. QED  BY <1>2, <2>1 DEF Chained
<1>. QED  BY <1>1, <1>2, <1>3, <1>5, <1>6, CallInitSuper

\* Frames that are taken off leave none that has not read super.
LEMMA FewerSuper ==
  ASSUME MineInv, Len(frames) \in Nat, Len(frames') \in Nat, Len(frames') < Len(frames),
         \A n \in 1..Len(frames') : frames'[n] = frames[n]
  PROVE  SuperInv(frames', super')
<1>1. ASSUME NEW n \in 1..Len(frames'), Pending(frames'[n])
      PROVE  HasRead(frames'[n])
  <2>1. n \in 1..Len(frames) /\ n # Len(frames)
    OBVIOUS
  <2>. QED  BY <1>1, <2>1 DEF MineInv, SuperInv
<1>. QED  BY <1>1 DEF SuperInv

LEMMA MineInvInductive ==
  ASSUME SuperFirst, Chained
  PROVE  MineInv /\ [Next]_vars => MineInv'
<1>. SUFFICES ASSUME MineInv, [Next]_vars
              PROVE  SuperInv(frames', super')
  BY ClassesInvInductive DEF MineInv
<1>1. StackTyped(frames, instance, super, defined)
  BY DEF MineInv, ClassesInv
<1>2. ASSUME UNCHANGED <<super, frames>>
      PROVE  SuperInv(frames', super')
  BY <1>2 DEF MineInv
<1>3. ASSUME NEW c \in Classes, Register(c) \/ Derive(c)
      PROVE  SuperInv(frames', super')
  BY <1>2, <1>3 DEF Register, Derive
<1>4. ASSUME NEW c \in Classes, NEW m \in Members, SetMember(c, m)
      PROVE  SuperInv(frames', super')
  BY <1>2, <1>4 DEF SetMember
<1>5. ASSUME NEW c \in Classes, Construct(c)
      PROVE  SuperInv(frames', super')
  BY <1>5, ConstructSuper
<1>6. CASE ReadSuper \/ CallSuper \/ CallBaseInit
  BY <1>6, ReadSuperSuper, CallSuperSuper, CallBaseInitSuper
<1>7. CASE Return
  <2>1. /\ Len(frames) \in Nat /\ Len(frames) > 0 /\ Len(frames') = Len(frames) - 1
        /\ \A n \in 1..Len(frames') : frames'[n] = frames[n]
    BY <1>1, <1>7, ReturnIs
  <2>2. Len(frames') \in Nat /\ Len(frames') < Len(frames)
    BY <2>1
  <2>. QED  BY <2>1, <2>2, FewerSuper
<1>8. CASE Raise
  <2>1. /\ Len(frames) \in Nat /\ Cut(frames', frames)
    BY <1>1, <1>8, RaiseIs
  <2>. QED  BY <2>1, FewerSuper DEF Cut
<1>9. ASSUME NEW i \in Instances, Forget(i) \/ Finalize(i)
      PROVE  SuperInv(frames', super')
  BY <1>2, <1>9 DEF Forget, Finalize
<1>10. CASE UNCHANGED vars
  BY <1>2, <1>10 DEF vars
<1>. QED  BY <1>3, <1>4, <1>5, <1>6, <1>7, <1>8, <1>9, <1>10 DEF Next

LEMMA MineInvHolds ==
  ASSUME SuperFirst, Chained
  PROVE  Spec => []MineInv
<1>1. Init => MineInv
  <2>1. Init => SuperInv(frames, super)
    BY EmptySeq DEF Init, SuperInv
  <2>. QED  BY <2>1, InitTyped DEF MineInv
<1>2. MineInv /\ [Next]_vars => MineInv'
  BY MineInvInductive
<1>. QED  BY <1>1, <1>2, PTL DEF Spec

\* Under the two rules an __init calls its own base, for its own instance,
\* through super, however deep constructors are nested and whichever fail.
THEOREM SuperIsOwn == SuperFirst /\ Chained => (Spec => []SuperIsMine)
<1>. SUFFICES ASSUME SuperFirst, Chained
              PROVE  Spec => []SuperIsMine
  OBVIOUS
<1>1. Spec => []MineInv
  BY MineInvHolds
<1>. QED  BY <1>1, MineFollows, PTL

-----------------------------------------------------------------------------
(***************************************************************************)
(* Holders.  The frames of an instance are the __init functions of one     *)
(* construction: all but the innermost have called on, and none of them    *)
(* but the first was called by the dispatcher (Chain).  So when an error   *)
(* is caught around a construction either all of them go or none, and as   *)
(* long as one of them has its base to call the instance has no holder.    *)
(***************************************************************************)
LEMMA CppIsCppBased ==
  ASSUME NEW c \in CppClasses
  PROVE  c \in CppBased
BY DEF CppBased

LEMMA RootIsNotCppBased ==
  ASSUME NEW c \in LuaClasses, Bases[c] = <<>>
  PROVE  c \notin CppBased
<1>1. BasesReach({c}) /\ {c} \in SUBSET Classes /\ {c} \cap CppClasses = {}
  BY LuaClassesAssumption DEF BasesReach
<1>. QED  BY <1>1 DEF CppBased

LEMMA CppBasedThroughBase ==
  ASSUME NEW c \in LuaClasses, Bases[c] # <<>>
  PROVE  c \in CppBased <=> BaseOf(c) \in CppBased
<1>1. BaseOf(c) \in Classes /\ c \in Classes /\ c \notin CppClasses
  BY BaseOfType, LuaClassesAssumption
<1>2. ASSUME BaseOf(c) \in CppBased, NEW s \in SUBSET Classes, c \in s, BasesReach(s)
      PROVE  s \cap CppClasses # {}
  <2>1. BaseOf(c) \in s
    BY <1>2 DEF BasesReach
  <2>. QED  BY <1>2, <2>1 DEF CppBased
<1>3. ASSUME c \in CppBased, NEW s \in SUBSET Classes, BaseOf(c) \in s, BasesReach(s)
      PROVE  s \cap CppClasses # {}
  <2>1. BasesReach(s \cup {c})
    BY <1>3 DEF BasesReach
  <2>2. (s \cup {c}) \cap CppClasses # {}
    <3>1. s \cup {c} \in SUBSET Classes /\ c \in s \cup {c}
      BY <1>1
    <3>2. \A t \in SUBSET Classes : c \in t /\ BasesReach(t) => t \cap CppClasses # {}
      BY <1>3 DEF CppBased
    <3>. QED  BY <2>1, <3>1, <3>2
  <2>. QED  BY <1>1, <2>2
<1>. QED  BY <1>1, <1>2, <1>3 DEF CppBased

Chain(fs) ==
  \A n, m \in 1..Len(fs) : n < m /\ fs[n].self = fs[m].self =>
    fs[n].called /\ \A k \in (n + 1)..m : fs[k].by # "dispatcher"

Lineage(fs, reps) ==
  \A n \in 1..Len(fs) : fs[n].cls \in CppBased <=> reps[fs[n].self].cls \in CppBased

Works(fs, i) == \E n \in 1..Len(fs) : fs[n].self = i

Waits(fs, i) ==
  \E n \in 1..Len(fs) : fs[n].self = i /\ Bases[fs[n].cls] # <<>> /\ ~fs[n].called

Expected(rep) == IF rep.cls \in CppBased THEN 1 ELSE 0

Holders(fs, rep, i) ==
  /\ Works(fs, i) => ~rep.done
  /\ Waits(fs, i) => rep.objects = 0
  /\ Works(fs, i) /\ ~Waits(fs, i) => rep.objects = Expected(rep)
  /\ ~Works(fs, i) => rep.objects <= 1 /\ (rep.done => rep.objects = Expected(rep))

OnceInv(fs, reps) ==
  /\ Chain(fs)
  /\ Lineage(fs, reps)
  /\ \A i \in Instances : reps[i] # Nil => Holders(fs, reps[i], i)

\* The same, when __init of c is about to be called for self.
InTransit(fs, reps, self, c, by) ==
  /\ Chain(fs)
  /\ Lineage(fs, reps)
  /\ \A i \in Instances \ {self} : reps[i] # Nil => Holders(fs, reps[i], i)
  /\ reps[self] # Nil /\ reps[self].objects = 0 /\ ~reps[self].done
  /\ c \in CppBased <=> reps[self].cls \in CppBased
  /\ \A n \in 1..Len(fs) : fs[n].self = self => fs[n].called
  /\ by = "dispatcher" => ~Works(fs, self)
  /\ by # "dispatcher" => fs # <<>> /\ fs[Len(fs)].self = self

LEMMA HoldersAreOnce ==
  ASSUME OnceInv(frames, instance)
  PROVE  InitialisedOnce
<1>. SUFFICES ASSUME NEW i \in Instances, instance[i] # Nil
              PROVE  /\ instance[i].objects <= 1
                     /\ instance[i].done => instance[i].objects = Expected(instance[i])
  BY DEF InitialisedOnce, Expected
<1>1. Holders(frames, instance[i], i)
  BY DEF OnceInv
<1>2. Expected(instance[i]) \in {0, 1}
  BY DEF Expected
<1>. QED  BY <1>1, <1>2 DEF Holders

\* An error takes away all the frames of an instance, or none.
LEMMA CutKeepsChains ==
  ASSUME NEW fs, Len(fs) \in Nat, Chain(fs), NEW left, Cut(left, fs),
         NEW n \in 1..Len(left), NEW m \in 1..Len(fs), fs[n].self = fs[m].self
  PROVE  m \in 1..Len(left)
<1>. SUFFICES ASSUME m > Len(left)
              PROVE  FALSE
  BY DEF Cut
<1>1. n \in 1..Len(fs) /\ n < m /\ Len(left) + 1 \in (n + 1)..m
  BY DEF Cut
<1>. QED  BY <1>1 DEF Chain, Cut

LEMMA CutHolders ==
  ASSUME NEW fs, Len(fs) \in Nat, Chain(fs), NEW left, Cut(left, fs),
         NEW i \in Instances, NEW rep, Holders(fs, rep, i)
  PROVE  Holders(left, rep, i)
<1>1. /\ \A n \in 1..Len(left) : n \in 1..Len(fs) /\ left[n] = fs[n]
  BY DEF Cut
<1>2. CASE Works(left, i)
  <2>1. \A m \in 1..Len(fs) : fs[m].self = i => m \in 1..Len(left) /\ left[m] = fs[m]
    BY <1>1, <1>2, CutKeepsChains DEF Works
  <2>2. Works(fs, i) /\ (Waits(fs, i) <=> Waits(left, i))
    BY <1>1, <1>2, <2>1 DEF Works, Waits
  <2>. QED  BY <1>2, <2>2 DEF Holders
<1>3. CASE ~Works(left, i)
  <2>1. ~Waits(left, i)
    BY <1>3 DEF Works, Waits
  <2>2. Expected(rep) \in {0, 1}
    BY DEF Expected
  <2>. QED  BY <1>3, <2>1, <2>2 DEF Holders
<1>. QED  BY <1>2, <1>3

LEMMA CutOnce ==
  ASSUME NEW fs, Len(fs) \in Nat, NEW left, Cut(left, fs), NEW reps,
         Chain(fs), Lineage(fs, reps)
  PROVE  Chain(left) /\ Lineage(left, reps)
<1>1. \A n \in 1..Len(left) : n \in 1..Len(fs) /\ left[n] = fs[n]
  BY DEF Cut
<1>2. Len(left) \in Nat
  BY DEF Cut
<1>3. Lineage(left, reps)
  BY <1>1 DEF Lineage
<1>4. ASSUME NEW n \in 1..Len(left), NEW m \in 1..Len(left), n < m,
             left[n].self = left[m].self
      PROVE  left[n].called /\ \A k \in (n + 1)..m : left[k].by # "dispatcher"
  <2>1. \A k \in (n + 1)..m : k \in 1..Len(left)
    BY <1>2
  <2>2. fs[n].called /\ \A k \in (n + 1)..m : fs[k].by # "dispatcher"
    BY <1>1, <1>4 DEF Chain
  <2>. QED  BY <1>1, <2>1, <2>2
<1>. QED  BY <1>3, <1>4 DEF Chain

\* The three outcomes of a call of __init.
LEMMA BeginsOnce ==
  ASSUME NEW c \in Classes, NEW self \in Instances, NEW by \in ByType,
         NEW below \in Seq(FrameType), NEW reps,
         InTransit(below, reps, self, c, by), c \in LuaClasses,
         NEW fs, fs = Append(below, Frame(c, self, by))
  PROVE  OnceInv(fs, reps)
<1>1. PICK new : new = Frame(c, self, by)
  OBVIOUS
<1>2. /\ new \in FrameType /\ new.cls = c /\ new.self = self /\ new.by = by /\ ~new.called
  BY <1>1, FrameTyped
<1>3. /\ Len(fs) = Len(below) + 1 /\ Len(below) \in Nat
      /\ \A n \in 1..Len(below) : fs[n] = below[n]
      /\ fs[Len(below) + 1] = new
  BY <1>1, <1>2, AppendProperties, LenProperties
<1>4. ASSUME NEW n \in 1..Len(fs)
      PROVE  (n \in 1..Len(below) /\ fs[n] = below[n]) \/ (n = Len(below) + 1 /\ fs[n] = new)
  BY <1>3
<1>5. ASSUME NEW n \in 1..Len(below), below[n].self = self
      PROVE  /\ by # "dispatcher" /\ below[n].called
             /\ \A k \in (n + 1)..Len(below) : below[k].by # "dispatcher"
  <2>1. by # "dispatcher" /\ below[n].called
    BY <1>5 DEF InTransit, Works
  <2>2. Len(below) \in 1..Len(below) /\ below[Len(below)].self = self
    BY <1>3, <2>1 DEF InTransit
  <2>3. n < Len(below) => \A k \in (n + 1)..Len(below) : below[k].by # "dispatcher"
    BY <1>5, <2>2 DEF InTransit, Chain
  <2>4. ~(n < Len(below)) => (n + 1)..Len(below) = {}
    BY <1>3
  <2>. QED  BY <2>1, <2>3, <2>4
<1>6. Chain(fs)
  <2>1. ASSUME NEW n \in 1..Len(fs), NEW m \in 1..Len(fs), n < m, fs[n].self = fs[m].self
        PROVE  fs[n].called /\ \A k \in (n + 1)..m : fs[k].by # "dispatcher"
    <3>1. n \in 1..Len(below) /\ fs[n] = below[n]
      BY <1>3, <2>1
    <3>2. CASE m \in 1..Len(below)
      <4>1. below[n].called /\ \A k \in (n + 1)..m : below[k].by # "dispatcher"
        BY <1>3, <2>1, <3>1, <3>2 DEF InTransit, Chain
      <4>2. \A k \in (n + 1)..m : k \in 1..Len(below)
        BY <1>3, <3>1, <3>2
      <4>. QED  BY <1>3, <3>1, <4>1, <4>2
    <3>3. CASE m = Len(below) + 1
      <4>1. below[n].self = self
        BY <1>2, <1>3, <2>1, <3>1, <3>3
      <4>2. /\ by # "dispatcher" /\ below[n].called
            /\ \A k \in (n + 1)..Len(below) : below[k].by # "dispatcher"
        BY <1>5, <3>1, <4>1
      <4>3. ASSUME NEW k \in (n + 1)..m
            PROVE  fs[k].by # "dispatcher"
        <5>1. (k \in (n + 1)..Len(below) /\ k \in 1..Len(below)) \/ k = Len(below) + 1
          BY <1>3, <3>1, <3>3
        <5>. QED  BY <1>2, <1>3, <4>2, <5>1
      <4>. QED  BY <3>1, <4>2, <4>3
    <3>. QED  BY <1>3, <3>2, <3>3
  <2>. QED  BY <2>1 DEF Chain
<1>7. Lineage(fs, reps)
  BY <1>2, <1>4 DEF InTransit, Lineage
<1>8. ASSUME NEW i \in Instances, i # self, reps[i] # Nil
      PROVE  Holders(fs, reps[i], i)
  <2>1. Works(fs, i) <=> Works(below, i)
    BY <1>2, <1>3, <1>4, <1>8 DEF Works
  <2>2. Waits(fs, i) <=> Waits(below, i)
    BY <1>2, <1>3, <1>4, <1>8 DEF Waits
  <2>. QED  BY <1>8, <2>1, <2>2 DEF InTransit, Holders
<1>9. Holders(fs, reps[self], self)
  <2>1. Len(below) + 1 \in 1..Len(fs)
    BY <1>3
  <2>2. Works(fs, self)
    BY <1>2, <1>3, <2>1 DEF Works
  <2>3. Bases[c] # <<>> => Waits(fs, self)
    BY <1>2, <1>3, <2>1 DEF Waits
  <2>4. Bases[c] = <<>> => Expected(reps[self]) = 0
    BY RootIsNotCppBased DEF InTransit, Expected
  <2>. QED  BY <2>2, <2>3, <2>4 DEF InTransit, Holders
<1>. QED  BY <1>6, <1>7, <1>8, <1>9 DEF OnceInv

HolderMade(reps, self, by, after) ==
  \A i \in Instances :
    after[i] = IF i = self THEN Finished(Constructed(reps[i]), by) ELSE reps[i]

LEMMA RunsOnce ==
  ASSUME NEW c \in CppClasses, NEW self \in Instances, NEW by \in ByType,
         NEW below \in Seq(FrameType), NEW reps \in [Instances -> InstanceType \cup {Nil}],
         InTransit(below, reps, self, c, by),
         NEW after, HolderMade(reps, self, by, after)
  PROVE  OnceInv(below, after)
<1>1. PICK rep : rep = Finished(Constructed(reps[self]), by)
  OBVIOUS
<1>2. reps[self] \in InstanceType /\ reps[self].objects = 0 /\ ~reps[self].done
  BY DEF InTransit
<1>3. /\ rep \in InstanceType /\ rep.cls = reps[self].cls /\ rep.objects = 1
      /\ rep.done <=> by = "dispatcher"
  BY <1>1, <1>2, InstanceUpdates
<1>4. \A i \in Instances : after[i] = IF i = self THEN rep ELSE reps[i]
  BY <1>1 DEF HolderMade
<1>5. Expected(rep) = 1
  BY <1>3, CppIsCppBased DEF InTransit, Expected
<1>6. Holders(below, rep, self)
  <2>1. ~Waits(below, self)
    BY DEF InTransit, Waits
  <2>2. by = "dispatcher" => ~Works(below, self)
    BY DEF InTransit
  <2>3. ASSUME by # "dispatcher"
        PROVE  Works(below, self)
    <3>1. Len(below) \in 1..Len(below) /\ below[Len(below)].self = self
      BY <2>3, EmptySeq, LenProperties DEF InTransit
    <3>. QED  BY <3>1 DEF Works
  <2>. QED  BY <1>3, <1>5, <2>1, <2>2, <2>3 DEF Holders
<1>7. Lineage(below, after)
  <2>1. ASSUME NEW n \in 1..Len(below)
        PROVE  after[below[n].self].cls = reps[below[n].self].cls
    <3>1. below[n].self \in Instances
      <4>1. below[n] \in FrameType
        BY ElementOfSeq
      <4>. QED  BY <4>1 DEF FrameType
    <3>. QED  BY <1>3, <1>4, <3>1
  <2>. QED  BY <2>1 DEF InTransit, Lineage
<1>. QED  BY <1>4, <1>6, <1>7 DEF InTransit, OnceInv

LEMMA FailsOnce ==
  ASSUME NEW c \in Classes, NEW self \in Instances, NEW by \in ByType,
         NEW below \in Seq(FrameType), NEW reps,
         InTransit(below, reps, self, c, by),
         NEW left, (left = below /\ by = "dispatcher") \/ Cut(left, below)
  PROVE  OnceInv(left, reps)
<1>1. ASSUME NEW i \in Instances, ~Works(left, self), i = self
      PROVE  Holders(left, reps[i], i)
  <2>1. ~Waits(left, self)
    BY <1>1 DEF Works, Waits
  <2>. QED  BY <1>1, <2>1 DEF InTransit, Holders
<1>2. CASE left = below /\ by = "dispatcher"
  BY <1>1, <1>2 DEF InTransit, OnceInv
<1>3. CASE Cut(left, below)
  <2>1. Len(below) \in Nat
    BY LenProperties
  <2>2. Chain(left) /\ Lineage(left, reps)
    BY <1>3, <2>1, CutOnce DEF InTransit
  <2>3. \A i \in Instances \ {self} : reps[i] # Nil => Holders(left, reps[i], i)
    BY <1>3, <2>1, CutHolders DEF InTransit
  <2>4. ~Works(left, self)
    <3>. SUFFICES ASSUME NEW n \in 1..Len(left), left[n].self = self
                  PROVE  FALSE
      BY DEF Works
    <3>1. n \in 1..Len(below) /\ below[n].self = self
      BY <1>3, <2>1 DEF Cut
    <3>2. by # "dispatcher"
      BY <3>1 DEF InTransit, Works
    <3>3. Len(below) \in 1..Len(below) /\ below[Len(below)].self = self
      BY <2>1, <3>1, <3>2 DEF InTransit
    <3>4. Len(below) \in 1..Len(left)
      BY <1>3, <2>1, <3>1, <3>3, CutKeepsChains DEF InTransit
    <3>. QED  BY <1>3, <2>1, <3>4 DEF Cut
  <2>. QED  BY <1>1, <2>2, <2>3, <2>4 DEF OnceInv
<1>. QED  BY <1>2, <1>3

LEMMA CallInitOnce ==
  ASSUME Inits,
         NEW c \in Classes, NEW self \in Instances, NEW by \in ByType,
         NEW below \in Seq(FrameType), NEW reps \in [Instances -> InstanceType \cup {Nil}],
         NEW sup,
         InTransit(below, reps, self, c, by),
         CallInit(c, self, by, below, reps, sup)
  PROVE  OnceInv(frames', instance')
<1>. PICK fs, after : fs = frames' /\ after = instance'
  OBVIOUS
<1>2. CASE Begins(c, self, by, below, reps, sup)
  <2>1. c \in LuaClasses /\ fs = Append(below, Frame(c, self, by)) /\ after = reps
    BY <1>2 DEF Begins
  <2>. QED  BY <2>1, BeginsOnce
<1>3. CASE Runs(c, self, by, below, reps, sup)
  <2>1. /\ c \in CppClasses /\ fs = below
        /\ HolderMade(reps, self, by, after)
    BY <1>3 DEF Runs, HolderMade
  <2>2. OnceInv(below, after)
    BY <2>1, RunsOnce
  <2>. QED  BY <2>1, <2>2
<1>4. CASE Fails(by, below, reps, sup)
  <2>1. /\ (fs = below /\ by = "dispatcher") \/ Cut(fs, below)
        /\ after = reps
    BY <1>4 DEF Fails
  <2>2. OnceInv(fs, reps)
    BY <2>1, FailsOnce
  <2>. QED  BY <2>1, <2>2
<1>. QED  BY <1>2, <1>3, <1>4, CallInitOutcomes

\* All that the invariant needs to know of super is MineInv.
HolderInv == MineInv /\ OnceInv(frames, instance)

LEMMA ConstructOnce ==
  ASSUME HolderInv, NEW c \in Classes, Construct(c)
  PROVE  OnceInv(frames', instance')
<1>1. PICK i \in Instances :
        /\ instance[i] = Nil
        /\ CallInit(c, i, "dispatcher", frames,
                    [instance EXCEPT ![i] = NewInstance(c)], SuperFor(c, i))
  BY DEF Construct
<1>2. PICK reps : reps = [instance EXCEPT ![i] = NewInstance(c)]
  OBVIOUS
<1>3. /\ StackTyped(frames, instance, super, defined) /\ Inits /\ "dispatcher" \in ByType
      /\ OnceInv(frames, instance)
  BY DEF HolderInv, MineInv, ClassesInv, ByType
<1>4. frames \in Seq(FrameType) /\ instance \in [Instances -> InstanceType \cup {Nil}]
  BY <1>3 DEF StackTyped
<1>5. /\ NewInstance(c) \in InstanceType /\ NewInstance(c) # Nil /\ NewInstance(c).cls = c
      /\ NewInstance(c).objects = 0 /\ ~NewInstance(c).done
  <2>1. NewInstance(c) \in InstanceType
    BY DEF NewInstance, InstanceType
  <2>. QED  BY <2>1, NilAssumption DEF NewInstance
<1>6. \A j \in Instances : reps[j] = IF j = i THEN NewInstance(c) ELSE instance[j]
  BY <1>2, <1>4
<1>7. \A n \in 1..Len(frames) : frames[n].self \in Instances /\ frames[n].self # i
  <2>1. ASSUME NEW n \in 1..Len(frames)
        PROVE  frames[n].self \in Instances /\ frames[n].self # i
    <3>1. frames[n] \in FrameType /\ FrameLives(frames[n], instance)
      BY <1>3, <1>4, ElementOfSeq DEF StackTyped
    <3>. QED  BY <1>1, <3>1 DEF FrameType, FrameLives
  <2>. QED  BY <2>1
<1>8. InTransit(frames, reps, i, c, "dispatcher")
  <2>1. Lineage(frames, reps) /\ Chain(frames)
    BY <1>3, <1>6, <1>7 DEF OnceInv, Lineage
  <2>2. \A j \in Instances \ {i} : reps[j] # Nil => Holders(frames, reps[j], j)
    BY <1>3, <1>6 DEF OnceInv
  <2>3. ~Works(frames, i)
    BY <1>7 DEF Works
  <2>. QED  BY <1>5, <1>6, <1>7, <2>1, <2>2, <2>3 DEF InTransit
<1>. PICK sup : sup = SuperFor(c, i)
  OBVIOUS
<1>9. CallInit(c, i, "dispatcher", frames, reps, sup)
  BY <1>1, <1>2
<1>10. reps \in [Instances -> InstanceType \cup {Nil}]
  BY <1>2, <1>4, <1>5
<1>. QED  BY <1>3, <1>4, <1>8, <1>9, <1>10, CallInitOnce

\* A frame that changes only in what it has read.
LEMMA SameFramesOnce ==
  ASSUME NEW fs, NEW gs, NEW reps, OnceInv(fs, reps), Len(fs) \in Nat, Len(gs) = Len(fs),
         \A n \in 1..Len(fs) : /\ gs[n].cls = fs[n].cls /\ gs[n].self = fs[n].self
                               /\ gs[n].by = fs[n].by /\ gs[n].called = fs[n].called
  PROVE  OnceInv(gs, reps)
<1>1. Chain(gs)
  <2>1. ASSUME NEW n \in 1..Len(gs), NEW m \in 1..Len(gs), n < m, gs[n].self = gs[m].self
        PROVE  gs[n].called /\ \A k \in (n + 1)..m : gs[k].by # "dispatcher"
    <3>1. fs[n].called /\ \A k \in (n + 1)..m : fs[k].by # "dispatcher"
      BY <2>1 DEF OnceInv, Chain
    <3>2. \A k \in (n + 1)..m : k \in 1..Len(fs)
      BY <2>1
    <3>. QED  BY <3>1, <3>2
  <2>. QED  BY <2>1 DEF Chain
<1>2. Lineage(gs, reps)
  BY DEF OnceInv, Lineage
<1>3. ASSUME NEW i \in Instances, reps[i] # Nil
      PROVE  Holders(gs, reps[i], i)
  <2>1. Works(gs, i) <=> Works(fs, i)
    BY DEF Works
  <2>2. Waits(gs, i) <=> Waits(fs, i)
    BY DEF Waits
  <2>. QED  BY <1>3, <2>1, <2>2 DEF OnceInv, Holders
<1>. QED  BY <1>1, <1>2, <1>3 DEF OnceInv

\* The innermost frame calls the __init of its base.
LEMMA BaseCalled ==
  ASSUME HolderInv, frames # <<>>, ~Top.called, Bases[Top.cls] # <<>>,
         NEW top, top.called, top.cls = Top.cls, top.self = Top.self, top.by = Top.by,
         NEW below, Len(below) = Len(frames), below # <<>>, below[Len(frames)] = top,
         \A n \in 1..(Len(frames) - 1) : below[n] = frames[n],
         NEW by
  PROVE  by # "dispatcher" =>
           InTransit(below, instance, Top.self, BaseOf(Top.cls), by)
<1>. SUFFICES ASSUME by # "dispatcher"
              PROVE  InTransit(below, instance, Top.self, BaseOf(Top.cls), by)
  OBVIOUS
<1>1. /\ StackTyped(frames, instance, super, defined)
      /\ OnceInv(frames, instance)
  BY DEF HolderInv, MineInv, ClassesInv
<1>2. /\ Len(frames) \in Nat /\ Len(frames) > 0 /\ Top \in FrameType
      /\ Top = frames[Len(frames)] /\ FrameLives(Top, instance)
  BY <1>1, TopTyped
<1>3. Len(frames) \in 1..Len(frames)
  BY <1>2
<1>4. ASSUME NEW n \in 1..Len(frames)
      PROVE  \/ n = Len(frames) /\ below[n] = top /\ frames[n] = Top
             \/ n \in 1..(Len(frames) - 1) /\ below[n] = frames[n]
  BY <1>2
<1>5. ASSUME NEW n \in 1..Len(frames)
      PROVE  /\ below[n].cls = frames[n].cls /\ below[n].self = frames[n].self
             /\ below[n].by = frames[n].by
             /\ frames[n].called => below[n].called
  BY <1>4
<1>6. Chain(below)
  <2>1. ASSUME NEW n \in 1..Len(below), NEW m \in 1..Len(below), n < m,
               below[n].self = below[m].self
        PROVE  below[n].called /\ \A k \in (n + 1)..m : below[k].by # "dispatcher"
    <3>1. frames[n].called /\ \A k \in (n + 1)..m : frames[k].by # "dispatcher"
      BY <1>1, <1>5, <2>1 DEF OnceInv, Chain
    <3>2. \A k \in (n + 1)..m : k \in 1..Len(frames)
      BY <1>2, <2>1
    <3>. QED  BY <1>5, <3>1, <3>2
  <2>. QED  BY <2>1 DEF Chain
<1>7. Lineage(below, instance)
  BY <1>1, <1>5 DEF OnceInv, Lineage
<1>8. ASSUME NEW i \in Instances, i # Top.self, instance[i] # Nil
      PROVE  Holders(below, instance[i], i)
  <2>1. \A n \in 1..Len(frames) : frames[n].self = i => below[n] = frames[n]
    BY <1>4, <1>8
  <2>2. \A n \in 1..Len(frames) : below[n].self = i <=> frames[n].self = i
    BY <1>5
  <2>3. Works(below, i) <=> Works(frames, i)
    BY <2>2 DEF Works
  <2>4. Waits(below, i) <=> Waits(frames, i)
    BY <2>1, <2>2 DEF Waits
  <2>5. Holders(frames, instance[i], i)
    BY <1>1, <1>8 DEF OnceInv
  <2>. QED  BY <2>3, <2>4, <2>5 DEF Holders
<1>9. instance[Top.self] # Nil /\ instance[Top.self].objects = 0 /\ ~instance[Top.self].done
  <2>1. Top.self \in Instances /\ instance[Top.self] # Nil
    BY <1>2 DEF FrameType, FrameLives
  <2>2. Works(frames, Top.self) /\ Waits(frames, Top.self)
    BY <1>2, <1>3 DEF Works, Waits
  <2>. QED  BY <1>1, <2>1, <2>2 DEF OnceInv, Holders
<1>10. BaseOf(Top.cls) \in CppBased <=> instance[Top.self].cls \in CppBased
  <2>1. Top.cls \in LuaClasses
    BY <1>2 DEF FrameType
  <2>2. Top.cls \in CppBased <=> instance[Top.self].cls \in CppBased
    BY <1>1, <1>2, <1>3 DEF OnceInv, Lineage
  <2>. QED  BY <2>1, <2>2, CppBasedThroughBase
<1>11. ASSUME NEW n \in 1..Len(below), below[n].self = Top.self
       PROVE  below[n].called
  <2>1. CASE n = Len(frames)
    BY <2>1
  <2>2. CASE n # Len(frames)
    <3>1. n < Len(frames) /\ frames[n].self = frames[Len(frames)].self
      BY <1>2, <1>5, <1>11, <2>2
    <3>2. frames[n].called
      BY <1>1, <1>3, <3>1 DEF OnceInv, Chain
    <3>. QED  BY <1>5, <3>2
  <2>. QED  BY <2>1, <2>2
<1>. QED  BY <1>6, <1>7, <1>8, <1>9, <1>10, <1>11 DEF InTransit

LEMMA CallSuperOnce ==
  ASSUME HolderInv, CallSuper
  PROVE  OnceInv(frames', instance')
<1>. PICK base : base = BaseOf(Top.callee.cls)
  OBVIOUS
<1>. PICK self : self = Top.callee.self
  OBVIOUS
<1>1. /\ StackTyped(frames, instance, super, defined) /\ Inits /\ "super" \in ByType
      /\ MineInv
  BY DEF HolderInv, MineInv, ClassesInv, ByType
<1>2. /\ frames # <<>> /\ Top.callee # Nil /\ ~Top.called
      /\ base \in Classes /\ self \in Instances
      /\ CallInit(base, self, "super", CallingSuperStack, instance, SuperOfBase(base, self))
      /\ StackTyped(CallingSuperStack, instance, SuperOfBase(base, self), defined)
      /\ Len(CallingSuperStack) = Len(frames)
      /\ CallingSuperStack[Len(frames)] = CallingSuper
      /\ \A n \in 1..(Len(frames) - 1) : CallingSuperStack[n] = frames[n]
  BY <1>1, CallSuperIs
<1>3. /\ CallingSuperStack \in Seq(FrameType)
      /\ instance \in [Instances -> InstanceType \cup {Nil}]
  BY <1>1, <1>2 DEF StackTyped
<1>4. /\ Len(frames) \in 1..Len(frames) /\ Top = frames[Len(frames)]
      /\ Top.cls \in UsesSuper /\ Bases[Top.cls] # <<>>
  BY <1>1, <1>2, TopTyped DEF FrameLives
<1>5. Top.callee = Closure(Top.cls, Top.self)
  BY <1>1, <1>2, <1>4 DEF MineInv, SuperInv, Pending, HasRead
<1>6. base = BaseOf(Top.cls) /\ self = Top.self
  BY <1>5 DEF Closure
<1>7. /\ CallingSuper.called /\ CallingSuper.cls = Top.cls
      /\ CallingSuper.self = Top.self /\ CallingSuper.by = Top.by
  BY <1>1, <1>2, TopUpdates
<1>8. CallingSuperStack # <<>>
  BY <1>2, <1>4, EmptySeq
<1>9. InTransit(CallingSuperStack, instance, self, base, "super")
  BY <1>2, <1>4, <1>6, <1>7, <1>8, BaseCalled
<1>. PICK sup : sup = SuperOfBase(base, self)
  OBVIOUS
<1>10. CallInit(base, self, "super", CallingSuperStack, instance, sup)
  BY <1>2
<1>. QED  BY <1>1, <1>2, <1>3, <1>9, <1>10, CallInitOnce

LEMMA CallBaseInitOnce ==
  ASSUME HolderInv, CallBaseInit
  PROVE  OnceInv(frames', instance')
<1>. PICK base : base = BaseOf(Top.cls)
  OBVIOUS
<1>. PICK self : self = Top.self
  OBVIOUS
<1>1. StackTyped(frames, instance, super, defined) /\ Inits /\ "script" \in ByType
  BY DEF HolderInv, MineInv, ClassesInv, ByType
<1>2. /\ frames # <<>> /\ Bases[Top.cls] # <<>> /\ ~Top.called
      /\ base \in Classes /\ self \in Instances
      /\ CallInit(base, self, "script", CallingBaseStack, instance, super)
      /\ StackTyped(CallingBaseStack, instance, super, defined)
      /\ Len(CallingBaseStack) = Len(frames)
      /\ CallingBaseStack[Len(frames)] = CallingBase
      /\ \A n \in 1..(Len(frames) - 1) : CallingBaseStack[n] = frames[n]
  BY <1>1, CallBaseInitIs
<1>3. /\ CallingBaseStack \in Seq(FrameType)
      /\ instance \in [Instances -> InstanceType \cup {Nil}]
  BY <1>1, <1>2 DEF StackTyped
<1>4. /\ CallingBase.called /\ CallingBase.cls = Top.cls
      /\ CallingBase.self = Top.self /\ CallingBase.by = Top.by
  BY <1>1, <1>2, TopUpdates
<1>5. CallingBaseStack # <<>>
  BY <1>1, <1>2, TopTyped, EmptySeq
<1>6. InTransit(CallingBaseStack, instance, self, base, "script")
  BY <1>2, <1>4, <1>5, BaseCalled
<1>. QED  BY <1>1, <1>2, <1>3, <1>6, CallInitOnce

LEMMA ReadSuperOnce ==
  ASSUME HolderInv, ReadSuper
  PROVE  OnceInv(frames', instance')
<1>1. /\ StackTyped(frames, instance, super, defined)
      /\ OnceInv(frames, instance) /\ frames # <<>> /\ instance' = instance
  BY DEF HolderInv, MineInv, ClassesInv, ReadSuper
<1>2. frames' = [frames EXCEPT ![Len(frames)] = ReadTop]
  BY <1>1, TopIsReplaced DEF ReadSuper
<1>3. /\ Len(frames) \in Nat /\ Len(frames) > 0 /\ Top = frames[Len(frames)]
      /\ frames \in Seq(FrameType)
  BY <1>1, TopTyped DEF StackTyped
<1>4. /\ ReadTop \in FrameType /\ ReadTop.cls = Top.cls /\ ReadTop.self = Top.self
      /\ ReadTop.by = Top.by /\ ReadTop.called = Top.called
  BY <1>1, TopUpdates
<1>5. PICK fs : fs = frames'
  OBVIOUS
<1>6. /\ Len(fs) = Len(frames)
      /\ \A n \in 1..Len(frames) : fs[n] = IF n = Len(frames) THEN ReadTop ELSE frames[n]
  BY <1>2, <1>3, <1>4, <1>5, ExceptSeq
<1>7. \A n \in 1..Len(frames) : /\ fs[n].cls = frames[n].cls /\ fs[n].self = frames[n].self
                                /\ fs[n].by = frames[n].by /\ fs[n].called = frames[n].called
  BY <1>3, <1>4, <1>6
<1>8. OnceInv(fs, instance)
  BY <1>1, <1>3, <1>6, <1>7, SameFramesOnce
<1>. QED  BY <1>1, <1>5, <1>8

LEMMA ReturnOnce ==
  ASSUME HolderInv, Return
  PROVE  OnceInv(frames', instance')
<1>1. /\ StackTyped(frames, instance, super, defined)
      /\ Chain(frames) /\ Lineage(frames, instance)
      /\ \A i \in Instances : instance[i] # Nil => Holders(frames, instance[i], i)
  BY DEF HolderInv, MineInv, ClassesInv, OnceInv
<1>2. /\ frames # <<>> /\ Len(frames) \in Nat /\ Len(frames) > 0
      /\ Top.called \/ Bases[Top.cls] = <<>>
      /\ Len(frames') = Len(frames) - 1
      /\ \A n \in 1..Len(frames') : frames'[n] = frames[n]
      /\ Top.self \in Instances /\ instance[Top.self] \in InstanceType
      /\ instance' = [instance EXCEPT ![Top.self] = Finished(instance[Top.self], Top.by)]
      /\ instance \in [Instances -> InstanceType \cup {Nil}]
  BY <1>1, ReturnIs DEF StackTyped
<1>3. /\ Top \in FrameType /\ Top = frames[Len(frames)] /\ Len(frames) \in 1..Len(frames)
      /\ Top.by \in ByType
  BY <1>1, <1>2, TopTyped DEF FrameType, ByType
<1>4. PICK left : left = frames'
  OBVIOUS
<1>5. /\ Len(left) = Len(frames) - 1
      /\ \A n \in 1..Len(left) : left[n] = frames[n] /\ n \in 1..Len(frames) /\ n < Len(frames)
  BY <1>2, <1>4
<1>6. PICK rep : rep = Finished(instance[Top.self], Top.by)
  OBVIOUS
<1>7. /\ rep.cls = instance[Top.self].cls /\ rep.objects = instance[Top.self].objects
      /\ rep.done <=> instance[Top.self].done \/ Top.by = "dispatcher"
      /\ instance[Top.self] # Nil
  <2>1. instance[Top.self] # Nil
    BY <1>2, NilAssumption
  <2>2. instance[Top.self] \in InstanceType /\ Top.by \in ByType
    BY <1>2, <1>3
  <2>3. \A r \in InstanceType, by \in ByType :
          /\ Finished(r, by).cls = r.cls /\ Finished(r, by).objects = r.objects
          /\ Finished(r, by).done <=> r.done \/ by = "dispatcher"
    BY InstanceUpdates
  <2>. QED  BY <1>6, <2>1, <2>2, <2>3, Zenon
<1>8. \A i \in Instances : instance'[i] = IF i = Top.self THEN rep ELSE instance[i]
  BY <1>2, <1>6
<1>9. Chain(left)
  <2>1. ASSUME NEW n \in 1..Len(left), NEW m \in 1..Len(left), n < m,
               left[n].self = left[m].self
        PROVE  left[n].called /\ \A k \in (n + 1)..m : left[k].by # "dispatcher"
    <3>1. frames[n].called /\ \A k \in (n + 1)..m : frames[k].by # "dispatcher"
      BY <1>1, <1>5, <2>1 DEF Chain
    <3>2. \A k \in (n + 1)..m : k \in 1..Len(left)
      BY <1>2, <1>5, <2>1
    <3>. QED  BY <1>5, <3>1, <3>2
  <2>. QED  BY <2>1 DEF Chain
<1>10. Lineage(left, instance')
  <2>1. ASSUME NEW n \in 1..Len(left)
        PROVE  left[n].cls \in CppBased <=> instance'[left[n].self].cls \in CppBased
    <3>1. frames[n] \in FrameType
      BY <1>1, <1>5, ElementOfSeq DEF StackTyped
    <3>2. instance'[frames[n].self].cls = instance[frames[n].self].cls
      BY <1>7, <1>8, <3>1 DEF FrameType
    <3>. QED  BY <1>1, <1>5, <3>2 DEF Lineage
  <2>. QED  BY <2>1 DEF Lineage
<1>11. ASSUME NEW i \in Instances, i # Top.self, instance[i] # Nil
       PROVE  Holders(left, instance[i], i)
  <2>1. \A n \in 1..Len(frames) : frames[n].self = i => n \in 1..Len(left)
    BY <1>2, <1>3, <1>5, <1>11
  <2>2. (Works(left, i) <=> Works(frames, i)) /\ (Waits(left, i) <=> Waits(frames, i))
    BY <1>5, <2>1 DEF Works, Waits
  <2>. QED  BY <1>1, <1>11, <2>2 DEF Holders
<1>12. Holders(left, rep, Top.self)
  <2>1. Works(frames, Top.self)
    BY <1>3 DEF Works
  <2>2. \A n \in 1..Len(left) : frames[n].self = Top.self =>
          frames[n].called /\ \A k \in (n + 1)..Len(frames) : frames[k].by # "dispatcher"
    BY <1>1, <1>3, <1>5 DEF Chain
  <2>3. ~Waits(frames, Top.self)
    <3>. SUFFICES ASSUME NEW n \in 1..Len(frames), frames[n].self = Top.self,
                         Bases[frames[n].cls] # <<>>, ~frames[n].called
                  PROVE  FALSE
      BY DEF Waits
    <3>1. n = Len(frames) \/ n \in 1..Len(left)
      BY <1>2, <1>5
    <3>. QED  BY <1>2, <1>3, <2>2, <3>1
  <2>4. ~Waits(left, Top.self)
    BY <1>5, <2>3 DEF Waits
  <2>5. /\ ~instance[Top.self].done
        /\ instance[Top.self].objects = Expected(instance[Top.self])
    BY <1>1, <1>2, <1>7, <2>1, <2>3 DEF Holders
  <2>6. Expected(rep) = Expected(instance[Top.self]) /\ Expected(rep) \in {0, 1}
    BY <1>7 DEF Expected
  <2>7. Top.by = "dispatcher" => ~Works(left, Top.self)
    <3>. SUFFICES ASSUME Top.by = "dispatcher", NEW n \in 1..Len(left),
                         left[n].self = Top.self
                  PROVE  FALSE
      BY DEF Works
    <3>1. Len(frames) \in (n + 1)..Len(frames) /\ frames[n].self = Top.self
      BY <1>2, <1>5
    <3>. QED  BY <1>3, <2>2, <3>1
  <2>. QED  BY <1>7, <2>4, <2>5, <2>6, <2>7 DEF Holders
<1>13. \A i \in Instances : instance'[i] # Nil => Holders(left, instance'[i], i)
  BY <1>7, <1>8, <1>11, <1>12
<1>. QED  BY <1>4, <1>9, <1>10, <1>13 DEF OnceInv

LEMMA RaiseOnce ==
  ASSUME HolderInv, Raise
  PROVE  OnceInv(frames', instance')
<1>1. StackTyped(frames, instance, super, defined) /\ OnceInv(frames, instance)
  BY DEF HolderInv, MineInv, ClassesInv
<1>2. Len(frames) \in Nat /\ Cut(frames', frames) /\ instance' = instance
  BY <1>1, RaiseIs
<1>3. PICK left : left = frames'
  OBVIOUS
<1>4. Chain(left) /\ Lineage(left, instance)
  BY <1>1, <1>2, <1>3, CutOnce DEF OnceInv
<1>5. \A i \in Instances : instance[i] # Nil => Holders(left, instance[i], i)
  BY <1>1, <1>2, <1>3, CutHolders DEF OnceInv
<1>. QED  BY <1>2, <1>3, <1>4, <1>5 DEF OnceInv

LEMMA ForgetOnce ==
  ASSUME HolderInv, NEW i \in Instances, Forget(i)
  PROVE  OnceInv(frames', instance')
<1>1. /\ StackTyped(frames, instance, super, defined) /\ OnceInv(frames, instance)
      /\ instance[i] # Nil
  BY DEF HolderInv, MineInv, ClassesInv, Forget
<1>2. PICK rep : rep = [instance[i] EXCEPT !.held = FALSE]
  OBVIOUS
<1>3. instance[i] \in InstanceType
  BY <1>1 DEF StackTyped
<1>4. rep.cls = instance[i].cls /\ rep.objects = instance[i].objects /\ (rep.done <=> instance[i].done)
  BY <1>2, <1>3 DEF InstanceType
<1>5. /\ \A j \in Instances : instance'[j] = IF j = i THEN rep ELSE instance[j]
      /\ frames' = frames
  BY <1>1, <1>2 DEF Forget, StackTyped
<1>6. \A n \in 1..Len(frames) : frames[n].self \in Instances
  <2>1. \A n \in 1..Len(frames) : frames[n] \in FrameType
    BY <1>1, ElementOfSeq DEF StackTyped
  <2>. QED  BY <2>1 DEF FrameType
<1>7. Lineage(frames, instance')
  BY <1>1, <1>4, <1>5, <1>6 DEF OnceInv, Lineage
<1>8. Holders(frames, rep, i)
  <2>1. Holders(frames, instance[i], i)
    BY <1>1 DEF OnceInv
  <2>2. Expected(rep) = Expected(instance[i])
    BY <1>4 DEF Expected
  <2>. QED  BY <1>4, <2>1, <2>2 DEF Holders
<1>9. \A j \in Instances : instance'[j] # Nil => Holders(frames, instance'[j], j)
  BY <1>1, <1>5, <1>8 DEF OnceInv
<1>. QED  BY <1>1, <1>5, <1>7, <1>9 DEF OnceInv

LEMMA FinalizeOnce ==
  ASSUME HolderInv, NEW i \in Instances, Finalize(i)
  PROVE  OnceInv(frames', instance')
<1>1. StackTyped(frames, instance, super, defined) /\ OnceInv(frames, instance)
  BY DEF HolderInv, MineInv, ClassesInv
<1>2. /\ \A j \in Instances : instance'[j] = IF j = i THEN Nil ELSE instance[j]
      /\ frames' = frames /\ ~Reachable(i)
  BY <1>1 DEF Finalize, StackTyped
<1>3. \A n \in 1..Len(frames) : frames[n].self \in Instances /\ frames[n].self # i
  <2>1. /\ \A n \in 1..Len(frames) : frames[n] \in FrameType
        /\ DOMAIN frames = 1..Len(frames)
    BY <1>1, ElementOfSeq, LenProperties DEF StackTyped
  <2>. QED  BY <1>2, <2>1 DEF FrameType, Reachable
<1>4. Lineage(frames, instance')
  BY <1>1, <1>2, <1>3 DEF OnceInv, Lineage
<1>5. \A j \in Instances : instance'[j] # Nil => Holders(frames, instance'[j], j)
  BY <1>1, <1>2 DEF OnceInv
<1>. QED  BY <1>1, <1>2, <1>4, <1>5 DEF OnceInv

LEMMA HolderInvInductive ==
  ASSUME SuperFirst, Chained
  PROVE  HolderInv /\ [Next]_vars => HolderInv'
<1>. SUFFICES ASSUME HolderInv, [Next]_vars
              PROVE  OnceInv(frames', instance')
  BY MineInvInductive DEF HolderInv
<1>1. ASSUME UNCHANGED <<frames, instance>>
      PROVE  OnceInv(frames', instance')
  BY <1>1 DEF HolderInv
<1>2. ASSUME NEW c \in Classes, Register(c) \/ Derive(c)
      PROVE  OnceInv(frames', instance')
  BY <1>1, <1>2 DEF Register, Derive
<1>3. ASSUME NEW c \in Classes, NEW m \in Members, SetMember(c, m)
      PROVE  OnceInv(frames', instance')
  BY <1>1, <1>3 DEF SetMember
<1>4. ASSUME NEW c \in Classes, Construct(c)
      PROVE  OnceInv(frames', instance')
  BY <1>4, ConstructOnce
<1>5. CASE ReadSuper \/ CallSuper \/ CallBaseInit \/ Return \/ Raise
  BY <1>5, ReadSuperOnce, CallSuperOnce, CallBaseInitOnce, ReturnOnce, RaiseOnce
<1>6. ASSUME NEW i \in Instances, Forget(i) \/ Finalize(i)
      PROVE  OnceInv(frames', instance')
  BY <1>6, ForgetOnce, FinalizeOnce
<1>7. CASE UNCHANGED vars
  BY <1>1, <1>7 DEF vars
<1>. QED  BY <1>2, <1>3, <1>4, <1>5, <1>6, <1>7 DEF Next

\* Under the same two rules no instance is given a second holder, and one
\* that is constructed has a holder if it derives from a C++ class.
THEOREM HolderIsMadeOnce == SuperFirst /\ Chained => (Spec => []InitialisedOnce)
<1>. SUFFICES ASSUME SuperFirst, Chained
              PROVE  Spec => []InitialisedOnce
  OBVIOUS
<1>1. Init => HolderInv
  <2>1. Init => MineInv
    <3>1. Init => SuperInv(frames, super)
      BY EmptySeq DEF Init, SuperInv
    <3>. QED  BY <3>1, InitTyped DEF MineInv
  <2>2. Init => OnceInv(frames, instance)
    BY EmptySeq DEF Init, OnceInv, Chain, Lineage
  <2>. QED  BY <2>1, <2>2 DEF HolderInv
<1>2. HolderInv /\ [Next]_vars => HolderInv'
  BY HolderInvInductive
<1>3. HolderInv => InitialisedOnce
  BY HoldersAreOnce DEF HolderInv
<1>. QED  BY <1>1, <1>2, <1>3, PTL DEF Spec
=============================================================================
