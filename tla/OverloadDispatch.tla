-------------------------- MODULE OverloadDispatch --------------------------
(***************************************************************************)
(* Overloaded functions: how registering a function under a name links it  *)
(* to the function there (add_overload, src/function.cpp), and how a call  *)
(* finds the one to run (invoke, luabind/detail/call.hpp).                 *)
(*                                                                         *)
(* A call recurses down the chain of overloads, scoring each and updating  *)
(* the context; on the way back up each frame compares its own score with  *)
(* what the context ended with.  The hazards: a frame must act exactly     *)
(* when it is the only best one, and the code it runs may register         *)
(* overloads, reassign the name and collect garbage while `next`, a bare   *)
(* pointer, is what links the chain.                                       *)
(*                                                                         *)
(* Functions are numbered in the order of their registration.              *)
(***************************************************************************)
EXTENDS Integers, Sequences, FiniteSets

CONSTANTS
  MaxFunctions,   \* bound: functions registered
  MaxFrames,      \* bound: the depth of the recursion; a call that would go
                  \* deeper is stuck, so that CallEnds notices it
  MaxCandidates,  \* the size of invoke_context::candidates
  MaxArity,       \* LUABIND_MAX_ARITY
  IntMax,
  Slots,          \* (table, name) pairs
  Signatures,     \* parameter lists: sequences of kinds of parameters
  ArgLists,       \* sequences of kinds of Lua values
  None, Other, NoSignature  \* Other: a value no luabind function

Functions == 1..MaxFunctions

Params == {"number", "T", "T&", "T const&", "T*", "T const*", "object", "out"}

Values == {"nil", "number", "T", "const T", "derived"}

ASSUME OverloadAssumption ==
  /\ MaxFunctions \in Nat /\ MaxArity \in Nat \ {0} /\ IntMax \in Nat
  /\ MaxFrames \in Nat /\ MaxFunctions < MaxFrames
  /\ MaxFunctions <= MaxCandidates   \* nothing else keeps candidates in bounds
  /\ Signatures \subseteq Seq(Params) /\ ArgLists \subseteq Seq(Values)
  /\ {None, Other} \cap Functions = {} /\ None # Other
  /\ NoSignature \notin Signatures

VARIABLES
  slot,       \* slot[s]: the function there, Other, or None
  signature,  \* signature[f]: its parameters, or NoSignature
  next,       \* next[f]: function_object::next
  keepalive,  \* keepalive[f]: the function f->keepalive refers to
  freed,      \* the functions function_destroy has deleted
  phase,      \* of the call going on: "idle", "down", "running" or "up"
  args,       \* its arguments
  head,       \* the function called: the Lua stack holds it
  at,         \* the function_object whose call() comes next
  frames,     \* the frames of invoke: [self, score], the deepest last
  ctx,        \* invoke_context: [best, candidates]
  outcome,    \* how the last call ended
  tried,      \* history: the functions the call has scored
  invoked,    \* history: the functions the call has run
  chain       \* history: chain[f], the functions f links to, f included

registered == <<signature, next, keepalive, chain>>
callState == <<phase, args, head, at, frames, ctx, outcome, tried, invoked>>
vars == <<slot, registered, freed, callState>>

Registered(f) == signature[f] # NoSignature

-----------------------------------------------------------------------------
(***************************************************************************)
(* The converters' match() (detail/policy.hpp): -1, or the cost.           *)
(***************************************************************************)
CastScore(v) == CASE v \in {"T", "const T"} -> 0 [] v = "derived" -> 1 [] OTHER -> -1

IsConst(v) == v = "const T"

Dearer(v) == IF CastScore(v) >= 0 /\ ~IsConst(v) THEN CastScore(v) + 10 ELSE CastScore(v)

Match(p, v) ==
  CASE p = "number" -> IF v = "number" THEN 0 ELSE -1
    [] p = "T" -> CastScore(v)
    [] p = "T&" -> IF IsConst(v) THEN -1 ELSE CastScore(v)
    [] p = "T*" -> IF v = "nil" THEN 0 ELSE IF IsConst(v) THEN -1 ELSE CastScore(v)
    [] p = "T const&" -> Dearer(v)
    [] p = "T const*" -> IF v = "nil" THEN 0 ELSE Dearer(v)
    [] p = "object" -> IntMax \div MaxArity
    [] p = "out" -> 0

\* consumed_args: a pure out value takes no argument.
Consumed(p) == IF p = "out" THEN 0 ELSE 1

\* The number of arguments that params[1..k] consume.
ConsumedBy(params, k) == Cardinality({j \in 1..k : Consumed(params[j]) = 1})

ScoresOf(params, a) ==
  [i \in DOMAIN params |->
     IF params[i] = "out" THEN 0 ELSE Match(params[i], a[ConsumedBy(params, i)])]

Total(scores) ==
  LET upTo[k \in 0..Len(scores)] == IF k = 0 THEN 0 ELSE upTo[k - 1] + scores[k]
  IN  upTo[Len(scores)]

\* sum_scores: the first negative score, or the sum.
SumScores(scores) ==
  IF \E i \in DOMAIN scores : scores[i] < 0 THEN -1 ELSE Total(scores)

\* The score of a function for the arguments on the stack.
Score(params, a) ==
  IF ConsumedBy(params, Len(params)) # Len(a) THEN -1
  ELSE SumScores(ScoresOf(params, a))

\* A sum does not reach IntMax: LUABIND_MAX_ARITY parameters that take anything
\* cost less than that.
ASSUME ScoreAssumption ==
  \A sig \in Signatures, a \in ArgLists : Score(sig, a) \in -1..(IntMax - 1)

NewContext == [best |-> IntMax, candidates |-> <<>>]

NegativeConsidered(c, f, score) ==  \* mutant: `score >= 0` dropped
  IF score < c.best THEN [best |-> score, candidates |-> <<f>>]
  ELSE IF score = c.best THEN [c EXCEPT !.candidates = Append(@, f)]
  ELSE c

TiesIgnored(c, f, score) ==  \* mutant: `else if (score == ctx.best_score)` dropped
  IF score >= 0 /\ score < c.best THEN [best |-> score, candidates |-> <<f>>] ELSE c

\* What invoke makes of the context.
Considered(c, f, score) ==
  IF score >= 0 /\ score < c.best THEN [best |-> score, candidates |-> <<f>>]
  ELSE IF score = c.best THEN [c EXCEPT !.candidates = Append(@, f)]
  ELSE c

\* invoke_context::operator bool
Found(c) == Len(c.candidates) = 1

-----------------------------------------------------------------------------
(***************************************************************************)
(* Scripts and C++ code, when there is no call or the call runs a function.*)
(***************************************************************************)
CodeRuns == phase \in {"idle", "running"}

LinkedToItself(f, old) == f  \* mutant: next is read from fn, not overloads

\* The function the new one is linked to: what the name held, if luabind's.
Linked(f, old) == IF old \in Functions THEN old ELSE None

NotKept(f, old) == None  \* mutant: f->keepalive = overloads forgotten

Kept(f, old) == Linked(f, old)

\* make_function and add_overload.
Register(s, f, sig) ==
  /\ CodeRuns
  /\ ~Registered(f) /\ \A g \in Functions : g < f => Registered(g)
  /\ signature' = [signature EXCEPT ![f] = sig]
  /\ next' = [next EXCEPT ![f] = Linked(f, slot[s])]
  /\ keepalive' = [keepalive EXCEPT ![f] = Kept(f, slot[s])]
  /\ chain' = [chain EXCEPT ![f] =
                 {f} \cup IF slot[s] \in Functions THEN chain[slot[s]] ELSE {}]
  /\ slot' = [slot EXCEPT ![s] = f]
  /\ UNCHANGED <<freed, callState>>

\* A script assigns to the name; registering a derived class copies the
\* functions of its bases (src/class.cpp).
Assign(s, x) ==
  /\ CodeRuns
  /\ slot' = [slot EXCEPT ![s] = x]
  /\ UNCHANGED <<registered, freed, callState>>

\* The closure is garbage; its userdata's __gc is function_destroy.
Collect(f) ==
  /\ Registered(f) /\ f \notin freed
  /\ \A s \in Slots : slot[s] # f
  /\ \A g \in Functions \ freed : keepalive[g] # f
  /\ head # f
  /\ freed' = freed \cup {f}
  /\ UNCHANGED <<slot, registered, callState>>

-----------------------------------------------------------------------------
\* entry_point: a new context, then invoke for the function called.
Call(s, a) ==
  /\ phase = "idle" /\ slot[s] \in Functions
  /\ phase' = "down"
  /\ args' = a
  /\ head' = slot[s]
  /\ at' = slot[s]
  /\ frames' = <<>>
  /\ ctx' = NewContext
  /\ outcome' = "pending"
  /\ tried' = {}
  /\ invoked' = <<>>
  /\ UNCHANGED <<slot, registered, freed>>

\* invoke up to `self.next->call(L, ctx)`.
Enter ==
  /\ phase = "down" /\ Len(frames) < MaxFrames
  /\ LET score == Score(signature[at], args)
     IN  /\ ctx' = Considered(ctx, at, score)
         /\ frames' = Append(frames, [self |-> at, score |-> score])
  /\ tried' = tried \cup {at}
  /\ at' = next[at]
  /\ phase' = IF next[at] = None THEN "up" ELSE "down"
  /\ UNCHANGED <<slot, registered, freed, args, head, outcome, invoked>>

Deepest == frames[Len(frames)]

Popped == SubSeq(frames, 1, Len(frames) - 1)

IsBest == Deepest.score = ctx.best /\ Found(ctx)

\* The rest of invoke, in the deepest frame.
Leave ==
  /\ phase = "up" /\ frames # <<>> /\ ~IsBest
  /\ frames' = Popped
  /\ UNCHANGED <<slot, registered, freed, phase, args, head, at, ctx, outcome, tried, invoked>>

Invoke ==
  /\ phase = "up" /\ frames # <<>> /\ IsBest
  /\ phase' = "running"
  /\ invoked' = Append(invoked, Deepest.self)
  /\ UNCHANGED <<slot, registered, freed, args, head, at, frames, ctx, outcome, tried>>

Return ==
  /\ phase = "running"
  /\ phase' = "up"
  /\ frames' = Popped
  /\ UNCHANGED <<slot, registered, freed, args, head, at, ctx, outcome, tried, invoked>>

\* What entry_point leaves behind.
CallOver ==
  /\ phase' = "idle" /\ args' = <<>> /\ head' = None /\ at' = None
  /\ frames' = <<>> /\ ctx' = NewContext /\ tried' = {} /\ invoked' = <<>>

\* The catch clause of entry_point.
Throw ==
  /\ phase = "running"
  /\ CallOver
  /\ outcome' = "threw"
  /\ UNCHANGED <<slot, registered, freed>>

\* The rest of entry_point; format_error tells the two errors apart.
Finish ==
  /\ phase = "up" /\ frames = <<>>
  /\ CallOver
  /\ outcome' = CASE Found(ctx) -> "returned"
                  [] ctx.candidates = <<>> -> "unmatched"
                  [] OTHER -> "ambiguous"
  /\ UNCHANGED <<slot, registered, freed>>

-----------------------------------------------------------------------------
Init ==
  /\ slot = [s \in Slots |-> None]
  /\ signature = [f \in Functions |-> NoSignature]
  /\ next = [f \in Functions |-> None]
  /\ keepalive = [f \in Functions |-> None]
  /\ chain = [f \in Functions |-> {}]
  /\ freed = {}
  /\ phase = "idle"
  /\ args = <<>>
  /\ head = None
  /\ at = None
  /\ frames = <<>>
  /\ ctx = NewContext
  /\ outcome = "none"
  /\ tried = {}
  /\ invoked = <<>>

Step == Enter \/ Leave \/ Invoke \/ Return \/ Throw \/ Finish

Next ==
  \/ \E s \in Slots, f \in Functions, sig \in Signatures : Register(s, f, sig)
  \/ \E s \in Slots : \E x \in {None, Other} \cup {slot[t] : t \in Slots} : Assign(s, x)
  \/ \E f \in Functions : Collect(f)
  \/ \E s \in Slots, a \in ArgLists : Call(s, a)
  \/ Step

Spec == Init /\ [][Next]_vars

\* A call runs to its end on the C++ stack, provided what it calls returns.
FairSpec == Spec /\ WF_vars(Step)

-----------------------------------------------------------------------------
(***************************************************************************)
(* Types of the variables; a frame's score is -1 or a cost.                *)
(***************************************************************************)
Link == Functions \cup {None}

Frame == [self : Functions, score : Nat \cup {-1}]

TypeOK ==
  /\ slot \in [Slots -> Functions \cup {None, Other}]
  /\ signature \in [Functions -> Signatures \cup {NoSignature}]
  /\ next \in [Functions -> Link] /\ keepalive \in [Functions -> Link]
  /\ chain \in [Functions -> SUBSET Functions]
  /\ freed \subseteq Functions /\ tried \subseteq Functions
  /\ phase \in {"idle", "down", "running", "up"}
  /\ args \in ArgLists \cup {<<>>}
  /\ head \in Link /\ at \in Link
  /\ frames \in Seq(Frame) /\ invoked \in Seq(Functions)
  /\ ctx \in [best : Nat, candidates : Seq(Functions)]
  /\ outcome \in {"none", "pending", "returned", "threw", "unmatched", "ambiguous"}

(***************************************************************************)
(* No bare pointer dangles: what a function links to has not been deleted, *)
(* and neither has anything a running call still has to enter, or runs,    *)
(* though the code it runs may have replaced the name and collected (the   *)
(* purpose of function_object::keepalive).                                 *)
(***************************************************************************)
NothingDangles ==
  /\ \A f \in Functions \ freed : next[f] \notin freed
  /\ phase = "idle" \/ (at \notin freed /\ head \notin freed)
  /\ \A i \in DOMAIN frames : frames[i].self \notin freed

(***************************************************************************)
(* docs.rst:301-315, "Signature matching": chains, the recursion and its   *)
(* context implement the choice of the one best overload among all that    *)
(* were registered under the name; it is run, once, or nothing is and the  *)
(* error says why.                                                         *)
(***************************************************************************)
Overloads == [s \in Slots |-> IF slot[s] \in Functions THEN chain[slot[s]] ELSE {}]

Promised ==
  INSTANCE OverloadSpec WITH
    overloads <- Overloads,
    busy <- phase # "idle",
    given <- args,
    among <- IF head \in Functions THEN chain[head] ELSE {},
    ran <- {invoked[i] : i \in DOMAIN invoked}

ImplementsPromise == Promised!Spec

(***************************************************************************)
(* Every call ends: a chain has no circle.                                 *)
(***************************************************************************)
CallEnds == phase # "idle" ~> phase = "idle"
=============================================================================
